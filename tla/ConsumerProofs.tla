--------------------------- MODULE ConsumerProofs ---------------------------
(***************************************************************************)
(* Proofs about Consumer for any number of threads and calls, any          *)
(* retry_limit, with and without a service account: it is well typed, it   *)
(* keeps credentials apart, and it implements PostContract.  The step that *)
(* matters is the counting behind the contract's MaxCopies: what was       *)
(* applied and what is still under way together are paid for by requests   *)
(* that the call has made.                                                 *)
(***************************************************************************)
EXTENDS Consumer, FiniteSetTheorems, TLAPS

-----------------------------------------------------------------------------
(* Type correctness                                                        *)

(* A request is made of what the call was given.                           *)
LEMMA RequestType ==
  ASSUME NEW c \in Calls, NEW n \in 0..RetryLimit, credentials \in BOOLEAN
  PROVE  Request(c, n) \in Requests
BY CallsAssumption DEF Request, Requests, UsesAccount

(* Retrying and finishing are the two ways a request can end.              *)
LEMMA RetryOutcome ==
  ASSUME NEW t \in Threads, Retry(t)
  PROVE  \/ /\ left[t] > 0
            /\ pc' = [pc EXCEPT ![t] = "connect"]
            /\ left' = [left EXCEPT ![t] = left[t] - 1]
            /\ answer' = [answer EXCEPT ![t] = "none"]
            /\ UNCHANGED <<call, result>>
         \/ Finish(t, "raised")
BY DEF Retry

(* The end of a call leaves the types as they are.                         *)
LEMMA FinishType ==
  ASSUME TypeOK, NEW t \in Threads, NEW outcome \in {"ok", "raised", "escaped"},
         Finish(t, outcome), pc[t] # "idle", UNCHANGED <<credentials, inflight, copies>>
  PROVE  TypeOK'
<1>1. call[t] \in Calls
  BY DEF TypeOK
<1>2. QED BY <1>1, CallsAssumption, RetryAssumption DEF TypeOK, Finish

(* A retry leaves the types as they are, whichever way it goes.            *)
LEMMA RetryType ==
  ASSUME TypeOK, NEW t \in Threads, Retry(t), pc[t] # "idle",
         UNCHANGED <<credentials, inflight, copies>>
  PROVE  TypeOK'
<1>1. CASE Finish(t, "raised")
  BY <1>1, FinishType
<1>2. CASE ~Finish(t, "raised")
  <2>1. /\ left[t] > 0 /\ left[t] \in 0..RetryLimit /\ call[t] # NoCall
        /\ pc' = [pc EXCEPT ![t] = "connect"]
        /\ left' = [left EXCEPT ![t] = left[t] - 1]
        /\ answer' = [answer EXCEPT ![t] = "none"]
        /\ UNCHANGED <<call, result>>
    BY <1>2, RetryOutcome DEF TypeOK
  <2>2. left[t] - 1 \in 0..RetryLimit
    BY <2>1, RetryAssumption
  <2>3. QED BY <2>1, <2>2 DEF TypeOK
<1>3. QED BY <1>1, <1>2

(* No call has been made yet: well typed.                                  *)
LEMMA TypeInit == Init => TypeOK
BY RetryAssumption, CallsAssumption DEF Init, TypeOK

(* Every step keeps the types, provided that answers are there when they   *)
(* are read.                                                               *)
LEMMA TypeStep ==
  ASSUME TypeOK, AnswersTrue, [Next]_vars
  PROVE  TypeOK'
<1> USE RetryAssumption, CallsAssumption
<1>1. ASSUME NEW t \in Threads, NEW c \in Calls, CallSend(t, c) PROVE TypeOK'
  BY <1>1 DEF CallSend, TypeOK
<1>2. ASSUME NEW t \in Threads, NEW c \in Calls, CallSendUnknown(t, c) PROVE TypeOK'
  BY <1>2 DEF CallSendUnknown, TypeOK
<1>3. ASSUME NEW t \in Threads, ConnectionFails(t) PROVE TypeOK'
  BY <1>3, RetryType DEF ConnectionFails
<1>4. ASSUME NEW t \in Threads, Transmit(t) PROVE TypeOK'
  <2>1. call[t] \in Calls /\ RetryLimit - left[t] \in 0..RetryLimit
    BY <1>4 DEF Transmit, TypeOK
  <2>2. Request(call[t], RetryLimit - left[t]) \in Requests
    BY <2>1, RequestType DEF TypeOK
  <2>3. QED BY <1>4, <2>2 DEF Transmit, TypeOK
<1>5. ASSUME NEW t \in Threads, NoAnswer(t) PROVE TypeOK'
  BY <1>5, RetryType DEF NoAnswer
<1>6. ASSUME NEW t \in Threads, AnswerArrives(t) PROVE TypeOK'
  BY <1>6 DEF AnswerArrives, TypeOK
<1>7. ASSUME NEW t \in Threads, RetryServerError(t) PROVE TypeOK'
  BY <1>7, RetryType DEF RetryServerError
<1>8. ASSUME NEW t \in Threads, ReadAnswer(t) PROVE TypeOK'
  <2>1. answer[t] \in {"ok", "rejected", "unreadable", "odd"}
    BY <1>8 DEF ReadAnswer, TypeOK, AnswersTrue, Answers
  <2>2. PICK outcome \in {"ok", "raised", "escaped"} : Finish(t, outcome)
    BY <1>8, <2>1 DEF ReadAnswer
  <2>3. QED BY <1>8, <2>2, FinishType DEF ReadAnswer
<1>9. ASSUME NEW r \in inflight, ServerHandles(r) PROVE TypeOK'
  <2>1. r.call \in Calls /\ copies[r.call] + 1 \in Nat
    BY DEF TypeOK, Requests
  <2>2. QED BY <1>9, <2>1 DEF ServerHandles, TypeOK
<1>10. CASE UNCHANGED vars
  BY <1>10 DEF vars, TypeOK
<1>11. QED
  BY <1>1, <1>2, <1>3, <1>4, <1>5, <1>6, <1>7, <1>8, <1>9, <1>10 DEF Next, ClientStep

-----------------------------------------------------------------------------
(* The inductive invariant                                                 *)

(* What is pending of a call is finite, so it can be counted.              *)
LEMMA PendingFinite ==
  ASSUME IsFiniteSet(inflight), NEW c
  PROVE  IsFiniteSet(Pending(c)) /\ Cardinality(Pending(c)) \in Nat
<1>1. Pending(c) \subseteq inflight
  BY DEF Pending
<1>2. QED BY <1>1, FS_Subset, FS_CardinalityType

(* A call in progress has made between 0 and retry_limit + 1 requests.     *)
LEMMA MadeType ==
  ASSUME TypeOK, NEW t \in Threads
  PROVE  Made(t) \in 0..(RetryLimit + 1)
BY RetryAssumption DEF TypeOK, Made

(* Nothing is under way at first, so nothing has to be paid for.           *)
LEMMA InvInit == Init => IInv
<1> SUFFICES ASSUME Init PROVE IInv
  OBVIOUS
<1>1. IsFiniteSet(inflight) /\ \A c \in Calls : Pending(c) = {} /\ Cardinality(Pending(c)) = 0
  BY FS_EmptySet DEF Init, Pending
<1>2. Budget
  BY <1>1, RetryAssumption DEF Init, Budget, Spent
<1>3. QED BY <1>2, TypeInit DEF Init, IInv, CallsApart, AnswersTrue

(* Budget, stated of the next state without a primed call.                 *)
LEMMA BudgetNext ==
  ASSUME TypeOK', IsFiniteSet(inflight'),
         ASSUME NEW c \in Calls
         PROVE  /\ Spent(c)' <= RetryLimit + 1
                /\ result'[c] \in {"none", "refused"} /\ (\A t \in Threads : call'[t] # c)
                     => copies'[c] = 0 /\ Pending(c)' = {},
         ASSUME NEW t \in Threads, NEW c \in Calls, call'[t] = c
         PROVE  Spent(c)' <= Made(t)'
  PROVE  Budget'
<1>1. ASSUME NEW t \in Threads, (call[t] # NoCall)' PROVE (Spent(call[t]) <= Made(t))'
  <2>1. PICK c \in Calls : c = call'[t]
    BY <1>1 DEF TypeOK
  <2>2. Spent(c)' <= Made(t)'
    BY <2>1
  <2>3. QED BY <2>1, <2>2 DEF Spent, Pending
<1>2. (\A t \in Threads : call[t] # NoCall => Spent(call[t]) <= Made(t))'
  BY <1>1
<1>3. QED BY <1>2 DEF Budget

(* The terms of the budget are numbers.                                    *)
LEMMA SpentType ==
  ASSUME TypeOK, IsFiniteSet(inflight), NEW c \in Calls
  PROVE  /\ copies[c] \in Nat /\ Cardinality(Pending(c)) \in Nat
         /\ Spent(c) = copies[c] + Cardinality(Pending(c)) /\ Spent(c) \in Nat
BY PendingFinite DEF TypeOK, Spent

(* A call ends: with a success only if it has been applied.                *)
LEMMA FinishKeeps ==
  ASSUME IInv, TypeOK', NEW t \in Threads, NEW outcome \in {"ok", "raised", "escaped"},
         Finish(t, outcome), pc[t] # "idle", UNCHANGED <<credentials, inflight, copies>>
  PROVE  IInv'
<1>1. call[t] \in Calls /\ call[t] # NoCall
  BY CallsAssumption DEF IInv, TypeOK
<1>2. \A u \in Threads : IF u = t THEN pc'[u] = "idle" /\ call'[u] = NoCall /\ answer'[u] = "none"
                                  ELSE /\ pc'[u] = pc[u] /\ call'[u] = call[u]
                                       /\ answer'[u] = answer[u] /\ left'[u] = left[u]
  BY DEF Finish, IInv, TypeOK
<1>3. \A c \in Calls : result'[c] = IF c = call[t] THEN outcome ELSE result[c]
  BY DEF Finish, IInv, TypeOK
<1>4. CallsApart'
  BY <1>1, <1>2, <1>3 DEF IInv, CallsApart, TypeOK
<1>5. AnswersTrue'
  BY <1>2 DEF IInv, AnswersTrue
<1>6. Budget'
  <2>1. IsFiniteSet(inflight)' /\ \A c : Pending(c)' = Pending(c) /\ Spent(c)' = Spent(c)
    BY DEF IInv, Budget, Pending, Spent
  <2>2. ASSUME NEW c \in Calls
        PROVE  /\ Spent(c)' <= RetryLimit + 1
               /\ result'[c] \in {"none", "refused"} /\ (\A u \in Threads : call'[u] # c)
                    => copies'[c] = 0 /\ Pending(c)' = {}
    BY <1>2, <1>3, <2>1 DEF IInv, Budget
  <2>3. ASSUME NEW u \in Threads, NEW c \in Calls, call'[u] = c
        PROVE  Spent(c)' <= Made(u)'
    BY <1>2, <2>1, <2>3, CallsAssumption DEF IInv, Budget, Made
  <2>4. QED BY <2>1, <2>2, <2>3, BudgetNext
<1>7. QED BY <1>4, <1>5, <1>6 DEF IInv

(* A retry takes one of those that were left and makes nothing yet.        *)
LEMMA RetryKeeps ==
  ASSUME IInv, TypeOK', NEW t \in Threads, Retry(t), pc[t] # "idle",
         UNCHANGED <<credentials, inflight, copies>>
  PROVE  IInv'
<1>1. CASE Finish(t, "raised")
  BY <1>1, FinishKeeps
<1>2. CASE ~Finish(t, "raised")
  <2>1. /\ left[t] > 0 /\ left[t] \in 0..RetryLimit
        /\ pc' = [pc EXCEPT ![t] = "connect"]
        /\ left' = [left EXCEPT ![t] = left[t] - 1]
        /\ answer' = [answer EXCEPT ![t] = "none"]
        /\ UNCHANGED <<call, result>>
    BY <1>2, RetryOutcome DEF IInv, TypeOK
  <2>2. CallsApart'
    BY <2>1 DEF IInv, CallsApart
  <2>3. AnswersTrue'
    BY <2>1 DEF IInv, AnswersTrue, TypeOK
  <2>4. Budget'
    <3>1. IsFiniteSet(inflight)' /\ \A c : Pending(c)' = Pending(c) /\ Spent(c)' = Spent(c)
      BY DEF IInv, Budget, Pending, Spent
    <3>2. ASSUME NEW c \in Calls
          PROVE  /\ Spent(c)' <= RetryLimit + 1
                 /\ result'[c] \in {"none", "refused"} /\ (\A u \in Threads : call'[u] # c)
                      => copies'[c] = 0 /\ Pending(c)' = {}
      BY <2>1, <3>1 DEF IInv, Budget
    <3>3. ASSUME NEW u \in Threads, NEW c \in Calls, call'[u] = c
          PROVE  Spent(c)' <= Made(u)'
      <4>1. Spent(c) <= Made(u) /\ Spent(c) \in Nat
        BY <2>1, <3>3, CallsAssumption, SpentType DEF IInv, Budget
      <4>2. Made(u) \in Nat /\ Made(u)' \in Nat /\ Made(u) <= Made(u)'
        BY <2>1, MadeType, RetryAssumption DEF IInv, TypeOK, Made
      <4>3. QED BY <3>1, <4>1, <4>2
    <3>4. QED BY <3>1, <3>2, <3>3, BudgetNext
  <2>5. QED BY <2>2, <2>3, <2>4 DEF IInv
<1>3. QED BY <1>1, <1>2

(* One more request is made, and is one more that is under way at most.    *)
LEMMA TransmitKeeps ==
  ASSUME IInv, TypeOK', NEW t \in Threads, Transmit(t)
  PROVE  IInv'
<1>1. PICK c \in Calls : c = call[t] /\ c # NoCall
  BY CallsAssumption DEF IInv, TypeOK, Transmit
<1>2. PICK r : r.call = c /\ inflight' = inflight \cup {r}
  <2> DEFINE made == Request(call[t], RetryLimit - left[t])
  <2>1. made.call = c
    BY <1>1 DEF Request
  <2>2. inflight' = inflight \cup {made}
    BY DEF Transmit
  <2>3. QED BY <2>1, <2>2
<1>3. UNCHANGED <<copies, result, call>>
  BY DEF Transmit
<1>4. CallsApart'
  BY DEF IInv, CallsApart, Transmit
<1>5. AnswersTrue'
  BY DEF IInv, AnswersTrue, Transmit, TypeOK
<1>6. /\ IsFiniteSet(inflight')
      /\ \A d : d # c => Pending(d)' = Pending(d)
      /\ Pending(c)' = Pending(c) \cup {r}
  <2>1. IsFiniteSet(inflight) /\ IsFiniteSet(inflight \cup {r})
    BY FS_AddElement DEF IInv, Budget
  <2>2. QED BY <1>2, <2>1 DEF Pending
<1>7. \A d : d # c => Spent(d)' = Spent(d)
  BY <1>3, <1>6 DEF Spent
<1>8. /\ Cardinality(Pending(c)') \in Nat
      /\ Cardinality(Pending(c)') <= Cardinality(Pending(c)) + 1
  <2>1. IsFiniteSet(Pending(c)) /\ Cardinality(Pending(c)) \in Nat
    BY PendingFinite DEF IInv, Budget
  <2>2. Cardinality(Pending(c) \cup {r}) =
          IF r \in Pending(c) THEN Cardinality(Pending(c)) ELSE Cardinality(Pending(c)) + 1
    BY <2>1, FS_AddElement
  <2>3. QED BY <1>6, <2>1, <2>2
<1>9. Made(t)' = Made(t) + 1 /\ Made(t) \in Nat /\ Made(t)' <= RetryLimit + 1
  BY RetryAssumption DEF IInv, TypeOK, Transmit, Made
<1>10. Spent(c)' <= Made(t)' /\ Spent(c)' \in Nat
  <2>1. Spent(c) <= Made(t)
    BY <1>1 DEF IInv, Budget
  <2>2. /\ Spent(c) = copies[c] + Cardinality(Pending(c))
        /\ copies[c] \in Nat /\ Cardinality(Pending(c)) \in Nat
    BY SpentType DEF IInv, Budget
  <2>3. Spent(c)' = copies[c] + Cardinality(Pending(c)')
    BY <1>3 DEF Spent
  <2>4. QED BY <2>1, <2>2, <2>3, <1>8, <1>9
<1>11. Budget'
  <2>1. ASSUME NEW d \in Calls
        PROVE  /\ Spent(d)' <= RetryLimit + 1
               /\ result'[d] \in {"none", "refused"} /\ (\A u \in Threads : call'[u] # d)
                    => copies'[d] = 0 /\ Pending(d)' = {}
    <3>1. CASE d = c
      BY <1>1, <1>3, <3>1, <1>9, <1>10, RetryAssumption
    <3>2. CASE d # c
      BY <1>3, <1>6, <1>7, <3>2 DEF IInv, Budget
    <3>3. QED BY <3>1, <3>2
  <2>2. ASSUME NEW u \in Threads, NEW d \in Calls, call'[u] = d
        PROVE  Spent(d)' <= Made(u)'
    <3>1. CASE u = t
      BY <1>1, <1>3, <1>10, <2>2, <3>1
    <3>2. CASE u # t
      <4>1. d # c /\ Made(u)' = Made(u)
        BY <1>1, <1>3, <2>2, <3>2 DEF IInv, CallsApart, Transmit, Made, TypeOK
      <4>2. Spent(d) <= Made(u)
        BY <1>3, <2>2, CallsAssumption DEF IInv, Budget
      <4>3. QED BY <1>7, <4>1, <4>2
    <3>3. QED BY <3>1, <3>2
  <2>3. QED BY <1>6, <2>1, <2>2, BudgetNext
<1>12. QED BY <1>4, <1>5, <1>11 DEF IInv

(* The service turns a request that is under way into one copy at most.    *)
LEMMA ServerKeeps ==
  ASSUME IInv, TypeOK', NEW r \in inflight, ServerHandles(r)
  PROVE  IInv'
<1>1. r.call \in Calls
  BY DEF IInv, TypeOK, Requests
<1>2. PICK applies \in BOOLEAN, a \in Answers :
        /\ a = "ok" => applies
        /\ inflight' = inflight \ {r}
        /\ copies' = IF applies THEN [copies EXCEPT ![r.call] = @ + 1] ELSE copies
        /\ answer' = [t \in Threads |-> IF AwaitedBy(t, r) THEN a ELSE answer[t]]
        /\ UNCHANGED <<credentials, pc, call, left, result>>
  BY DEF ServerHandles
<1>3. /\ \A c \in Calls : copies[c] \in Nat /\ copies'[c] \in Nat /\ copies[c] <= copies'[c]
      /\ \A c \in Calls : c # r.call => copies'[c] = copies[c]
      /\ copies'[r.call] <= copies[r.call] + 1
      /\ applies => copies'[r.call] > 0
  BY <1>1, <1>2 DEF IInv, TypeOK
<1>4. CallsApart'
  BY <1>2 DEF IInv, CallsApart
<1>5. AnswersTrue'
  <2>1. ASSUME NEW t \in Threads
        PROVE  /\ pc'[t] \in {"idle", "connect"} => answer'[t] = "none"
               /\ pc'[t] = "answered" => answer'[t] # "none"
    BY <1>2 DEF IInv, AnswersTrue, AwaitedBy
  <2>2. ASSUME NEW t \in Threads, answer'[t] = "ok" PROVE copies'[call'[t]] > 0
    <3>1. CASE AwaitedBy(t, r)
      BY <3>1, <2>2, <1>2, <1>3 DEF AwaitedBy
    <3>2. CASE ~AwaitedBy(t, r)
      <4>1. answer[t] = "ok" /\ copies[call[t]] > 0 /\ call'[t] = call[t]
        BY <3>2, <2>2, <1>2 DEF IInv, AnswersTrue
      <4>2. call[t] \in Calls
        BY <4>1 DEF IInv, AnswersTrue, TypeOK
      <4>3. QED BY <4>1, <4>2, <1>3
    <3>3. QED BY <3>1, <3>2
  <2>3. QED BY <2>1, <2>2 DEF AnswersTrue
<1>6. Budget'
  <2>1. IsFiniteSet(inflight')
    BY <1>2, FS_RemoveElement DEF IInv, Budget
  <2>2. \A c : c # r.call => Pending(c)' = Pending(c)
    BY <1>2 DEF Pending
  <2>3. Pending(r.call)' = Pending(r.call) \ {r} /\ r \in Pending(r.call)
    BY <1>2 DEF Pending
  <2>4. /\ Cardinality(Pending(r.call)') = Cardinality(Pending(r.call)) - 1
        /\ Cardinality(Pending(r.call)) \in Nat
    BY ZenonT(60), <2>3, PendingFinite, FS_RemoveElement DEF IInv, Budget
  <2>5. ASSUME NEW c \in Calls
        PROVE  Spent(c)' <= Spent(c) /\ Spent(c) \in Nat /\ Spent(c)' \in Nat
    <3>1. /\ Spent(c) = copies[c] + Cardinality(Pending(c)) /\ Cardinality(Pending(c)) \in Nat
          /\ Spent(c)' = copies'[c] + Cardinality(Pending(c)')
      BY SpentType DEF IInv, Budget, Spent
    <3>2. Cardinality(Pending(c)') \in Nat
      BY <2>1, PendingFinite, <2>2, <2>3, <2>4, FS_RemoveElement, FS_CardinalityType DEF IInv, Budget
    <3>3. QED BY <1>3, <2>2, <2>4, <3>1, <3>2
  <2>6. ASSUME NEW c \in Calls
        PROVE  /\ Spent(c)' <= RetryLimit + 1
               /\ result'[c] \in {"none", "refused"} /\ (\A u \in Threads : call'[u] # c)
                    => copies'[c] = 0 /\ Pending(c)' = {}
    <3>1. Spent(c)' <= RetryLimit + 1
      <4>1. Spent(c) <= RetryLimit + 1
        BY DEF IInv, Budget
      <4>2. QED BY <4>1, <2>5, RetryAssumption
    <3>2. CASE c = r.call
      BY <3>1, <3>2, <1>2, <2>3 DEF IInv, Budget
    <3>3. CASE c # r.call
      BY <3>1, <3>3, <1>2, <1>3, <2>2 DEF IInv, Budget
    <3>4. QED BY <3>2, <3>3
  <2>7. ASSUME NEW u \in Threads, NEW c \in Calls, call'[u] = c
        PROVE  Spent(c)' <= Made(u)'
    <3>1. call[u] = c /\ Made(u)' = Made(u) /\ Made(u) \in Nat
      BY <1>2, <2>7, MadeType, RetryAssumption DEF IInv, TypeOK, Made
    <3>2. Spent(c) <= Made(u)
      BY <3>1, CallsAssumption DEF IInv, Budget
    <3>3. QED BY <3>1, <3>2, <2>5
  <2>8. QED BY <2>1, <2>6, <2>7, BudgetNext
<1>7. QED BY <1>4, <1>5, <1>6 DEF IInv

(* A call begins without anything applied or under way.                    *)
LEMMA CallKeeps ==
  ASSUME IInv, TypeOK', NEW t \in Threads, NEW c \in Calls, CallSend(t, c)
  PROVE  IInv'
<1>1. /\ call' = [call EXCEPT ![t] = c] /\ left' = [left EXCEPT ![t] = RetryLimit]
      /\ pc' = [pc EXCEPT ![t] = "connect"]
      /\ UNCHANGED <<answer, inflight, copies, result>>
      /\ result[c] = "none" /\ \A u \in Threads : call[u] # c
      /\ pc[t] = "idle" /\ call[t] = NoCall
  BY DEF CallSend, Unmade, IInv, TypeOK
<1>2. CallsApart'
  BY <1>1 DEF IInv, CallsApart, TypeOK
<1>3. AnswersTrue'
  BY <1>1 DEF IInv, AnswersTrue, TypeOK
<1>4. /\ IsFiniteSet(inflight') /\ \A d : Pending(d)' = Pending(d) /\ Spent(d)' = Spent(d)
      /\ copies[c] = 0 /\ Pending(c) = {} /\ Spent(c) = 0
  <2>1. IsFiniteSet(inflight') /\ \A d : Pending(d)' = Pending(d)
    BY <1>1 DEF IInv, Budget, Pending
  <2>2. \A d : Spent(d)' = Spent(d)
    BY <1>1, <2>1 DEF Spent
  <2>3. copies[c] = 0 /\ Pending(c) = {}
    BY <1>1 DEF IInv, Budget
  <2>4. Spent(c) = 0
    BY <2>3, FS_EmptySet DEF Spent
  <2>5. QED BY <2>1, <2>2, <2>3, <2>4
<1>5. Budget'
  <2>1. ASSUME NEW d \in Calls
        PROVE  /\ Spent(d)' <= RetryLimit + 1
               /\ result'[d] \in {"none", "refused"} /\ (\A u \in Threads : call'[u] # d)
                    => copies'[d] = 0 /\ Pending(d)' = {}
    BY <1>1, <1>4, CallsAssumption DEF IInv, Budget, TypeOK
  <2>2. ASSUME NEW u \in Threads, NEW d \in Calls, call'[u] = d
        PROVE  Spent(d)' <= Made(u)'
    <3>1. CASE u = t
      BY <1>1, <1>4, <2>2, <3>1, RetryAssumption DEF IInv, TypeOK, Made
    <3>2. CASE u # t
      BY <1>1, <1>4, <2>2, <3>2, CallsAssumption DEF IInv, Budget, TypeOK, Made
    <3>3. QED BY <3>1, <3>2
  <2>3. QED BY <1>4, <2>1, <2>2, BudgetNext
<1>6. QED BY <1>2, <1>3, <1>5 DEF IInv

(* Steps that leave the requests and the calls alone.                      *)
LEMMA OthersKeep ==
  ASSUME IInv, TypeOK', UNCHANGED <<call, left, inflight, copies>>, AnswersTrue', CallsApart',
         \A t \in Threads : pc[t] = "connect" <=> pc'[t] = "connect",
         \A c \in Calls : result'[c] \in {"none", "refused"} => result[c] \in {"none", "refused"}
  PROVE  IInv'
<1>1. /\ IsFiniteSet(inflight') /\ \A d : Pending(d)' = Pending(d) /\ Spent(d)' = Spent(d)
      /\ \A u \in Threads : Made(u)' = Made(u)
  BY DEF IInv, Budget, Pending, Spent, Made
<1>2. Budget'
  <2>1. ASSUME NEW d \in Calls
        PROVE  /\ Spent(d)' <= RetryLimit + 1
               /\ result'[d] \in {"none", "refused"} /\ (\A u \in Threads : call'[u] # d)
                    => copies'[d] = 0 /\ Pending(d)' = {}
    BY <1>1 DEF IInv, Budget
  <2>2. ASSUME NEW u \in Threads, NEW d \in Calls, call'[u] = d
        PROVE  Spent(d)' <= Made(u)'
    BY <1>1, <2>2, CallsAssumption DEF IInv, Budget
  <2>3. QED BY <1>1, <2>1, <2>2, BudgetNext
<1>3. QED BY <1>2 DEF IInv

(* Every step keeps the invariant: one case per action.                    *)
LEMMA InvStep == IInv /\ [Next]_vars => IInv'
<1> SUFFICES ASSUME IInv, [Next]_vars PROVE IInv'
  OBVIOUS
<1>0. TypeOK'
  BY TypeStep DEF IInv
<1>1. ASSUME NEW t \in Threads, NEW c \in Calls, CallSend(t, c) PROVE IInv'
  BY <1>0, <1>1, CallKeeps
<1>2. ASSUME NEW t \in Threads, NEW c \in Calls, CallSendUnknown(t, c) PROVE IInv'
  <2>1. CallsApart' /\ AnswersTrue'
    BY <1>2 DEF CallSendUnknown, Unmade, IInv, CallsApart, AnswersTrue, TypeOK
  <2>2. \A d \in Calls : result'[d] \in {"none", "refused"} => result[d] \in {"none", "refused"}
    BY <1>2 DEF CallSendUnknown, Unmade, IInv, TypeOK
  <2>3. QED BY <1>0, <1>2, <2>1, <2>2, OthersKeep DEF CallSendUnknown
<1>3. ASSUME NEW t \in Threads, ConnectionFails(t) PROVE IInv'
  BY <1>0, <1>3, RetryKeeps DEF ConnectionFails
<1>4. ASSUME NEW t \in Threads, Transmit(t) PROVE IInv'
  BY <1>0, <1>4, TransmitKeeps
<1>5. ASSUME NEW t \in Threads, NoAnswer(t) PROVE IInv'
  BY <1>0, <1>5, RetryKeeps DEF NoAnswer
<1>6. ASSUME NEW t \in Threads, AnswerArrives(t) PROVE IInv'
  <2>1. CallsApart' /\ AnswersTrue'
    BY <1>6 DEF AnswerArrives, IInv, CallsApart, AnswersTrue, TypeOK
  <2>2. \A u \in Threads : pc[u] = "connect" <=> pc'[u] = "connect"
    BY <1>6 DEF AnswerArrives, IInv, TypeOK
  <2>3. QED BY <1>0, <1>6, <2>1, <2>2, OthersKeep DEF AnswerArrives
<1>7. ASSUME NEW t \in Threads, RetryServerError(t) PROVE IInv'
  BY <1>0, <1>7, RetryKeeps DEF RetryServerError
<1>8. ASSUME NEW t \in Threads, ReadAnswer(t) PROVE IInv'
  <2>1. answer[t] \in {"ok", "rejected", "unreadable", "odd"}
    BY <1>8 DEF ReadAnswer, IInv, TypeOK, AnswersTrue, Answers
  <2>2. PICK outcome \in {"ok", "raised", "escaped"} : Finish(t, outcome)
    BY <1>8, <2>1 DEF ReadAnswer
  <2>3. QED BY <1>0, <1>8, <2>2, FinishKeeps DEF ReadAnswer
<1>9. ASSUME NEW r \in inflight, ServerHandles(r) PROVE IInv'
  BY <1>0, <1>9, ServerKeeps
<1>10. CASE UNCHANGED vars
  <2>1. CallsApart' /\ AnswersTrue'
    BY <1>10 DEF vars, IInv, CallsApart, AnswersTrue
  <2>2. QED BY <1>0, <1>10, <2>1, OthersKeep DEF vars
<1>11. QED
  BY <1>1, <1>2, <1>3, <1>4, <1>5, <1>6, <1>7, <1>8, <1>9, <1>10 DEF Next, ClientStep

(* The invariant holds in every reachable state.                           *)
THEOREM InvCorrect == Spec => []IInv
BY InvInit, InvStep, PTL DEF Spec

(* A thread is in a call exactly when it has something to do, it never has *)
(* more retries left than retry_limit, and every request was made by       *)
(* _write_request.                                                         *)
THEOREM TypeCorrect == Spec => []TypeOK
<1>1. IInv => TypeOK
  BY DEF IInv
<1>2. QED BY InvCorrect, <1>1, PTL

-----------------------------------------------------------------------------
(* Credentials                                                             *)

(* _write_request gives the account's secret to imports only, with their   *)
(* project and without an API key beside it.                               *)
LEMMA RequestKeepsApart ==
  ASSUME NEW c, NEW n, credentials \in BOOLEAN
  PROVE  LET r == Request(c, n) IN
         /\ r.auth = "account" => EndpointOf[r.call] = Imports /\ r.project /\ r.key = None
         /\ r.key # None => r.auth = "secret"
BY DEF Request, UsesAccount

(* On no attempt of any call do the account's secret and a project's       *)
(* secret or key travel together, or the account's with anything but an    *)
(* import.                                                                 *)
THEOREM CredentialsAreKeptApart == Spec => []CredentialsKeptApart
<1>1. Init => CredentialsKeptApart
  BY DEF Init, CredentialsKeptApart
<1>2. IInv /\ CredentialsKeptApart /\ [Next]_vars => CredentialsKeptApart'
  <2> SUFFICES ASSUME IInv, CredentialsKeptApart, [Next]_vars PROVE CredentialsKeptApart'
    OBVIOUS
  <2>1. ASSUME NEW t \in Threads, Transmit(t) PROVE CredentialsKeptApart'
    <3>1. credentials \in BOOLEAN
      BY DEF IInv, TypeOK
    <3>2. QED BY <2>1, <3>1, RequestKeepsApart DEF CredentialsKeptApart, Transmit
  <2>2. ASSUME inflight' \subseteq inflight PROVE CredentialsKeptApart'
    BY <2>2 DEF CredentialsKeptApart
  <2>3. inflight' \subseteq inflight \/ \E t \in Threads : Transmit(t)
    BY DEF Next, ClientStep, vars, CallSend, CallSendUnknown, ConnectionFails, NoAnswer,
       AnswerArrives, RetryServerError, ReadAnswer, ServerHandles
  <2>4. QED BY <2>1, <2>2, <2>3
<1>3. QED BY InvCorrect, <1>1, <1>2, PTL DEF Spec

-----------------------------------------------------------------------------
(* Refinement                                                              *)

(* What PostContract sees of the end of a call.                            *)
LEMMA FinishEnds ==
  ASSUME IInv, NEW t \in Threads, NEW outcome \in {"ok", "raised", "escaped"},
         Finish(t, outcome), pc[t] # "idle", outcome = "ok" => answer[t] = "ok",
         UNCHANGED <<credentials, inflight, copies>>
  PROVE  P!Next
<1> DEFINE end == IF outcome = "ok" THEN "ok" ELSE "raised"
<1>1. call[t] \in Calls /\ call[t] # NoCall
  BY CallsAssumption DEF IInv, TypeOK
<1>2. end = "ok" => copies[call[t]] > 0
  BY DEF IInv, AnswersTrue
<1>3. [c \in Calls |-> Outcome(c)]' = [[c \in Calls |-> Outcome(c)] EXCEPT ![call[t]] = end]
  <2>1. ASSUME NEW c \in Calls PROVE Outcome(c)' = IF c = call[t] THEN end ELSE Outcome(c)
    BY DEF Finish, IInv, TypeOK, Outcome
  <2>2. QED BY <1>1, <2>1
<1>4. P!End(t, end)
  BY <1>1, <1>2, <1>3 DEF P!End, Finish
<1>5. QED BY <1>4 DEF P!Next

(* A retry is a stutter of the contract, the end of retries an End.        *)
LEMMA RetryEnds ==
  ASSUME IInv, NEW t \in Threads, Retry(t), pc[t] # "idle",
         UNCHANGED <<credentials, inflight, copies>>
  PROVE  [P!Next]_P!vars
<1>1. CASE Finish(t, "raised")
  BY <1>1, FinishEnds
<1>2. CASE ~Finish(t, "raised")
  BY <1>2, RetryOutcome DEF P!vars, Outcome
<1>3. QED BY <1>1, <1>2

(* Consumer implements PostContract: a success was applied, one call makes *)
(* at most retry_limit + 1 copies, and after the end of a call only what   *)
(* was under way can still be applied.                                     *)
THEOREM Implements == Spec => ImplementsContract
<1>1. Init => P!Init
  BY DEF Init, P!Init, Outcome
<1>2. IInv /\ [Next]_vars => [P!Next]_P!vars
  <2> SUFFICES ASSUME IInv, [Next]_vars PROVE [P!Next]_P!vars
    OBVIOUS
  <2>1. ASSUME NEW t \in Threads, NEW c \in Calls, CallSend(t, c) PROVE P!Next
    <3>1. P!Begin(t, c)
      BY <2>1 DEF CallSend, Unmade, P!Begin, IInv, TypeOK, Outcome
    <3>2. QED BY <3>1 DEF P!Next
  <2>2. ASSUME NEW t \in Threads, NEW c \in Calls, CallSendUnknown(t, c) PROVE UNCHANGED P!vars
    <3>1. \A d \in Calls : Outcome(d)' = Outcome(d)
      BY <2>2 DEF CallSendUnknown, Unmade, IInv, TypeOK, Outcome
    <3>2. QED BY <2>2, <3>1 DEF CallSendUnknown, P!vars
  <2>3. ASSUME NEW t \in Threads, ConnectionFails(t) PROVE [P!Next]_P!vars
    BY <2>3, RetryEnds DEF ConnectionFails
  <2>4. ASSUME NEW t \in Threads, Transmit(t) PROVE UNCHANGED P!vars
    BY <2>4 DEF Transmit, P!vars, Outcome
  <2>5. ASSUME NEW t \in Threads, NoAnswer(t) PROVE [P!Next]_P!vars
    BY <2>5, RetryEnds DEF NoAnswer
  <2>6. ASSUME NEW t \in Threads, AnswerArrives(t) PROVE UNCHANGED P!vars
    BY <2>6 DEF AnswerArrives, P!vars, Outcome
  <2>7. ASSUME NEW t \in Threads, RetryServerError(t) PROVE [P!Next]_P!vars
    BY <2>7, RetryEnds DEF RetryServerError
  <2>8. ASSUME NEW t \in Threads, ReadAnswer(t) PROVE P!Next
    <3>1. answer[t] \in {"ok", "rejected", "unreadable", "odd"}
      BY <2>8 DEF ReadAnswer, IInv, TypeOK, AnswersTrue, Answers
    <3>2. PICK outcome \in {"ok", "raised", "escaped"} :
            Finish(t, outcome) /\ (outcome = "ok" => answer[t] = "ok")
      BY <2>8, <3>1 DEF ReadAnswer
    <3>3. QED BY <2>8, <3>2, FinishEnds DEF ReadAnswer
  <2>9. ASSUME NEW r \in inflight, ServerHandles(r) PROVE [P!Next]_P!vars
    <3>1. PICK applies \in BOOLEAN :
            /\ copies' = IF applies THEN [copies EXCEPT ![r.call] = @ + 1] ELSE copies
            /\ UNCHANGED <<call, result>>
      BY <2>9 DEF ServerHandles
    <3>2. CASE applies
      <4>1. r.call \in Calls /\ r \in Pending(r.call)
        BY DEF IInv, TypeOK, Requests, Pending
      <4>2. copies[r.call] < RetryLimit + 1
        <5>1. Cardinality(Pending(r.call)) > 0
          BY <4>1, PendingFinite, FS_EmptySet DEF IInv, Budget
        <5>2. copies[r.call] + Cardinality(Pending(r.call)) <= RetryLimit + 1
          BY <4>1 DEF IInv, Budget, Spent
        <5>3. copies[r.call] \in Nat /\ Cardinality(Pending(r.call)) \in Nat
          BY <4>1, SpentType DEF IInv, Budget
        <5>4. QED BY <5>1, <5>2, <5>3, RetryAssumption
      <4>3. Outcome(r.call) # "none" \/ \E t \in Threads : call[t] = r.call
        BY <4>1 DEF IInv, Budget, TypeOK, Outcome
      <4>4. P!Apply(r.call)
        BY <3>1, <3>2, <4>1, <4>2, <4>3 DEF P!Apply, Outcome
      <4>5. QED BY <4>1, <4>4 DEF P!Next
    <3>3. CASE ~applies
      BY <3>1, <3>3 DEF P!vars, Outcome
    <3>4. QED BY <3>2, <3>3
  <2>10. CASE UNCHANGED vars
    BY <2>10 DEF vars, P!vars, Outcome
  <2>11. QED
    BY <2>1, <2>2, <2>3, <2>4, <2>5, <2>6, <2>7, <2>8, <2>9, <2>10 DEF Next, ClientStep
<1>3. QED BY InvCorrect, <1>1, <1>2, PTL DEF Spec, ImplementsContract, P!Spec
=============================================================================
