---------------------- MODULE LocalFlagsPollingProofs -----------------------
(***************************************************************************)
(* Proofs about LocalFlagsPolling for any number of threads, coroutines    *)
(* and pollers, any number of versions and failures: it is well typed, the *)
(* one polling task is the one astop_polling_for_definitions would cancel, *)
(* definitions do not go back while fetches do not overlap, and a thread   *)
(* that one caller controls polls as long as it is referred to.            *)
(***************************************************************************)
EXTENDS LocalFlagsPolling, TLAPS

-----------------------------------------------------------------------------
(* Actors                                                                  *)

(* The four kinds of actors are different ones.                            *)
LEMMA KindsApart ==
  /\ \A c \in Callers : c \notin Coroutines /\ c \notin Pollers /\ c \notin Tasks
  /\ \A k \in Coroutines : k \notin Pollers /\ k \notin Tasks
  /\ \A p \in Pollers : p \notin Tasks /\ p # None
  /\ \A p \in Tasks : p # None
BY ActorsAssumption

(* A caller goes on to the check or is done, a poller polls on.            *)
LEMMA AfterFetchValue ==
  /\ \A c \in Callers : AfterFetch(c) \in {"check", "idle"}
  /\ \A k \in Coroutines : AfterFetch(k) \in {"acreate", "idle"}
  /\ \A p \in Pollers : AfterFetch(p) = "loop"
  /\ \A p \in Tasks : AfterFetch(p) = "sleep"
BY KindsApart, BoundsAssumption DEF AfterFetch

-----------------------------------------------------------------------------
(* Type correctness                                                        *)

(* What the provider starts with is well typed.                            *)
LEMMA TypeInit == Init => TypeOK
<1> SUFFICES ASSUME Init PROVE TypeOK
  OBVIOUS
<1>1. 1 \in 1..MaxVersion /\ 0 \in 0..MaxVersion /\ 0 \in 0..MaxFaults
  BY BoundsAssumption
<1>2. pc \in [Actors -> {"idle", "unborn"}] /\ got \in [Actors -> 0..MaxVersion]
  BY <1>1 DEF Init
<1>3. QED BY <1>1, <1>2 DEF Init, TypeOK

(* Every step keeps the types.                                             *)
LEMMA TypeStep ==
  ASSUME TypeOK, [Next]_vars
  PROVE  TypeOK'
<1> USE DEF TypeOK, data, control, history, Goto, BeginFetch, EndFetch
<1>1. CASE DefinitionsChange
  BY <1>1, BoundsAssumption DEF DefinitionsChange
<1>2. ASSUME NEW a \in Actors, FetchStep(a) PROVE TypeOK'
  <2>1. AfterFetch(a) \in {"check", "idle", "acreate", "loop", "sleep"}
    BY AfterFetchValue DEF Actors
  <2>2. CASE ServerAnswers(a)
    BY <2>2, BoundsAssumption DEF ServerAnswers
  <2>3. CASE FetchSucceeds(a)
    BY <2>1, <2>3, BoundsAssumption DEF FetchSucceeds, StoreDefinitions
  <2>4. CASE FetchGetsGarbage(a)
    BY <2>1, <2>4, BoundsAssumption DEF FetchGetsGarbage, StoreDefinitions
  <2>5. CASE FetchFails(a)
    BY <2>1, <2>5, BoundsAssumption DEF FetchFails
  <2>6. CASE FetchRefused(a)
    BY <2>1, <2>6, BoundsAssumption DEF FetchRefused
  <2>7. QED BY <1>2, <2>2, <2>3, <2>4, <2>5, <2>6 DEF FetchStep
<1>3. ASSUME NEW c \in Callers, CallStart(c) \/ CallStop(c) \/ CallShutdown(c) PROVE TypeOK'
  BY <1>3 DEF CallStart, CallStop, CallShutdown, Actors
<1>4. ASSUME NEW c \in Callers, CallerStep(c) PROVE TypeOK'
  <2>1. CASE CheckNoPoller(c) \/ ClearStopEvent(c)
    BY <2>1 DEF CheckNoPoller, ClearStopEvent
  <2>2. CASE RunThread(c)
    BY <2>2 DEF RunThread, Actors
  <2>3. CASE SetStopEvent(c)
    BY <2>3 DEF SetStopEvent
  <2>4. CASE ForgetThread(c)
    BY <2>4 DEF ForgetThread
  <2>5. CASE CloseSync(c) \/ CloseAsync(c)
    BY <2>5 DEF CloseSync, CloseAsync
  <2>6. ASSUME NEW p \in Pollers, CreateThread(c, p) PROVE TypeOK'
    BY <2>6 DEF CreateThread
  <2>7. QED BY <1>4, <2>1, <2>2, <2>3, <2>4, <2>5, <2>6 DEF CallerStep
<1>5. ASSUME NEW k \in Coroutines, CallAStart(k) PROVE TypeOK'
  BY <1>5 DEF CallAStart
<1>6. ASSUME NEW k \in Coroutines, CallAStop(k) \/ CallAExit(k) PROVE TypeOK'
  <2>1. 0 \in 0..MaxVersion
    BY BoundsAssumption
  <2>2. PICK label \in {"idle", "aclose"} : CancelTask(k, label)
    BY <1>6 DEF CallAStop, CallAExit
  <2>3. UNCHANGED <<server, defs, ready, stopEvent, syncTask, clients, faults>>
    BY <1>6 DEF CallAStop, CallAExit
  <2>4. CASE asyncTask = None
    BY <2>2, <2>3, <2>4 DEF CancelTask
  <2>5. CASE asyncTask # None
    <3>1. /\ pc' = [pc EXCEPT ![k] = label, ![asyncTask] = "done"]
          /\ got' = [got EXCEPT ![asyncTask] = 0]
          /\ mixed' \in BOOLEAN /\ asyncTask' = None
      BY <2>2, <2>5 DEF CancelTask
    <3>2. QED BY <2>1, <2>3, <3>1
  <2>6. QED BY <2>4, <2>5
<1>7. ASSUME NEW k \in Coroutines, CoroutineStep(k) PROVE TypeOK'
  BY <1>7 DEF CoroutineStep, CreateTask, CloseBoth
<1>8. ASSUME NEW p \in Pollers \cup Tasks, PollerStep(p) PROVE TypeOK'
  BY <1>8 DEF PollerStep, TaskFetches, PollerLoops, PollerFetches
<1>9. CASE UNCHANGED vars
  BY <1>9 DEF vars
<1>10. QED
  BY <1>1, <1>2, <1>3, <1>4, <1>5, <1>6, <1>7, <1>8, <1>9 DEF Next

-----------------------------------------------------------------------------
(* Fetches                                                                 *)

(* What the end of a fetch by actor a does, whichever way it ends.         *)
LEMMA EndOfFetch ==
  ASSUME TypeOK, NEW a \in Actors, EndFetch(a), Goto(a, AfterFetch(a))
  PROVE  /\ \A b \in Actors : b # a => pc'[b] = pc[b] /\ got'[b] = got[b]
         /\ ~Fetching(a)'
         /\ mixed' = (mixed /\ \E b \in Actors \ {a} : Fetching(b))
<1>1. AfterFetch(a) \in {"check", "idle", "acreate", "loop", "sleep"}
  BY AfterFetchValue DEF Actors
<1>2. QED BY <1>1 DEF TypeOK, EndFetch, Goto, Fetching

(* Starting a fetch beside another one is noticed.                         *)
LEMMA FetchBegins ==
  ASSUME TypeOK, OneFetch, AnswersFresh, NEW a \in Actors, BeginFetch(a), ~Fetching(a),
         UNCHANGED <<server, defs, got>>
  PROVE  OneFetch' /\ AnswersFresh'
<1>1. /\ \A b \in Actors : b # a => pc'[b] = pc[b]
      /\ pc'[a] = "fetch"
      /\ mixed' = (mixed \/ \E b \in Actors \ {a} : Fetching(b))
  BY DEF TypeOK, BeginFetch, Goto
<1>2. \A b \in Actors : b # a => (Fetching(b)' <=> Fetching(b))
  BY <1>1 DEF Fetching
<1>3. OneFetch'
  BY <1>1, <1>2 DEF OneFetch
<1>4. AnswersFresh'
  BY <1>1 DEF AnswersFresh
<1>5. QED BY <1>3, <1>4

(* When fetches stop overlapping, none or one is left, so a fetch that     *)
(* ends leaves no older answer behind than what it may have stored.        *)
LEMMA FetchEnds ==
  ASSUME TypeOK, OneFetch, AnswersFresh, NEW a \in Actors, Fetching(a),
         EndFetch(a), Goto(a, AfterFetch(a)), UNCHANGED server,
         defs' \in {0, defs} \/ (pc[a] = "answered" /\ defs' = got[a])
  PROVE  OneFetch' /\ AnswersFresh'
<1>1. /\ \A b \in Actors : b # a => pc'[b] = pc[b] /\ got'[b] = got[b]
      /\ ~Fetching(a)'
      /\ mixed' = (mixed /\ \E b \in Actors \ {a} : Fetching(b))
  BY EndOfFetch
<1>2. \A b \in Actors : Fetching(b)' => b # a /\ Fetching(b)
  BY <1>1 DEF Fetching
<1>3. ~mixed' => \A b \in Actors : ~Fetching(b)'
  BY <1>1, <1>2 DEF OneFetch
<1>4. OneFetch'
  BY <1>3 DEF OneFetch
<1>5. defs' <= server'
  BY DEF AnswersFresh, TypeOK
<1>6. ASSUME NEW b \in Actors, pc'[b] = "answered"
      PROVE  got'[b] <= server' /\ mixed'
  <2>1. Fetching(b)'
    BY <1>6 DEF Fetching
  <2>2. QED BY <1>1, <1>2, <1>3, <1>6, <2>1 DEF AnswersFresh
<1>7. QED BY <1>4, <1>5, <1>6 DEF AnswersFresh

(* Moving an actor that fetches neither before nor after disturbs nothing. *)
LEMMA OtherMoves ==
  ASSUME OneFetch, AnswersFresh, UNCHANGED <<server, defs, got, mixed>>,
         \A b \in Actors : pc'[b] = pc[b] \/ (~Fetching(b) /\ ~Fetching(b)')
  PROVE  OneFetch' /\ AnswersFresh'
<1>1. \A b \in Actors : Fetching(b)' <=> Fetching(b)
  BY DEF Fetching
<1>2. \A b \in Actors : pc'[b] = "answered" <=> pc[b] = "answered"
  BY DEF Fetching
<1>3. OneFetch'
  BY <1>1 DEF OneFetch
<1>4. AnswersFresh'
  BY <1>2 DEF AnswersFresh
<1>5. QED BY <1>3, <1>4

(* Fetches that do not overlap bring nothing old, whatever step is taken.  *)
LEMMA FetchesStep ==
  ASSUME TypeOK, OneFetch, AnswersFresh, [Next]_vars
  PROVE  OneFetch' /\ AnswersFresh'
<1> USE DEF data, control, history
<1>1. CASE DefinitionsChange
  BY <1>1 DEF DefinitionsChange, TypeOK, OneFetch, AnswersFresh, Fetching
<1>2. ASSUME NEW a \in Actors, FetchStep(a) PROVE OneFetch' /\ AnswersFresh'
  <2>1. CASE ServerAnswers(a)
    <3>1. \A b \in Actors : Fetching(b)' <=> Fetching(b)
      BY <2>1 DEF ServerAnswers, Goto, TypeOK, Fetching
    <3>2. OneFetch'
      BY <2>1, <3>1 DEF OneFetch, ServerAnswers
    <3>3. AnswersFresh'
      BY <2>1 DEF AnswersFresh, ServerAnswers, Goto, TypeOK
    <3>4. QED BY <3>2, <3>3
  <2>2. CASE FetchSucceeds(a)
    BY <2>2, FetchEnds DEF FetchSucceeds, StoreDefinitions, Fetching
  <2>3. CASE FetchGetsGarbage(a)
    BY <2>3, FetchEnds DEF FetchGetsGarbage, StoreDefinitions, Fetching
  <2>4. CASE FetchFails(a) \/ FetchRefused(a)
    BY <2>4, FetchEnds DEF FetchFails, FetchRefused, Fetching
  <2>5. QED BY <1>2, <2>1, <2>2, <2>3, <2>4 DEF FetchStep
<1>3. ASSUME NEW c \in Callers, CallStart(c) PROVE OneFetch' /\ AnswersFresh'
  BY <1>3, FetchBegins DEF CallStart, Fetching, Actors
<1>4. ASSUME NEW c \in Callers, CallStop(c) \/ CallShutdown(c) PROVE OneFetch' /\ AnswersFresh'
  <2>1. \A b \in Actors : pc'[b] = pc[b] \/ (~Fetching(b) /\ ~Fetching(b)')
    BY <1>4 DEF CallStop, CallShutdown, Goto, TypeOK, Fetching, Actors
  <2>2. QED BY <1>4, <2>1, OtherMoves DEF CallStop, CallShutdown
<1>5. ASSUME NEW c \in Callers, CallerStep(c) PROVE OneFetch' /\ AnswersFresh'
  <2>1. CASE CheckNoPoller(c) \/ ClearStopEvent(c)
    <3>1. \A b \in Actors : pc'[b] = pc[b] \/ (~Fetching(b) /\ ~Fetching(b)')
      BY <2>1 DEF CheckNoPoller, ClearStopEvent, Goto, TypeOK, Fetching, Actors
    <3>2. QED BY <2>1, <3>1, OtherMoves DEF CheckNoPoller, ClearStopEvent
  <2>2. CASE RunThread(c)
    <3>1. \A b \in Actors : pc'[b] = pc[b] \/ (~Fetching(b) /\ ~Fetching(b)')
      BY <2>2 DEF RunThread, TypeOK, Fetching, Actors
    <3>2. QED BY <2>2, <3>1, OtherMoves DEF RunThread
  <2>3. CASE SetStopEvent(c)
    <3>1. \A b \in Actors : pc'[b] = pc[b] \/ (~Fetching(b) /\ ~Fetching(b)')
      BY <2>3 DEF SetStopEvent, TypeOK, Fetching, Actors
    <3>2. QED BY <2>3, <3>1, OtherMoves DEF SetStopEvent
  <2>4. CASE ForgetThread(c) \/ CloseSync(c) \/ CloseAsync(c)
    <3>1. \A b \in Actors : pc'[b] = pc[b] \/ (~Fetching(b) /\ ~Fetching(b)')
      BY <2>4 DEF ForgetThread, CloseSync, CloseAsync, Goto, TypeOK, Fetching, Actors
    <3>2. QED BY <2>4, <3>1, OtherMoves DEF ForgetThread, CloseSync, CloseAsync
  <2>5. ASSUME NEW p \in Pollers, CreateThread(c, p) PROVE OneFetch' /\ AnswersFresh'
    <3>1. \A b \in Actors : pc'[b] = pc[b] \/ (~Fetching(b) /\ ~Fetching(b)')
      BY <2>5 DEF CreateThread, TypeOK, Fetching, Actors
    <3>2. QED BY <2>5, <3>1, OtherMoves DEF CreateThread
  <2>6. QED BY <1>5, <2>1, <2>2, <2>3, <2>4, <2>5 DEF CallerStep
<1>6. ASSUME NEW k \in Coroutines, CallAStart(k) PROVE OneFetch' /\ AnswersFresh'
  BY <1>6, FetchBegins DEF CallAStart, Fetching, Actors
<1>7. ASSUME NEW k \in Coroutines, CallAStop(k) \/ CallAExit(k) PROVE OneFetch' /\ AnswersFresh'
  <2>1. PICK label \in {"idle", "aclose"} : CancelTask(k, label)
    BY <1>7 DEF CallAStop, CallAExit
  <2>2. pc[k] = "idle" /\ UNCHANGED <<server, defs>> /\ k \in Actors
    BY <1>7 DEF CallAStop, CallAExit, Actors
  <2>3. CASE asyncTask = None
    <3>1. \A b \in Actors : pc'[b] = pc[b] \/ (~Fetching(b) /\ ~Fetching(b)')
      BY <2>1, <2>2, <2>3 DEF CancelTask, Goto, TypeOK, Fetching
    <3>2. QED BY <2>1, <2>2, <2>3, <3>1, OtherMoves DEF CancelTask
  <2>4. CASE asyncTask # None
    <3>1. /\ pc' = [pc EXCEPT ![k] = label, ![asyncTask] = "done"]
          /\ got' = [got EXCEPT ![asyncTask] = 0]
          /\ mixed' = (mixed /\ \E b \in Actors \ {asyncTask} : Fetching(b))
          /\ asyncTask \in Actors
      BY <2>1, <2>4 DEF CancelTask, EndFetch, TypeOK, Actors
    <3>2. \A b \in Actors : Fetching(b)' => b # asyncTask /\ Fetching(b) /\ pc'[b] = pc[b]
      BY <2>2, <3>1 DEF TypeOK, Fetching
    <3>3. OneFetch'
      BY <3>1, <3>2 DEF OneFetch
    <3>4. ASSUME NEW b \in Actors, pc'[b] = "answered"
          PROVE  got'[b] <= server /\ (~mixed' => got'[b] >= defs)
      <4>1. Fetching(b)'
        BY <3>4 DEF Fetching
      <4>2. b # asyncTask /\ Fetching(b) /\ pc[b] = "answered"
        BY <3>2, <3>4, <4>1
      <4>3. got'[b] = got[b]
        BY <3>1, <4>2 DEF TypeOK
      <4>4. ~mixed' => ~mixed
        BY <3>1, <4>2
      <4>5. QED BY <4>2, <4>3, <4>4 DEF AnswersFresh
    <3>5. QED BY <2>2, <3>3, <3>4 DEF AnswersFresh
  <2>5. QED BY <2>3, <2>4
<1>8. ASSUME NEW k \in Coroutines, CoroutineStep(k) PROVE OneFetch' /\ AnswersFresh'
  <2>1. \A b \in Actors : pc'[b] = pc[b] \/ (~Fetching(b) /\ ~Fetching(b)')
    BY <1>8 DEF CoroutineStep, CreateTask, CloseBoth, Goto, TypeOK, Fetching, Actors
  <2>2. QED BY <1>8, <2>1, OtherMoves DEF CoroutineStep, CreateTask, CloseBoth
<1>9. ASSUME NEW p \in Pollers \cup Tasks, PollerStep(p) PROVE OneFetch' /\ AnswersFresh'
  <2>1. CASE TaskFetches(p) \/ PollerFetches(p)
    BY <2>1, FetchBegins DEF TaskFetches, PollerFetches, Fetching, Actors
  <2>2. CASE PollerLoops(p)
    <3>1. \A b \in Actors : pc'[b] = pc[b] \/ (~Fetching(b) /\ ~Fetching(b)')
      BY <2>2 DEF PollerLoops, Goto, TypeOK, Fetching, Actors
    <3>2. QED BY <2>2, <3>1, OtherMoves DEF PollerLoops
  <2>3. QED BY <1>9, <2>1, <2>2 DEF PollerStep
<1>10. CASE UNCHANGED vars
  BY <1>10, OtherMoves DEF vars
<1>11. QED
  BY <1>1, <1>2, <1>3, <1>4, <1>5, <1>6, <1>7, <1>8, <1>9, <1>10 DEF Next

-----------------------------------------------------------------------------
(* Pollers                                                                 *)

(* What every step leaves of the pollers, unless it is one of the few that *)
(* create, run, stop or cancel them: a fetch and a poll keep them alive.   *)
PollersKept ==
  /\ UNCHANGED <<stopEvent, syncTask, asyncTask>>
  /\ \A p \in Pollers \cup Tasks : (Live(p)' <=> Live(p)) /\ (pc'[p] = "unborn" <=> pc[p] = "unborn")

(* The start and the steps of a fetch end no poller and create none.       *)
LEMMA FetchKeepsPollers ==
  ASSUME TypeOK, NEW a \in Actors, NEW label,
         Fetching(a) \/ pc[a] \in {"wait", "sleep"} \/ a \in Callers \cup Coroutines,
         a \in Pollers \cup Tasks => label \in {"fetch", "answered", "loop", "sleep"},
         Goto(a, label), UNCHANGED control
  PROVE  PollersKept
<1>1. \A b \in Actors : pc'[b] = IF b = a THEN label ELSE pc[b]
  BY DEF TypeOK, Goto
<1>2. ASSUME NEW p \in Pollers \cup Tasks
      PROVE  (Live(p)' <=> Live(p)) /\ (pc'[p] = "unborn" <=> pc[p] = "unborn")
  <2>1. CASE p = a
    BY <1>1, <2>1, KindsApart DEF Live, Fetching, Actors
  <2>2. CASE p # a
    BY <1>1, <2>2 DEF Live, Actors
  <2>3. QED BY <2>1, <2>2
<1>3. QED BY <1>2 DEF PollersKept, control

(* The whole of a fetch keeps the pollers as they are.                     *)
LEMMA FetchStepKeepsPollers ==
  ASSUME TypeOK, NEW a \in Actors, FetchStep(a)
  PROVE  PollersKept
<1>1. a \in Pollers \cup Tasks => AfterFetch(a) \in {"loop", "sleep"}
  BY AfterFetchValue
<1>2. CASE ServerAnswers(a)
  BY <1>2, FetchKeepsPollers DEF ServerAnswers, Fetching
<1>3. CASE ~ServerAnswers(a)
  <2>1. Fetching(a) /\ Goto(a, AfterFetch(a)) /\ UNCHANGED control
    BY <1>3 DEF FetchStep, FetchSucceeds, FetchGetsGarbage, FetchFails, FetchRefused,
                StoreDefinitions, Fetching
  <2>2. QED BY <1>1, <2>1, FetchKeepsPollers
<1>4. QED BY <1>2, <1>3

(* A step of the async side concerns tasks alone, a step of a caller or of *)
(* a polling thread does not concern them.                                 *)
LEMMA TaskStep ==
  ASSUME TypeOK, TaskIsReferenced, [Next]_vars
  PROVE  TaskIsReferenced'
<1> USE DEF data, control, history
<1>1. CASE DefinitionsChange \/ UNCHANGED vars
  BY <1>1 DEF DefinitionsChange, vars, TaskIsReferenced, Live
<1>2. ASSUME NEW a \in Actors, FetchStep(a) PROVE TaskIsReferenced'
  BY <1>2, FetchStepKeepsPollers DEF PollersKept, TaskIsReferenced
<1>3. ASSUME NEW c \in Callers,
             CallStart(c) \/ CallStop(c) \/ CallShutdown(c) \/ CallerStep(c)
      PROVE  TaskIsReferenced'
  <2>1. asyncTask' = asyncTask
    BY <1>3 DEF CallStart, CallStop, CallShutdown, CallerStep, CheckNoPoller, ClearStopEvent,
                RunThread, SetStopEvent, ForgetThread, CloseSync, CloseAsync, CreateThread
  <2>2. ASSUME NEW p \in Tasks PROVE pc'[p] = pc[p]
    <3>1. p \in Actors /\ p # c /\ p \notin Pollers /\ p # None
      BY KindsApart DEF Actors
    <3>2. CASE CallStart(c) \/ CallStop(c) \/ CallShutdown(c)
      BY <3>1, <3>2 DEF CallStart, CallStop, CallShutdown, BeginFetch, Goto, TypeOK
    <3>3. CASE RunThread(c)
      BY <3>1, <3>3 DEF RunThread, TypeOK
    <3>4. CASE SetStopEvent(c)
      BY <3>1, <3>4 DEF SetStopEvent
    <3>5. ASSUME NEW q \in Pollers, CreateThread(c, q) PROVE pc'[p] = pc[p]
      BY <3>1, <3>5 DEF CreateThread, TypeOK
    <3>6. CASE CheckNoPoller(c) \/ ClearStopEvent(c) \/ ForgetThread(c) \/ CloseSync(c) \/ CloseAsync(c)
      BY <3>1, <3>6 DEF CheckNoPoller, ClearStopEvent, ForgetThread, CloseSync, CloseAsync,
                        Goto, TypeOK
    <3>7. QED BY <1>3, <3>2, <3>3, <3>4, <3>5, <3>6 DEF CallerStep
  <2>3. QED BY <2>1, <2>2 DEF TaskIsReferenced, Live
<1>4. ASSUME NEW k \in Coroutines, CallAStart(k) PROVE TaskIsReferenced'
  BY <1>4, FetchKeepsPollers, KindsApart
     DEF CallAStart, BeginFetch, PollersKept, TaskIsReferenced, Actors
<1>5. ASSUME NEW k \in Coroutines, CallAStop(k) \/ CallAExit(k) PROVE TaskIsReferenced'
  <2>1. PICK label \in {"idle", "aclose"} : CancelTask(k, label)
    BY <1>5 DEF CallAStop, CallAExit
  <2>2. CASE asyncTask = None
    BY <2>1, <2>2, KindsApart DEF CancelTask, Goto, TypeOK, TaskIsReferenced, Live, Actors
  <2>3. CASE asyncTask # None
    <3>1. asyncTask' = None /\ pc' = [pc EXCEPT ![k] = label, ![asyncTask] = "done"]
      BY <2>1, <2>3 DEF CancelTask
    <3>2. QED BY <3>1, KindsApart DEF TypeOK, TaskIsReferenced, Live, Actors
  <2>4. QED BY <2>2, <2>3
<1>6. ASSUME NEW k \in Coroutines, CreateTask(k) PROVE TaskIsReferenced'
  <2>1. CASE syncTask = None /\ asyncTask = None
    <3>1. PICK p \in Tasks : /\ asyncTask' = p
                            /\ pc' = [pc EXCEPT ![k] = "idle", ![p] = "sleep"]
      BY <1>6, <2>1 DEF CreateTask
    <3>2. \A q \in Tasks : ~Live(q)
      BY <2>1, KindsApart DEF TaskIsReferenced
    <3>3. QED BY <3>1, <3>2, KindsApart DEF TypeOK, TaskIsReferenced, Live, Actors
  <2>2. CASE ~(syncTask = None /\ asyncTask = None)
    BY <1>6, <2>2, KindsApart DEF CreateTask, Goto, TypeOK, TaskIsReferenced, Live, Actors
  <2>3. QED BY <2>1, <2>2
<1>7. ASSUME NEW k \in Coroutines, CloseBoth(k) PROVE TaskIsReferenced'
  BY <1>7, KindsApart DEF CloseBoth, Goto, TypeOK, TaskIsReferenced, Live, Actors
<1>8. ASSUME NEW p \in Pollers \cup Tasks, PollerStep(p) PROVE TaskIsReferenced'
  <2>1. CASE TaskFetches(p) \/ PollerFetches(p)
    BY <2>1, FetchKeepsPollers
       DEF TaskFetches, PollerFetches, BeginFetch, PollersKept, TaskIsReferenced, Actors
  <2>2. CASE p \in Pollers /\ PollerLoops(p)
    BY <2>2, KindsApart DEF PollerLoops, Goto, TypeOK, TaskIsReferenced, Live, Actors
  <2>3. QED BY <1>8, <2>1, <2>2 DEF PollerStep
<1>9. QED
  BY <1>1, <1>2, <1>3, <1>4, <1>5, <1>6, <1>7, <1>8 DEF Next, CoroutineStep

-----------------------------------------------------------------------------
(* One caller                                                              *)

(* What the caller is at outside of start, stop and shutdown.              *)
Outside(c) == pc[c] \in {"idle", "fetch", "answered", "check"}

(* Nothing changes for the caller while its thread lives on.               *)
LEMMA ControlKept ==
  ASSUME TypeOK, NEW c \in Callers, Controlled(c), UNCHANGED <<stopEvent, syncTask>>,
         pc'[c] = pc[c] \/ (Outside(c) /\ Outside(c)'),
         \A p \in Pollers : (Live(p) => Live(p)') /\ (pc[p] = "unborn" => pc'[p] = "unborn")
  PROVE  Controlled(c)'
<1>1. CASE syncTask = None
  BY <1>1, KindsApart DEF Controlled, Outside
<1>2. CASE syncTask # None
  <2>1. PICK p \in Pollers : syncTask = p
    BY <1>2 DEF TypeOK
  <2>2. QED BY <2>1, KindsApart DEF Controlled, Outside, Live
<1>3. QED BY <1>1, <1>2

(* The stop event is clear as long as the caller's thread polls, and the   *)
(* caller sees to it that it never refers to a thread that has ended.      *)
LEMMA ControlStep ==
  ASSUME TypeOK, NEW c \in Callers, Callers = {c}, Controlled(c), [Next]_vars
  PROVE  Controlled(c)'
<1> USE DEF data, control, history
<1> DEFINE Same == \A p \in Pollers : pc'[p] = pc[p]
<1>a. /\ c \in Actors /\ c \notin Pollers /\ None \notin Pollers
      /\ \A p \in Pollers : p \in Actors
  BY KindsApart DEF Actors
<1>b. ASSUME Same
      PROVE  \A p \in Pollers : (Live(p) => Live(p)') /\ (pc[p] = "unborn" => pc'[p] = "unborn")
  BY <1>b DEF Live
<1>1. CASE DefinitionsChange \/ UNCHANGED vars
  BY <1>1, ControlKept DEF DefinitionsChange, vars, Live
<1>2. ASSUME NEW a \in Actors, FetchStep(a) PROVE Controlled(c)'
  <2>1. PollersKept
    BY <1>2, FetchStepKeepsPollers
  <2>2. pc'[c] = pc[c] \/ (Outside(c) /\ Outside(c)')
    BY <1>2, <1>a, AfterFetchValue
       DEF FetchStep, ServerAnswers, FetchSucceeds, FetchGetsGarbage, FetchFails, FetchRefused,
           StoreDefinitions, Goto, Fetching, TypeOK, Outside
  <2>3. QED BY <2>1, <2>2, ControlKept DEF PollersKept
<1>3. CASE CallStart(c)
  <2>1. Same
    BY <1>3, <1>a DEF CallStart, BeginFetch, Goto, TypeOK
  <2>2. Outside(c) /\ Outside(c)'
    BY <1>3, <1>a DEF CallStart, BeginFetch, Goto, TypeOK, Outside
  <2>3. QED BY <1>3, <1>b, <2>1, <2>2, ControlKept DEF CallStart
<1>4. CASE CallStop(c) \/ CallShutdown(c)
  BY <1>4, <1>a DEF CallStop, CallShutdown, Goto, TypeOK, Controlled
<1>5. CASE CheckNoPoller(c)
  <2>1. /\ Same /\ UNCHANGED <<stopEvent, syncTask>> /\ Outside(c)
        /\ pc'[c] = "idle" \/ (pc'[c] = "clear" /\ syncTask = None)
    BY <1>5, <1>a DEF CheckNoPoller, Goto, TypeOK, Outside
  <2>2. CASE pc'[c] = "idle"
    BY <1>b, <2>1, <2>2, ControlKept DEF Outside
  <2>3. CASE pc'[c] = "clear" /\ syncTask = None
    BY <2>1, <2>3 DEF Controlled
  <2>4. QED BY <2>1, <2>2, <2>3
<1>6. CASE ClearStopEvent(c)
  BY <1>6, <1>a DEF ClearStopEvent, Goto, TypeOK, Controlled
<1>7. ASSUME NEW p \in Pollers, CreateThread(c, p) PROVE Controlled(c)'
  BY <1>7, <1>a DEF CreateThread, TypeOK, Controlled
<1>8. CASE RunThread(c)
  <2>1. /\ syncTask \in Pollers /\ pc[syncTask] = "unborn" /\ ~stopEvent
        /\ UNCHANGED <<stopEvent, syncTask>>
    BY <1>8 DEF RunThread, TypeOK, Controlled
  <2>2. pc'[c] = "idle" /\ pc'[syncTask] = "loop"
    BY <1>8, <1>a, <2>1 DEF RunThread, TypeOK
  <2>3. QED BY <2>1, <2>2 DEF Controlled, Live
<1>9. CASE SetStopEvent(c)
  BY <1>9, <1>a DEF SetStopEvent, TypeOK, Controlled
<1>10. CASE ForgetThread(c)
  BY <1>10, <1>a DEF ForgetThread, Goto, TypeOK, Controlled
<1>11. CASE CloseSync(c) \/ CloseAsync(c)
  BY <1>11, <1>a DEF CloseSync, CloseAsync, Goto, TypeOK, Controlled
<1>12. ASSUME NEW k \in Coroutines,
              CallAStart(k) \/ CallAStop(k) \/ CallAExit(k) \/ CoroutineStep(k)
       PROVE  Controlled(c)'
  <2>1. UNCHANGED <<stopEvent, syncTask>>
    BY <1>12 DEF CallAStart, CallAStop, CallAExit, CoroutineStep, CreateTask, CloseBoth
  <2>2. ASSUME NEW b \in Callers \cup Pollers PROVE pc'[b] = pc[b]
    <3>1. b \in Actors /\ b # k /\ b \notin Tasks
      BY KindsApart DEF Actors
    <3>2. CASE CallAStart(k)
      BY <3>1, <3>2 DEF CallAStart, BeginFetch, Goto, TypeOK
    <3>3. CASE CallAStop(k) \/ CallAExit(k)
      BY <3>1, <3>3 DEF CallAStop, CallAExit, CancelTask, Goto, TypeOK
    <3>4. CASE CoroutineStep(k)
      BY <3>1, <3>4 DEF CoroutineStep, CreateTask, CloseBoth, Goto, TypeOK
    <3>5. QED BY <1>12, <3>2, <3>3, <3>4
  <2>3. QED BY <1>b, <2>1, <2>2, ControlKept
<1>13. ASSUME NEW p \in Pollers \cup Tasks, PollerStep(p) PROVE Controlled(c)'
  <2>1. p \in Actors /\ p # c
    BY KindsApart DEF Actors
  <2>2. CASE TaskFetches(p) \/ PollerFetches(p)
    <3>1. PollersKept
      BY <2>1, <2>2, FetchKeepsPollers DEF TaskFetches, PollerFetches, BeginFetch
    <3>2. pc'[c] = pc[c]
      BY <1>a, <2>1, <2>2 DEF TaskFetches, PollerFetches, BeginFetch, Goto, TypeOK
    <3>3. QED BY <3>1, <3>2, ControlKept DEF PollersKept
  <2>3. CASE p \in Pollers /\ PollerLoops(p)
    <3>1. /\ UNCHANGED <<stopEvent, syncTask>> /\ pc[p] = "loop"
          /\ \A b \in Actors : b # p => pc'[b] = pc[b]
          /\ pc'[p] = IF stopEvent THEN "done" ELSE "wait"
      BY <2>1, <2>3 DEF PollerLoops, Goto, TypeOK
    <3>2. CASE syncTask = p
      <4>1. pc[syncTask] = "loop" /\ syncTask # None /\ pc'[c] = pc[c]
        BY <1>a, <2>1, <3>1, <3>2, KindsApart
      <4>2. QED BY <3>1, <3>2, <4>1 DEF Controlled, Live
    <3>3. CASE syncTask # p
      <4>1. pc'[c] = pc[c] /\ (syncTask # None => pc'[syncTask] = pc[syncTask])
        BY <1>a, <2>1, <3>1, <3>3 DEF TypeOK
      <4>2. QED BY <3>1, <4>1 DEF Controlled, Live
    <3>4. QED BY <3>2, <3>3
  <2>4. QED BY <1>13, <2>2, <2>3 DEF PollerStep
<1>14. QED
  BY <1>1, <1>2, <1>3, <1>4, <1>5, <1>6, <1>7, <1>8, <1>9, <1>10, <1>11, <1>12, <1>13
     DEF Next, CallerStep

-----------------------------------------------------------------------------
(* The inductive invariant and what follows from it                        *)

(* A provider that was just made has no poller and no fetch.               *)
LEMMA InvInit == Init => IInv
<1> SUFFICES ASSUME Init PROVE IInv
  OBVIOUS
<1>1. TypeOK
  BY TypeInit
<1>2. \A a \in Actors : pc[a] \in {"idle", "unborn"}
  BY DEF Init
<1>3. TaskIsReferenced
  BY <1>2, KindsApart DEF Init, TaskIsReferenced, Live, Actors
<1>4. OneFetch /\ AnswersFresh
  BY <1>2 DEF Init, OneFetch, AnswersFresh, Fetching
<1>5. ASSUME NEW c \in Callers PROVE Controlled(c)
  BY DEF Init, Controlled, Actors
<1>6. QED BY <1>1, <1>3, <1>4, <1>5 DEF IInv

(* Every step keeps it.                                                    *)
LEMMA InvStep == IInv /\ [Next]_vars => IInv'
<1> SUFFICES ASSUME IInv, [Next]_vars PROVE IInv'
  OBVIOUS
<1>1. TypeOK'
  BY TypeStep DEF IInv
<1>2. TaskIsReferenced'
  BY TaskStep DEF IInv
<1>3. OneFetch' /\ AnswersFresh'
  BY FetchesStep DEF IInv
<1>4. ASSUME OneCaller, NEW c \in Callers PROVE Controlled(c)'
  <2>1. Callers = {c}
    BY <1>4 DEF OneCaller
  <2>2. QED BY <1>4, <2>1, ControlStep DEF IInv
<1>5. QED BY <1>1, <1>2, <1>3, <1>4 DEF IInv, OneCaller

(* The inductive invariant of polling holds, whoever starts and stops it.  *)
THEOREM InvCorrect == Spec => []IInv
<1>1. QED BY InvInit, InvStep, PTL DEF Spec

(* The provider's attributes, the actors' statements and the clients are   *)
(* well typed.                                                             *)
THEOREM TypeCorrect == Spec => []TypeOK
<1>1. IInv => TypeOK
  BY DEF IInv
<1>2. QED BY <1>1, InvCorrect, PTL

(* astart_ and astop_polling_for_definitions never lose a polling task:    *)
(* it polls exactly as long as the provider refers to it.                  *)
THEOREM TaskReferenced == Spec => []TaskIsReferenced
<1>1. IInv => TaskIsReferenced
  BY DEF IInv
<1>2. QED BY <1>1, InvCorrect, PTL

(* With one application thread, the polling thread _sync_polling_task      *)
(* refers to polls whenever no start, stop or shutdown is under way.       *)
THEOREM ThreadPolls ==
  ASSUME OneCaller
  PROVE  Spec => []ReferencedThreadPolls
<1>1. IInv => ReferencedThreadPolls
  BY DEF IInv, OneCaller, Controlled, ReferencedThreadPolls
<1>2. QED BY <1>1, InvCorrect, PTL

(* Definitions that _handle_response stores are not older than the ones it *)
(* replaces, unless fetches have overlapped or the answer was unreadable.  *)
LEMMA StepGoesForward ==
  ASSUME IInv, [Next]_vars
  PROVE  [~mixed /\ defs' # 0 => defs' >= defs]_defs
<1>1. SUFFICES ASSUME Next, ~mixed, defs' # 0, defs' # defs PROVE defs' >= defs
  BY DEF vars
<1> USE DEF data
<1>2. ASSUME NEW a \in Actors, FetchStep(a) PROVE defs' >= defs
  <2>1. pc[a] = "answered" /\ defs' = got[a]
    BY <1>1, <1>2 DEF FetchStep, ServerAnswers, FetchSucceeds, FetchGetsGarbage, FetchFails,
                      FetchRefused, StoreDefinitions
  <2>2. QED BY <1>1, <2>1 DEF IInv, AnswersFresh
<1>3. ASSUME ~ \E a \in Actors : FetchStep(a) PROVE defs' = defs
  BY <1>1, <1>3
     DEF Next, DefinitionsChange, CallStart, CallStop, CallShutdown, CallerStep, CheckNoPoller,
         ClearStopEvent, RunThread, SetStopEvent, ForgetThread, CloseSync, CloseAsync, CreateThread,
         CallAStart, CallAStop, CallAExit, CoroutineStep, CreateTask, CloseBoth, PollerStep,
         TaskFetches, PollerLoops, PollerFetches
<1>4. QED BY <1>1, <1>2, <1>3

(* Definitions do not go back to an older version unless fetches have      *)
(* overlapped.                                                             *)
THEOREM GoesForward == Spec => NoGoingBack
<1>1. IInv /\ [Next]_vars => [~mixed /\ defs' # 0 => defs' >= defs]_defs
  BY StepGoesForward
<1>2. QED BY <1>1, InvCorrect, PTL DEF Spec, NoGoingBack
=============================================================================
