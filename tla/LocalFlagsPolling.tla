------------------------- MODULE LocalFlagsPolling --------------------------
(***************************************************************************)
(* mixpanel.flags.LocalFeatureFlagsProvider: how flag definitions are      *)
(* fetched, kept fresh by a polling thread or a polling task, and how      *)
(* polling is stopped.  Application threads call the sync methods,         *)
(* coroutines of one event loop the async ones; the provider locks         *)
(* nothing.  A sync method is split where another thread can get in        *)
(* between; a coroutine only where it awaits.                              *)
(*                                                                         *)
(* A set of definitions is the number of the server's state it shows, 0    *)
(* being the empty dictionary.                                             *)
(*                                                                         *)
(* Definitions marked Mutant are not part of the model: each is a bug that *)
(* one of the properties has to notice.                                    *)
(***************************************************************************)
EXTENDS Integers, FiniteSets

CONSTANTS
  Callers,        \* application threads
  Coroutines,     \* coroutines on the event loop
  Pollers,        \* bound: polling threads that can exist at once
  Tasks,          \* bound: polling tasks that can exist at once
  None,           \* Python's None
  EnablePolling,  \* config.enable_polling
  MaxVersion,     \* bound: states the server goes through
  MaxFaults       \* bound: requests that fail or are answered by garbage

ASSUME ActorsAssumption ==
  /\ Callers \cap Coroutines = {} /\ Pollers \cap Tasks = {}
  /\ (Callers \cup Coroutines) \cap (Pollers \cup Tasks) = {}
  /\ None \notin Pollers \cup Tasks

ASSUME BoundsAssumption ==
  EnablePolling \in BOOLEAN /\ MaxVersion \in Nat \ {0} /\ MaxFaults \in Nat

VARIABLES
  server,       \* the version of the definitions the server has
  defs,         \* self._flag_definitions
  ready,        \* self._are_flags_ready
  stopEvent,    \* self._sync_stop_event
  syncTask,     \* self._sync_polling_task
  asyncTask,    \* self._async_polling_task
  clients,      \* the set of HTTP clients that are open
  pc,           \* per actor, its next statement
  got,          \* per actor, the version in the response under way to it
  faults,       \* history: failed requests and garbage answers
  mixed         \* history: fetches overlapped since none was under way

vars == <<server, defs, ready, stopEvent, syncTask, asyncTask, clients, pc, got,
          faults, mixed>>

data     == <<defs, ready>>
control  == <<stopEvent, syncTask, asyncTask>>
history  == <<faults, mixed>>

Actors == Callers \cup Coroutines \cup Pollers \cup Tasks

(* What an actor does when its fetch is over, successful or not.           *)
AfterFetch(a) ==
  CASE a \in Callers    -> IF EnablePolling THEN "check" ELSE "idle"
    [] a \in Coroutines -> IF EnablePolling THEN "acreate" ELSE "idle"
    [] a \in Pollers    -> "loop"
    [] a \in Tasks      -> "sleep"

Client(a) == IF a \in Callers \cup Pollers THEN "sync" ELSE "async"

Fetching(a) == pc[a] \in {"fetch", "answered"}

(* A poller that is going to fetch again unless somebody stops it.         *)
Live(p) == pc[p] \in {"loop", "wait", "sleep", "fetch", "answered"}

LivePollers == {p \in Pollers \cup Tasks : Live(p)}

Goto(a, label) == pc' = [pc EXCEPT ![a] = label]

(* The thread or task starts a fetch: its request is on its way.           *)
BeginFetch(a) ==
  /\ Goto(a, "fetch")
  /\ mixed' = (mixed \/ \E b \in Actors \ {a} : Fetching(b))

(* It is over, one way or another: a response under way is used or gone.   *)
EndFetch(a) ==
  /\ got' = [got EXCEPT ![a] = 0]
  /\ mixed' = (mixed /\ \E b \in Actors \ {a} : Fetching(b))

-----------------------------------------------------------------------------
Init ==
  /\ server = 1 /\ defs = 0 /\ ready = FALSE
  /\ stopEvent = FALSE /\ syncTask = None /\ asyncTask = None
  /\ clients = {"sync", "async"}
  /\ pc = [a \in Actors |-> IF a \in Callers \cup Coroutines THEN "idle" ELSE "unborn"]
  /\ got = [a \in Actors |-> 0]
  /\ faults = 0 /\ mixed = FALSE

-----------------------------------------------------------------------------
(* The service, and _fetch_flag_definitions / _afetch_flag_definitions     *)

DefinitionsChange ==
  /\ server < MaxVersion
  /\ server' = server + 1
  /\ UNCHANGED <<data, control, clients, pc, got, history>>

(* Mutant: an HTTP cache in the client answers.                            *)
CacheAnswers(a) ==
  /\ pc[a] = "fetch" /\ Client(a) \in clients
  /\ \E v \in 1..server : got' = [got EXCEPT ![a] = v]
  /\ Goto(a, "answered")
  /\ UNCHANGED <<server, data, control, clients, history>>

ServerAnswers(a) ==
  /\ pc[a] = "fetch" /\ Client(a) \in clients
  /\ got' = [got EXCEPT ![a] = server]
  /\ Goto(a, "answered")
  /\ UNCHANGED <<server, data, control, clients, history>>

(* Mutant: only the first definitions are kept.                            *)
StoreFirstDefinitions(a, v) ==
  /\ defs' = IF ready THEN defs ELSE v
  /\ ready' = TRUE
  /\ EndFetch(a)
  /\ Goto(a, AfterFetch(a))

(* _handle_response: the definitions are replaced as a whole.              *)
StoreDefinitions(a, v) ==
  /\ defs' = v
  /\ ready' = TRUE
  /\ EndFetch(a)
  /\ Goto(a, AfterFetch(a))

FetchSucceeds(a) ==
  /\ pc[a] = "answered"
  /\ StoreDefinitions(a, got[a])
  /\ UNCHANGED <<server, control, clients, faults>>

(* A 200 whose body does not parse: flags = {} is stored all the same.     *)
FetchGetsGarbage(a) ==
  /\ pc[a] = "answered" /\ faults < MaxFaults
  /\ faults' = faults + 1
  /\ StoreDefinitions(a, 0)
  /\ UNCHANGED <<server, control, clients>>

(* No answer in time, an error status, a broken connection: logged only.   *)
FetchFails(a) ==
  /\ Fetching(a) /\ faults < MaxFaults
  /\ faults' = faults + 1
  /\ EndFetch(a)
  /\ Goto(a, AfterFetch(a))
  /\ UNCHANGED <<server, data, control, clients>>

(* The client was closed before the request was answered: logged only.     *)
FetchRefused(a) ==
  /\ pc[a] = "fetch" /\ Client(a) \notin clients
  /\ EndFetch(a)
  /\ Goto(a, AfterFetch(a))
  /\ UNCHANGED <<server, data, control, clients, faults>>

-----------------------------------------------------------------------------
(* start_polling_for_definitions                                           *)

CallStart(c) ==
  /\ pc[c] = "idle"
  /\ BeginFetch(c)
  /\ UNCHANGED <<server, data, control, clients, got, faults>>

CheckNoPoller(c) ==
  /\ pc[c] = "check"
  /\ Goto(c, IF syncTask = None /\ asyncTask = None THEN "clear" ELSE "idle")
  /\ UNCHANGED <<server, data, control, clients, got, history>>

ClearStopEvent(c) ==
  /\ pc[c] = "clear"
  /\ stopEvent' = FALSE
  /\ Goto(c, "create")
  /\ UNCHANGED <<server, data, syncTask, asyncTask, clients, got, history>>

CreateThread(c, p) ==
  /\ pc[c] = "create" /\ pc[p] \in {"unborn", "done"} /\ p # syncTask
  /\ syncTask' = p
  /\ pc' = [pc EXCEPT ![c] = "run", ![p] = "unborn"]
  /\ UNCHANGED <<server, data, stopEvent, asyncTask, clients, got, history>>

(* self._sync_polling_task.start() reads the attribute again: it raises if *)
(* that is None by now or a thread that somebody else has started.         *)
RunThread(c) ==
  /\ pc[c] = "run"
  /\ pc' = IF syncTask # None /\ pc[syncTask] = "unborn"
             THEN [pc EXCEPT ![c] = "idle", ![syncTask] = "loop"]
             ELSE [pc EXCEPT ![c] = "idle"]
  /\ UNCHANGED <<server, data, control, clients, got, history>>

-----------------------------------------------------------------------------
(* stop_polling_for_definitions and shutdown                               *)

CallStop(c) ==
  /\ pc[c] = "idle" /\ syncTask # None
  /\ Goto(c, "set")
  /\ UNCHANGED <<server, data, control, clients, got, history>>

CallShutdown(c) ==
  /\ pc[c] = "idle"
  /\ Goto(c, IF syncTask # None THEN "xset" ELSE "xclose")
  /\ UNCHANGED <<server, data, control, clients, got, history>>

(* Event.set() wakes the threads that wait for the event, and they leave   *)
(* their loop even if the event is cleared before they run.                *)
SetStopEvent(c) ==
  /\ pc[c] \in {"set", "xset"}
  /\ stopEvent' = TRUE
  /\ pc' = [a \in Actors |->
              IF a = c THEN IF pc[c] = "set" THEN "forget" ELSE "xforget"
              ELSE IF a \in Pollers /\ pc[a] = "wait" THEN "done" ELSE pc[a]]
  /\ UNCHANGED <<server, data, syncTask, asyncTask, clients, got, history>>

(* Mutant: the reference to the stopped thread is kept.                    *)
KeepThread(c) ==
  /\ pc[c] \in {"forget", "xforget"}
  /\ Goto(c, IF pc[c] = "forget" THEN "idle" ELSE "xclose")
  /\ UNCHANGED <<server, data, control, clients, got, history>>

ForgetThread(c) ==
  /\ pc[c] \in {"forget", "xforget"}
  /\ syncTask' = None
  /\ Goto(c, IF pc[c] = "forget" THEN "idle" ELSE "xclose")
  /\ UNCHANGED <<server, data, stopEvent, asyncTask, clients, got, history>>

CloseSync(c) ==
  /\ pc[c] = "xclose"
  /\ clients' = clients \ {"sync"}
  /\ Goto(c, "xaclose")
  /\ UNCHANGED <<server, data, control, got, history>>

CloseAsync(c) ==
  /\ pc[c] = "xaclose"
  /\ clients' = clients \ {"async"}
  /\ Goto(c, "idle")
  /\ UNCHANGED <<server, data, control, got, history>>

-----------------------------------------------------------------------------
(* _start_continuous_polling, run by a polling thread                      *)

(* Mutant: `while True` around the wait, whose result nobody looks at.     *)
PollerLoopsForever(p) ==
  /\ pc[p] = "loop"
  /\ Goto(p, "wait")
  /\ UNCHANGED <<server, data, control, clients, got, history>>

PollerLoops(p) ==
  /\ pc[p] = "loop"
  /\ Goto(p, IF stopEvent THEN "done" ELSE "wait")
  /\ UNCHANGED <<server, data, control, clients, got, history>>

PollerFetches(p) ==
  /\ pc[p] = "wait"
  /\ BeginFetch(p)
  /\ UNCHANGED <<server, data, control, clients, got, faults>>

-----------------------------------------------------------------------------
(* The async side: astart_polling_for_definitions, the task it creates,    *)
(* astop_polling_for_definitions and __aexit__                             *)

CallAStart(k) ==
  /\ pc[k] = "idle"
  /\ BeginFetch(k)
  /\ UNCHANGED <<server, data, control, clients, got, faults>>

(* Mutants: the task is kept in the thread's attribute, or created without *)
(* a look at the task there is.                                            *)
CreateTaskMisplaced(k) ==
  /\ pc[k] = "acreate"
  /\ IF syncTask = None /\ asyncTask = None
       THEN \E p \in Tasks :
              /\ pc[p] \in {"unborn", "done"}
              /\ syncTask' = p
              /\ pc' = [pc EXCEPT ![k] = "idle", ![p] = "sleep"]
       ELSE Goto(k, "idle") /\ UNCHANGED syncTask
  /\ UNCHANGED <<server, data, stopEvent, asyncTask, clients, got, history>>

CreateTaskUnchecked(k) ==
  /\ pc[k] = "acreate"
  /\ \E p \in Tasks :
       /\ pc[p] \in {"unborn", "done"}
       /\ asyncTask' = p
       /\ pc' = [pc EXCEPT ![k] = "idle", ![p] = "sleep"]
  /\ UNCHANGED <<server, data, stopEvent, syncTask, clients, got, history>>

(* The check and create_task follow the await without another one.         *)
CreateTask(k) ==
  /\ pc[k] = "acreate"
  /\ IF syncTask = None /\ asyncTask = None
       THEN \E p \in Tasks :
              /\ pc[p] \in {"unborn", "done"}
              /\ asyncTask' = p
              /\ pc' = [pc EXCEPT ![k] = "idle", ![p] = "sleep"]
       ELSE Goto(k, "idle") /\ UNCHANGED asyncTask
  /\ UNCHANGED <<server, data, stopEvent, syncTask, clients, got, history>>

(* A cancelled task ends at its await: a response under way is dropped.    *)
CancelTask(k, label) ==
  IF asyncTask # None
    THEN /\ pc' = [pc EXCEPT ![k] = label, ![asyncTask] = "done"]
         /\ EndFetch(asyncTask)
         /\ asyncTask' = None
    ELSE Goto(k, label) /\ UNCHANGED <<got, mixed, asyncTask>>

CallAStop(k) ==
  /\ pc[k] = "idle" /\ asyncTask # None
  /\ CancelTask(k, "idle")
  /\ UNCHANGED <<server, data, stopEvent, syncTask, clients, faults>>

CallAExit(k) ==
  /\ pc[k] = "idle"
  /\ CancelTask(k, "aclose")
  /\ UNCHANGED <<server, data, stopEvent, syncTask, clients, faults>>

(* The async client is closed at an await, the sync one right after it.    *)
CloseBoth(k) ==
  /\ pc[k] = "aclose"
  /\ clients' = {}
  /\ Goto(k, "idle")
  /\ UNCHANGED <<server, data, control, got, history>>

TaskFetches(p) ==
  /\ pc[p] = "sleep"
  /\ BeginFetch(p)
  /\ UNCHANGED <<server, data, control, clients, got, faults>>

-----------------------------------------------------------------------------
FetchStep(a) ==
  ServerAnswers(a) \/ FetchSucceeds(a) \/ FetchGetsGarbage(a) \/ FetchFails(a) \/ FetchRefused(a)

CallerStep(c) ==
  \/ CheckNoPoller(c) \/ ClearStopEvent(c) \/ RunThread(c) \/ SetStopEvent(c)
  \/ ForgetThread(c) \/ CloseSync(c) \/ CloseAsync(c)
  \/ \E p \in Pollers : CreateThread(c, p)

CoroutineStep(k) == CreateTask(k) \/ CloseBoth(k)

PollerStep(p) == IF p \in Tasks THEN TaskFetches(p) ELSE PollerLoops(p) \/ PollerFetches(p)

Next ==
  \/ DefinitionsChange
  \/ \E a \in Actors : FetchStep(a)
  \/ \E c \in Callers : CallStart(c) \/ CallStop(c) \/ CallShutdown(c) \/ CallerStep(c)
  \/ \E k \in Coroutines : CallAStart(k) \/ CallAStop(k) \/ CallAExit(k) \/ CoroutineStep(k)
  \/ \E p \in Pollers \cup Tasks : PollerStep(p)

Spec == Init /\ [][Next]_vars

(* A fetch is answered or runs into request_timeout_in_seconds, a call     *)
(* that was made goes on, and a poller's interval passes.  Whether anybody *)
(* calls is up to the application.                                         *)
Fairness ==
  /\ \A a \in Actors : WF_vars(FetchStep(a))
  /\ \A c \in Callers : WF_vars(CallerStep(c))
  /\ \A k \in Coroutines : WF_vars(CoroutineStep(k))
  /\ \A p \in Pollers \cup Tasks : WF_vars(PollerStep(p))

FairSpec == Spec /\ Fairness

-----------------------------------------------------------------------------
(* Properties                                                              *)

(* The attributes, the references to the pollers and the statement every   *)
(* thread and coroutine is at.                                             *)
TypeOK ==
  /\ server \in 1..MaxVersion /\ defs \in 0..MaxVersion /\ ready \in BOOLEAN
  /\ stopEvent \in BOOLEAN
  /\ syncTask \in Pollers \cup {None} /\ asyncTask \in Tasks \cup {None}
  /\ clients \subseteq {"sync", "async"}
  /\ pc \in [Actors -> {"idle", "fetch", "answered", "check", "clear", "create", "run",
                        "set", "forget", "xset", "xforget", "xclose", "xaclose",
                        "acreate", "aclose", "unborn", "loop", "wait", "sleep", "done"}]
  /\ got \in [Actors -> 0..MaxVersion]
  /\ faults \in 0..MaxFaults /\ mixed \in BOOLEAN

(* At most one thread or task polls: start_polling_for_definitions starts  *)
(* one "if one does not already exist".  A thread that was told to stop    *)
(* and is on its last fetch does not count.                                *)
AtMostOnePoller == ~stopEvent => Cardinality(LivePollers) <= 1

(* The async side alone keeps that promise: at most one task polls, and it *)
(* is the one astop_polling_for_definitions would cancel, whatever other   *)
(* coroutines did while a fetch was awaited.                               *)
TaskIsReferenced == \A p \in Tasks : Live(p) <=> asyncTask = p

(* Between calls, a thread the provider refers to is polling: "already     *)
(* running" is never said of a thread that has ended.  One thread has to   *)
(* start and stop it: a start that meets another thread's stop can leave a *)
(* reference to a thread that has met the old stop event.                  *)
ReferencedThreadPolls ==
  (\A c \in Callers : pc[c] \in {"idle", "fetch", "answered", "check"})
     => (syncTask # None => Live(syncTask))

(* Definitions do not go back to an older version unless fetches have      *)
(* overlapped (an unreadable answer may empty them).                       *)
NoGoingBack == [][~mixed /\ defs' # 0 => defs' >= defs]_defs

(* The inductive invariant behind TaskIsReferenced, ReferencedThreadPolls  *)
(* and NoGoingBack.  Where fetches have not overlapped, there is one at a  *)
(* time, and what it brings is not older than what is stored; where one    *)
(* thread controls polling, the stop event is clear and the thread it has  *)
(* created runs, from the creation up to the next stop.                    *)
OneCaller == \E c \in Callers : Callers = {c}

OneFetch == ~mixed => \A a, b \in Actors : Fetching(a) /\ Fetching(b) => a = b

AnswersFresh ==
  /\ defs <= server
  /\ \A a \in Actors : pc[a] = "answered" => got[a] <= server /\ (~mixed => got[a] >= defs)

Controlled(c) ==
  /\ pc[c] \in {"idle", "fetch", "answered", "check"} =>
       (syncTask # None => Live(syncTask) /\ ~stopEvent)
  /\ pc[c] \in {"clear", "create", "xclose", "xaclose"} => syncTask = None
  /\ pc[c] = "run" => syncTask # None /\ pc[syncTask] = "unborn"
  /\ pc[c] \in {"create", "run"} => ~stopEvent

IInv ==
  /\ TypeOK
  /\ TaskIsReferenced
  /\ OneFetch
  /\ AnswersFresh
  /\ OneCaller => \A c \in Callers : Controlled(c)

(* Every thread that polls when the stop event is set ends, unless the     *)
(* event is cleared again before it looks.                                 *)
StopEndsPolling ==
  \A p \in Pollers : stopEvent /\ Live(p) ~> ~stopEvent \/ ~Live(p)

Polling == \E p \in Pollers \cup Tasks : Live(p) /\ Client(p) \in clients

(* While one poller goes on polling with an open client, what the provider *)
(* evaluates with becomes and stays what the server has: a failed or       *)
(* unreadable fetch is made up for by a later one.                         *)
DefinitionsConverge == <>[]Polling => <>[](defs = server /\ ready)
=============================================================================
