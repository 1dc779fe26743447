-------------------------- MODULE ExposureDispatch --------------------------
(***************************************************************************)
(* mixpanel.flags.utils.dispatch_exposure and what it hands exposure       *)
(* events to: the tracker (Mixpanel.track) called at once, or run by the   *)
(* executor of the configuration, a ThreadPoolExecutor; and the tasks and  *)
(* threads of the event loop that the async methods use instead.  One      *)
(* exposure at most belongs to each call of a flag method.                 *)
(*                                                                         *)
(* The actions are fragments: FlagLookups joins them with the calls.       *)
(***************************************************************************)
EXTENDS Naturals, FiniteSets

CONSTANTS
  Calls,      \* the calls of flag methods
  PoolSize    \* threads of the executor

ASSUME PoolAssumption == PoolSize \in Nat \ {0}

VARIABLES
  pool,       \* exposure_executor: "none", "open" or "shut"
  loop,       \* the event loop: "running" or "ended"
  exposure,   \* per call, how far its exposure has got
  callback,   \* the calls whose future has the done callback
  logged,     \* the calls whose exposure's failure was logged
  recorded    \* the calls whose event the consumer accepted

dispatchVars == <<pool, loop, exposure, callback, logged, recorded>>

InProgress == {"inline", "worker", "thread"}  \* a tracker is running
Waiting    == {"queued", "scheduled"}
Ended      == {"tracked", "failed", "dropped", "cancelled"}

DispatchTypeOK ==
  /\ pool \in {"none", "open", "shut"}
  /\ loop \in {"running", "ended"}
  /\ exposure \in [Calls -> {"none"} \cup InProgress \cup Waiting \cup Ended]
  /\ callback \subseteq Calls /\ logged \subseteq Calls /\ recorded \subseteq Calls

DispatchInit ==
  /\ pool \in {"none", "open"}
  /\ loop = "running"
  /\ exposure = [c \in Calls |-> "none"]
  /\ callback = {} /\ logged = {} /\ recorded = {}

Becomes(c, state) == exposure' = [exposure EXCEPT ![c] = state]

-----------------------------------------------------------------------------
(* dispatch_exposure                                                       *)

(* No executor: the tracker runs in the caller's thread.                   *)
RunInline(c) ==
  /\ pool = "none"
  /\ Becomes(c, "inline")
  /\ UNCHANGED <<pool, loop, callback, logged, recorded>>

Submit(c) ==
  /\ pool = "open"
  /\ Becomes(c, "queued")
  /\ UNCHANGED <<pool, loop, callback, logged, recorded>>

(* A pool that is shut down raises RuntimeError, which is logged.          *)
SubmitRefused(c) ==
  /\ pool = "shut"
  /\ Becomes(c, "dropped")
  /\ logged' = logged \cup {c}
  /\ UNCHANGED <<pool, loop, callback, recorded>>

(* Mutant: dispatch_exposure forgets about the future.                     *)
AddDoneCallbackNever(c) == UNCHANGED dispatchVars

(* A future that has ended already runs the callback at once.              *)
AddDoneCallback(c) ==
  /\ callback' = callback \cup {c}
  /\ logged' = IF exposure[c] = "failed" THEN logged \cup {c} ELSE logged
  /\ UNCHANGED <<pool, loop, exposure, recorded>>

-----------------------------------------------------------------------------
(* The tracker's runs                                                      *)

WorkerTakes(c) ==
  /\ exposure[c] = "queued"
  /\ Cardinality({d \in Calls : exposure[d] = "worker"}) < PoolSize
  /\ Becomes(c, "worker")
  /\ UNCHANGED <<pool, loop, callback, logged, recorded>>

(* sync_to_async(..., thread_sensitive=False): a thread of the loop's.     *)
ThreadTakes(c) ==
  /\ exposure[c] = "scheduled"
  /\ Becomes(c, "thread")
  /\ UNCHANGED <<pool, loop, callback, logged, recorded>>

TrackerReturns(c) ==
  /\ exposure[c] \in InProgress
  /\ Becomes(c, "tracked")
  /\ recorded' = recorded \cup {c}
  /\ UNCHANGED <<pool, loop, callback, logged>>

(* A consumer can raise after it has accepted the event, for the failure   *)
(* of a flush.  _log_tracker_future_exception logs it.                     *)
TrackerRaises(c) ==
  /\ exposure[c] \in InProgress
  /\ Becomes(c, "failed")
  /\ recorded' \in {recorded, recorded \cup {c}}
  /\ logged' = IF c \in callback THEN logged \cup {c} ELSE logged
  /\ UNCHANGED <<pool, loop, callback>>

-----------------------------------------------------------------------------
(* The surroundings                                                        *)

(* executor.shutdown(), perhaps with cancel_futures=True: the callback     *)
(* passes over cancelled futures.                                          *)
PoolShutdown ==
  /\ pool = "open" /\ pool' = "shut"
  /\ \/ UNCHANGED exposure
     \/ exposure' = [c \in Calls |-> IF exposure[c] = "queued" THEN "cancelled" ELSE exposure[c]]
  /\ UNCHANGED <<loop, callback, logged, recorded>>

(* asyncio.run() is over: tasks that wait are cancelled, threads go on.    *)
LoopEnds ==
  /\ loop = "running" /\ loop' = "ended"
  /\ exposure' = [c \in Calls |-> IF exposure[c] = "scheduled" THEN "cancelled" ELSE exposure[c]]
  /\ UNCHANGED <<pool, callback, logged, recorded>>
=============================================================================
