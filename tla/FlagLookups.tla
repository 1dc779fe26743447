----------------------------- MODULE FlagLookups ----------------------------
(***************************************************************************)
(* The flag methods of RemoteFeatureFlagsProvider and of                   *)
(* LocalFeatureFlagsProvider, up to the end of the exposure event that     *)
(* they report.  Each call is made once, in a thread of its own or, async, *)
(* in a coroutine of one event loop; a coroutine is split where it awaits. *)
(*                                                                         *)
(* A call is about one user.  Definitions, as the local provider stores    *)
(* them, are what they make of that user: per flag, "variant", the reason  *)
(* for the fallback or, where get_variant raises, "raised"                 *)
(* (LocalFlagsEvaluation says how that is found).                          *)
(*                                                                         *)
(* Definitions marked Mutant are not part of the model: each is a bug that *)
(* one of the properties has to notice.                                    *)
(***************************************************************************)
EXTENDS ExposureDispatch

CONSTANTS
  Flags,
  Programs,     \* bound: the sets of calls tried, functions from Calls
  Definitions   \* bound: what the definitions on the server can be

(* A call: the method, the provider, how it is called, whether exposures   *)
(* are reported and the context has a distinct_id.                         *)
Methods ==
  [kind : {"get", "all", "report"}, where : {"local", "remote", "custom"},
   async : BOOLEAN, report : BOOLEAN, id : BOOLEAN, flag : Flags, wrapped : BOOLEAN]

Reasons == {"FLAG_NOT_FOUND", "NO_ROLLOUT_MATCH", "MISSING_CONTEXT_KEY", "BACKEND_ERROR"}

NoDefinitions == [f \in Flags |-> "FLAG_NOT_FOUND"]

(* track_exposure_event has no switch that keeps it from reporting, and    *)
(* OpenFeature asks for one variant at a time.                             *)
ASSUME ProgramsAssumption ==
  /\ Programs \subseteq [Calls -> Methods]
  /\ \A program \in Programs, c \in Calls :
       /\ program[c].kind = "report" => program[c].report
       /\ program[c].wrapped => program[c].kind = "get"

ASSUME DefinitionsAssumption ==
  Definitions \subseteq [Flags -> (Reasons \ {"BACKEND_ERROR"}) \cup {"variant", "raised"}]

VARIABLES
  op,       \* the call's method and arguments
  pc,       \* per call, its next statement
  answer,   \* per call, what it returned: "variant", a reason, ...
  found,    \* the calls whose flag had a variant for the user
  open,     \* the HTTP clients of the remote provider that are open
  defs,     \* self._flag_definitions, as the user sees them
  ready,    \* self._are_flags_ready
  scan      \* per get_all_variants, the keys to do, those in the result,
            \* and the definitions there were since it began

callVars   == <<op, pc, answer, found, scan>>
lookupVars == <<op, pc, answer, found, scan, open, defs, ready>>
vars == <<lookupVars, dispatchVars>>

LookupInit ==
  /\ DispatchInit
  /\ op \in Programs
  /\ pc = [c \in Calls |-> IF op[c].wrapped THEN "asked" ELSE "idle"]
  /\ answer = [c \in Calls |-> "none"]
  /\ found = {}
  /\ open = {"sync", "async"}
  /\ defs = NoDefinitions /\ ready = FALSE
  /\ scan = [c \in Calls |-> [todo |-> {}, got |-> {}, since |-> {}]]

Begins(c, kind, where, async) ==
  /\ pc[c] \in {"idle", "checked"}
  /\ op[c].kind = kind /\ op[c].where = where /\ op[c].async = async
  /\ async => loop = "running"

Goto(c, label) == pc' = [pc EXCEPT ![c] = label] /\ UNCHANGED <<op, answer>>

Return(c, a) ==
  /\ pc' = [pc EXCEPT ![c] = "over"] /\ answer' = [answer EXCEPT ![c] = a]
  /\ UNCHANGED op

(* `not is_fallback and reportExposure and (distinct_id := ...)`           *)
Reports(c) == op[c].report /\ op[c].id

(* What the caller gets in the end, if nothing fails.                      *)
Served(c) == IF op[c].kind = "report" THEN "reported" ELSE "variant"

-----------------------------------------------------------------------------
(* Remote lookups                                                          *)

(* The `except Exception` of get_variant and of get_all_variants.          *)
Failed(c) == IF op[c].kind = "get" THEN "BACKEND_ERROR" ELSE "nothing"

(* A closed client raises.                                                 *)
Request(c, client) ==
  /\ IF client \in open THEN Goto(c, "sent") ELSE Return(c, Failed(c))
  /\ UNCHANGED <<found, scan, open, defs, ready, dispatchVars>>

CallRemote(c) ==
  \E kind \in {"get", "all"} : Begins(c, kind, "remote", FALSE) /\ Request(c, "sync")

ACallRemote(c) ==
  \E kind \in {"get", "all"} : Begins(c, kind, "remote", TRUE) /\ Request(c, "async")

(* No answer in time, an error status or a body that is no flags response. *)
RequestFails(c) ==
  /\ pc[c] = "sent"
  /\ Return(c, Failed(c))
  /\ UNCHANGED <<found, scan, open, defs, ready, dispatchVars>>

(* get_all_variants: all the flags of the answer.                          *)
AllAnswered(c) ==
  /\ pc[c] = "sent" /\ op[c].kind = "all"
  /\ Return(c, "all")
  /\ UNCHANGED <<found, scan, open, defs, ready, dispatchVars>>

(* _lookup_flag_in_response                                                *)
NotInAnswer(c) ==
  /\ pc[c] = "sent" /\ op[c].kind = "get"
  /\ Return(c, "FLAG_NOT_FOUND")
  /\ UNCHANGED <<found, scan, open, defs, ready, dispatchVars>>

InAnswer(c) ==
  /\ pc[c] = "sent" /\ op[c].kind = "get" /\ ~op[c].async
  /\ found' = found \cup {c}
  /\ IF Reports(c) THEN Goto(c, "dispatch") ELSE Return(c, "variant")
  /\ UNCHANGED <<scan, open, defs, ready, dispatchVars>>

(* asyncio.create_task(...): the answer does not wait for the exposure.    *)
AInAnswer(c) ==
  /\ pc[c] = "sent" /\ op[c].kind = "get" /\ op[c].async
  /\ found' = found \cup {c}
  /\ IF Reports(c) THEN Becomes(c, "scheduled") ELSE UNCHANGED exposure
  /\ Return(c, "variant")
  /\ UNCHANGED <<scan, open, defs, ready, pool, loop, callback, logged, recorded>>

-----------------------------------------------------------------------------
(* Local lookups                                                           *)

(* Mutant: a fallback is reported like a variant.                          *)
LocalLookupReportsAll(c) ==
  /\ Begins(c, "get", "local", FALSE)
  /\ LET result == defs[op[c].flag] IN
     /\ found' = IF result = "variant" THEN found \cup {c} ELSE found
     /\ IF Reports(c) THEN Goto(c, "dispatch") ELSE Return(c, result)
  /\ UNCHANGED <<scan, open, defs, ready, dispatchVars>>

LocalLookup(c) ==
  /\ Begins(c, "get", "local", FALSE)
  /\ LET result == defs[op[c].flag] IN
     /\ found' = IF result = "variant" THEN found \cup {c} ELSE found
     /\ IF result = "variant" /\ Reports(c) THEN Goto(c, "dispatch") ELSE Return(c, result)
  /\ UNCHANGED <<scan, open, defs, ready, dispatchVars>>

(* get_all_variants: `for flag_key in self._flag_definitions`, each flag   *)
(* looked up in the definitions that are stored by then.  A flag whose     *)
(* lookup raises ends the call, whatever the other flags are.              *)
LocalAll(c) ==
  /\ Begins(c, "all", "local", FALSE)
  /\ Goto(c, "scan")
  /\ scan' = [scan EXCEPT ![c] = [todo |-> {f \in Flags : defs[f] # "FLAG_NOT_FOUND"},
                                  got |-> {}, since |-> {defs}]]
  /\ UNCHANGED <<found, open, defs, ready, dispatchVars>>

(* Mutant: fallbacks are not told from variants.                           *)
LocalAllNextUnchecked(c) ==
  /\ pc[c] = "scan"
  /\ \E f \in scan[c].todo :
       scan' = [scan EXCEPT ![c].todo = @ \ {f}, ![c].got = @ \cup {f}]
  /\ UNCHANGED <<op, pc, answer, found, open, defs, ready, dispatchVars>>

LocalAllNext(c) ==
  /\ pc[c] = "scan"
  /\ \E f \in scan[c].todo :
       /\ defs[f] # "raised"
       /\ scan' = [scan EXCEPT ![c].todo = @ \ {f},
                               ![c].got = IF defs[f] = "variant" THEN @ \cup {f} ELSE @]
  /\ UNCHANGED <<op, pc, answer, found, open, defs, ready, dispatchVars>>

LocalAllRaises(c) ==
  /\ pc[c] = "scan"
  /\ \E f \in scan[c].todo : defs[f] = "raised"
  /\ Return(c, "raised")
  /\ UNCHANGED <<found, scan, open, defs, ready, dispatchVars>>

LocalAllEnds(c) ==
  /\ pc[c] = "scan" /\ scan[c].todo = {}
  /\ Return(c, "all")
  /\ UNCHANGED <<found, scan, open, defs, ready, dispatchVars>>

-----------------------------------------------------------------------------
(* track_exposure_event: without a distinct_id an error is logged.         *)
Report(c) ==
  /\ \E where \in {"local", "remote"} : Begins(c, "report", where, FALSE)
  /\ IF op[c].id THEN Goto(c, "dispatch") ELSE Return(c, "reported")
  /\ UNCHANGED <<found, scan, open, defs, ready, dispatchVars>>

(* atrack_exposure_event awaits the tracker.                               *)
AReport(c) ==
  /\ Begins(c, "report", "remote", TRUE)
  /\ IF op[c].id THEN Goto(c, "await") /\ Becomes(c, "scheduled")
                 ELSE Return(c, "reported") /\ UNCHANGED exposure
  /\ UNCHANGED <<found, scan, open, defs, ready, pool, loop, callback, logged, recorded>>

(* Mutant: a tracker that raises is not noticed.                           *)
AReportEndsIfTracked(c) ==
  /\ pc[c] = "await" /\ exposure[c] = "tracked"
  /\ Return(c, "reported")
  /\ UNCHANGED <<found, scan, open, defs, ready, dispatchVars>>

AReportEnds(c) ==
  /\ pc[c] = "await" /\ exposure[c] \in {"tracked", "failed"}
  /\ Return(c, IF exposure[c] = "tracked" THEN "reported" ELSE "raised")
  /\ UNCHANGED <<found, scan, open, defs, ready, dispatchVars>>

-----------------------------------------------------------------------------
(* The exposure of a sync call                                             *)

(* Mutant: dispatch_exposure does not catch the pool's RuntimeError.       *)
DispatchUncaught(c) ==
  /\ pc[c] = "dispatch"
  /\ \/ RunInline(c) /\ Goto(c, "inline")
     \/ Submit(c) /\ Goto(c, "submitted")
     \/ SubmitRefused(c) /\ Return(c, Failed(c))
  /\ UNCHANGED <<found, scan, open, defs, ready>>

Dispatch(c) ==
  /\ pc[c] = "dispatch"
  /\ \/ RunInline(c) /\ Goto(c, "inline")
     \/ Submit(c) /\ Goto(c, "submitted")
     \/ SubmitRefused(c) /\ Return(c, Served(c))
  /\ UNCHANGED <<found, scan, open, defs, ready>>

Register(c) ==
  /\ pc[c] = "submitted"
  /\ AddDoneCallback(c)
  /\ Return(c, Served(c))
  /\ UNCHANGED <<found, scan, open, defs, ready>>

InlineReturns(c) ==
  /\ pc[c] = "inline"
  /\ TrackerReturns(c)
  /\ Return(c, Served(c))
  /\ UNCHANGED <<found, scan, open, defs, ready>>

(* The remote get_variant catches the exception with those of the request. *)
InlineRaises(c) ==
  /\ pc[c] = "inline"
  /\ TrackerRaises(c)
  /\ Return(c, IF op[c].kind = "get" /\ op[c].where = "remote" THEN "BACKEND_ERROR" ELSE "raised")
  /\ UNCHANGED <<found, scan, open, defs, ready>>

(* Workers and the loop's threads                                          *)

(* Mutant: get_variant makes the exposure's coroutine and no task of it.   *)
TrackerStartsIfAwaited(c) ==
  /\ WorkerTakes(c) \/ (pc[c] = "await" /\ ThreadTakes(c))
  /\ UNCHANGED lookupVars

TrackerStarts(c) == (WorkerTakes(c) \/ ThreadTakes(c)) /\ UNCHANGED lookupVars

TrackerEnds(c) ==
  /\ exposure[c] \in {"worker", "thread"}
  /\ TrackerReturns(c) \/ TrackerRaises(c)
  /\ UNCHANGED lookupVars

-----------------------------------------------------------------------------
(* The surroundings                                                        *)

(* Bound: the surroundings change while there is a call to notice it.      *)
Pending(where) == \E c \in Calls : op[c].where = where /\ pc[c] # "over"

(* A polling thread stores what it fetched, nothing if it cannot read it.  *)
Fetch ==
  /\ Pending("local")
  /\ defs' \in Definitions \cup {NoDefinitions} /\ ready' = TRUE
  /\ scan' = [c \in Calls |-> IF pc[c] = "scan" THEN [scan[c] EXCEPT !.since = @ \cup {defs'}] ELSE scan[c]]
  /\ UNCHANGED <<op, pc, answer, found, open, dispatchVars>>

(* shutdown(): in a running loop it raises before the async client is      *)
(* closed.  __aexit__ closes both.                                         *)
Shutdown ==
  /\ open # {} /\ Pending("remote")
  /\ open' \in {{}, open \ {"sync"}}
  /\ UNCHANGED <<op, pc, answer, found, scan, defs, ready, dispatchVars>>

Suspended(c) == op[c].async /\ pc[c] \in {"sent", "await"}

(* CancelledError is no Exception: it passes through the except clauses.   *)
Cancel(c) ==
  /\ Suspended(c)
  /\ Return(c, "cancelled")
  /\ IF exposure[c] = "scheduled" THEN Becomes(c, "cancelled") ELSE UNCHANGED exposure
  /\ UNCHANGED <<found, scan, open, defs, ready, pool, loop, callback, logged, recorded>>

EndLoop ==
  /\ \E c \in Calls : op[c].async
  /\ LoopEnds
  /\ pc' = [c \in Calls |-> IF Suspended(c) THEN "over" ELSE pc[c]]
  /\ answer' = [c \in Calls |-> IF Suspended(c) THEN "cancelled" ELSE answer[c]]
  /\ UNCHANGED <<op, found, scan, open, defs, ready>>

EndPool == PoolShutdown /\ UNCHANGED lookupVars

-----------------------------------------------------------------------------
CallStep(c) ==
  \/ CallRemote(c) \/ ACallRemote(c) \/ RequestFails(c)
  \/ AllAnswered(c) \/ NotInAnswer(c) \/ InAnswer(c) \/ AInAnswer(c)
  \/ LocalLookup(c) \/ LocalAll(c) \/ LocalAllNext(c) \/ LocalAllRaises(c)
  \/ LocalAllEnds(c)
  \/ Report(c) \/ AReport(c) \/ AReportEnds(c)
  \/ Dispatch(c) \/ Register(c) \/ InlineReturns(c) \/ InlineRaises(c)

LookupNext ==
  \/ \E c \in Calls : CallStep(c) \/ TrackerStarts(c) \/ TrackerEnds(c) \/ Cancel(c)
  \/ Fetch \/ Shutdown \/ EndLoop \/ EndPool

(* Threads are scheduled, requests time out, the tracker ends, and workers *)
(* and the loop get to what waits.  Nobody has to make a call.             *)
LookupFairness ==
  \A c \in Calls :
    /\ WF_vars(pc[c] # "idle" /\ CallStep(c))
    /\ WF_vars(TrackerStarts(c))
    /\ WF_vars(TrackerEnds(c))

-----------------------------------------------------------------------------
(* Readings of an answer                                                   *)

(* get_variant_value: a fallback carries the fallback value.               *)
VariantValue(a, value, fallback) == IF a = "variant" THEN value ELSE fallback

(* is_enabled: `variant_value is True`, with False as the fallback.        *)
IsEnabled(a, value) == VariantValue(a, value, FALSE) = TRUE

-----------------------------------------------------------------------------
(* Properties                                                              *)

LookupTypeOK ==
  /\ DispatchTypeOK
  /\ op \in [Calls -> Methods]
  /\ pc \in [Calls -> {"asked", "checked", "idle", "sent", "scan", "dispatch", "submitted",
                       "inline", "await", "over"}]
  /\ answer \in [Calls -> Reasons \cup {"none", "variant", "all", "nothing", "reported", "raised",
                                        "cancelled", "untagged", "PROVIDER_NOT_READY"}]
  /\ \A c \in Calls : answer[c] = "none" <=> pc[c] # "over"
  /\ \A c \in Calls : pc[c] = "inline" <=> exposure[c] = "inline"
  /\ found \subseteq Calls /\ open \subseteq {"sync", "async"} /\ ready \in BOOLEAN
  /\ defs \in Definitions \cup {NoDefinitions}
  /\ scan \in [Calls -> [todo : SUBSET Flags, got : SUBSET Flags,
                         since : SUBSET (Definitions \cup {NoDefinitions})]]

(* An exposure event says that the user was given a variant: there is one  *)
(* for each variant served, if exposures are reported and the user is      *)
(* known, and for each report that was asked for, and none for a fallback, *)
(* an exception or a lookup that was cancelled.  The exception is the      *)
(* tracker that raises in the caller's thread: the caller then does        *)
(* without the variant (BACKEND_ERROR if it is remote) although its event  *)
(* may have been recorded.                                                 *)
RaisedInline(c) == pool = "none" /\ ~op[c].async /\ exposure[c] = "failed"

ExposureIsDue(c) ==
  /\ exposure[c] # "none" =>
       /\ Reports(c) /\ op[c].kind # "all"
       /\ op[c].kind = "get" => c \in found
       /\ op[c].kind = "get" /\ pc[c] = "over" => answer[c] = "variant" \/ RaisedInline(c)
  /\ /\ pc[c] = "over" /\ answer[c] # "cancelled" /\ Reports(c)
     /\ c \in found \/ op[c].kind = "report"
     => exposure[c] # "none"
  /\ c \in recorded => exposure[c] \in {"tracked", "failed"}

ExposuresAreDue == \A c \in Calls : ExposureIsDue(c)

(* A user for whom the flag has a variant gets that variant, whatever      *)
(* becomes of the exposure, with the one exception of a tracker that runs  *)
(* in the caller's thread and raises.                                      *)
AnswerUnspoiled ==
  \A c \in found :
    pc[c] = "over" /\ ~RaisedInline(c) =>
      \A on \in BOOLEAN : IsEnabled(answer[c], on) = on

(* Exposures that the executor refuses or that fail on its threads leave a *)
(* line in the log, whether the failure comes before or after the callback *)
(* is registered; those that were tracked or cancelled do not.             *)
FailureIsLogged(c) ==
  /\ pool # "none" /\ ~op[c].async /\ pc[c] = "over" /\ exposure[c] \in {"dropped", "failed"}
       => c \in logged
  /\ c \in logged => exposure[c] \in {"dropped", "failed"}

FailuresLogged == \A c \in Calls : FailureIsLogged(c)

(* The local get_all_variants can mix definitions of different times.  If  *)
(* it returns, every variant in the result was the user's at some time     *)
(* during the call, one that was the user's all the time is in it, and no  *)
(* flag's lookup raised all the time.  It raises only if there was a flag  *)
(* whose lookup raises.                                                    *)
AllVariantsCurrent ==
  \A c \in Calls :
    pc[c] = "over" /\ op[c].kind = "all" /\ op[c].where = "local" =>
      \/ /\ answer[c] = "all"
         /\ \A f \in Flags :
              /\ f \in scan[c].got => \E d \in scan[c].since : d[f] = "variant"
              /\ (\A d \in scan[c].since : d[f] = "variant") => f \in scan[c].got
              /\ \E d \in scan[c].since : d[f] # "raised"
      \/ /\ answer[c] = "raised"
         /\ \E f \in Flags : \E d \in scan[c].since : d[f] = "raised"

(* The inductive invariant behind these properties, call by call.  First,  *)
(* what a call at a statement has done so far.                             *)
Underway(c) ==
  /\ op[c].kind = "report" => op[c].report
  /\ op[c].wrapped => op[c].kind = "get"
  /\ pc[c] = "asked" => op[c].wrapped
  /\ pc[c] \in {"asked", "checked", "idle", "sent", "scan"} => c \notin found
  /\ pc[c] \in {"asked", "checked", "idle", "sent", "scan", "dispatch"} => exposure[c] = "none"
  /\ pc[c] = "sent" => op[c].where = "remote" /\ op[c].kind # "report"
  /\ pc[c] = "scan" => op[c].kind = "all"
  /\ pc[c] = "dispatch" => Reports(c) /\ op[c].kind # "all" /\ (op[c].kind = "get" => c \in found)
  /\ pc[c] \in {"dispatch", "submitted", "inline"} => ~op[c].async
  /\ pc[c] = "submitted" => exposure[c] # "none" /\ pool # "none"
  /\ pc[c] = "inline" => pool = "none"
  /\ pc[c] = "await" => op[c].async /\ op[c].kind = "report" /\ exposure[c] # "none"

(* Who runs an exposure, and who learns of its failure.                    *)
Handled(c) ==
  /\ c \in found => op[c].kind = "get"
  /\ exposure[c] = "dropped" => c \in logged
  /\ exposure[c] \in {"queued", "worker", "dropped"} => ~op[c].async /\ pool # "none"
  /\ exposure[c] \in {"scheduled", "thread"} => op[c].async
  /\ pc[c] = "over" /\ exposure[c] \in {"queued", "worker"} => c \in callback

(* What an answer says of the call.                                        *)
Answered(c) ==
  /\ pc[c] = "over" /\ c \in found =>
       \/ answer[c] = "variant"
       \/ answer[c] \in {"BACKEND_ERROR", "raised"} /\ RaisedInline(c)
  /\ answer[c] = "variant" => c \in found \/ op[c].where = "custom"
  /\ answer[c] = "PROVIDER_NOT_READY" => op[c].where # "remote"

(* How far get_all_variants is: a flag that was always the user's is in    *)
(* the result or still to do, and one that always raised is still to do.   *)
LocalAllOver(c) == pc[c] = "over" /\ op[c].kind = "all" /\ op[c].where = "local"

Scanned(c) ==
  /\ pc[c] = "scan" => defs \in scan[c].since
  /\ LocalAllOver(c) =>
       \/ answer[c] = "all" /\ scan[c].todo = {}
       \/ answer[c] = "raised" /\ \E f \in Flags : \E d \in scan[c].since : d[f] = "raised"
  /\ pc[c] = "scan" \/ LocalAllOver(c) =>
       \A f \in Flags :
         /\ f \in scan[c].got => \E d \in scan[c].since : d[f] = "variant"
         /\ (\A d \in scan[c].since : d[f] = "variant") => f \in scan[c].todo \cup scan[c].got
         /\ (\A d \in scan[c].since : d[f] = "raised") => f \in scan[c].todo

IInv ==
  /\ LookupTypeOK
  /\ \A c \in Calls : /\ ExposureIsDue(c) /\ FailureIsLogged(c)
                      /\ Underway(c) /\ Handled(c) /\ Answered(c) /\ Scanned(c)

(* Every call that was begun comes to an end.                              *)
CallsEnd == \A c \in Calls : pc[c] \notin {"asked", "idle"} ~> pc[c] = "over"

(* Every exposure that was handed on is tracked, fails or is cancelled;    *)
(* cancelled only by whoever ends the loop, the task or the executor.      *)
ExposuresEnd == \A c \in Calls : exposure[c] # "none" ~> exposure[c] \in Ended
=============================================================================
