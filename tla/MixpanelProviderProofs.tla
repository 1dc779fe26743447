----------------------- MODULE MixpanelProviderProofs -----------------------
(***************************************************************************)
(* Proofs about FlagLookups and MixpanelProvider for any number of calls,  *)
(* flags and threads of the executor: calls are well typed, exposures are  *)
(* due, answers are not spoiled by them, failures are logged, and what     *)
(* OpenFeature is told is true.                                            *)
(***************************************************************************)
EXTENDS MixpanelProvider, TLAPS

(* What the invariant says of one call.                                    *)
CallOK(c) ==
  /\ ExposureIsDue(c) /\ FailureIsLogged(c)
  /\ Underway(c) /\ Handled(c) /\ Answered(c) /\ Scanned(c)

-----------------------------------------------------------------------------
(* Steps that concern one call                                             *)

(* Nothing that the invariant says of call d is touched.                   *)
Untouched(d) ==
  /\ pc'[d] = pc[d] /\ answer'[d] = answer[d] /\ exposure'[d] = exposure[d]
  /\ scan'[d] = scan[d]
  /\ d \in found' <=> d \in found
  /\ d \in callback' <=> d \in callback
  /\ d \in logged' <=> d \in logged
  /\ d \in recorded' <=> d \in recorded

(* The step of one call leaves the other calls alone.                      *)
ConcernsOnly(c) ==
  /\ UNCHANGED <<op, pool, defs>>
  /\ \A d \in Calls \ {c} : Untouched(d)

(* A call that nothing touches stays as the invariant says.                *)
LEMMA UntouchedOK ==
  ASSUME NEW d \in Calls, CallOK(d), UNCHANGED <<op, pool, defs>>, Untouched(d)
  PROVE  CallOK(d)'
<1>1. ExposureIsDue(d)' /\ FailureIsLogged(d)'
  BY DEF CallOK, Untouched, ExposureIsDue, FailureIsLogged, Reports, RaisedInline
<1>2. Underway(d)' /\ Handled(d)' /\ Answered(d)'
  BY DEF CallOK, Untouched, Underway, Handled, Answered, Reports, RaisedInline
<1>3. Scanned(d)'
  BY DEF CallOK, Untouched, Scanned, LocalAllOver
<1>4. QED BY <1>1, <1>2, <1>3 DEF CallOK

(* The steps of LookupNext and of the OpenFeature provider that one call   *)
(* or its exposure takes.                                                  *)
StepOf(c) ==
  CallStep(c) \/ TrackerStarts(c) \/ TrackerEnds(c) \/ Cancel(c) \/ CheckReady(c) \/ CustomLookup(c)

(* A remote lookup begins with a request through one of the clients.       *)
LEMMA RemoteRequest ==
  ASSUME NEW c \in Calls, CallRemote(c) \/ ACallRemote(c)
  PROVE  /\ pc[c] \in {"idle", "checked"} /\ op[c].kind # "report" /\ op[c].where = "remote"
         /\ \E client : Request(c, client)
BY DEF CallRemote, ACallRemote, Begins

(* A readiness check goes on or returns; a remote provider is always ready. *)
LEMMA ReadyOrNot ==
  ASSUME NEW c \in Calls, CheckReady(c)
  PROVE  \/ Goto(c, "checked")
         \/ Return(c, "PROVIDER_NOT_READY") /\ op[c].where # "remote"
<1>1. PICK yes \in SaysReady(c) : IF yes THEN Goto(c, "checked") ELSE Return(c, "PROVIDER_NOT_READY")
  BY DEF CheckReady
<1>2. op[c].where = "remote" => yes
  BY <1>1 DEF SaysReady
<1>3. QED BY <1>1, <1>2

-----------------------------------------------------------------------------
(* Types                                                                   *)

Labels == {"asked", "checked", "idle", "sent", "scan", "dispatch", "submitted", "inline",
           "await", "over"}

Answers == Reasons \cup {"none", "variant", "all", "nothing", "reported", "raised",
                         "cancelled", "untagged", "PROVIDER_NOT_READY"}

Stages == {"none"} \cup InProgress \cup Waiting \cup Ended

Scans == [todo : SUBSET Flags, got : SUBSET Flags, since : SUBSET (Definitions \cup {NoDefinitions})]

(* All but the statement and the answer of call c stay what they are or    *)
(* well typed, and only the exposure of c moves.                           *)
Keeps(c) ==
  /\ UNCHANGED <<pool, loop, open, defs, ready>>
  /\ callback' \subseteq Calls /\ logged' \subseteq Calls /\ recorded' \subseteq Calls
  /\ found' \subseteq Calls /\ scan' \in [Calls -> Scans]
  /\ exposure' \in [Calls -> Stages]
  /\ \A d \in Calls \ {c} : exposure'[d] = exposure[d]

(* Nothing, or a proper stage of its exposure, is new for call c.          *)
LEMMA KeepsType ==
  ASSUME LookupTypeOK, NEW c \in Calls, UNCHANGED <<pool, loop, open, defs, ready, callback, logged, recorded>>,
         found' \subseteq Calls, scan' \in [Calls -> Scans],
         UNCHANGED exposure \/ \E e \in Stages : Becomes(c, e)
  PROVE  Keeps(c)
BY DEF LookupTypeOK, DispatchTypeOK, Keeps, Becomes, Stages

(* The call goes on.                                                       *)
LEMMA GotoType ==
  ASSUME LookupTypeOK, NEW c \in Calls, NEW label \in Labels \ {"over"}, pc[c] # "over",
         Goto(c, label), Keeps(c), label = "inline" <=> exposure'[c] = "inline"
  PROVE  LookupTypeOK'
<1>1. pc' \in [Calls -> Labels] /\ UNCHANGED <<op, answer>>
  BY DEF LookupTypeOK, Goto, Labels
<1>2. \A d \in Calls : /\ answer'[d] = "none" <=> pc'[d] # "over"
                       /\ pc'[d] = "inline" <=> exposure'[d] = "inline"
  <2>1. /\ pc'[c] = label /\ answer'[c] = answer[c]
        /\ \A d \in Calls \ {c} : answer'[d] = answer[d] /\ pc'[d] = pc[d] /\ exposure'[d] = exposure[d]
    BY DEF LookupTypeOK, Goto, Keeps
  <2>2. QED BY <2>1 DEF LookupTypeOK
<1>3. QED BY <1>1, <1>2 DEF LookupTypeOK, DispatchTypeOK, Keeps, Labels, Scans, Stages

(* The call returns.                                                       *)
LEMMA ReturnType ==
  ASSUME LookupTypeOK, NEW c \in Calls, NEW a \in Answers \ {"none"},
         Return(c, a), Keeps(c), exposure'[c] # "inline"
  PROVE  LookupTypeOK'
<1>1. pc' \in [Calls -> Labels] /\ answer' \in [Calls -> Answers]
  BY DEF LookupTypeOK, Return, Answers, Labels
<1>2. \A d \in Calls : /\ answer'[d] = "none" <=> pc'[d] # "over"
                       /\ pc'[d] = "inline" <=> exposure'[d] = "inline"
  <2>1. /\ answer'[c] = a /\ pc'[c] = "over" /\ exposure'[c] # "inline"
        /\ \A d \in Calls \ {c} : answer'[d] = answer[d] /\ pc'[d] = pc[d] /\ exposure'[d] = exposure[d]
    BY DEF LookupTypeOK, Return, Keeps
  <2>2. QED BY <2>1 DEF LookupTypeOK
<1>3. QED BY <1>1, <1>2 DEF LookupTypeOK, DispatchTypeOK, Keeps, Return, Answers, Labels, Scans, Stages

(* Only the exposure moves.                                                *)
LEMMA ExposureType ==
  ASSUME LookupTypeOK, NEW c \in Calls, UNCHANGED <<op, pc, answer>>,
         Keeps(c), pc[c] = "inline" <=> exposure'[c] = "inline"
  PROVE  LookupTypeOK'
BY DEF LookupTypeOK, DispatchTypeOK, Keeps, Scans, Stages

(* Definitions give a user a variant, a reason for the fallback or an      *)
(* exception.                                                              *)
LEMMA DefsType ==
  ASSUME LookupTypeOK, NEW f \in Flags
  PROVE  defs[f] \in Answers \ {"none"}
<1>1. CASE defs = NoDefinitions
  BY <1>1 DEF NoDefinitions, Answers, Reasons
<1>2. CASE defs \in Definitions
  BY <1>2, DefinitionsAssumption DEF Answers, Reasons
<1>3. QED BY <1>1, <1>2 DEF LookupTypeOK

(* What a call can return that was served, or that has failed.             *)
LEMMA Outcomes ==
  ASSUME NEW c \in Calls
  PROVE  /\ Served(c) \in Answers \ {"none"} /\ Failed(c) \in Answers \ {"none"}
         /\ {"variant", "all", "reported", "raised", "cancelled", "FLAG_NOT_FOUND",
             "BACKEND_ERROR", "PROVIDER_NOT_READY"} \subseteq Answers \ {"none"}
         /\ Reasons \cup {"variant", "untagged", "raised"} \subseteq Answers \ {"none"}
BY DEF Served, Failed, Answers, Reasons

(* A step of a call keeps the types.                                       *)
LEMMA StepTypes ==
  ASSUME LookupTypeOK, NEW c \in Calls, CallOK(c), StepOf(c)
  PROVE  LookupTypeOK'
<1> USE Outcomes DEF dispatchVars
<1>a. /\ found \cup {c} \subseteq Calls /\ callback \cup {c} \subseteq Calls
      /\ logged \cup {c} \subseteq Calls /\ recorded \cup {c} \subseteq Calls
      /\ found \subseteq Calls /\ scan \in [Calls -> Scans] /\ op[c] \in Methods
      /\ exposure[c] = "inline" <=> pc[c] = "inline"
      /\ exposure[c] \in Stages
      /\ {"inline", "queued", "dropped", "scheduled", "worker", "thread", "tracked", "failed",
          "cancelled"} \subseteq Stages
      /\ {"checked", "sent", "scan", "dispatch", "submitted", "inline", "await"} \subseteq Labels \ {"over"}
  BY DEF LookupTypeOK, DispatchTypeOK, Scans, Stages, Labels, InProgress, Waiting, Ended
<1>b. ASSUME UNCHANGED dispatchVars, UNCHANGED <<open, defs, ready>>, found' \in {found, found \cup {c}},
             scan' \in [Calls -> Scans]
      PROVE  Keeps(c) /\ exposure'[c] = exposure[c]
  <2>1. UNCHANGED <<pool, loop, open, defs, ready, callback, logged, recorded, exposure>>
    BY <1>b
  <2>2. found' \subseteq Calls
    BY <1>a, <1>b
  <2>3. Keeps(c)
    BY <1>b, <2>1, <2>2, KeepsType
  <2>4. QED BY <2>1, <2>3
<1>1. CASE CallRemote(c) \/ ACallRemote(c)
  <2>1. PICK client : Request(c, client)
    BY <1>1, RemoteRequest
  <2>2. pc[c] \in {"idle", "checked"} /\ Keeps(c) /\ exposure'[c] = exposure[c]
    BY <1>1, <1>a, <1>b, <2>1, RemoteRequest DEF Request
  <2>3. CASE client \in open
    BY <1>a, <2>1, <2>2, <2>3, GotoType DEF Request
  <2>4. CASE client \notin open
    BY <1>a, <2>1, <2>2, <2>4, ReturnType DEF Request
  <2>5. QED BY <2>3, <2>4
<1>2. CASE RequestFails(c) \/ AllAnswered(c) \/ NotInAnswer(c)
  <2>1. pc[c] = "sent" /\ Keeps(c) /\ exposure'[c] = exposure[c]
    BY <1>2, <1>a, <1>b DEF RequestFails, AllAnswered, NotInAnswer
  <2>2. PICK a \in Answers \ {"none"} : Return(c, a)
    BY <1>2 DEF RequestFails, AllAnswered, NotInAnswer
  <2>3. QED BY <1>a, <2>1, <2>2, ReturnType
<1>3. CASE InAnswer(c)
  <2>1. pc[c] = "sent" /\ Keeps(c) /\ exposure'[c] = exposure[c]
    BY <1>3, <1>a, <1>b DEF InAnswer
  <2>2. CASE Reports(c)
    BY <1>3, <1>a, <2>1, <2>2, GotoType DEF InAnswer
  <2>3. CASE ~Reports(c)
    BY <1>3, <1>a, <2>1, <2>3, ReturnType DEF InAnswer
  <2>4. QED BY <2>2, <2>3
<1>4. CASE AInAnswer(c)
  <2>1. /\ pc[c] = "sent" /\ UNCHANGED <<pool, loop, open, defs, ready, callback, logged, recorded>>
        /\ found' \subseteq Calls /\ scan' \in [Calls -> Scans] /\ Return(c, "variant")
        /\ UNCHANGED exposure \/ Becomes(c, "scheduled")
    BY <1>4, <1>a DEF AInAnswer
  <2>2. Keeps(c)
    BY <1>a, <2>1, KeepsType
  <2>3. exposure'[c] # "inline"
    BY <1>a, <2>1 DEF Becomes, LookupTypeOK, DispatchTypeOK
  <2>4. QED BY <2>1, <2>2, <2>3, ReturnType
<1>5. CASE LocalLookup(c)
  <2>1. pc[c] # "inline" /\ pc[c] # "over" /\ Keeps(c) /\ exposure'[c] = exposure[c]
    BY <1>5, <1>a, <1>b DEF LocalLookup, Begins
  <2>2. defs[op[c].flag] \in Answers \ {"none"}
    BY <1>a, DefsType DEF Methods
  <2>3. CASE defs[op[c].flag] = "variant" /\ Reports(c)
    BY <1>5, <1>a, <2>1, <2>3, GotoType DEF LocalLookup
  <2>4. CASE ~(defs[op[c].flag] = "variant" /\ Reports(c))
    BY <1>5, <1>a, <2>1, <2>2, <2>4, ReturnType DEF LocalLookup
  <2>5. QED BY <2>3, <2>4
<1>6. CASE LocalAll(c)
  <2>1. [todo |-> {f \in Flags : defs[f] # "FLAG_NOT_FOUND"}, got |-> {}, since |-> {defs}] \in Scans
    BY DEF LookupTypeOK, Scans
  <2>2. pc[c] # "inline" /\ pc[c] # "over" /\ Keeps(c) /\ exposure'[c] = exposure[c]
    BY <1>6, <1>a, <1>b, <2>1 DEF LocalAll, Begins
  <2>3. QED BY <1>6, <1>a, <2>2, GotoType DEF LocalAll
<1>21. CASE LocalAllRaises(c)
  <2>1. pc[c] = "scan" /\ Keeps(c) /\ exposure'[c] = exposure[c]
    BY <1>21, <1>a, <1>b DEF LocalAllRaises
  <2>2. QED BY <1>21, <1>a, <2>1, ReturnType DEF LocalAllRaises
<1>7. CASE LocalAllNext(c)
  <2>1. PICK f \in scan[c].todo :
          scan' = [scan EXCEPT ![c].todo = @ \ {f},
                               ![c].got = IF defs[f] = "variant" THEN @ \cup {f} ELSE @]
    BY <1>7 DEF LocalAllNext
  <2>2. scan' \in [Calls -> Scans]
    <3>1. scan[c] \in Scans /\ f \in Flags
      BY <1>a DEF Scans
    <3>2. [scan[c] EXCEPT !.todo = @ \ {f}, !.got = IF defs[f] = "variant" THEN @ \cup {f} ELSE @] \in Scans
      BY <3>1 DEF Scans
    <3>3. QED BY <1>a, <2>1, <3>2
  <2>3. Keeps(c) /\ exposure'[c] = exposure[c] /\ UNCHANGED <<op, pc, answer>>
    BY <1>7, <1>b, <2>2 DEF LocalAllNext
  <2>4. QED BY <1>a, <2>3, ExposureType
<1>8. CASE LocalAllEnds(c)
  <2>1. pc[c] = "scan" /\ Keeps(c) /\ exposure'[c] = exposure[c]
    BY <1>8, <1>a, <1>b DEF LocalAllEnds
  <2>2. QED BY <1>8, <1>a, <2>1, ReturnType DEF LocalAllEnds
<1>9. CASE Report(c)
  <2>1. pc[c] # "inline" /\ pc[c] # "over" /\ Keeps(c) /\ exposure'[c] = exposure[c]
    BY <1>9, <1>a, <1>b DEF Report, Begins
  <2>2. CASE op[c].id
    BY <1>9, <1>a, <2>1, <2>2, GotoType DEF Report
  <2>3. CASE ~op[c].id
    BY <1>9, <1>a, <2>1, <2>3, ReturnType DEF Report
  <2>4. QED BY <2>2, <2>3
<1>10. CASE AReport(c)
  <2>1. /\ pc[c] \in {"idle", "checked"}
        /\ UNCHANGED <<pool, loop, open, defs, ready, callback, logged, recorded, found, scan>>
    BY <1>10 DEF AReport, Begins
  <2>2. CASE op[c].id
    <3>1. Becomes(c, "scheduled") /\ Goto(c, "await")
      BY <1>10, <2>2 DEF AReport
    <3>2. Keeps(c) /\ exposure'[c] # "inline"
      BY <1>a, <2>1, <3>1, KeepsType DEF Becomes, LookupTypeOK, DispatchTypeOK
    <3>3. QED BY <1>a, <2>1, <3>1, <3>2, GotoType
  <2>3. CASE ~op[c].id
    <3>1. UNCHANGED exposure /\ Return(c, "reported")
      BY <1>10, <2>3 DEF AReport
    <3>2. Keeps(c) /\ exposure'[c] # "inline"
      BY <1>a, <2>1, <3>1, KeepsType
    <3>3. QED BY <1>a, <2>1, <3>1, <3>2, ReturnType
  <2>4. QED BY <2>2, <2>3
<1>11. CASE AReportEnds(c)
  <2>1. pc[c] = "await" /\ Keeps(c) /\ exposure'[c] = exposure[c]
    BY <1>11, <1>a, <1>b DEF AReportEnds
  <2>2. PICK a \in Answers \ {"none"} : Return(c, a)
    BY <1>11 DEF AReportEnds
  <2>3. QED BY <1>a, <2>1, <2>2, ReturnType
<1>12. CASE Dispatch(c)
  <2>1. pc[c] = "dispatch" /\ UNCHANGED <<found, scan, open, defs, ready>>
    BY <1>12 DEF Dispatch
  <2>2. CASE RunInline(c) /\ Goto(c, "inline")
    <3>1. Keeps(c) /\ exposure'[c] = "inline"
      BY <1>a, <2>1, <2>2, KeepsType DEF RunInline, Becomes, LookupTypeOK, DispatchTypeOK
    <3>2. QED BY <1>a, <2>1, <2>2, <3>1, GotoType
  <2>3. CASE Submit(c) /\ Goto(c, "submitted")
    <3>1. Keeps(c) /\ exposure'[c] = "queued"
      BY <1>a, <2>1, <2>3, KeepsType DEF Submit, Becomes, LookupTypeOK, DispatchTypeOK
    <3>2. QED BY <1>a, <2>1, <2>3, <3>1, GotoType
  <2>4. CASE SubmitRefused(c) /\ Return(c, Served(c))
    <3>1. Keeps(c) /\ exposure'[c] = "dropped"
      BY <1>a, <2>1, <2>4
         DEF SubmitRefused, Becomes, Keeps, LookupTypeOK, DispatchTypeOK, Stages
    <3>2. QED BY <2>1, <2>4, <3>1, ReturnType
  <2>5. QED BY <1>12, <2>2, <2>3, <2>4 DEF Dispatch
<1>13. CASE Register(c)
  <2>1. /\ pc[c] = "submitted" /\ UNCHANGED <<found, scan, open, defs, ready>>
        /\ AddDoneCallback(c) /\ Return(c, Served(c))
    BY <1>13 DEF Register
  <2>2. Keeps(c) /\ exposure'[c] = exposure[c]
    BY <1>a, <2>1 DEF AddDoneCallback, Keeps, LookupTypeOK, DispatchTypeOK, Stages
  <2>3. QED BY <1>a, <2>1, <2>2, ReturnType
<1>14. CASE InlineReturns(c) \/ InlineRaises(c)
  <2>1. /\ pc[c] = "inline" /\ UNCHANGED <<found, scan, open, defs, ready>>
        /\ TrackerReturns(c) \/ TrackerRaises(c)
    BY <1>14 DEF InlineReturns, InlineRaises
  <2>2. PICK a \in Answers \ {"none"} : Return(c, a)
    BY <1>14 DEF InlineReturns, InlineRaises
  <2>3. Keeps(c) /\ exposure'[c] \in {"tracked", "failed"}
    BY <1>a, <2>1
       DEF TrackerReturns, TrackerRaises, Becomes, Keeps, LookupTypeOK, DispatchTypeOK, Stages
  <2>4. QED BY <2>1, <2>2, <2>3, ReturnType
<1>15. CASE TrackerStarts(c)
  <2>1. exposure[c] \in {"queued", "scheduled"} /\ UNCHANGED <<op, pc, answer>>
    BY <1>15 DEF TrackerStarts, WorkerTakes, ThreadTakes, lookupVars
  <2>2. Keeps(c) /\ exposure'[c] \in {"worker", "thread"}
    BY <1>15, <1>a, KeepsType
       DEF TrackerStarts, WorkerTakes, ThreadTakes, lookupVars, Becomes, LookupTypeOK, DispatchTypeOK
  <2>3. QED BY <1>a, <2>1, <2>2, ExposureType
<1>16. CASE TrackerEnds(c)
  <2>1. /\ exposure[c] \in {"worker", "thread"} /\ UNCHANGED lookupVars
        /\ TrackerReturns(c) \/ TrackerRaises(c)
    BY <1>16 DEF TrackerEnds
  <2>2. Keeps(c) /\ exposure'[c] \in {"tracked", "failed"}
    BY <1>a, <2>1 DEF TrackerReturns, TrackerRaises, Becomes, lookupVars, Keeps, LookupTypeOK,
                      DispatchTypeOK, Stages
  <2>3. QED BY <1>a, <2>1, <2>2, ExposureType DEF lookupVars
<1>17. CASE Cancel(c)
  <2>1. /\ pc[c] \in {"sent", "await"} /\ Return(c, "cancelled")
        /\ UNCHANGED <<pool, loop, open, defs, ready, callback, logged, recorded, found, scan>>
        /\ UNCHANGED exposure \/ Becomes(c, "cancelled")
    BY <1>17 DEF Cancel, Suspended
  <2>2. Keeps(c) /\ exposure'[c] # "inline"
    BY <1>a, <2>1, KeepsType DEF Becomes, LookupTypeOK, DispatchTypeOK
  <2>3. QED BY <2>1, <2>2, ReturnType
<1>18. CASE CheckReady(c)
  <2>1. pc[c] = "asked" /\ Keeps(c) /\ exposure'[c] = exposure[c]
    BY <1>18, <1>a, <1>b DEF CheckReady
  <2>2. CASE Goto(c, "checked")
    BY <1>a, <2>1, <2>2, GotoType
  <2>3. CASE Return(c, "PROVIDER_NOT_READY")
    BY <1>a, <2>1, <2>3, ReturnType
  <2>4. QED BY <1>18, <2>2, <2>3, ReadyOrNot
<1>19. CASE CustomLookup(c)
  <2>1. pc[c] # "inline" /\ Keeps(c) /\ exposure'[c] = exposure[c]
    BY <1>19, <1>a, <1>b DEF CustomLookup, Begins
  <2>2. PICK a \in Answers \ {"none"} : Return(c, a)
    BY <1>19 DEF CustomLookup
  <2>3. QED BY <1>a, <2>1, <2>2, ReturnType
<1>20. QED
  BY <1>1, <1>2, <1>3, <1>4, <1>5, <1>6, <1>7, <1>8, <1>9, <1>10, <1>11, <1>12, <1>13, <1>14,
     <1>15, <1>16, <1>17, <1>18, <1>19, <1>21
     DEF StepOf, CallStep

-----------------------------------------------------------------------------
(* Steps                                                                   *)

(* Such a step leaves the other calls alone, and the definitions too.      *)
LEMMA StepConcerns ==
  ASSUME LookupTypeOK, NEW c \in Calls, StepOf(c)
  PROVE  ConcernsOnly(c)
<1> USE DEF LookupTypeOK, DispatchTypeOK, Goto, Return, Becomes, dispatchVars, lookupVars,
            ConcernsOnly, Untouched
<1>1. CASE CallRemote(c) \/ ACallRemote(c)
  <2>1. PICK client : Request(c, client)
    BY <1>1, RemoteRequest
  <2>2. QED BY <2>1 DEF Request
<1>2. CASE RequestFails(c) \/ AllAnswered(c) \/ NotInAnswer(c) \/ InAnswer(c) \/ AInAnswer(c)
  BY <1>2 DEF RequestFails, AllAnswered, NotInAnswer, InAnswer, AInAnswer
<1>3. CASE LocalLookup(c) \/ LocalAll(c) \/ LocalAllNext(c) \/ LocalAllRaises(c) \/ LocalAllEnds(c)
  <2>1. CASE LocalLookup(c)
    BY <2>1 DEF LocalLookup
  <2>2. CASE LocalAll(c)
    BY <2>2 DEF LocalAll
  <2>3. CASE LocalAllNext(c)
    BY <2>3 DEF LocalAllNext
  <2>4. CASE LocalAllEnds(c)
    BY <2>4 DEF LocalAllEnds
  <2>5. CASE LocalAllRaises(c)
    BY <2>5 DEF LocalAllRaises
  <2>6. QED BY <1>3, <2>1, <2>2, <2>3, <2>4, <2>5
<1>4. CASE Report(c) \/ AReport(c) \/ AReportEnds(c)
  <2>1. CASE Report(c)
    BY <2>1 DEF Report
  <2>2. CASE AReport(c)
    BY <2>2 DEF AReport
  <2>3. CASE AReportEnds(c)
    BY <2>3 DEF AReportEnds
  <2>4. QED BY <1>4, <2>1, <2>2, <2>3
<1>5. CASE Dispatch(c) \/ Register(c)
  BY <1>5 DEF Dispatch, RunInline, Submit, SubmitRefused, Register, AddDoneCallback
<1>6. CASE InlineReturns(c) \/ InlineRaises(c) \/ TrackerStarts(c) \/ TrackerEnds(c)
  BY <1>6 DEF InlineReturns, InlineRaises, TrackerStarts, TrackerEnds, WorkerTakes, ThreadTakes,
              TrackerReturns, TrackerRaises
<1>7. CASE Cancel(c) \/ CheckReady(c) \/ CustomLookup(c)
  <2>1. CASE Cancel(c)
    BY <2>1 DEF Cancel
  <2>2. CASE CheckReady(c)
    BY <2>2, ReadyOrNot DEF CheckReady
  <2>3. CASE CustomLookup(c)
    BY <2>3 DEF CustomLookup
  <2>4. QED BY <1>7, <2>1, <2>2, <2>3
<1>8. QED BY <1>1, <1>2, <1>3, <1>4, <1>5, <1>6, <1>7 DEF StepOf, CallStep

(* Such a step keeps what the invariant says of the call.                  *)
LEMMA StepOK ==
  ASSUME LookupTypeOK, NEW c \in Calls, CallOK(c), StepOf(c)
  PROVE  CallOK(c)'
<1> USE DEF LookupTypeOK, DispatchTypeOK, InProgress, Waiting, Ended, Goto, Return, Becomes, Served,
            Failed, Reasons, dispatchVars, Methods, CallOK,
            ExposureIsDue, FailureIsLogged, Underway, Handled, Answered, Scanned, Reports,
            RaisedInline, LocalAllOver
<1>1. CASE CallRemote(c) \/ ACallRemote(c)
  <2>1. PICK client : Request(c, client)
    BY <1>1, RemoteRequest
  <2>2. pc[c] \in {"idle", "checked"} /\ op[c].kind # "report" /\ op[c].where = "remote"
    BY <1>1, RemoteRequest
  <2>3. QED BY <2>1, <2>2 DEF Request
<1>2. CASE RequestFails(c)
  BY <1>2 DEF RequestFails
<1>3. CASE AllAnswered(c) \/ NotInAnswer(c)
  BY <1>3 DEF AllAnswered, NotInAnswer
<1>4. CASE InAnswer(c)
  BY <1>4 DEF InAnswer
<1>5. CASE AInAnswer(c)
  BY <1>5 DEF AInAnswer
<1>6. CASE LocalLookup(c)
  BY <1>6 DEF LocalLookup, Begins
<1>7. CASE LocalAll(c)
  BY <1>7 DEF LocalAll, Begins
<1>8. CASE LocalAllNext(c)
  BY <1>8 DEF LocalAllNext
<1>9. CASE LocalAllEnds(c)
  BY <1>9 DEF LocalAllEnds
<1>23. CASE LocalAllRaises(c)
  BY <1>23 DEF LocalAllRaises
<1>10. CASE Report(c)
  BY <1>10 DEF Report, Begins
<1>11. CASE AReport(c)
  BY <1>11 DEF AReport, Begins
<1>12. CASE AReportEnds(c)
  BY <1>12 DEF AReportEnds
<1>13. CASE Dispatch(c)
  BY <1>13 DEF Dispatch, RunInline, Submit, SubmitRefused
<1>14. CASE Register(c)
  BY <1>14 DEF Register, AddDoneCallback
<1>15. CASE InlineReturns(c)
  BY <1>15 DEF InlineReturns, TrackerReturns
<1>16. CASE InlineRaises(c)
  BY <1>16 DEF InlineRaises, TrackerRaises
<1>17. CASE TrackerStarts(c)
  BY <1>17 DEF TrackerStarts, WorkerTakes, ThreadTakes, lookupVars
<1>18. CASE TrackerEnds(c)
  BY <1>18 DEF TrackerEnds, TrackerReturns, TrackerRaises, lookupVars
<1>19. CASE Cancel(c)
  BY <1>19 DEF Cancel, Suspended
<1>20. CASE CheckReady(c)
  <2>1. pc[c] = "asked" /\ UNCHANGED <<found, scan, open, defs, ready, dispatchVars>>
    BY <1>20 DEF CheckReady
  <2>2. CASE Goto(c, "checked")
    BY <2>1, <2>2
  <2>3. CASE Return(c, "PROVIDER_NOT_READY") /\ op[c].where # "remote"
    BY <2>1, <2>3
  <2>4. QED BY <1>20, <2>2, <2>3, ReadyOrNot
<1>21. CASE CustomLookup(c)
  BY <1>21 DEF CustomLookup, Begins
<1>22. QED
  BY <1>1, <1>2, <1>3, <1>4, <1>5, <1>6, <1>7, <1>8, <1>9, <1>10, <1>11, <1>12,
     <1>13, <1>14, <1>15, <1>16, <1>17, <1>18, <1>19, <1>20, <1>21, <1>23
     DEF StepOf, CallStep

(* The surroundings change nothing that is said of a call that is over, or *)
(* say so: new definitions are noted, ended loops and pools cancel what    *)
(* waits.                                                                  *)
LEMMA SurroundingsOK ==
  ASSUME IInv, Fetch \/ Shutdown \/ EndLoop \/ EndPool
  PROVE  IInv'
<1> USE DEF IInv
<1>a. \A c \in Calls : CallOK(c)
  BY DEF CallOK
<1>1. CASE Fetch
  <2>1. /\ defs' \in Definitions \cup {NoDefinitions}
        /\ \A c \in Calls : scan'[c] = IF pc[c] = "scan" THEN [scan[c] EXCEPT !.since = @ \cup {defs'}]
                                                      ELSE scan[c]
        /\ UNCHANGED <<op, pc, answer, found, pool, loop, exposure, callback, logged, recorded>>
    BY <1>1 DEF Fetch, dispatchVars
  <2>2. LookupTypeOK'
    <3>1. ASSUME NEW c \in Calls
          PROVE  [scan[c] EXCEPT !.since = @ \cup {defs'}] \in Scans /\ scan[c] \in Scans
      <4>1. scan[c] \in Scans
        BY DEF LookupTypeOK, Scans
      <4>2. scan[c].since \cup {defs'} \subseteq Definitions \cup {NoDefinitions}
        BY <2>1, <4>1 DEF Scans
      <4>3. QED BY <4>1, <4>2 DEF Scans
    <3>2. scan' \in [Calls -> Scans]
      BY <1>1, <3>1 DEF Fetch
    <3>3. QED BY <1>1, <2>1, <3>2 DEF Fetch, LookupTypeOK, DispatchTypeOK, Scans
  <2>3. ASSUME NEW c \in Calls PROVE Scanned(c)'
    <3>1. CASE pc[c] = "scan"
      <4>1. /\ scan'[c].todo = scan[c].todo /\ scan'[c].got = scan[c].got
            /\ scan'[c].since = scan[c].since \cup {defs'}
        <5>1. scan[c] \in Scans
          BY DEF LookupTypeOK, Scans
        <5>2. scan'[c] = [scan[c] EXCEPT !.since = @ \cup {defs'}]
          BY <2>1, <3>1
        <5>3. QED BY <5>1, <5>2 DEF Scans
      <4>2. QED BY <2>1, <3>1, <4>1 DEF Scanned, LocalAllOver
    <3>2. CASE pc[c] # "scan"
      <4>1. /\ scan'[c] = scan[c] /\ pc'[c] = pc[c] /\ answer'[c] = answer[c]
            /\ LocalAllOver(c)' <=> LocalAllOver(c)
        BY <2>1, <3>2 DEF LocalAllOver
      <4>2. QED BY <3>2, <4>1 DEF Scanned
    <3>3. QED BY <3>1, <3>2
  <2>4. ASSUME NEW c \in Calls
        PROVE  /\ ExposureIsDue(c)' /\ FailureIsLogged(c)'
               /\ Underway(c)' /\ Handled(c)' /\ Answered(c)'
    BY <2>1 DEF ExposureIsDue, FailureIsLogged, Underway, Handled, Answered, Reports, RaisedInline
  <2>5. QED BY <2>2, <2>3, <2>4
<1>2. CASE Shutdown
  <2>1. LookupTypeOK'
    BY <1>2 DEF Shutdown, dispatchVars, LookupTypeOK, DispatchTypeOK
  <2>2. ASSUME NEW c \in Calls PROVE CallOK(c)'
    BY <1>2, <1>a, UntouchedOK DEF Shutdown, dispatchVars, Untouched
  <2>3. QED BY <2>1, <2>2 DEF CallOK
<1>3. CASE EndLoop
  <2>1. /\ UNCHANGED <<op, found, scan, open, defs, ready, pool, callback, logged, recorded>>
        /\ \A c \in Calls :
             /\ pc'[c] = IF Suspended(c) THEN "over" ELSE pc[c]
             /\ answer'[c] = IF Suspended(c) THEN "cancelled" ELSE answer[c]
             /\ exposure'[c] = IF exposure[c] = "scheduled" THEN "cancelled" ELSE exposure[c]
    BY <1>3 DEF EndLoop, LoopEnds
  <2>2. LookupTypeOK'
    <3>1. pc' \in [Calls -> Labels] /\ answer' \in [Calls -> Answers] /\ exposure' \in [Calls -> Stages]
      BY <1>3 DEF EndLoop, LoopEnds, LookupTypeOK, DispatchTypeOK, Labels, Answers, Stages, Ended
    <3>2. \A c \in Calls : /\ answer'[c] = "none" <=> pc'[c] # "over"
                          /\ pc'[c] = "inline" <=> exposure'[c] = "inline"
      BY <2>1 DEF LookupTypeOK, Suspended
    <3>3. loop' \in {"running", "ended"}
      BY <1>3 DEF EndLoop, LoopEnds
    <3>4. QED BY <2>1, <3>1, <3>2, <3>3
              DEF LookupTypeOK, DispatchTypeOK, Labels, Answers, Stages
  <2>3. ASSUME NEW c \in Calls
        PROVE  /\ ExposureIsDue(c)' /\ FailureIsLogged(c)'
               /\ Underway(c)' /\ Handled(c)' /\ Answered(c)' /\ Scanned(c)'
    BY <2>1 DEF ExposureIsDue, FailureIsLogged, Underway, Handled, Answered, Scanned, Reports,
                RaisedInline, LocalAllOver, Suspended, LookupTypeOK, Methods
  <2>4. QED BY <2>2, <2>3
<1>4. CASE EndPool
  <2>1. /\ UNCHANGED <<op, pc, answer, found, scan, open, defs, ready, loop, callback, logged, recorded>>
        /\ pool = "open" /\ pool' = "shut"
        /\ \A c \in Calls : \/ exposure'[c] = exposure[c]
                            \/ exposure[c] = "queued" /\ exposure'[c] = "cancelled"
    BY <1>4 DEF EndPool, PoolShutdown, lookupVars
  <2>2. LookupTypeOK'
    <3>1. exposure' \in [Calls -> Stages]
      BY <1>4 DEF EndPool, PoolShutdown, LookupTypeOK, DispatchTypeOK, Stages, Ended
    <3>2. QED BY <2>1, <3>1 DEF LookupTypeOK, DispatchTypeOK, Stages
  <2>3. ASSUME NEW c \in Calls
        PROVE  /\ ExposureIsDue(c)' /\ FailureIsLogged(c)'
               /\ Underway(c)' /\ Handled(c)' /\ Answered(c)' /\ Scanned(c)'
    BY <2>1 DEF ExposureIsDue, FailureIsLogged, Underway, Handled, Answered, Scanned, Reports,
           RaisedInline, LocalAllOver
  <2>4. QED BY <2>2, <2>3
<1>5. QED BY <1>1, <1>2, <1>3, <1>4

-----------------------------------------------------------------------------
(* The inductive invariant and what follows from it                        *)

(* No call has been made, whatever program will be tried.                  *)
LEMMA InvInit == Init => IInv
<1> SUFFICES ASSUME Init PROVE IInv
  OBVIOUS
<1>1. op \in [Calls -> Methods]
  BY ProgramsAssumption DEF Init, LookupInit
<1>2. \A c \in Calls : pc[c] \in {"asked", "idle"} /\ (pc[c] = "asked" => op[c].wrapped)
  BY DEF Init, LookupInit
<1>3. scan \in [Calls -> Scans]
  BY DEF Init, LookupInit, Scans
<1>4. LookupTypeOK
  BY <1>1, <1>2, <1>3 DEF Init, LookupInit, DispatchInit, LookupTypeOK, DispatchTypeOK, Scans
<1>5. ASSUME NEW c \in Calls
      PROVE  /\ op[c].kind = "report" => op[c].report
             /\ op[c].wrapped => op[c].kind = "get"
  BY ProgramsAssumption DEF Init, LookupInit
<1>6. ASSUME NEW c \in Calls
      PROVE  /\ ExposureIsDue(c) /\ FailureIsLogged(c)
             /\ Underway(c) /\ Handled(c) /\ Answered(c) /\ Scanned(c)
  BY <1>2, <1>5 DEF Init, LookupInit, DispatchInit, ExposureIsDue, FailureIsLogged, Underway,
                    Handled, Answered, Scanned, RaisedInline, LocalAllOver
<1>7. QED BY <1>4, <1>6 DEF IInv

(* Every step keeps the invariant.                                         *)
LEMMA InvStep == IInv /\ [Next]_vars => IInv'
<1> SUFFICES ASSUME IInv, [Next]_vars PROVE IInv'
  OBVIOUS
<1>1. LookupTypeOK /\ \A c \in Calls : CallOK(c)
  BY DEF IInv, CallOK
<1>2. ASSUME NEW c \in Calls, StepOf(c) PROVE IInv'
  <2>1. LookupTypeOK' /\ CallOK(c)' /\ ConcernsOnly(c)
    BY <1>1, <1>2, StepTypes, StepOK, StepConcerns
  <2>2. ASSUME NEW d \in Calls \ {c} PROVE CallOK(d)'
    BY <1>1, <2>1, UntouchedOK DEF ConcernsOnly
  <2>3. QED BY <2>1, <2>2 DEF IInv, CallOK
<1>3. CASE UNCHANGED vars
  <2>1. LookupTypeOK'
    BY <1>1, <1>3 DEF vars, lookupVars, dispatchVars, LookupTypeOK, DispatchTypeOK
  <2>2. ASSUME NEW c \in Calls PROVE CallOK(c)'
    BY <1>1, <1>3, UntouchedOK DEF vars, lookupVars, dispatchVars, Untouched
  <2>3. QED BY <2>1, <2>2 DEF IInv, CallOK
<1>4. QED
  BY <1>2, <1>3, SurroundingsOK DEF Next, LookupNext, StepOf

(* The inductive invariant of flag calls holds.                            *)
THEOREM InvCorrect == Spec => []IInv
<1>1. QED BY InvInit, InvStep, PTL DEF Spec

(* The calls, their exposures and the providers' state are well typed.     *)
THEOREM TypeCorrect == Spec => []TypeOK
<1>1. IInv => TypeOK
  BY DEF IInv, TypeOK
<1>2. QED BY <1>1, InvCorrect, PTL

(* get_variant and track_exposure_event report an exposure exactly when    *)
(* one is due, however calls, trackers, pools and loops interleave.        *)
THEOREM ExposuresCorrect == Spec => []ExposuresAreDue
<1>1. IInv => ExposuresAreDue
  BY DEF IInv, ExposuresAreDue
<1>2. QED BY <1>1, InvCorrect, PTL

(* A variant that was found is what the caller gets, unless the tracker    *)
(* raised in the caller's own thread.                                      *)
THEOREM AnswersCorrect == Spec => []AnswerUnspoiled
<1>1. IInv => AnswerUnspoiled
  <2>1. SUFFICES ASSUME IInv, NEW c \in found, pc[c] = "over",
                        ~RaisedInline(c),
                        NEW on \in BOOLEAN
                 PROVE  IsEnabled(answer[c], on) = on
    BY DEF AnswerUnspoiled
  <2>2. answer[c] = "variant"
    BY <2>1 DEF IInv, LookupTypeOK, Answered
  <2>3. QED BY <2>2 DEF IsEnabled, VariantValue
<1>2. QED BY <1>1, InvCorrect, PTL

(* dispatch_exposure and its done callback leave no failure on the         *)
(* executor unlogged, and log nothing else.                                *)
THEOREM LoggingCorrect == Spec => []FailuresLogged
<1>1. IInv => FailuresLogged
  BY DEF IInv, FailuresLogged
<1>2. QED BY <1>1, InvCorrect, PTL

(* A local get_all_variants that returns answers with variants the user    *)
(* had during the call, and with every variant the user had all the time;  *)
(* it raises for a flag whose lookup raises, and then only.                *)
THEOREM AllCurrent == Spec => []AllVariantsCurrent
<1>1. IInv => AllVariantsCurrent
  <2>1. SUFFICES ASSUME IInv, NEW c \in Calls, LocalAllOver(c)
                 PROVE  \/ /\ answer[c] = "all"
                           /\ \A f \in Flags :
                                /\ f \in scan[c].got => \E d \in scan[c].since : d[f] = "variant"
                                /\ (\A d \in scan[c].since : d[f] = "variant") => f \in scan[c].got
                                /\ \E d \in scan[c].since : d[f] # "raised"
                        \/ /\ answer[c] = "raised"
                           /\ \E f \in Flags : \E d \in scan[c].since : d[f] = "raised"
    BY DEF AllVariantsCurrent, LocalAllOver
  <2>2. Scanned(c)
    BY <2>1 DEF IInv
  <2>3. QED BY <2>1, <2>2 DEF Scanned
<1>2. QED BY <1>1, InvCorrect, PTL

-----------------------------------------------------------------------------
(* What OpenFeature is told                                                *)

(* A value that is converted is of the type asked for, one that is refused *)
(* is not, and only a huge integer makes the conversion raise.             *)
LEMMA ConvertHonest ==
  ASSUME NEW value \in Values, NEW type \in Types
  PROVE  /\ Convert(value, type).reason = "TARGETING_MATCH" =>
              /\ Convert(value, type).error = "none" /\ value \in Accepts(type)
              /\ type \in {"bool", "str"} => Convert(value, type).value = type
              /\ type = "int" => Convert(value, type).value \in Ints
              /\ type = "float" => Convert(value, type).value \in Floats
         /\ Convert(value, type).reason # "TARGETING_MATCH" =>
              \/ Convert(value, type) = Mismatch /\ value \notin Accepts(type)
              \/ Convert(value, type) = Overflow /\ value = "huge" /\ type = "float"
<1> USE DEF Values, Ints, Floats, Match, Mismatch, Overflow, Details, Accepts
<1>1. CASE type \in {"object"}
  BY <1>1 DEF Convert
<1>2. CASE type = "int"
  BY <1>2 DEF Convert, Instance
<1>3. CASE type = "float"
  BY <1>3 DEF Convert, AsFloat, Instance
<1>4. CASE type \in {"bool", "str"}
  BY <1>4 DEF Convert, Instance
<1>5. QED BY <1>1, <1>2, <1>3, <1>4 DEF Types

(* MixpanelProvider tells OpenFeature nothing that is not true of the      *)
(* whole evaluation.                                                       *)
THEOREM ResolutionCorrect == Spec => []ResolutionHonest
<1>1. IInv => ResolutionHonest
  <2>1. SUFFICES ASSUME IInv, NEW c \in Calls, op[c].wrapped, pc[c] = "over",
                        NEW value \in Values, NEW type \in Types
                 PROVE  LET r == Resolve(answer[c], value, type) IN
                        /\ r.reason = "TARGETING_MATCH" =>
                             /\ answer[c] = "variant" /\ (c \in found \/ op[c].where = "custom")
                             /\ value \in Accepts(type)
                             /\ type \in {"bool", "str"} => r.value = type
                             /\ type = "int" => r.value \in Ints
                             /\ type = "float" => r.value \in Floats
                        /\ c \in found => r.error \in {"none", "TYPE_MISMATCH", "GENERAL", "OverflowError"}
                        /\ c \in found /\ r.error = "none" => r.reason = "TARGETING_MATCH"
                        /\ r.error = "TYPE_MISMATCH" => answer[c] = "variant" /\ value \notin Accepts(type)
                        /\ r.error = "PROVIDER_NOT_READY" => op[c].where # "remote"
                        /\ r.reason = "raised" => answer[c] = "variant" /\ value = "huge" /\ type = "float"
    BY DEF ResolutionHonest
  <2>2. Answered(c)
    BY <2>1 DEF IInv
  <2>3. CASE answer[c] = "variant"
    <3>1. Resolve(answer[c], value, type) = Convert(value, type)
      BY <2>3 DEF Resolve
    <3>2. QED BY <2>1, <2>2, <2>3, <3>1, ConvertHonest DEF Answered, Mismatch, Overflow, Details
  <2>4. CASE answer[c] # "variant"
    <3>1. /\ Resolve(answer[c], value, type).reason \in {"DEFAULT", "ERROR"}
          /\ Resolve(answer[c], value, type).error # "TYPE_MISMATCH"
          /\ answer[c] # "PROVIDER_NOT_READY" =>
               Resolve(answer[c], value, type).error # "PROVIDER_NOT_READY"
          /\ answer[c] \in {"BACKEND_ERROR", "raised"} =>
               Resolve(answer[c], value, type).error = "GENERAL"
      BY <2>4 DEF Resolve, FallbackDetails, Details
    <3>2. c \in found => answer[c] \in {"BACKEND_ERROR", "raised"}
      BY <2>1, <2>2, <2>4 DEF Answered
    <3>3. QED BY <2>1, <2>2, <2>4, <3>1, <3>2 DEF Answered
  <2>5. QED BY <2>3, <2>4
<1>2. QED BY <1>1, InvCorrect, PTL
=============================================================================
