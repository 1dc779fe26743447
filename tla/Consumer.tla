------------------------------ MODULE Consumer ------------------------------
(***************************************************************************)
(* mixpanel.Consumer: send() posts one message or batch over HTTP.  The    *)
(* session's adapter repeats a POST that could not be made, got no answer  *)
(* or a 5xx, up to retry_limit times.  A request whose client gave up on   *)
(* it is still under way, and the service may apply it later.              *)
(*                                                                         *)
(* A call is a model value; EndpointOf, KeyOf and SecretOf are what it is  *)
(* made with.  The key of a packed call is the pair of both.  Threads      *)
(* share the session and nothing else.                                     *)
(***************************************************************************)
EXTENDS Integers, FiniteSets

CONSTANTS
  Threads, Calls, NoCall,
  Endpoints,     \* the keys of self._endpoints
  Imports,       \* "imports"
  None,          \* Python's None
  EndpointOf, KeyOf, SecretOf,
  Packed,        \* the calls whose api_key is a tuple (api_key, api_secret)
  RetryLimit,    \* retry_limit
  HasTimeout     \* whether request_timeout is not None

ASSUME CallsAssumption ==
  /\ NoCall \notin Calls /\ Packed \subseteq Calls
  /\ DOMAIN EndpointOf = Calls /\ DOMAIN KeyOf = Calls /\ DOMAIN SecretOf = Calls

ASSUME RetryAssumption == RetryLimit \in Nat /\ HasTimeout \in BOOLEAN

VARIABLES
  credentials,   \* whether self._credentials is set: chosen by the constructor
  pc,            \* per thread, "idle", "connect", "wait" or "answered"
  call,          \* per thread, its call
  left,          \* per thread, the retries it has left
  answer,        \* per thread, the answer to its last request
  inflight,      \* the requests that the service has not handled
  copies,        \* history: per call, how often the service applied it
  result         \* history: per call, how it ended

vars == <<credentials, pc, call, left, answer, inflight, copies, result>>

(* A status of 1, another status, no JSON, JSON of some other shape, 5xx.  *)
Answers == {"ok", "rejected", "unreadable", "odd", "5xx"}

-----------------------------------------------------------------------------
(* Mutant: the account is used for every endpoint.                         *)
UsesAccountAlways(c) == credentials

UsesAccount(c) == credentials /\ EndpointOf[c] = Imports

(* A tuple is unpacked, and what came as api_secret is then forgotten.     *)
ApiKey(c)    == IF c \in Packed THEN KeyOf[c][1] ELSE KeyOf[c]
ApiSecret(c) == IF c \in Packed THEN KeyOf[c][2] ELSE SecretOf[c]

(* _write_request: how the n-th request of call c identifies its sender.   *)
Request(c, n) ==
  [call |-> c, try |-> n,
   auth |-> IF UsesAccount(c) THEN "account"
            ELSE IF ApiSecret(c) # None THEN "secret" ELSE "none",
   key  |-> IF ~UsesAccount(c) /\ ApiSecret(c) # None THEN ApiKey(c) ELSE None,
   project |-> UsesAccount(c)]

Finish(t, outcome) ==
  /\ pc' = [pc EXCEPT ![t] = "idle"]
  /\ result' = [result EXCEPT ![call[t]] = outcome]
  /\ call' = [call EXCEPT ![t] = NoCall]
  /\ left' = [left EXCEPT ![t] = 0]
  /\ answer' = [answer EXCEPT ![t] = "none"]

(* Mutant: a retry is not counted.                                         *)
RetryUncounted(t) ==
  /\ pc' = [pc EXCEPT ![t] = "connect"]
  /\ answer' = [answer EXCEPT ![t] = "none"]
  /\ UNCHANGED <<call, left, result>>

(* urllib3's Retry(total=retry_limit): again, or MaxRetryError.            *)
Retry(t) ==
  IF left[t] > 0
    THEN /\ pc' = [pc EXCEPT ![t] = "connect"]
         /\ left' = [left EXCEPT ![t] = @ - 1]
         /\ answer' = [answer EXCEPT ![t] = "none"]
         /\ UNCHANGED <<call, result>>
    ELSE Finish(t, "raised")

-----------------------------------------------------------------------------
Init ==
  /\ credentials \in BOOLEAN
  /\ pc = [t \in Threads |-> "idle"]
  /\ call = [t \in Threads |-> NoCall]
  /\ left = [t \in Threads |-> 0]
  /\ answer = [t \in Threads |-> "none"]
  /\ inflight = {}
  /\ copies = [c \in Calls |-> 0]
  /\ result = [c \in Calls |-> "none"]

Unmade(c) == result[c] = "none" /\ \A t \in Threads : call[t] # c

CallSend(t, c) ==
  /\ pc[t] = "idle" /\ Unmade(c) /\ EndpointOf[c] \in Endpoints
  /\ call' = [call EXCEPT ![t] = c]
  /\ left' = [left EXCEPT ![t] = RetryLimit]
  /\ pc' = [pc EXCEPT ![t] = "connect"]
  /\ UNCHANGED <<credentials, answer, inflight, copies, result>>

CallSendUnknown(t, c) ==
  /\ pc[t] = "idle" /\ Unmade(c) /\ EndpointOf[c] \notin Endpoints
  /\ result' = [result EXCEPT ![c] = "refused"]
  /\ UNCHANGED <<credentials, pc, call, left, answer, inflight, copies>>

ConnectionFails(t) ==
  /\ pc[t] = "connect"
  /\ Retry(t)
  /\ UNCHANGED <<credentials, inflight, copies>>

Transmit(t) ==
  /\ pc[t] = "connect"
  /\ inflight' = inflight \cup {Request(call[t], RetryLimit - left[t])}
  /\ pc' = [pc EXCEPT ![t] = "wait"]
  /\ UNCHANGED <<credentials, call, left, answer, copies, result>>

AwaitedBy(t, r) ==
  pc[t] = "wait" /\ call[t] = r.call /\ r.try = RetryLimit - left[t] /\ answer[t] = "none"

(* The service applies the request or does not, and answers; a status of 1 *)
(* says that it did.  Nobody may be waiting for the answer any more.       *)
ServerHandles(r) ==
  \E applies \in BOOLEAN, a \in Answers :
    /\ a = "ok" => applies
    /\ inflight' = inflight \ {r}
    /\ copies' = IF applies THEN [copies EXCEPT ![r.call] = @ + 1] ELSE copies
    /\ answer' = [t \in Threads |-> IF AwaitedBy(t, r) THEN a ELSE answer[t]]
    /\ UNCHANGED <<credentials, pc, call, left, result>>

(* Mutant: when the timeout passes, the wait starts again.                 *)
NoAnswerWaits(t) ==
  /\ pc[t] = "wait"
  /\ answer' = [answer EXCEPT ![t] = "none"]
  /\ UNCHANGED <<credentials, pc, call, left, inflight, copies, result>>

(* request_timeout passes, or the connection breaks before the answer.     *)
NoAnswer(t) ==
  /\ pc[t] = "wait"
  /\ Retry(t)
  /\ UNCHANGED <<credentials, inflight, copies>>

AnswerArrives(t) ==
  /\ pc[t] = "wait" /\ answer[t] # "none"
  /\ pc' = [pc EXCEPT ![t] = "answered"]
  /\ UNCHANGED <<credentials, call, left, answer, inflight, copies, result>>

RetryServerError(t) ==
  /\ pc[t] = "answered" /\ answer[t] = "5xx"
  /\ Retry(t)
  /\ UNCHANGED <<credentials, inflight, copies>>

(* Mutant: the status in the answer is not looked at.                      *)
ReadAnswerLoosely(t) ==
  /\ pc[t] = "answered" /\ answer[t] # "5xx"
  /\ Finish(t, IF answer[t] = "unreadable" THEN "raised" ELSE "ok")
  /\ UNCHANGED <<credentials, inflight, copies>>

(* The HTTP status plays no part, only the JSON; an answer without the     *)
(* fields makes the code raise KeyError or TypeError.                      *)
ReadAnswer(t) ==
  /\ pc[t] = "answered" /\ answer[t] # "5xx"
  /\ Finish(t, CASE answer[t] = "ok" -> "ok"
                 [] answer[t] \in {"rejected", "unreadable"} -> "raised"
                 [] answer[t] = "odd" -> "escaped")
  /\ UNCHANGED <<credentials, inflight, copies>>

-----------------------------------------------------------------------------
ClientStep(t) ==
  ConnectionFails(t) \/ Transmit(t) \/ AnswerArrives(t) \/ RetryServerError(t) \/ ReadAnswer(t)

Next ==
  \/ \E t \in Threads, c \in Calls : CallSend(t, c) \/ CallSendUnknown(t, c)
  \/ \E t \in Threads : ClientStep(t) \/ NoAnswer(t)
  \/ \E r \in inflight : ServerHandles(r)

Spec == Init /\ [][Next]_vars

(* A thread in a call goes on, and it stops waiting if it has a timeout;   *)
(* nothing is asked of the service.                                        *)
Fairness ==
  \A t \in Threads : WF_vars(ClientStep(t)) /\ (HasTimeout => WF_vars(NoAnswer(t)))

FairSpec == Spec /\ Fairness

-----------------------------------------------------------------------------
(* Properties                                                              *)

Requests ==
  [call : Calls, try : 0..RetryLimit, auth : {"none", "secret", "account"},
   key : {None} \cup {ApiKey(c) : c \in Calls}, project : BOOLEAN]

(* A thread is in a call exactly when it has something to do, it never has *)
(* more retries left than it was given, and every request was made so.     *)
TypeOK ==
  /\ credentials \in BOOLEAN
  /\ pc \in [Threads -> {"idle", "connect", "wait", "answered"}]
  /\ call \in [Threads -> Calls \cup {NoCall}]
  /\ left \in [Threads -> 0..RetryLimit]
  /\ answer \in [Threads -> Answers \cup {"none"}]
  /\ inflight \subseteq Requests
  /\ copies \in [Calls -> Nat]
  /\ result \in [Calls -> {"none", "ok", "raised", "escaped", "refused"}]
  /\ \A t \in Threads : pc[t] = "idle" <=> call[t] = NoCall

(* The account's secret travels with imports and their project only, and   *)
(* neither a project's API secret nor its key travels beside it, on any    *)
(* attempt of any call.                                                    *)
CredentialsKeptApart ==
  \A r \in inflight :
    /\ r.auth = "account" => EndpointOf[r.call] = Imports /\ r.project /\ r.key = None
    /\ r.key # None => r.auth = "secret"

(* The inductive invariant behind ImplementsContract.  Two threads are     *)
(* never in one call; an answer belongs to a request of the call, and a    *)
(* status of 1 to one that was applied.                                    *)
CallsApart ==
  \A t \in Threads : call[t] # NoCall =>
    /\ result[call[t]] = "none"
    /\ \A u \in Threads : call[u] = call[t] => u = t

AnswersTrue ==
  \A t \in Threads :
    /\ pc[t] \in {"idle", "connect"} => answer[t] = "none"
    /\ pc[t] = "answered" => answer[t] # "none"
    /\ answer[t] = "ok" => copies[call[t]] > 0

(* What the service has applied and what it still can apply of a call is   *)
(* never more than the requests the call has made so far, at most          *)
(* retry_limit + 1, and nothing before it is made or when it is refused.   *)
Pending(c) == {r \in inflight : r.call = c}
Spent(c)   == copies[c] + Cardinality(Pending(c))
Made(t)    == RetryLimit - left[t] + IF pc[t] = "connect" THEN 0 ELSE 1

Budget ==
  /\ IsFiniteSet(inflight)
  /\ \A c \in Calls :
       /\ Spent(c) <= RetryLimit + 1
       /\ result[c] \in {"none", "refused"} /\ (\A t \in Threads : call[t] # c)
            => copies[c] = 0 /\ Pending(c) = {}
  /\ \A t \in Threads : call[t] # NoCall => Spent(call[t]) <= Made(t)

IInv == TypeOK /\ CallsApart /\ AnswersTrue /\ Budget

(* send() ends whatever the service does, if a request timeout was set.    *)
CallsReturn == \A t \in Threads : pc[t] # "idle" ~> pc[t] = "idle"

(* Consumer is the poster BufferedConsumer needs, with retry_limit + 1     *)
(* copies at most: a success was applied, retries repeat it a bounded      *)
(* number of times, and requests given up on may be applied late.          *)
Outcome(c) ==
  CASE result[c] \in {"escaped", "raised"} -> "raised"
    [] result[c] = "refused" -> "none"
    [] OTHER -> result[c]

P == INSTANCE PostContract WITH
       MaxCopies <- RetryLimit + 1,
       result <- [c \in Calls |-> Outcome(c)]
ImplementsContract == P!Spec
=============================================================================
