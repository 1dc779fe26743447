---------------------------- MODULE PostContract ----------------------------
(***************************************************************************)
(* What BufferedConsumer may expect of the Consumer it wraps: a call of    *)
(* send() posts one batch.  While it lasts and even after it has ended the *)
(* service may apply the batch, MaxCopies times at most; a call that       *)
(* succeeds has had it applied; a call that raises says nothing.           *)
(***************************************************************************)
EXTENDS Integers

CONSTANTS Threads, Calls, NoCall, MaxCopies

VARIABLES
  call,     \* per thread, the call it is in
  copies,   \* per call, how often the service has applied its batch
  result    \* per call, "none", "ok" or "raised"

vars == <<call, copies, result>>

Init ==
  /\ call = [t \in Threads |-> NoCall]
  /\ copies = [c \in Calls |-> 0]
  /\ result = [c \in Calls |-> "none"]

Begin(t, c) ==
  /\ call[t] = NoCall /\ result[c] = "none" /\ \A u \in Threads : call[u] # c
  /\ call' = [call EXCEPT ![t] = c]
  /\ UNCHANGED <<copies, result>>

Apply(c) ==
  /\ copies[c] < MaxCopies
  /\ result[c] # "none" \/ \E t \in Threads : call[t] = c
  /\ copies' = [copies EXCEPT ![c] = @ + 1]
  /\ UNCHANGED <<call, result>>

End(t, outcome) ==
  /\ call[t] # NoCall
  /\ outcome = "ok" => copies[call[t]] > 0
  /\ result' = [result EXCEPT ![call[t]] = outcome]
  /\ call' = [call EXCEPT ![t] = NoCall]
  /\ UNCHANGED copies

Next ==
  \/ \E t \in Threads, c \in Calls : Begin(t, c)
  \/ \E c \in Calls : Apply(c)
  \/ \E t \in Threads, outcome \in {"ok", "raised"} : End(t, outcome)

Spec == Init /\ [][Next]_vars
=============================================================================
