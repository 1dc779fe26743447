# Formal model of the Mixpanel Python SDK

This directory holds TLA+ modules that model the Mixpanel Python library
(`src/mixpanel/` and `src/openfeature-provider/`), TLC configurations that
model-check them on small instances, and TLAPS proofs about them.
`PROJECT.json` is the index: components, runs, mutants (bugs that each property
has to notice), the map from definitions to source lines, findings, hazards and
theorems.

## 1. Inventory

The library sends messages and evaluates feature flags for an application. It
has no event loop or server of its own. Concurrency enters through the
application's threads and coroutines, through a polling thread or task, and
through the executor that may report flag exposures.

| Component | State it keeps | Operations | Interacts with |
|---|---|---|---|
| `Mixpanel` (`__init__.py` 60-680) | token, consumer, the two flag providers | `track`, `import_data`, `alias`, `merge`, `people_*`, `group_*`, context managers | calls `consumer.send`; is the `tracker` of the flag providers; closes them in `__exit__`/`__aexit__` |
| `Consumer` (695-840) | endpoints, session with a retrying adapter, credentials | `send` | the service over HTTP |
| `BufferedConsumer` (843-972) | one list per endpoint, the last API key and secret, `max_size` | `send`, `flush` | `Consumer.send`, one post per batch |
| `LocalFeatureFlagsProvider`, polling (`local_feature_flags.py` 94-172, 459-515, 549-570) | definitions, readiness, thread, task, stop event, two HTTP clients | start/stop (sync and async), `shutdown`, `__aexit__` | the service; its own thread or task |
| `LocalFeatureFlagsProvider`, evaluation (174-457) | none (reads the definitions) | `get_variant*`, `is_enabled`, `get_all_variants` | exposure dispatch |
| `RemoteFeatureFlagsProvider` | two HTTP clients | `get_variant*`, `is_enabled`, `get_all_variants`, `track_exposure_event`, sync and async | the service; exposure dispatch |
| Exposure dispatch (`utils.py` 88-140) | none | `dispatch_exposure` | an executor, or the caller's own thread, runs `Mixpanel.track` |
| OpenFeature provider (`provider.py`) | wrapped provider, context | `resolve_*_details`, `shutdown` | either flag provider |
| `ServiceAccountCredentials`, wire types | immutable | - | `Consumer`, providers |

What is hard, and what each part has to guarantee:

* **BufferedConsumer.** A post may fail between two batches of one loop or
  between two endpoints of one `flush()`. Nothing is locked, and lists are
  shared by reference and replaced by slices. It must lose no accepted message,
  resend only after a failure, return normally from `flush()` only when
  everything was sent, and keep its buffers bounded when nothing fails.
* **Consumer.** POSTs are retried after answers that were lost. Requests given
  up on may be applied later. Credentials have three origins. A success must
  mean "applied", the number of copies must be bounded, and credentials must
  not be mixed.
* **Local flags polling.** Start, stop and shutdown race with each other, with
  fetches under way and with the poller. A stop must end polling, there must be
  one poller, definitions must converge to the server's and must not go back.
* **Evaluation.** Hash bucketing, cumulative splits and overrides decide the
  variant. A rollout's user must get exactly one variant, the same every time.
* **Remote flags and exposures.** Network errors become fallbacks. An error of
  the tracker must not cost the variant. Exposures run on other threads.
* **OpenFeature provider.** Errors, readiness and type mismatches must map to
  the right resolution.
* **Mixpanel facade.** A charge is written into a dictionary of the caller's.
  `alias` bypasses the buffer. Leaving a `with` block must stop polling and
  close four HTTP clients, any of which may refuse.

`PROJECT.json` lists every hazard at its line, with the properties that would
notice it, or with a note where no property does yet.

## 2. Modules

| Module | What it is |
|---|---|
| `Delivery` | abstract specification: per endpoint, at-least-once delivery, first deliveries in the order of acceptance |
| `BufferedConsumer` | `send`, `flush`, `_flush_endpoint`, statement by statement |
| `MCBufferedConsumer` | its TLC instances |
| `BufferedConsumerProofs` | proofs about `BufferedConsumer`: nothing is lost, `flush()` is complete |
| `BufferedConsumerDeliveryProofs` | extends them: it implements `Delivery`, growth, copies |
| `PostContract` | abstract specification: what `BufferedConsumer` may expect of a post |
| `Consumer` | `send` and `_write_request`, the adapter's retries, the requests under way |
| `MCConsumer` | its TLC instance |
| `ConsumerProofs` | proofs about it: it implements `PostContract`, credentials |
| `LocalFlagsPolling` | fetching, polling thread, polling task, stop, shutdown, closing |
| `MCLocalFlagsPolling` | its TLC instances |
| `LocalFlagsPollingProofs` | proofs about it |
| `LocalFlagsEvaluation` | `get_variant` for one flag whose definition is edited and fetched again |
| `MCLocalFlagsEvaluation` | its TLC instance |
| `LocalFlagsEvaluationProofs` | proofs about it |
| `ExposureDispatch` | `dispatch_exposure`, the executor, the event loop's threads: fragments of actions |
| `FlagLookups` | extends it: the flag methods of both providers, sync and async, until their exposures have ended |
| `MixpanelProvider` | extends that: readiness and resolution of the OpenFeature provider; the composed specification |
| `MCMixpanelProvider` | its TLC instance |
| `MixpanelProviderProofs` | proofs about `FlagLookups` and `MixpanelProvider` |
| `Mixpanel` | the tracking methods, the dictionary of a charge, `alias`, the context managers |
| `MCMixpanel` | its TLC instance |
| `MixpanelProofs` | proofs about it |

Definitions commented *Mutant* are not part of a model. Each is a plausible bug
in the definition that follows it, and `PROJECT.json` names the property that
fails when it takes that definition's place.

### BufferedConsumer

Python lists are objects, so `heap[e]` holds the lists that were ever stored
for endpoint `e`, `buffers[e]` says which one `self._buffers[e]` is, and a
thread's local `buf` is a reference to one of them (`buf[t] > 0`) or a slice
of its own (`buf[t] = 0`, `rest[t]`). A call is split wherever another thread
can see or change what it uses:

    send:            CallSend (reads the list) -> AppendMessage -> RememberKey -> CheckSize
    flush:           CallFlush -> the steps below for each endpoint
    _flush_endpoint: LoadBuffer -> { NextBatch -> BeginPost (reads the key)
                       -> PostSucceeds -> Advance }* -> LoopEnds -> Publish
                     or PostFails, which ends the call and leaves the stored list as it was
    the service:     ServerApplies, at any time after BeginPost

`todo[t]` is what remains of `flush()`'s loop over the endpoints. The slices
`buf[:n]` and `buf[n:]` follow Python for every integer `n`. The key and
secret, which the code stores together, are one value.

A post is what `PostContract` says: it succeeds, and then it was applied, or it
raises, which says nothing; and the service applies it `MaxCopies` times at
most, at any time after it was made. Nothing cancels a request that the client
has given up, so a post may be applied after its call has raised, after a retry
has succeeded, and after newer posts. `posts[e]` lists the posts made with their
batch, their key and how often they have been applied; `Delivered(e)` is what
was applied at least once. A batch that the service rejects (`Poison`) is never
applied and is not listed.

What this leaves of order is what the properties say. A batch is posted only
when everything before it is delivered, so *first* deliveries keep the order of
`send()`; a copy may come late. Once a flush has published the shortened list,
its messages are not *posted* again, though an older post of them may still be
applied (`NoResendAfterPublish`).

The code does not lock. Where two threads are inside one endpoint at once it
loses messages (finding 1), so `overlapped` records the endpoints where this
has happened, and the safety properties are about all the others. With
`TakeTurns = TRUE` the callers avoid it themselves. With `FALSE` every
interleaving is explored, and the properties must hold up to the first overlap
and for ever on the other endpoints. A message counts as accepted when it has
been appended.

### Consumer

A call makes up to `RetryLimit + 1` requests: `Transmit` puts one under way or
`ConnectionFails`. `ServerHandles` takes any request that is under way,
including those whose client has given up, applies it or not, and answers. The
client meets no answer (`NoAnswer`), a 5xx (`RetryServerError`), or an answer
that is read (`ReadAnswer`): status 1, another status, no JSON, or JSON of
another shape, which makes the code raise `KeyError` (`"escaped"`). The only
thing assumed of the service is that a status of 1 means it applied the
request. Backoff times and the HTTP status of answers below 500 play no part in
the code's decisions (429 with `Retry-After`, which urllib3 also retries, is
treated as a 5xx).

The `api_key` of a call can be the pair of key and secret that
`BufferedConsumer` packs (`Packed`). It is unpacked before the credentials are
chosen, and replaces what was given as `api_secret`.

`Consumer` is shown to implement `PostContract` with
`MaxCopies = RetryLimit + 1`. `BufferedConsumer`'s steps `BeginPost`,
`ServerApplies`, `PostSucceeds` and `PostFails` are the steps of that contract,
late application included.

### LocalFlagsPolling

A set of definitions is the number of the server's version it shows. Threads
(`Callers`, `Pollers`) are split wherever another thread can interfere.
Coroutines (`Coroutines`, `Tasks`) share one event loop and are split only
where they await. A fetch is `fetch` (request under way), `answered` (response
on its way back), and then one of stored, unreadable (an empty set is stored
and the provider is ready all the same), failed, or refused because the client
was closed. `Event.set()` wakes the threads that wait, even if the event is
cleared before they run. A cancelled task ends at its await, and its response
is dropped. A new thread or task takes an identity from `Pollers` or `Tasks`
that is not in use.

A polling thread's `is_set()` and the start of its `wait()` are the steps
`PollerLoops` and `PollerFetches`: a thread that is set and cleared between the
two calls behaves like one that has not made the first call yet.

The model's callers are plain threads; `shutdown()` from inside an event loop,
which raises after closing one client, is in `Mixpanel`.

### LocalFlagsEvaluation

`get_variant` changes no state, so it is an operator, `GetVariant(f, ctx)`, and
the properties quantify over the contexts it can be called with. What does
change is the definition: the server widens a rollout or lists the variants in
another order, and `FetchDefinition` stores what it has, sorted by key. A
context is reduced to what the code asks of it: whether it has the flag's
context value, whether its `distinct_id` is a test user, another user or a value
that no dictionary can be asked for (a list, say), what a rule makes of
its custom properties, and the bucket of each hash. The code's hashes are
hundredths; `Buckets` stands for the 100. Percentages and splits are whole
buckets. Their sum is one of floats, which may come out too large by less than
a bucket, so that `hash < cumulative` holds at the bucket just above; the
definition's `roundsUp` says at which positions it does. Keys that differ in
case only are the same key here, and JSON logic is the three ways in which a rule
can go. A variant's own split may be `null`, as its type allows: the loop over the
variants raises where it would add it, unless the hash was below the sum before.

Two things are assumed of definitions (`DefinitionsAssumption`): percentages and
splits are fractions of 1.0, and the keys of a flag's variants differ, which is
how the code identifies variants (`_get_matching_variant`, `variant_splits`).
`Sorted` can therefore say where each variant goes by counting the keys up to
its own.

### ExposureDispatch, FlagLookups and MixpanelProvider

One state machine in three modules. `op[c]` is what call `c` is: `get`
(`get_variant` and its readings `get_variant_value`, `is_enabled`), `all`
(`get_all_variants`) or `report` (`track_exposure_event`); local, remote or a
custom provider; sync or async; with or without exposures, a `distinct_id`, and
OpenFeature around it. Each call is made once, at any time:

    remote sync:   CallRemote -> RequestFails | AllAnswered | NotInAnswer | InAnswer
    remote async:  ACallRemote -> RequestFails | AllAnswered | NotInAnswer | AInAnswer, or Cancel
    local:         LocalLookup, or LocalAll -> LocalAllNext* -> LocalAllEnds | LocalAllRaises
    report:        Report, or AReport -> AReportEnds
    OpenFeature:   CheckReady, then one of the lookups
    sync exposure: Dispatch -> InlineReturns | InlineRaises   (no executor)
                            -> Register                       (submitted)
                            -> the end                        (refused)

A thread is split where another actor can get in between, a coroutine only
where it awaits. The exposure of a call lives on after the call: `exposure[c]`
goes from `queued` to `worker` (executor) or from `scheduled` to `thread` (event
loop) to `tracked` or `failed`, or is cancelled. Dispatch and registration of
the callback are two steps, so a worker can fail before the callback is there.
A tracker that raises may have recorded the event (a `BufferedConsumer` appends
before its flush raises). The executor is a `ThreadPoolExecutor` that may be
shut down at any time, with or without cancelling what is queued; the loop may
end, which cancels what waits in it.

What a definition makes of one user is all that a lookup needs of it: per flag
`"variant"`, the reason for the fallback, or `"raised"`, the answer of
`LocalFlagsEvaluation`. A flag whose lookup raises ends a local
`get_all_variants`, whatever the other flags are. `Fetch` is the polling of `LocalFlagsPolling` as the
lookups see it. The remote service answers each request as it likes.

The readiness check asks any provider that has `are_flags_ready()`: the local one
has it, the remote one has not, and a custom one may have it and say yes or no.
`Resolve(answer, value, type)` is the rest of `_resolve`: a pure function, so
the properties quantify over the kinds of JSON values and the types that can be
asked for, in every state in which a call is over.

### Mixpanel

A call of a tracking method is `Begin`, for a charge `UpdateAmount` (it writes
`"$amount"` into the caller's dictionary), `Serialize` (which reads it), and
`Send` or `SendRaises`, or for `alias` `SendDirectly` or `DirectRaises`. The
consumer is the contract of its class: it accepts a message, or raises with or
without having accepted it, and delivers in the order of acceptance, at once or
later. Duplicates are left to `Delivery` and `PostContract`. What an event says
(token, time, insert id, and which of the library, the caller and `meta` wins)
is data that no property is about, except the amount.

The end of the block is `Leave`, `LeaveLocal`, `LeaveRemote`; how the block is
left is `sync`, `loop` (a plain `with` in a coroutine) or `async`. Closing an
async client raises in a running loop, and may raise elsewhere (a connection
that belongs to another loop); closing the sync client is taken not to raise.

## 3. Runs

| Run | Question | Bounds | Distinct states |
|---|---|---|---|
| `buffered_threads` | safety under every interleaving of two threads | 1 endpoint, 3 messages, `max_size` 2, 1 failure, overlaps not avoided | 944 k |
| `buffered_exclusive` | refinement of `Delivery`, growth, duplicates, posts of what was confirmed | 2 threads taking turns, 2 endpoints, 3 messages and one for no endpoint, `max_size` 1, 2 copies per post, in time or late, 1 failure | 363 k |
| `buffered_single` | liveness of `send` and `flush` | 1 thread, 2 endpoints, 4 messages (one always rejected) and one for no endpoint, 2 copies per post, 1 failure | 120 k |
| `consumer_retries` | contract, credentials, return | 3 calls, one with a packed key and secret, 2 retries, every answer, with and without account | 72 k |
| `polling_races` | one task, no going back | 1 thread, 2 coroutines, 2 polling threads, 2 tasks, 2 versions, 1 failure | 1.5 M |
| `polling_live` | stop ends polling, convergence | 1 thread, 2 polling threads, 2 versions, 2 failures | 28 k |
| `flag_lookups` | answers, exposures, logs, `get_all_variants`, OpenFeature's resolution, and the end of every call and exposure | 2 calls: one of 19 methods beside one of 2, 2 flags, 3 definitions (one of which makes a lookup raise), 1 worker | 199 k |
| `facade` | charges, `alias`, leaving the block | 2 threads, 3 calls, 1 dictionary, 2 sets of providers | 1.8 M |
| `evaluation_edits` | shares, reach of rollouts, exceptions, who keeps a variant | 3 buckets, 0, 2 or 3 variants, one with a `null` split, 2 rollouts in 4 combinations of rules, overrides and splits, with and without salt, rounding and test users | 14 k |
| `buffered_two_threads_lose`, `buffered_key`, `polling_two_pollers` | findings | smallest instance that shows them | - |

Why the bounds are enough: what can go wrong in `BufferedConsumer` needs a
second batch in one loop (a failed post leaves more than `max_size` messages,
or a send fills up a list while another is being posted), a second endpoint in
one `flush()`, a failure between two deliveries, and two threads inside one
endpoint. Each run has those it is about, and the safety properties are proved
for every size. `Cap` stands for the 50 of `min(50, max_size)` and lies above
`max_size` so that the two can be told apart. In the polling runs two pollers
are enough for one that was told to stop to meet its successor, and two
versions for an old answer to meet a newer one. In `evaluation_edits` every
context is one of 324 that differ in what the code can see, and every percentage
of both rollouts is reached; three buckets have a lower end, an upper end and
an inside. One edit between two fetches is a bound of
the model, also for the theorem: of edits that are fetched together the answers in
between are skipped. In `flag_lookups` two calls are enough to contend for the one worker,
to meet a pool or a loop on its way out, and to have definitions replaced
between two reads; every method meets an async remote lookup and a local one
through OpenFeature. The surroundings (fetches, shutdown) change only while a
call can notice it. In `facade` a charge meets another one and a third call
that reuses the dictionary; the people and group methods take the path of
`track`. `MaxCalls`, `Programs`, `Methods`, `Configured`, `MaxCopies`, `MaxFaults`,
`MaxVersion`, `Pollers` and `Tasks` are bounds of the model; the code has none.

The inductive invariants of the proofs are invariants of runs as well: `IInv` of
each model in `buffered_threads`, `consumer_retries`, `polling_races`,
`evaluation_edits`, `flag_lookups` and `facade`, and `DeliveryInv` of
`BufferedConsumer` in `buffered_exclusive`. All but the one of
`LocalFlagsEvaluation` contain the models' `TypeOK`.

Messages are sent once each. Symmetry is used for threads and pollers
(`Callers`, `Alike`), and in `buffered_threads`, where all messages are events
without a key and none is rejected, for the messages as well
(`CallersAndEvents`). No liveness run uses symmetry.

**Fairness.** `BufferedConsumer`: a thread inside a call goes on, a post is
answered or times out, and the application calls `flush()` again and again, as
the class's documentation asks. `FlushDelivers` is about that application.
Sends are never forced. `Consumer`: a thread goes on and stops waiting when its
timeout passes. Nothing is assumed of the service. The default
`request_timeout` is `None`, and without a timeout `CallsReturn` fails against
a service that never answers. `LocalFlagsPolling`: fetches end (the providers
always set a timeout), calls go on, intervals pass. No call is ever forced.
`MixpanelProvider`: a call that has begun goes on (its request has a timeout),
workers and the loop's threads get to what waits, and a tracker ends, which is
`CallsReturn` of `Consumer`. Fetches, shutdowns, cancellations and the calls
themselves are never forced.

`CHECK_DEADLOCK FALSE` appears in `ConsumerRetries.cfg`, `FlagLookups.cfg` and
`Facade.cfg`, where every call is made once and the system then stops.

## 4. Findings

1. **Two threads lose messages** (`buffered_two_threads_lose`). While one
   thread posts a batch another appends to the same list. The first then stores
   its slice, taken before the append, or the second appends to a list that has
   been replaced. The message is nowhere.
2. **The API key of another call** (`buffered_key`). The key is kept in the
   instance, once for all endpoints and all buffered messages. An import is sent
   with a key and then an event without one: `flush()` posts the import without
   its key.
3. **Two pollers** (`polling_two_pollers`). `stop` followed by `start` while
   the polling thread is in a fetch clears the stop event before the thread
   looks at it. It polls on, unreferenced, beside the new thread.

Also met while modelling, without a run of their own:

* A batch that the service always rejects blocks everything behind it,
  including later endpoints of `flush()`. `buffered_single` therefore has its
  rejected message on the last endpoint.
* `max_size <= 0` makes the first `send` loop for ever.
* `__aexit__` leaves a polling thread running with a closed client, and leaving
  `with Mixpanel(...)` inside a coroutine closes one client of four.
* `get_variant` raises instead of returning the fallback if a flag has test users
  and the `distinct_id` has no hash (a list), and for the users of a rollout if the
  flag has no variants, if a `null` split comes into the sum, or if a legacy rule
  meets a custom property that is no string. Of the inputs modelled these are all
  (`RaisesOnlyOnBadInput`). One such flag aborts `get_all_variants` for every
  other flag (`AllVariantsCurrent`).
* Widening a rollout can therefore take a variant from a user: the wider rollout
  comes first, and its legacy rule, or its splits where rollouts differ in them,
  make the lookup raise for somebody who had a variant of a later rollout
  (`Moved` in `KeepsVariant`).
* A post that a failed call has made can be applied after newer ones. No document
  promises anything about order.
* An inline tracker that raises turns a remote variant into the fallback and
  makes a local lookup raise, after the event may have been recorded. It is the
  one way to an exposure without a variant (`ExposuresAreDue`).
* Through OpenFeature, an exposure is reported before the value's type is found
  wrong; and an integer above the largest float raises `OverflowError`.
* The OpenFeature provider turns whole floats of the context into integers
  (`_unwrap_value`), though its README says "There is no transformation".
* Threads that pass one dictionary to `people_track_charge` can be charged each
  other's amount, and the amount stays in the caller's dictionary.
* Leaving a `with Mixpanel(...)` block does not flush a `BufferedConsumer`, and
  `alias()` ignores the host and the credentials of the consumer.
* Two concurrent `start` calls can both create a thread. And a `start` that has
  checked and cleared the stop event, and then meets another thread's `stop`,
  leaves a reference to a thread that ends: later starts find polling "already
  running". `ReferencedThreadPolls` therefore holds for one application thread.
* An API key without a secret is not transmitted (`CHANGES.txt` and
  `CHANGELOG.md` disagree on whether it should be).

## 5. Proofs

The theorems hold for every value of the constants that satisfies the modules'
named assumptions. They are one per row, `Spec => ...` unless said otherwise.

| Module | Theorem | States | Argument |
|---|---|---|---|
| `BufferedConsumerProofs` | `TypeCorrect` | `TypeOK` | |
| | `InvCorrect` | `IInv` | see below |
| | `NothingLost` | `NoLoss` | from `IInv` |
| | `FlushIsComplete` | `FlushKeepsItsWord` | from `IInv` |
| | `NothingResent` | `NoResendAfterPublish` | step by step, from `IInv` |
| `BufferedConsumerDeliveryProofs` | `DeliveryCorrect` | `DeliveryInv` | see below |
| | `DeliversInOrder` | `ImplementsDelivery`, if `TakeTurns` | step simulation |
| | `GrowthBounded` | `GrowthBoundedByFailures`, if `Poison = {}` and `MaxSize > 0` | from `DeliveryInv` |
| | `DeliveriesBounded` | `DeliveredAtMost`, if `Poison = {}` | from `DeliveryInv` |
| `ConsumerProofs` | `TypeCorrect`, `InvCorrect` | `TypeOK`, `IInv` | |
| | `CredentialsAreKeptApart` | `CredentialsKeptApart` | every step, from `IInv` |
| | `Implements` | `ImplementsContract` | step simulation |
| `LocalFlagsPollingProofs` | `TypeCorrect`, `InvCorrect` | `TypeOK`, `IInv` | |
| | `TaskReferenced` | `TaskIsReferenced` | part of `IInv` |
| | `ThreadPolls` | `ReferencedThreadPolls`, if `OneCaller` | from `IInv` |
| | `GoesForward` | `NoGoingBack` | step by step, from `IInv` |
| `LocalFlagsEvaluationProofs` | `InvCorrect` | `IInv` | |
| | `TypeCorrect` | `TypeOK` | by cases of `get_variant`, from `IInv` and the lemmas about sorting |
| | `RaisesCorrect` | `RaisesOnlyOnBadInput` | by cases of `get_variant`, from `IInv` |
| | `SharesCorrect` | `SharesAreSplits` | the shares as intervals |
| | `ReachCorrect` | `RolloutsReachTheirShare` | counting pairs of hashes |
| | `VariantsKept` | `KeepsVariant` | step by step, from `IInv` |
| `MixpanelProviderProofs` | `TypeCorrect`, `InvCorrect` | `TypeOK`, `IInv` | |
| | `ExposuresCorrect` | `ExposuresAreDue` | part of `IInv` |
| | `AnswersCorrect` | `AnswerUnspoiled` | from `IInv` |
| | `LoggingCorrect` | `FailuresLogged` | part of `IInv` |
| | `AllCurrent` | `AllVariantsCurrent` | from `IInv` |
| | `ResolutionCorrect` | `ResolutionHonest` | from `IInv`, by cases of `_resolve` |
| `MixpanelProofs` | `TypeCorrect`, `InvCorrect` | `TypeOK`, `IInv` | |
| | `ChargesCorrect` | `ChargeIsOwn` | part of `IInv` |
| | `AliasesDirect` | `AliasIsDirect` | part of `IInv` |
| | `ExitCorrect` | `ExitCleansUp` | part of `IInv` |

No safety invariant is inductive as it stands, and what each needs is the
interesting part.

**Nothing is lost.** That a batch which is dropped from a local list has been
delivered, and that a list which is stored is still the whole of what is not
delivered, has to be known at every statement in between. `IInv` of
`BufferedConsumer` adds, for every endpoint in which no two threads have met: at
most one thread is inside; what it works on holds all that is accepted and not
delivered, and only messages of the current list; its batch is the head of that
list; after a success the batch is delivered; and at `Publish` nothing is left.
For `flush()` it adds what each call still owes: whatever was accepted before
the call is delivered on every endpoint that is not in `todo` any more. The
proof has one lemma per kind of step (`SendKeepsOrder`, `AppendKeepsOrder`,
`FlushKeepsOrder`, `DeliveryKeepsOrder`, `PublishKeepsOrder`) over the framing
lemma `EndpointStep`: it is enough to look at the thread that moves, provided it
is alone in its endpoint. The list lemmas (`SliceCutInRange`, `Slices`) are
where the arithmetic of Python's slices is used: a cut splits a list into two
parts that together hold its messages, for every integer `max_size`.

**Order, growth and copies.** `DeliveryInv` speaks of sequences where `IInv`
speaks of sets. `InOrder`: the current list, and what a flush has left of its
own copy, is a tail of what was accepted (`EndOf`), everything before the tail
is delivered, and a list holds no message twice. `Growth`: a list that is not being flushed
is shorter than the batch size, and by one message longer at most for each post
that has failed. `PostsInOrder`: every post is a run of what was accepted, and what comes before
the run is delivered. `Copies` counts posts, not deliveries, because a delivery
may come at any time: of the posts of a message every one but the last has
failed, and each is applied `MaxCopies` times at most. `NewMessages`: what is
about to be appended is new everywhere. The lemmas about `EndOf` (appending to a list,
cutting off its head, joining) carry the induction over the batches. In the step
simulation `AppendMessage` is the abstract `Accept`, `BeginPost` is `Offer` (a
stutter for a batch that the service rejects), `ServerApplies` is `Deliver`,
`Publish` is `Confirm`, and every other step is a stutter.

`TakeTurns` is what the library leaves to its callers, and the subject of
finding 1: without it the refinement is false. `Poison = {}` (no batch is
rejected for ever) and `MaxSize > 0` are needed because a rejected batch is
posted again and again without being counted in `faults`, and because with `max_size <= 0` every list is longer than the batch size.

**The contract of a post.** A call may have several requests under way at
once, because the client gives up on some, so counting copies needs the
requests too. `Budget` says that copies and requests under way together
(`Spent`) never exceed the requests made, `RetryLimit + 1` when the call ends;
`AnswersTrue` that a status of 1 on its way belongs to a call that was applied;
`CallsApart` that no two threads are in the same call. In the simulation `ServerHandles`
is the contract's application, in time or late, and an end of the call is one of
the contract's ends. `Implements` and `DeliversInOrder` together are the
library's promise: the first justifies what `BufferedConsumer` assumes of
a post.

**Polling.** `OneFetch` says that as long as fetches have not overlapped there
is one at most; `AnswersFresh` that neither a stored nor a fetched version is
newer than the server's, nor, while fetches do not overlap, a fetched one older
than the stored one. `Controlled` is for one caller: where its next statement is decides
whether the thread it refers to lives and the stop event is clear.

**Evaluation.** `IInv` says that what is stored is the server's definition with
its variants sorted, except that rollouts may have been widened on the server
since. The arguments about lookups follow the code:

* *Sorting.* Keys differ, so the number of keys up to a variant's own is its
  place, and every place is taken once (`Ranks`). The result is in order
  (`SortedInOrder`) and is a function of the set of variants alone
  (`OrderIrrelevant`), which is why the server may list them in another order.
* *Widening.* A hash below a percentage stays below a larger one
  (`StillStops`), so the first rollout that fits can only move forward. The rollout
  that a user moves to may be one that makes the lookup raise; the proof shows
  that a user who is not moved keeps the answer. The
  variant depends on the rollout only through override and splits
  (`SumsAgree`, `SelectionsAgree`).
* *Shares.* The running sum never decreases (`SumsInOrder`), and neither does
  the sum with the bucket that rounding may add (`EndOfShare`, `EndsInOrder`).
  A variant is selected for the buckets from the end of its predecessor's share
  to its own (`SelectedByEnds`), and the last share reaches 1.0. Rounding moves an end by
  one bucket at most, and a variant with a split of 0 ends where its predecessor
  ends (`NextEnd`).
* *Reach.* The users whom no rollout takes are a rectangle of the square of the
  two hashes (`CornerSize`), or a strip of it when the hash is shared.

A sum over a list calls for induction over positions. It is done by looking at
the smallest position at which the claim fails (`Smallest`, from the theorem
that `Nat` is well-founded), which needs no induction rule.

**Lookups.** `IInv` of `FlagLookups` is, for each call and each of its
statements, what is already known (`Underway`, `Handled`, `Answered`,
`Scanned`). The decisive case is an executor's worker that fails before the
callback is registered: `Handled` says who has logged, or still will. `Scanned` is the loop
invariant of `get_all_variants` while definitions are replaced under it: a flag
that was the user's all the time is in the result or still to do, and one that
raised all the time is still to do. The
calls are independent but for the executor, which the lemma about `Untouched`
calls uses: a step is looked at for the call that moves. `ProgramsAssumption`
says which of the methods' arguments exist at all.

**Facade.** Messages of different calls are different records, a call that has
not sent has no message, and an amount in a shared dictionary is the caller's
own unless another charge was under way with it (`AtStatement`). The end of the
`with` block is the other half of the state, and is proved apart.

**Only model-checked.** Liveness, and everything that needs fairness or
`ENABLED`: `CallsReturn` (of both consumers), `FlushDelivers`,
`StopEndsPolling`, `DefinitionsConverge`, `CallsEnd`, `ExposuresEnd`. The
violations of section 4 are TLC's counterexamples.

## 6. Plan

Modelled: buffering with its abstract specification, posting with its contract,
polling, evaluation of one flag, lookups with their exposures and OpenFeature,
the facade. Proved: every safety property that a passing run checks, and both
refinements. Left: to prove what a step of the liveness arguments says without fairness (for
instance that each batch makes `flush()` shorter).

Not modelled, and why: `ServiceAccountCredentials` and the wire types are
immutable records; the content of messages and flag contexts, property names and timestamps do
not affect delivery or lookups; demos, documentation and release scripts have no logic of
the library; TLS, connection pooling, JSON and the real hash function are
libraries or pure data.
