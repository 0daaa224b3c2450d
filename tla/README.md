# A TLA+ development of go-ssf

go-ssf implements the OpenID Shared Signals Framework in Go: a Transmitter
keeps event streams and delivers Security Event Tokens (SETs) by poll
(RFC 8936) or push (RFC 8935); a Receiver consumes them. This directory
specifies the parts of it whose behaviour unfolds over time, checks them with
TLC on small instances, and proves the central results with TLAPS for every
value of the constants. All paths below are relative to the repository.

## 1. The system

### Components, their state and operations

| component | source | state | operations |
|---|---|---|---|
| Poller | `receiver/poller.go` | locals of `Run` (nextAck, nextSetErrs), two backoffs, the accumulators of `process` | Run, pollOnce, process, deliverOne, sleep |
| verification challenger | `receiver/verification.go` | `pending`: state string -> one-slot channel, under a mutex | Challenge, register, unregister, wait, WrapSink's intercept |
| push receiver | `receiver/push.go`, `receiver/sink.go` | none | PushHandler (checks in a fixed order, then verify, then Sink) |
| push driver | `transmitter/pushdriver.go` | locals of `Deliver` (attempt, backoff, lastErr) | Deliver, attempt, contextSleep |
| Transmitter HTTP surface | `transmitter/handlers.go`, `mux.go`, `auth.go`, `transmitter.go` | none of its own | one handler per endpoint, writeProblem |
| well-known document | `transmitter/wellknown.go` | one immutable document | WellKnownHandler |
| in-memory store | `memstore/memstore.go`, contract in `streamstore.go` | streams, statuses, subjects, queues, nextID, one mutex | Create/Get/List/Update/DeleteStream, Get/SetStreamStatus, Add/RemoveSubject, EnqueueSET |
| loopback Transmitter | `internal/interop/interop.go` | pending, outstanding, observedSetErrs per stream, a mutex of its own; the store | EnqueueForPoll, PollEvents, DeleteConfig, delegates |
| management client | `client/client.go`, `client/errors.go` | none | eleven calls, ParseHTTPError |
| discovery and its cache | `client/discovery.go` | entries: base URL -> config and expiry, a `sync.Map` | FetchTransmitterConfig, lookup, store |
| delivery-method registry | `delivery_registry.go`, `stream.go` | factories: URN -> factory, under a mutex; built-ins fixed | RegisterDeliveryMethod, LookupDeliveryMethod, Delivery's codec |
| SET signing and verification | `set.go` | none | Sign, Verify |
| errors and wire types | `errors.go`, `config.go`, `status.go`, `poll.go`, `subjects.go`, `verification.go` | none | codecs |

### How they interact

* The Poller POSTs to `PollHandler`, which calls the Transmitter's
  `PollEvents`; the answer's SETs go through the verifier to the `Sink`. What
  the Sink said of one batch travels as `ack` and `setErrs` in the next poll.
* `PushDriver.Deliver` signs a SET once and POSTs it until `PushHandler`
  accepts it, refuses it for good, or retries run out.
* `VerificationChallenger.Challenge` registers a state, asks the Transmitter
  for a verification SET and waits. The SET comes back by push or poll, on
  another goroutine, through the Sink that `WrapSink` returns.
* The loopback Transmitter uses two locks, its own and the store's, never both
  at once; handlers run concurrently.
* Calls of one `ConfigCache` share its map; lookups, fetches and stores of one
  base URL overlap freely.
* A method of `client.Client` becomes one request of `MuxHandler`'s handlers,
  which call the `Transmitter` and answer with its value or a problem document;
  `ParseHTTPError` turns that back into an error. A program may use the client
  in place of a Transmitter in its own process: the interfaces are the same.
* A `StreamConfig` on its way through client, handlers and store is decoded and
  encoded by `Delivery`'s codec, which asks the delivery-method registry.

### What is hard

Lost, late and repeated polls; acknowledgements carried across failed polls;
a SET arriving before, after or while its challenge times out; two challenges
with one state; cancellation racing the last attempt of a delivery; operations
split over two locks; responses of concurrent fetches stored out of order;
durations that overflow 64 bits; memory shared by a stored value and the copies
callers hold; management calls that are repeated, arrive late or fail on the
way back after they were performed. The hazards in `PROJECT.json` name each of
these at the line where it bites and the property that would catch it.

### What makes each component correct

* Poller and Transmitter: a SET is let go of only after the Sink has consumed
  it; a refusal is reported before the SET disappears; no acknowledgement is
  forgotten; nothing that was consumed or does not verify comes before the Sink
  again; everything offered is acknowledged away in the end; a cancelled `Run` returns.
* Challenger: the send into a waiter's channel never blocks; a call returns
  only a SET with its own state; slots are given back; a call can be found by
  its SET from before its POST goes out.
* Push: nil means accepted; no SET is dropped without a word; driver and
  handler read each status alike; the retry budget is exact; `Deliver` returns.
* Store: a stream is under an id that was minted or chosen, and only who chose
  an id loses a stream to a minted one; no caller reaches into a stored stream;
  statuses, members and queues follow the calls that made them.
* Codec: a delivery encodes to what it was decoded from, whatever is registered
  meanwhile.
* Retries: no wait is negative, past its ceiling, zero, or shorter than what the
  peer asked for, as far as the sizes allow.
* Discovery cache: nothing is served past its time, a call gets nothing older
  than the cache held when it began, and nobody gets an outdated document for
  ever, though an older response may be stored over a newer one.
* HTTP surface and client: whoever holds a client cannot tell it from the
  Transmitter, but for the causes that have no sentinel and calls of which no
  answer came; an error answer of the handlers has changed nothing.

## 2. The plan

Built:

1. `SetReports`, `Poller`, `MemstoreTransmitter`, composed by `PollLoopback`;
   the abstract `PollDelivery` it implements; `PollLoopbackProofs`.
2. `VerificationChallenger`, `VerificationChallengerProofs`.
3. `PushDriver`, composed with handler and network by `PushDelivery`;
   `PushDeliveryProofs`.
4. `ConfigCache`, `ConfigCacheProofs`.
5. `RetryTiming`: the waits of push driver and poller on integers of a small
   width; `RetryTimingProofs`.
6. `StreamStore`, the operations of the in-memory store, and `DeliveryCodec`,
   registry and codec, composed by `StoreSession` (ids, configurations, memory)
   and used by `StatusSession` (statuses, subjects, queue); `StoreSessionProofs` and
   `StatusSessionProofs`.
7. `ProblemDetails`, `TransmitterHandlers` and `ManagementClient`, composed by
   `Management`, which implements the abstract `RemoteTransmitter`;
   `ManagementProofs`.

Every safety property that a passing run checks is proved; what stays with the
model checker is liveness (section 5).

## 3. The modules

### Poll delivery

`SetReports` holds the vocabulary: a JTI stands for the SET it names, a setErrs
map is a total function with "none" for an absent key.

`Poller` is `Run`. Its `pc` is the place in the loop: `top` (the context check),
`posting` (inside `httpClient.Do`), `processing` (inside `process`), `backoff`
and `idle` (the two sleeps), `returned`. `nextAck`/`nextErrs` are Run's locals,
`ack`/`errs` those of `process`, `entries` the jobs not yet taken and `busy`
those inside `deliverOne`. `Take` and `Complete` are a worker's two steps, with
at most `Parallelism` workers; with 1 they are the serial loop. `FinishBatch`
is the return of `pollOnce` with the cadence switch of `Run`. A backoff is a
level, the number of doublings so far up to `MaxLevel`.

`requests` are the polls under way. A request is *live* while the Poller waits
for it; when the wait ends early it becomes an orphan and may still be served
at any later time, which is the late poll with old acknowledgements.

`MemstoreTransmitter` is one stream of the interop harness with its two locks:
`EnqueueForPoll` is `EnqueueInStore` then `AppendPending`, `DeleteConfig` is
`ClearHarness` then `DeleteStream`, `PollEvents` is the store lookup
(`LookUpStream`) and then `Drain` under `t.mu`. Other steps come between.

`PollLoopback` composes the two, adds intermediaries (`Refuse`, `Spoil`) and
states the properties. `PollDelivery` is the promise: a SET is owed from its
offer until a release, which may name consumed SETs only, or a deletion of the
stream. `PollLoopback` implements it with given = `offered`, owed = pending or
outstanding, consumed = accepted or refused for good by the Sink.

### Verification challenges

`VerificationChallenger` has any number of calls. `Register` is `register` plus
the POST going out; `PostReturns`/`PostFails` its end; `Receive`/`GiveUp` the
select of `wait`; `Unregister` the deferred delete. `Intercept` is the part of
`intercept` under the lock and `Send` the channel send after it; between the
two the delivery is in `matched`. A verification SET is named by the call it
answers and arrives 0 to `MaxCopies` times, at any time.

### Push delivery

`PushDriver` is one `Deliver`: `top`, `posting`, `failed` (attempt returned an
error that is not permanent), `sleeping`, `done`. `PushDelivery` adds
`PushHandler` with everything it may find out about a POST, the network and
intermediaries. `verdict` records what the handler made of each POST and
`lost` the POSTs whose answer from the handler cannot reach the driver.

### Discovery

`ConfigCache` is any number of goroutines that call
`ConfigCache.FetchTransmitterConfig` for one base URL; entries of different
base URLs never meet. `Load` and then `Hit` or `Miss` are `lookup`: the map is
read first and the clock second. `Respond` is the moment the Transmitter makes
the response, `Return` the `store` and the return, any time later. `Bypass` is
the path of a ttl that is not positive. Instead of a clock each entry carries
what is `left` of it and, as history, its `age`; `Tick` moves both, in the map
and in the entries that lookups hold. Durations wrap at `Half`, so that
`max-age * Second` overflows as `time.Duration(maxAge) * time.Second` does.

### Retries

`RetryTiming` has what the loops of `Poller` and `PushDriver` leave out: how
long they sleep. `backoff` is the driver's two bounds with the local of
`Deliver`, or `poller.go`'s type of that name. `WithBackoff` and
`WithErrorBackoff` are options, applied any number of times before `Start`;
`PushRetry` and `PollFails` a failure with its `Retry-After`, `Deliver` and
`PollSucceeds` what resets the backoff. Products wrap (`Wrap`, `Double`), and
jitter whose result leaves the range becomes either end of it, as the
conversion from float does on one machine or another. Of a date the model has
what is left until it. `asked` and `waited` are history: what the peer asked
for were durations unbounded, and what was slept.

### Store and codec

`StreamStore` has one operator per method of `InMemoryStore`: every method holds
the mutex from beginning to end, so it takes a store to a store, an error and a
value. A minted id "stream-<seed>-<n>" is the number n, which callers may
supply too. Subjects are numbers in some spelling, and `Float` is the rounding
of `json.Unmarshal` into `any`.

`DeliveryCodec` is the registry with `RegisterDeliveryMethod` and the two codecs
of `Delivery`; a document has a method, an endpoint and, maybe, members no
factory knows.

`StoreSession` is programs that use both: they decode configurations (`Load`),
assign ids (`Name`), call the store, and write to memory they hold (`Write`).
Memory is one watched block, any block, followed from its allocation until
nothing refers to it: the audience of some configuration, or the bytes of its
unknown delivery. `CloneStreamConfig` says which of the two a copy shares. Any
aliasing shows on some block, so one at a time is enough.

`StatusSession` keeps beside the store what callers told it (`said`, `members`,
`queued`) and compares.

### Management over HTTP

`ProblemDetails` is the problem document with both directions of its codec. A
document's members have positions, of which only the order counts: what
`MarshalJSON` writes first stands at -4 to 0, and extensions keep the positions
they were read at. The names of extensions are kept without their escapes and
written as they are, into `Extensions` and from there into the document:
`Unescaped` lists the names JSON has to escape with what a decoder reads of each
(other members, the end of the object, or no JSON), `AsRead` is one such reading
of all extensions, and `Marshal` writes the second. At most three members come
out of a name before its last, and names that are no JSON each but are together
are left out. `TransmitterHandlers` has one operator per handler, with its
checks in the order of the code, `decodeJSONBody`, `writeProblem` and
`writeJSON`; a handler keeps no state, so it takes a store to a store and a
response. `ManagementClient` is a method of the client up to its request
(`LocalError`, `NewRequest`) and from its response on (`Receive`,
`ParseHTTPError`).

`Management` puts them together with a doer and a network: `Send` (also again),
`Serve`, `Delay` and `ServeLate`, `Lose`, `Intercept` (a gateway's answer),
`GiveUp`, `Return` (with a connection that may break off), and beside the
clients calls in the Transmitter's process (`CallLocally`) and requests no
client would send (`ServeForeign`).

`RemoteTransmitter` is what all that promises to a caller: the call is performed
some number of times, also after it was given up; a nil error comes with the
value of one performance; a problem of the Transmitter's own has the cause of
one that failed, where a sentinel tells it. `Management` implements it with the
late calls as the open ones, and with the calls made in the Transmitter's process
and those that other programs' requests amount to (`Asked`) as what else happens
to the store.

## 4. The runs

| run | instance | shows |
|---|---|---|
| `loopback_all` | 2 SETs, cap 2, 2 workers, 2 Runs, 1 orphan, all outcomes and faults | `SettledWasConsumed`, `DropIsReported`, `HeldOnce`, `AckNotForgotten`, `HandedOnce`, `IdleOwesNothing`, and that the loopback implements `PollDelivery` (`DeliverySpec`) |
| `loopback_live` | 3 SETs, cap 1, 2 workers, cancellation | `Settles`, `CancelStops` |
| `challenge_all` | 2 calls, 2 states either may carry, 3 copies | `SendNeverBlocks`, `NoSlotLeaks`, `OwnState`, `SoleWaiterIsReachable`, `NotPassedInFlight`, `SlotsReleased`, `MatchedArrives` |
| `push_all` | 3 retries, all faults | `NilMeansAccepted`, `NoSilentDrop`, `VerdictHonoured`, `BudgetKept`, `CancelStops`, `Returns` |
| `cache_all` | 2 callers, ttl 0 and 4, 6 max-ages, 2 documents, 4-bit durations | `HitsAreFresh`, `NeverBehindTheCache`, `CatchesUp` |
| `store_all` | 1 hand, 1 chosen and 2 minted ids, a built-in and an extension method | `NoForeignStreams`, `AudiencePrivate`, `WireKept`, `OnlyNamedReplaced` |
| `status_all` | a chosen and a minted stream, 2 numbers in 2 spellings, 2 tokens, queues of up to 2 | `MapsAgree`, `StatusFollows`, `ContentsFollow` |
| `management_all` | 1 client, 14 calls, 7 foreign requests, 4 gateway answers with 4 names to escape, 1 late call | `ProblemSurvives`, `ErrorsChangeNothing`, and that `Management` implements `RemoteTransmitter` (`KeepsPromise`) |
| `retry_all` | 6-bit durations, a second of 4, 26 headers, 11 bounds | `BackoffInBounds`, `WaitWithinCeiling`, `NeverSpins`, `HintHonoured`, `WaitsKeepUp` |
| `challenge_reach_doc` | 2 calls, shared states | violates `WaiterIsReachable` |
| `push_deadletter_doc` | 3 retries, cancellation | violates `CancelIsNotDeadLettered` |
| `store_alias_doc` | the instance of `store_all` | violates `StoredUnwritten` |

Runs that say `CHECK_DEADLOCK FALSE` are of systems that may stop: a `Run` that
has returned for the last time, calls that are all over, a `Deliver` that is
done.

The runs spend their properties on behaviour. That every variable keeps its type
(`TypeOK` of each module) is proved for every instance instead (section 5);
`StatusSession` has its own within `MapsAgree`.

### The bounds and why they are enough

* Two SETs are the least that can be reordered, split between two workers, and
  be in different places (one pending, one outstanding). `loopback_live` has
  three with a cap of one, so that batches follow each other and
  `moreAvailable` goes from true to false.
* One orphan is enough for a late request that overtakes a newer one; two Runs
  for a second Run that starts without the acknowledgements of the first.
* In `loopback_all` `MaxLevel` is 0: the level of a backoff changes nothing but
  the length of a sleep. `loopback_live` has one doubling and its cap; without
  faults of the network its `CancelStops` meets the idle sleep only, which is
  the same function as the other.
* The cap of a batch never clips in `loopback_all`, whose two SETs fit it; it
  does in `loopback_live`, and `HeldInOnePlace` holds for every cap.
* Two calls that may carry either state have every collision (same state at
  once, one after the other, distinct). Three copies of a SET can be early,
  doubled and late. More calls are covered by the proofs.
* Three retries have a first, middle and last attempt with an orphaned POST of
  an earlier attempt beside each.

* Durations of 4 bits with a second of 3 units have a max-age shorter than the
  ttl (1), longer (2), one that wraps to a negative duration (3) and one that
  wraps to a shorter positive one (6). Two callers make a slow fetch that
  overlaps any number of fast ones, since a caller calls again and again; two
  documents are an older and a newer.

* One hand in `store_all`: a caller calls again and again and may keep what it
  passed or take what it was returned, so a configuration in the store and one
  in the hand have every relation two can have; more hands are covered by the
  proofs. `MaxMint` is 2: a second minted id after the first was deleted, or
  after somebody chose it. The caller's name, and both minted ids, can be chosen.
* In `status_all` `Exact` is 2, so that 1 is a number a float64 tells apart and
  3 one it does not; two spellings of each; two tokens, which have an order, in
  one queue or in two, and a configuration that changes around them; `MaxSaid`
  leaves room for two statuses of subjects, of one stream or of two. Spellings
  and tokens are only compared, so both are symmetric.
* One client in `management_all` makes any call after any other while one
  earlier call may still be on its way, which is a second client that has
  stopped listening; only calls that change the store are let travel on, since
  a late read changes nothing (`ReadsChangeNothing`) and is answered to nobody. Two outcomes per call
  are a performance and its repetition. Gateways answer with errors only: a
  gateway that invents a success is beyond what a client can notice.
* In `retry_all` a second is 4 units of 31: products wrap to negative and past
  zero again, doubling leaves the range from 16, jitter from 26, and bounds and
  headers are on both sides of each.

The bounds are `MaxMint`, `MaxQueue`, `MaxSaid`, `MaxLate` and `MaxOutcomes` of the store
and management modules, `MaxRuns`, `MaxOrphans` and `MaxLevel` of `Poller`, `MaxCopies`
of `VerificationChallenger`, `MaxVersion` and the width of `ConfigCache`, and
the finite sets of JTIs, calls and states. The
proofs hold for every value of them. `requests` is a set, so two orphans with
the same content are one, as if the other had been lost, which happens to
requests anyway; that both are served is left out. With one orphan, as in the
checked instances, none meet.

### Fairness

* Poller: steps of `Run` and of the handler that can be taken are taken, as Go
  schedules its goroutines; the Sink returns; a request whose context is done
  fails, as `net/http` promises; a caller of `EnqueueForPoll` gets the mutex.
  Nothing is assumed of the network or of who cancels. `Settles` is checked
  without network faults and with a Sink that answers finally, because under a
  lost response the harness Transmitter does not send the SET again
  (section 6).
* Challenger: a ready `select` proceeds and the timer of `wait` fires; the
  deferred `unregister` and the send run. Nothing is assumed of the POST, which
  no timeout of the library bounds: `SlotsReleased` speaks of calls whose POST
  has returned.
* PushDriver: `Deliver` runs, its timers fire and a done context ends a POST.
  `Returns` has the answering of POSTs as its explicit hypothesis.

* ConfigCache: time passes, and a call that has its response stores it.
  Nothing is assumed of the Transmitter or of who calls.

## 5. What is proved

TLAPS checks these for every value of the constants, from the ASSUMEs of the
modules alone (numbers are naturals, MaxEvents and Parallelism at least one,
None is no call and no state; `Management` has more, given below).

* `PollLoopbackProofs`: `TypeCorrect`, `SettledOnlyIfConsumed`,
  `LoopbackDelivers`. That settled SETs were consumed is not inductive: an
  acknowledgement travels from `ack` to `nextAck` to a request, which may be an
  orphan, before it settles anything. `Bookkeeping` says that each of these
  names consumed SETs only and that whatever is in sight has been offered. From
  it every step maps to `Offer`, `Consume`, `Release`, `Purge` or a stutter of
  `PollDelivery`; the step of `PollEvents` is the one that needs it, by the
  lemma that a drained queue splits into the batch and the rest.

  `HeldInOnePlace`, `NeverHandedAgain`, `DropsAreReported`,
  `AcksAreNotForgotten` and `IdleHasNothingToSend` are the other five invariants
  of `loopback_all`. `SInv`
  adds to the bookkeeping where a SET is before the Sink has it: in the queue,
  in a reply, among the entries or with a worker, but in one of them only
  (`Places`), and unanswered (`Untouched`), which is more than `HandedOnce` says. That needs the exchange to be
  one at a time (`Exchange`: one live request, built from `nextAck`, and no
  reply beside it), from which it follows that an answered poll has delivered
  its acknowledgement (`AckArrived`), so that process may replace it. A report
  of a refusal travels with the acknowledgement it explains (`ReportsTravel`).
* `VerificationChallengerProofs`: `TypeCorrect`, `SendsNeverBlock`,
  `SlotsDoNotLeak`, `ReturnsOwnState`, `SoleWaitersAreReachable`,
  `NeverPassedInFlight`. The invariant follows a call through the places it can
  be found in: the table (`Table`), a delivery between unlock and send
  (`OnItsWay`), its channel and its result (`Carried`). At most one of the
  first three holds at a time, because `Intercept` removes the entry under the
  lock; that is why the send cannot block. `Posted` ties deliveries to calls
  that have begun.
* `PushDeliveryProofs`: `TypeCorrect`, `NilOnlyIfAccepted`, `DropsAreReported`,
  `VerdictsAreHonoured`, `BudgetIsKept`. What `Deliver` returns says something
  of the Sink only because the answer on its way agrees with the handler's
  verdict (`Answering`), every earlier POST was refused for now or lost its
  answer (`Refused`), and an orphaned POST is one whose answer cannot count
  (`OnItsWay`); `Counted` relates the loop variable to the POSTs.

* `ConfigCacheProofs`: `TypeCorrect`, `HitsAreAlwaysFresh`, `NeverBehind`, for
  every width of durations. `Sound` adds up what is left of an entry and its
  age: the sum never exceeds ttl and max-age. It rests on `WrapShortens`: a
  product that wraps is never longer than the true one, so overflow can shorten
  an entry's life and never prolong it. `Seen` relates
  the versions of entry, responses and what a call found when it began.

* `RetryTimingProofs`: its type invariant and all five properties of `retry_all`, for every width of the
  integers, length of a second, header and option. `HintOfHeader` says that a
  hint is never larger than what was asked for and the same when it fits;
  `DoubleIsDuration` and `WrapIsDuration` what wrapping leaves. The invariant
  adds to the backoff's bounds what explains the last wait by the backoff
  before it, which is what the next wait is compared with.

* `StoreSessionProofs`: its type invariant and all four properties of `store_all`, for every set of
  hands, ids, methods and documents. `Faithful` ties a configuration to the
  document it came from and is kept by every copy (`CloneIsFaithful`);
  `BuiltinsUnseeded` is what `RegisterDeliveryMethod`'s refusal buys;
  `Private` says that a stored audience which is the watched block is in no
  hand, in no other stream and not written to. A block that nothing refers to
  is clean when it is allocated again (`WrittenIsWatched`).

* `StatusSessionProofs`: all three properties of `status_all`. `Kept` relates
  what the store keeps of one stream to what was said of it, and every call
  replaces one stream's part on both sides alike (`OneStreamStep`). That a key
  stands for one JSON value is `KeysAreValues`, from `FloatKeepsSafe`: a number
  below the exact range is its own float64 and no other number becomes it.

* `ManagementProofs`: all three properties of `management_all`, for any clients,
  calls, foreign requests and intermediaries of `ManagementAssumption`. That
  asks for calls Go's types allow (`IsCall`: a body of the method's type, with
  an audience that need not be JSON, since a program may have put anything into
  the `json.RawMessage`); for foreign requests whose bodies decode to what their
  handler expects or not at all (`BadBody`), an audience that was decoded being
  JSON; for markers (`None`, `Unread`, `Junk`) that are no such values; and for
  intermediaries that neither invent a success nor call their problem
  about:blank, the two things a client cannot see through.

  `RoundTrip`: any problem keeps its fields where it marshals and no name of an
  extension is read as that of a field; and where JSON has to escape none of the
  names it does marshal and reads the same, extensions in order. It rests on
  `WrittenReads` (a document of registered members with others after them is
  read as just that) and `PlainReads` (names without escapes are read one for
  one), for any `Unescaped`. `Problems` follows for those that callers hold
  (`ProblemSurvives`).
  `ErrorAnswers` (`ErrorsChangeNothing`) goes through the handlers one by one.
  `ImplementsRemote` (`KeepsPromise`) maps `Serve` to `Execute`, `Delay` to
  `Abandon`, `ServeLate` to `ExecuteLate`, `ServeForeign` to the call that the
  request amounts to or a stutter, and what the network does to stutters. The
  heart of it is `HandleExplains`, method by method: handling the request a
  client makes of a call performs that call, and the client reads from the
  response what was performed. `Return` needs the invariant, which ties a request on the wire to
  its call (`Requested`), a response to an intermediary or to an outcome on
  record (`Answered`), and a result to the response it was read from
  (`Reported`); `Typed` gives stored values their shapes, on which decoding
  depends.

  Three more theorems say what the model relies on or a program would like to
  know. `ResultsAreSound`: a result still stands for something that was done,
  however late it is looked at. `ReadsChangeNothing`: reads leave the store
  alone, under every fault. `RepeatedIsOnce`: a request that is repeated because
  its answer was lost does no harm if nothing came in between, with every method
  but a `CreateConfig` that has the store mint an id.

Only model-checked: the liveness properties (`Settles`, both `CancelStops`,
`SlotsReleased`, `MatchedArrives`, `Returns`, `CatchesUp`), which need fairness
and ENABLED and so are outside what the prover does.

## 6. Where code and documentation disagree

The first three have a run whose counterexample shows them; `PROJECT.json`
quotes the lines.

* The deferred `unregister` deletes by state. When the SET of a challenge has
  been intercepted, its state is free while the call is still in flight, a
  second call may register the same `WithState` state, and the end of the first
  removes the entry of the second, whose SET then goes to the application
  (`challenge_reach_doc`).
* A context that ends during the last attempt of `Deliver` is dead-lettered
  (`push_deadletter_doc`).
* The carrier of an unknown delivery is a pointer inside `Delivery`, so a caller
  that writes to the bytes `Unknown` returns changes the stored stream
  (`store_alias_doc`).

The others were found while the code was modelled; the models do what the code
does, and the properties take no side.

* The harness Transmitter never replays a SET refused transiently, though the
  Poller counts on it (`poller.go:284`, `571`, `interop.go:290`). `HandedOnce`
  speaks of consumed and unverifiable SETs only.
* Serial delivery does not keep the order of the response: `process` ranges
  over a map (`poller.go:297-299`, `472`).
* An enqueue between the two halves of `DeleteConfig` leaves a SET behind,
  which a stream created with the same id inherits (`interop.go:191-199`).
* `wait` may report a timeout or cancellation though the SET is in its channel
  (`verification.go:156-158`, `304`).
* A max-age above 9223372036 seconds overflows, and the entry expires at once or
  early instead of after the ttl (`discovery.go:189-192`, `294`).
* A `Retry-After` so large that its jitter or its product with a second leaves
  64 bits (from about 7.7e9 seconds) can make the push driver retry at once
  instead of after its maximum (`pushdriver.go:270`, `401-420`): the property
  `NeverSpins` excludes it by `HintFits`.
* With a maximum backoff above half of 2^63 ns the driver's doubling wraps to a
  negative number that passes the cap test, and the next wait is none
  (`pushdriver.go:279-282`): the driver's half of `BackoffInBounds` and
  `WaitsKeepUp` hold under `MaxFits`.
* A body that breaks off on its way in is answered 400, so the driver gives up
  and dead-letters a SET that a retry would have delivered (`push.go:190-201`).
* `GetConfig("")` of the client asks for the list and returns an empty
  configuration and no error, where the same call in process returns
  ErrStreamNotFound: `Perform` of `RemoteTransmitter` says so.
* Extensions are said to be captured verbatim (`errors.go:176-178`), and those
  that do not parse to be a caller's doing (`419-423`). But `UnmarshalJSON`
  writes the decoded name between quotes as it is (`369-375`), and `MarshalJSON`
  reads it and writes it so once more (`424-452`, `244-251`). A name with `\/` in
  it, which the wire writes `\\/`, comes back with `/`; one with a quote, a colon
  and a comma comes back as several members, a second `status` among them; one
  with a quote and a brace drops what follows; and one with a bare quote does not
  marshal. `ProblemSurvives` leaves those names out of what must read the same
  (`Plain`), and of what keeps its fields when a field's name comes out of one.
* Two subjects that differ only in numbers beyond 2^53 are one key of the store
  (`memstore.go:438-451`): `Safe` of `StatusSession` leaves them out.

## 7. What is not modelled

Cryptography and JOSE parsing (`set.go`): a verdict of the verifier is an input.
`NewClient` and its options, URL resolution and the header fields of requests:
a request goes to one of six paths. What an `AuthFunc` puts into a request's
context is read by Transmitters, not by the library, and is left out; so are the
page tokens of `ListConfig`, since the store has one page. A lasting refusal of
polls (`poller.go:404`) blocks the SETs behind it and is a fault under which no
progress is claimed. Of discovery,
the reading of the `Cache-Control` header is left out. The well-known handler serves one immutable document. Of
`PushHandler` the refusals no POST of the driver meets (method, media type,
empty body) are left out; in `PollLoopback`, authentication and decoding errors
of `PollHandler` are one refusal. The fixtures (`internal/specfixtures`) are test
data. `StartTransmitter` is test plumbing.
