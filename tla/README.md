# Verification of GrinWithGolang

GrinWithGolang is a Go course. Most of its programs are single files that show one technique each, and a good
part of those are small concurrent systems with shared state, goroutines, timeouts and failures. This directory
keeps TLA+ models of them, the TLC configurations that check the models on small instances, and proofs that
TLAPS checks for every instance. Paths below are relative to the repository; its Go code is under `src/`.

## Inventory

| Component | State | Operations | Interaction and hard behaviour | What makes it correct |
|---|---|---|---|---|
| Circuit breaker `src/05_patterns/04_circuit_breaker` | mode, failure and success counters, time of last failure | `Execute`, `State` | any goroutines call it; two critical sections with the remote call in between, decided by the mode captured before it | counters mean "consecutive", it trips for a reason, it recovers |
| Distributed lock `src/10_distributed/03_distributed_lock` | map key → holder, token, expiry; token counter | `Lock`, `Unlock`, `expiryLoop` | clients overstay leases and crash; the expiry goroutine runs beside them | exclusion while a lease runs, tokens order the holders, leases lapse |
| Worker pool (advanced) `src/05_patterns/02_worker_pool_advanced` | two buffered channels, wait group, context | `Submit`, `Close`, `Start`, `Results` | submitter, workers, closer, collector; cancellation at any point | no job lost or answered twice, no send on a closed channel, it ends |
| Event bus `src/05_patterns/06_pub_sub` | channels per topic under an RW mutex | `Subscribe`, `Publish`, `Unsubscribe`, `Close` | publishers interleave under the read lock; slow subscribers; closing with events buffered | no send on a closed channel, every event received or dropped, order |
| Ring buffer `src/09_dsa/03_ring_buffer` | slots, two wrapping counters | `Push`, `Pop`, `Len`, `IsEmpty`, `IsFull` | lock-free, one producer and one consumer | a FIFO queue with no access to the same slot at once |
| Fan-in / fan-out pipeline `src/05_patterns/03_fan_in_fan_out` | three intermediate channels, wait groups, context | `generateImages`, `resize`, `compress`, `upload` | rendezvous channels, cancellation at any stage | every image has one result unless cancelled; all goroutines end |
| Graceful shutdown `src/08_production/05_graceful_shutdown` | request counter, message buffer, database | `Track`, `Wait`, `Publish`, `Flush`, `Close` | handlers in flight against three phases with timeouts | nothing published is lost in a clean shutdown; it ends |
| Service discovery `src/10_distributed/01_service_discovery` | registry of instances | `Register`, `Discover`, `Heartbeat`, `healthChecker` | instances are shared by pointer with callers; the checker comes round late | a live instance is found again after a missed beat, a silent one is not handed out for long |
| Rate limiter `src/10_distributed/02_rate_limiter` | bucket per client | `Allow`, `getLimiter` | concurrent requests of one client | never more than burst + rate·t in any window |
| Event sourcing `src/10_distributed/04_event_sourcing` | append-only log | `Deposit`, `Withdraw`, `Transfer`, `Reconstruct` | commands read, decide and append; transfer appends twice | no overdraft, no money made or lost, versions without gaps |
| Retry `src/05_patterns/05_retry_with_backoff`, `src/06_networking/03_http_client` | attempt, delay | `Retry`, `doWithRetry` | waits race with cancellation, and either may win | at most MaxRetries+1 attempts, on schedule whatever the jitter, the outcome that of the last one |
| Bounded concurrency `src/03_concurrency/08_errgroup_semaphore`, channel patterns `04`, `07` | semaphore, wait group, first error | `runBounded`, `fanIn`, ... | goroutines against the semaphore | never more than the limit, no deadlock, an error is not lost |
| TCP echo server `src/06_networking/01_tcp_server` | listener, connections, context | accept loop, `handleConnection` | signal at any time | it ends, and only after its connections |
| Back end `src/08_production/clean_backend` | users and tasks in MongoDB, tokens | sign-up, login, refresh, tasks, profile | concurrent requests over a database without unique keys | one account per e-mail, tokens name their user |
| Concurrent map, LRU cache, trie, heap, union-find, segment tree `src/09_dsa` | in memory | their methods | the map is sharded and walked shard by shard, the cache behind a mutex, the rest sequential | they implement the abstract structure |
| Messaging `src/10_distributed/messaging` | offsets, in-flight messages (broker) | consumer loops, handlers, producers | crash, redelivery, blocking read, automatic commit | at least once (it is not, see finding 7), otherwise a message is lost only in the hands of a crash; finished means handled |
| gRPC user service `src/10_distributed/grpc_service` | users under an RW mutex | `CreateUser`, `GetUser`, `ListUsers` | a stream holds the read lock while it sends | a list is of one moment; writers get their turn |
| Metrics `src/10_distributed/05_observability` | counter, gauge, histogram | `Observe`, `Expose`, the instrumented handler | the page reads metric by metric while handlers run | the page's numbers fit each other |
| HTTP server `src/06_networking/02_http_server` | listener, busy connections | middleware, handlers, shutdown | signal while requests are served | every request taken is answered, by the right handler |
| PostgreSQL orders `src/10_distributed/databases/postgres` | users, orders | user, transaction, listing | any call may fail after it was done; runs overlap | an order belongs to a user and is there whole or not at all |
| Mutexes, contexts and select `src/03_concurrency/03`, `05`, `06` | counters, configuration, contexts | the sections of each `main` | unsynchronised and synchronised access, cancellation trees | locks protect, cancellation cascades, producers are not stranded |
| WebSocket echo `src/06_networking/04_websocket_basics` | byte stream | `readFrame`, `writeFrame` | lengths around 126, truncated streams | reader and writer stay in step |
| Lessons, MongoDB, tracing, gRPC client, interview patterns, deployment files | none that outlives a call | | library calls | see "What is not modelled" |

The programs do not call each other: each `main.go` is a program of its own, and composition happens inside one
(main's goroutines, its clients, the broker or database it talks to). So each module below composes the goroutines
of one program, and with them the environment they meet. `PROJECT.json` lists the components with their status, and
the hazards of the code line by line.

## Modules

| Module | Models |
|---|---|
| `CircuitBreaker`, `BreakerProtocol`, `CircuitBreakerProof` | `Execute`, its callers, the clock and the service; abstract: the documented protocol; theorems |
| `DistributedLock`, `LeaseLock`, `DistributedLockProof` | `Lock`, `Unlock`, `expiryLoop` and their sessions; abstract: a lock with leases and increasing tokens; theorems |
| `WorkerPool` | `Pool[T, R]` with submitter, workers, closer and collector |
| `EventBus`, `EventBusProof` | the generic bus, publishers and subscribers; theorems |
| `RingBuffer`, `BoundedFIFO` | `Push`, `Pop`, `Len` by their single loads and stores, `nextPowerOf2` on words of bits; abstract: a bounded queue |
| `Pipeline` | the fan-in / fan-out pipeline and its deadline |
| `RunBounded` | the three loops of the semaphore lesson |
| `ChannelPatterns` | the chain of stages, `fanIn`, the done channel; the worker pool of `07` with room for everything |
| `Retry` | `Retry` with its schedule; the HTTP client's `doWithRetry` and `readJSON` |
| `SharedState` | race, mutex, RW mutex, `sync.Once`, atomics |
| `ContextSelect` | the context tree and the query with a deadline; the call with a timeout and the select loop |
| `RateLimiter` | token buckets per client |
| `GracefulShutdown` | requests against the three phases of the shutdown |
| `TCPServer` | accept loop, signal, handlers and deadlines |
| `HTTPServer` | requests through the middleware against the shutdown |
| `ServiceRegistry` | registry, heartbeats, health checker, callers with old pointers |
| `EventStore`, `Ledger` | the log and the commands; abstract: a book of accounts |
| `MessageConsumers` | the Kafka and the NSQ consumer with their brokers |
| `UserService` | the gRPC service's three RPCs under its RW mutex |
| `Accounts` | the back end's routes down to their database calls |
| `OrderTransaction` | the PostgreSQL program against a database that fails |
| `Metrics` | counter, gauge, histogram and the page |
| `LRUCache`, `RecencyList` | the map and the list of the cache; abstract: a list in order of use |
| `Trie`, `PriorityQueue`, `UnionFind`, `SegmentTree`, `ShardedMap` | the other structures of `09_dsa` |
| `WebSocket` | frame codec and echo loop |
| `Coordination` | breaker, lock and bus side by side, with the names of the lock's sessions, see below |
| `Concurrency`, `ConcurrencyProof` | the goroutine programs of `src/03_concurrency` and `src/05_patterns` side by side, see below; theorems about each of them and about the whole |
| `Services`, `ServicesProof` | the servers, stores and clients of `src/06_networking`, `src/08_production` and `src/10_distributed` side by side, and the breaker under one caller; theorems likewise |
| `Structures`, `StructuresProof`, `TreesProof` | the data structures and the frame codec side by side; theorems about the ring buffer, the cache, the sharded map and the WebSocket server; theorems about the priority queue, the trie, the union-find and the segment tree |
| `Induction` | induction over the natural numbers and functions defined by recursion, for the proofs |

The programs share runs. `Coordination`, `Concurrency`, `Services` and `Structures` hold the variables of
several programs; `subject` picks one of them in the initial state and only that one ever moves, so the state spaces add up
and do not multiply. Two programs of one module (`Retry`, `ChannelPatterns`, `ContextSelect`, `MessageConsumers`)
have their own `Init` and `Next` and are picked in the same way.

Definitions named `Bug...` are plausible mistakes in the definition that follows them. None is part of a
specification; `PROJECT.json` says which property rejects which mistake.

## How the models correspond to the code

**CircuitBreaker.** `Execute` takes the mutex twice. `Reject`, `Probe` and `Admit` are the outcomes of the first
critical section (open and cooling down; open and cooled down, which makes it half-open; anything else); they store
in `seen` the local variable `state` that the code carries over `fn()`. `Fail`, `TrialSuccess` and `NormalSuccess`
are the second one and branch on `seen`, as lines 105 and 113 do, never on the current mode. `elapsed` is
`time.Since(lastFailure)` in ticks up to the first that exceeds the timeout. `up` decides what `fn()` returns and
flips at any time. `streak` is a history variable.

**DistributedLock.** A session is a client with a name, at most one lock, and no knowledge of its lease's end.
`left` is what remains of a lease, so that `Unexpired` (`now.Before`) and `Stale` (`now.After`) differ at `left = 0`
exactly as in the code. `Grant` is `Lock` on a free or expired key, `Refuse` on any other. `Unlock` compares the
holder's *name* only. `ExpirySweep` is one round of `expiryLoop` that finds something; `TimePasses` ages every entry and
every session's own lease alike.

**WorkerPool.** A buffered channel is what was sent minus what was received. `Take` is `range p.jobs`, `SelectDone`
the look at `ctx.Done()`, `Process` the processor with its three outcomes, `Send` the blocking send in both places
of the loop, `Leave` the end of the range. `CloseResults` is `wg.Wait(); close(p.results)`. `Cancel` happens at any
moment, or never.

**EventBus.** `Publish` is `RLock`, one `Offer` per channel (the `select` with `default`), and `RUnlock`; the three
writers wait for `NoReaders`. Several publishers are between `RLock` and `RUnlock` at once. `owed`, `got` and `lost`
are history. A closed channel still holds its events, as in Go.

**RingBuffer.** Each atomic load, atomic store and slot access is a step; Go's `sync/atomic` is sequentially
consistent, which is what interleaving these steps says. `Wrap` stands for 2^64 and `Bump` for unsigned addition.
`NoRace` makes the unsynchronised slot accesses defined. `NextPowerOf2` represents a word by its set of 1 bits, so a
shift moves the members; the capacities tried are all words.

**Pipeline.** On an unbuffered channel a send and a receive are one step of two goroutines. A stage's closer runs
behind the last of its workers; the look at `ctx.Done()` before each image and the choice of the `select` around
each send are steps of their own, and the upload worker's send has no `select`, as in the code.

**RunBounded, ChannelPatterns, Retry, SharedState, ContextSelect.** One action per channel operation, lock
operation or call. The first section of `05_mutexes_atomics` has a data race by design: it is modelled as a read and
a write with nothing between them, and the property says what may come out.

In `Retry` jitter is at its extremes and its middle. Its select waits for a timer that was started before it, so a
goroutine that is slow to get there may find both the timer and `ctx.Done()` ready, and Go then picks either:
`TimerFires` and `Cancelled` are both possible once the context is over, and nothing is claimed of a call that follows
its end. The inactivity timer of the select loop is a case like the others for the same reason (`BreakIdle`). `waits`
and `calls` are history.

**RateLimiter.** `getLimiter` and `Allow` lock separately and are separate steps. A token is `Unit` parts and
`Rate` parts arrive per tick, so the code's `float64` amounts are exact numbers here. The key is `r.RemoteAddr`
(line 105), that is address *and port*, although the comment at line 102 says "rate-limits by client IP": the model's
clients are what the code keys by.

**GracefulShutdown, TCPServer, HTTPServer.** Requests and connections move independently of main. Each wait ends with
what it waited for or with its timeout, and the model lets the timeout win at any time. In the TCP server the
cancellation, the closing of the listener and the failing `Accept` are separate steps, so a connection can be
accepted after the cancellation.

**ServiceRegistry.** Time passes on its own (`Tick`), and the checker's round (`Check`) comes at any time: its ticker
drops ticks that nobody takes, and it waits for the lock like the callers. `checked` is when it last had the lock.
Callers keep the pointers `Discover` returned: `handed` remembers them with the time and with what `checked` was then,
and the instance they see goes on changing. How long an instance that is handed out may have been silent therefore is
the timeout and what the checker was late by, not the timeout alone.

**EventStore.** A command reads the log, folds it and appends. One goroutine runs the commands and `append` cannot
fail, so a command is one step; `Transfer` is two appends in that step. `Replayed(log, a)` is the loop of
`ReconstructAccount` over what `GetEvents` lets through, as a recursive function: its value at `k` is the account after
`k` events of the whole log, those of other accounts passed over, so replaying to a version and replaying to the end
are one definition.

**MessageConsumers.** The brokers are external and modelled as the programs use them: the Kafka library remembers an
offset when it hands a message out, and commits what it remembers at any time ("enable.auto.commit") and in `Close`;
nsqd takes back what is not answered in time. A crash is possible at any step. `AtLeastOnce` is what the header of
the Kafka consumer claims and the code does not keep; `LosesOnlyTheOneInHand` is what remains true.

**UserService.** A waiting writer keeps new readers out, as Go's RWMutex does; `ListUsers` streams under the read
lock, one `Send` per user, and may break off.

**Accounts, OrderTransaction.** Each database call is a step that may fail, or be done and fail for its caller.
MongoDB has no unique index on the e-mail, so two sign-ups may both find it free; PostgreSQL enforces the constraints
that the program's schema states.

**Metrics.** `Observe` and each line of `Expose` hold one lock each; the page is read metric by metric. `took` is
history: what each request took, in the order in which they were observed.

**The data structures.** `LRUCache` keeps the map from keys to list elements and the list apart, so they could come
apart; the refinement says they do not. `Trie`, `UnionFind` and `SegmentTree` compute with the code's recursion and
are compared with definitions that say what is computed. A recursive method is a recursive function over its calls:
for the segment tree over the calls `<<node, start, end>>` whose node is one of the `4 * n` cells (`Calls`), so a call
with a node beyond them, which would panic in the code, is outside the function's domain and TLC reports it.
`PriorityQueue` compares by priority with ties; the sift
loops of `container/heap` are external. `ShardedMap`'s walk takes one shard lock at a time, and the
hash function is any function of the keys; `moments` is the history of the key sets that the map had during the walk,
from which a regular walk (`Since`, `During`) and a snapshot are defined. `WebSocket` keeps bytes with codes of three bits, so that "fits in one
byte" and "needs an extended length" both happen with small messages; the extended length has the code's two bytes.

## Runs

| Run | What it shows |
|---|---|
| `coordination` | breaker: `BreakerInv`: the counters mean what they say with late calls of any number of modes; `TripIsJustified`; `SettlesClosed`: with the service up for good the breaker ends up closed and stays so. Lock: `LockInv`: exclusion while leases run, tokens order the grants; `OnlyOwnLeaseReleased`; `KeepsLeases`: `LeaseLock` implemented; `EveryLeaseLapses`, a crashed holder's too. Bus: `BusInv`: registered is open, no send on a closed channel; `DeliversWhatIsOwed`: received, dropped, buffered or about to be offered, in order; `PublishReturns`; `ForgottenSubscriberStops` |
| `concurrency` | `PoolInv`, `PipelineAccounts`, `BoundedAndWaitedFor`, `ChannelsDeliver`, `RetriesKeepSchedule`, `SharedWithoutHarm`; `ProgramsEnd`: each of these programs comes to its end |
| `services` | `LimiterInv`, `NothingLostInShutdown`, `GoodbyeIsTrue`, `HealthIsRecent`, `ReplaysAtEveryVersion`, `DeliveriesAccountedFor`, `ListsOneMoment`, `AccountsHangTogether`, `MetricsAgree`; `FollowsProtocol` (the breaker under one caller implements `BreakerProtocol`); `IsLedger`; `ServicesStop` |
| `structures` | `RingInv`, `RejectsOnlyWhenFull`, `IsFIFO` and `RingDelivers` for the ring buffer over its wrap-around; `CacheIsRecencyList`; `TreesHoldTheirContents` (trie, union-find and segment tree), `HeapServesInOrder`, `WalkIsRegular`, `StaysInStep`; `AnswersByDefinition` (Kruskal's tree weighs least, `nextPowerOf2` rounds up) |
| `breaker_trials`, `breaker_reopen`, `lock_stale_unlock`, `ring_len`, `trie_delete`, `metrics_buckets`, `kafka_at_least_once`, `map_keys` | the findings below |

### Bounds

- `coordination`, breaker: 3 callers, threshold 3, 2 trials. The hard cases need one trial that ends the half-open period and
  another still in flight, and a third call from before. `MaxFailures` stops the counter two above the threshold,
  since three callers can add two late errors after the trip. Under one caller (`services`) the bound is far off.
- `coordination`, lock: 3 sessions, 2 keys, leases of 1 and 2 ticks, 3 tokens: holder, successor and bystander, keys that share a
  token counter, leases that end in either order, two takeovers.
- `coordination`, bus: 2 publishers, one with 2 events and one with 1 (`Brief`), 2 subscribers of which one may stop
  reading, 2 topics, channels of 2: one publisher's events come before, between and behind the other's, a channel
  fills, drops and drains again, and `Unsubscribe` and `Close` meet channels of another topic.
- `concurrency`: the pool has 2 workers, 4 jobs and channels of 2, so that every blocking send really blocks. The
  pipeline has 3 images and 2, 1 and 1 workers: two workers of a stage overtake each other, and one worker is a
  bottleneck. Three tasks share a limit of 2, in both places of the acquire. 5 numbers in the chain, 2 sources of 2
  in `fanIn`, 2 hands and 3 jobs in the buffered pool. `Retry` has 4 retries with delays from 2 to a cap of 9, which
  the schedule reaches; the HTTP client its 3. Three goroutines share state; 2 children share a context; the select
  loop has main's own 5, 3 and 10.
- `services`: 2 addresses and 2 handlers in the limiter, a token in 2 parts arriving one per tick, burst 1, 4 ticks
  and 3 allowed requests (enough to fill, spend and refill a bucket). 3 requests in the shutdown, 2 connections, 2
  HTTP requests of every kind. 2 registry entries under one or two IDs and names, a timeout of 1 and 3 units of time: enough for an entry to run out, be handed out all the same, be found out and come back.
  Logs of up to 5 events over 2 accounts (the last `Transfer` may pass the bound of 4). 3 Kafka payments, one of them
  malformed, 2 crashes; 3 NSQ orders, one garbled, 2 in flight, 2 attempts. 3 RPCs and 2 users. 2 clients with one
  e-mail, which is the conflict. 2 handlers, 3 observations and bounds 1 and 2. 2 runs of the order program.
- `structures`: ring capacity 2, counters modulo 8, 11 events: both counters go once around, with every alignment of
  head and slot. Caches of capacity 0, 1 and 2 with 3 keys. Words of up to 2 letters over 2, so that every pair of
  words shares a prefix or is one. Heaps of up to 5 items with a tie. Union-find and up to 4 edges over 4 nodes, between any two of them and of two weights.
  Arrays of 1 to 5 elements, full and partial trees. 3 keys in 2 shards, in every distribution, with one value, since none of its properties looks at values. All 8-bit words. Messages of 0 to 7 bytes
  around the 3-bit limits.

Deadlock is checked in `breaker_trials` and `breaker_reopen` only. It is off in the others because sessions may stop
asking, programs end and histories are bounded; there `SettlesClosed`, `EveryLeaseLapses`, `PublishReturns`,
`ForgottenSubscriberStops`, `ProgramsEnd`, `ServicesStop` and `RingDelivers` say who must not be left waiting.

## Fairness

Weak fairness is enough everywhere: a goroutine that stays able to move is run by Go's scheduler.

- `coordination`, breaker: time passes, a call returns, and every caller calls again: main's loops do, and `SettlesClosed` is
  about a breaker that is used.
- `coordination`, lock: the ticker of `expiryLoop` fires (line 98) and time passes. Sessions owe nothing.
- `coordination`, bus: a goroutine inside `Publish` is scheduled; the subscribers outside `Slow` go on ranging over their channels.
- `concurrency`: goroutines that can move are scheduled, and processor calls return. `parentTask`'s own work ends,
  and a worker under its child context stops once that is over: its ticker may be ready along with `ctx.Done()`, but
  select picks among ready cases at random and takes the other in the end. No cancellation and no timeout is ever owed. Accordingly `ProgramsEnd` claims nothing of a retry loop, which may wait, and of the pool's submitter
  only "unless cancelled": after a cancellation nobody receives from the jobs channel, and `Submit` on a full buffer
  would block for ever. main has room for all of its jobs and does not run into it.
- `services`: main's shutdown steps, the signal goroutine, `Accept` on a closed listener, a handler and the deadline
  that cuts its connection, and the RPC that holds or can have the lock. Nothing makes a signal arrive or a client
  answer.
- `structures`: producer and consumer of the ring are scheduled; both retry after a sleep (lines 176 and 191).

## Findings

1. `breaker_trials`: "Testing one request" (lines 9 and 39) is not enforced: in HalfOpen everyone is let through.
2. `breaker_reopen`: a success counts by the mode captured before the call. Trials that outlive a failed half-open
   period take the success count over the limit and set Closed while the breaker is Open and cooling down.
3. `lock_stale_unlock`: `Unlock` looks at the name and not at the token, so two sessions of one holder are not kept
   apart, although lines 9 and 14 offer fencing tokens against stale holders.
4. `ring_len`: `Len` loads tail before head. A goroutine that is neither producer nor consumer can see a head beyond
   the loaded tail and get a negative number.
5. `trie_delete`: `Delete` returns whether the root's branch can be dropped, not whether the word existed (line 88).
6. `metrics_buckets`: `Observe` counts an observation in every bucket above it and `Expose` adds the buckets up
   again, so a bucket line can exceed the count line.
7. `kafka_at_least_once`: "At-least-once by default: commit after processing" (line 7 of the consumer): the automatic
   commit (line 39) may take in a message that has been handed out and not processed, and a crash then loses it.
8. `map_keys`: "Keys returns all keys (snapshot, not live)" (line 103): the walk unlocks each shard before it locks the
   next, so a key set behind it is missing while one set later ahead of it is there.

Seen on the way and not given a run: among the concepts of its module `docs/modules/09-dsa.md` line 11 names an
"overwrite policy" for the ring buffer, whose `Push` returns false when full, as the comment on it says; the limiter's
"client IP" above; and `writeFrame` of the WebSocket server, which "sends a WebSocket text frame" (line 104) but leaves
the length out from 126 bytes on, so an echo of a message of 119 bytes is no frame. The model writes those echoes as the
code does, and `StaysInStep` speaks of the written stream only while all of them are short.

## Proofs

All theorems hold for every value of the constants that these assumptions allow: threshold and halfOpenMax are
positive (`BreakerAssumption`); there is a key, leases are natural numbers, the holder of an absent entry is nobody's
name (`LockAssumption`); there is a worker, channels are buffered (`PoolAssumption`, `BusAssumption`); the ring's
counters wrap at a multiple of its capacity (`RingAssumption`); the limiter's amounts are natural numbers, a token
is not nothing (`RateAssumption`). `ConcurrencyAssumption` asks the same of the other goroutine programs: every stage
of the pipeline is manned and nobody works in two, there are hands and goroutines (finitely many where they are
counted), limits and the jitter factor are natural numbers, and the channels of the select loop hold what its producers send, as they do
in the code. `ServicesAssumption`: amounts, bounds and durations are natural numbers, the metrics' handlers are
finitely many. `StructuresAssumption`: capacities, hashes and message lengths are natural numbers, there is a shard,
the keys of the two maps are finitely many, the queue's items and the arrays' numbers are integers, an array has an element, a message's length fits into two bytes and its bytes are bits. Where none
is stated, none is needed: clients, requests, connections, orders, accounts and runs need
not even be finitely many. TLC evaluates all of them on the runs' instances.

The model bounds that stop a history from growing (`MaxEvents`, `MaxTime`, `MaxUsers`, ...) are constants like the
others, so a theorem holds of any bound and says what the code does before it reaches one.

**Circuit breaker.** The inductive invariant is the conjunction of the type invariant with the safety invariants.
None of the interesting ones is inductive alone. "The counter is the number of consecutive failures" breaks if a late
trial of an earlier half-open period succeeds without clearing the failures; it does clear them because, the period
having ended in Closed, the success count is already at its limit (`LateTrialsCountAsSuccess`), which in turn follows
at the step that closes the breaker from `HalfOpenUnfinished`. `TripsForAReason` is an action property from the same
invariant. `OneCallerFollowsProtocol` is the refinement of `BreakerProtocol` under the hypothesis of at most one
caller: then the captured mode is the current one (`CapturedIsCurrent`). `BreakerFollowsProtocol` carries it over to
the breaker that `Services` composes.

**Distributed lock.** `TokensAlwaysFence` needs only the bound of every token by the counter. `KeepsLockInv`,
`ReleasesOnlyItsOwn` and `ImplementsLeaseLock` assume `DistinctNames`; without it the second is false, which is
finding 3. The invariant adds that an entry under a working session's name, for its key, carries that session's token
(`NameIsOwn`); the refinement maps a key's owner to the session whose lease runs, unique by the invariant.

**Event bus.** `BusSafe` rests on "registered exactly while open, once" together with "whoever has channels left to
offer to is inside `Publish`" (`Loops`), which keeps the writers out. `BusDelivers` adds a second layer, `DInv`: every
event owed is in exactly one of received, dropped, buffered and about to be offered (`Accounted`, `OnceEach`); a
pending event is newer than all the subscriber has seen of its publisher (`Offering`), which is what makes order
survive an append and a drop alike. It stands on lemmas about appending to and taking from a sorted sequence.

**Induction.** The library's induction theorems take a predicate, which the provers here cannot instantiate.
`NatSetInduction` states induction with a set in its place, from the well-foundedness of `<` and the existence of a
minimum (`WFMin`). On it stand the facts about recursive functions that the other proofs cite: a recursion over
`0..n` has a solution (`RecursionExists`), one whose steps stay in a set stays in it (`RecursionStays`), two
recursions with equal steps agree (`RecursionsAgree`), and running sums exist (`SumsExist`). A `CHOOSE`-defined
recursive function of a model is shown to unfold by the first of them, once per function (`ReplayedUnfolds`,
`CashUnfolds`, `TimeUnfolds`, `ScheduleRecursion`, `FramesUnfold`). The recursions of the tree structures go over pairs,
nodes and calls: `MeasuredRecursion` says that one whose argument gets smaller by some measure in the natural numbers
has a solution, `MeasuredInduction` is the induction that goes with it. The measures are the distance from the top or the end of
the heap, the work ahead of `Collect`, the room above a node's rank and how many positions a call covers.

### The goroutine programs (`ConcurrencyProof`)

| Theorem | States | The inductive invariant adds |
|---|---|---|
| `KeepsPoolInv`, `WrapsUp` | `PoolInv` | how far each goroutine is (`PoolProgress`), why a worker stopped (`PoolReasons`), where one that took a job after the cancellation can be (`PoolLate`). Conservation of jobs is disturbed by `Take` and `Send` only, each with a lemma; completeness without a cancellation then needs no further induction |
| `PipelineLosesNothing` | `PipelineAccounts` | where a worker is, what it holds and which channels are closed go together (`CrewInPlace`), and why a stage stops (`StopsInOrder`). Every step is one of four movements of an image, and only these are checked against the accounts |
| `TasksBoundedAndWaitedFor` | `BoundedAndWaitedFor` | goroutines are launched in order, each behind its `Add` (`LaunchedInOrder`); the two counters are cardinalities of sets of goroutines (`CountersCount`) |
| `PatternsDeliver` | `ChannelsDeliver` | what is in the two hands of the chain (`ChainInv`), what each forwarder holds (`FanInInv`), and for the buffered pool that the jobs channel holds exactly the jobs behind those taken (`BufferedInv`) |
| `WaitsAreScheduled` | `RetriesKeepSchedule` | the delay in hand is the next of the schedule during a call and the current one during a wait, with jitter in the waits alone (`RetryInv`, `JitteredIsNat`). That one growth of the delay in `Retry`, cap included, is one step of `computeBackoffSchedule` is the lemma `CappedIsSchedule`; that the recursion of the latter exists is `ScheduleRecursion` |
| `NoHarmInSharing` | `SharedWithoutHarm` | section by section who is inside the lock and what it has read: a racing writer wrote at most as many as have ended (`Racing`); the two words agree whenever the writer is not between them (`Configuring`) |

### The services (`ServicesProof`)

| Theorem | States | The inductive invariant adds |
|---|---|---|
| `LimiterSafe` | `LimiterInv` | a window bound is not inductive. `WindowBudget` is: for every window that began at an allowed request, what was spent in it plus the tokens left is at most the burst plus what came in since. A refill raises both sides alike unless the cap cuts the left one; an allowed request moves a token from one term to the other |
| `ShutdownSafe` | `NothingLostInShutdown` | what the two waits' results mean from then on (`WaitsHold`), where each message is (`MessagesHold`); for the HTTP server which inputs reach which handler |
| `GoodbyeMeansClosed` | `GoodbyeIsTrue` | the wait group equals the number of open connections, a finite set although the set of clients need not be |
| `HealthFollowsHeartbeats` | `HealthIsRecent` | the flag of every entry is that of its last check (`Fresh`); an entry was seen at its ID's last heartbeat or has a twin (`Second`); every pointer handed out was recent when the checker had last looked, or has been renewed since (`HandedRecent`) |
| `LogReplays` | `ReplaysAtEveryVersion` | the replay to the end carries the version of the account's last event (`LatestVersion`). One lemma (`AppendKeeps`) says what a valid event does to a good log; each command appends one or two valid ones |
| `ImplementsLedger` | `IsLedger` | nothing: the refinement of `Ledger` follows, step by step, from `LogInv` and from what appending an event does to the replayed balances and to the running sum of the cash (`BookAppend`, `CashAppend`) |
| `DeliveriesAreAccountedFor` | `DeliveriesAccountedFor` | for Kafka that the committed offset is behind the position (`Offsets`) and that a message has been processed at most once per crash, once more if its turn since the last crash is over (`OncePerCrash`); for NSQ that an answer on its way is about a handled order (`Answered`) |
| `ListsAreOfOneMoment` | `ListsOneMoment` | who holds the lock is where the RPCs are (`LockHeld`); the one ID not yet stored is the writer's (`IDsGivenOnce`) |
| `RecordsHangTogether` | `AccountsHangTogether` | a document about to be inserted is as old as its lookup (`ClientsHold`), which is why two users can share an e-mail only in the two documented ways; for PostgreSQL that a run before the end of its commit has neither order nor result (`OneOrder`) |
| `MetricsHangTogether` | `MetricsAgree` | counter and gauge are cardinalities of sets of handlers (`HandlersCounted`); the counter never goes back, and between the counter line and the histogram of one page at most every handler once is in between (`PageInTime`) |

### The data structures (`StructuresProof`)

| Theorem | States | The inductive invariant adds |
|---|---|---|
| `RingSafe`, `PopsInOrder` | `RingInv`, and that events leave in the order they came | the wrapped counters are the true numbers of events modulo `Wrap`; what each goroutine's loaded copy may lag behind; the contents of every slot in use. That two true counts within one capacity have equal remainders only if equal or a full capacity apart is the arithmetic lemma behind `NoRace` and the full test |
| `RejectsWhenFull`, `ImplementsFIFO` | `RejectsOnlyWhenFull`, `IsFIFO` | nothing: both follow from the same invariant, step by step |
| `WalksAreRegular` | `WalkIsRegular` | every key lives in the shard of its hash (`MapInv`), so what the walk has passed and what lies ahead are disjoint: the keys collected are of passed shards only, so no later shard can count one again, and a key that stayed through all moments and is not collected lies ahead |
| `ImplementsRecencyList` | `CacheIsRecencyList` | the map is a bijection from its keys to the elements of the list, each of whose entries names the key it is under (`Linked`). The refinement is by the operations: taking an element out, putting one in front and dropping the last one each keep `Linked` (`LinkedWithout`, `LinkedWith`, `LinkedMoved`) and do to the entries what `RecencyList` does (`TakenOut`, `PutInFront`). That an element is free for `Insert` is a pigeonhole argument (`FreeElement`) |
| `StreamStaysInStep` | `StaysInStep` | the bytes not yet read can be cut into the frames of exactly the messages not yet read (`Cut`), and the bytes written are the echoes of those read. `FrameLayout` says what is where in a client's frame, `ReadsFrame` that whatever begins with that frame is read as its message, in all four cases of mask and length. The messages are of any length the two bytes can say; the codes are the model's, of three bits |

### The tree structures (`TreesProof`)

None of these needs a strengthening that is more than a conjunction of facts about the structure itself; the work is in
what the recursions compute, which is shown by induction once per function, and in what one operation then does.

| Theorem | States | The argument |
|---|---|---|
| `ServesInPriorityOrder` | `HeapServesInOrder` | the order is one of ranks. On the way up everything but the item and its parent is in order (`OrderedButUp`), on the way down everything but the item and its children (`OrderedButDown`); one swap moves the exception one place, and the loop ends where there is none. A swap keeps how often each item is there, so nothing is lost or doubled, and in an ordered heap the first is served before all others |
| `TrieHolds` | `TrieHoldsItsWords` | the nodes are the root and the prefixes of the words held, no others. A deletion prunes exactly the nodes that are prefixes of the deleted word only: the recursion goes up from the word's end and stops at the first node that ends another word or has another child. `Collect` visits each word below the prefix once, by the number of nodes ahead of it |
| `ForestRepresentsPartition` | `RepresentsPartition` | ranks grow on the way up (`Climbs`), so every way ends at a root; compression changes no root (`Keeps`), and one root takes over the class of the other when two are linked (`Joins`). A root of rank r has at least 2^r elements (`Heavy`), which is what the rank comparison before linking is for |
| `SegmentsSumTheArray` | `SumsTheArray` | the halves of a call are calls again, so no node is beyond the `4 * n` cells that the code allocates ("4n is safe upper bound", `CallsAre`); the calls of the two halves never share a cell (`CellsAreApart`), so one leaves alone what the other wrote (`Spares`) and every node in use holds the sum of what it covers (`HoldsSums`). A query then adds up its overlap with every node |

### The compositions

`ProgramsKeepTheirPromises`, `ServicesKeepTheirPromises`, `StructuresKeepTheirPromises` and `TreesKeepTheirPromises`
are the same statements about `ConcurrencySpec`, `ServicesSpec` and `StructuresSpec`, the specifications that TLC runs:
a step of one program stutters for each of the others (`ProgramsApart`, `ServicesApart`, `StructuresApart`,
`TreesApart`), so a behaviour of the composition is one of every component. With them the invariants of the runs
`concurrency` and `services`, both refinements of the latter, and of the run `structures` what is in the two tables
above hold for every value of the constants; `FollowsProtocol` under its hypothesis of one caller.

The theorems about breaker, lock and bus are about `Spec`, `LockSpec` and `BusSpec`, one program each, and none is
about `CoordinationSpec`, which only lets TLC check the three in one run.

### Only model-checked

Liveness (`SettlesClosed`, `EveryLeaseLapses`, `PublishReturns`, `ForgottenSubscriberStops`, `ProgramsEnd`,
`ServicesStop`, `RingDelivers`), which is out of the prover's reach. Of the safety properties only
`AnswersByDefinition`, which has no state to be invariant over: it compares what two pure functions return with a
definition, over every graph and every word of the instance. That Kruskal's tree weighs no more than any other set of edges that connects as
much needs an exchange argument over folds of sets and sequences whose steps are operators, and the library's facts about
those take operators as parameters; the powers of two in `nextPowerOf2` are `^`, of which the provers know nothing.

## What is not modelled

- Printing, logging, formatting, sample data and the texts the programs print; memory, slices and garbage.
- Wall-clock time. Timeouts are ticks (breaker, lock, limiter, registry) or happen at any moment.
- In the breaker, an `fn()` that panics: the program's does not. In the graceful shutdown, a server that fails to
  listen. In the back end, the wrapper's operations no route reaches, the bootstrap, and malformed tokens that end in a
  recovered panic. In `03_select_statement` and `06_context`, the sections that show a single select or value.
- In the bus, `Subscribe` after `Close` is modelled (it registers a channel that stays open until the next `Close`),
  and no property speaks of it. Neither does one of the Kafka consumer's blocking read: on a quiet topic the program
  does not end after a signal, and no document says it should.
- The MongoDB example, the tracing example, the gRPC client and the language, design and systems lessons have no
  state that outlives a call; the interview patterns demonstrate five pitfalls of the language one after the other,
  and the only goroutines among them write one map under one mutex. Each has its entry in `PROJECT.json` with the reason.

What would be worth adding: a proof that Kruskal's tree is minimal, on top of `ForestRepresentsPartition`; and slices
that share an array, which the lessons on slices and pitfalls show (append in place or into a new array).
