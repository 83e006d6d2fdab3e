# A verification of go-api-demo

TLA+ models of `go-api-demo`, model-checked with TLC on small instances and
proved about with TLAPS for every size. Paths are relative to the root of the
repository; `internal/` is left out where it is plain.

## The system

A service creates users over HTTP and gRPC and serves them again, from stores
other than the one it writes.

    POST /user ---> create interactor ---> MySQL (or memory)
                                             |  Debezium, outside this code
                                             v
                                  Kafka topic, by id, compacted
                                    |                     |
                         cache group (Num readers)  search group (Num readers)
                                    |                     |
                                    v                     v
    GET /user <------------------ Redis             Elasticsearch ------> GET /user/search/{term}

| component | state | operations | interacts through |
|---|---|---|---|
| `cmd/main.go`, `app`, `bootstrap` | what has been opened, the components, the context | New, Run, Close, the signal handler | an errgroup and its context |
| `config`, `consume/topic.go` | the environment; the topic, kept by the brokers | the getters; dial, find the controller, create the topic | called by New, at every start |
| `routing` (HTTP, gRPC) | listener, requests in flight | Run: listen, serve, stop | the context; handlers run in goroutines of their own |
| `telemetry` | two providers | Run: set up, wait, shut down | the context |
| `user/create`, `validate`, `response` | none between requests | validate, draw an id, store, answer | the storage |
| `user/read`, `user/search`, `sanitise` | none between requests | list, search | Redis, Elasticsearch |
| `storage/mysql`, `storage/memory` | the rows | Create, Read (no caller) | one of the two is chosen at start |
| `storage/redis` | `user:<id>` keys | Create (MSET), Read (SCAN, then MGET) | written by the cache group |
| `storage/elastic` | documents, those refreshed | Create (a goroutine per user), Search | written by the search group |
| `consume`, `user/consume` | per reader: position, message in hand; per group: assignment, offsets | fetch, decode, process, commit | Kafka, the store of the group |
| `schema`, `format` | codec cache | GetDecoder, Decode, MsecToTime | called by New and by the consumers |
| `metrics` | a total per reader | RegisterMetrics, a callback per collection | the readers' statistics, the telemetry |
| `log`, `generated` | none | Panic; dispatch of gRPC calls | |

What is hard about it:

- **Concurrency.** Every reader is a goroutine, several share a group, and the
  coordinator moves partitions under them while they hold messages. Handlers
  run beside consumers that write what they read. A write to Elasticsearch is a
  fan-out of goroutines of its own.
- **Failure.** Process or commit may fail at any point, or the process may die
  between them. Redelivery is the normal case. An error of a message is logged
  and nothing else. A start that fails leaves behind what it has created.
- **Ordering.** Changes of one id are ordered by their partition. Compaction
  takes some of them away. A tombstone follows a delete that is never processed.
- **Timeouts.** The MySQL timeout ends the wait, not the statement.
- **Conversions.** A creation time goes through a column without a fraction of
  a second, an event in milliseconds, a struct and a format; a creation is told
  from an update by comparing with an empty struct, its zero time included.
- **Shutdown.** One context ends everything, and things are closed in the order
  they were opened.

What makes each component correct:

- consumer group: an offset is committed only past what has been dealt with;
  the store holds only creations that were published, and keeps them;
  everything published is dealt with in the end; a cancelled consumer ends;
- a write to Elasticsearch: an error if and only if a request has failed, no
  send on a closed channel, no goroutine left behind, the call ends;
- a list from Redis: all or nothing of what was there throughout, nothing that
  is not there at its end, and the call ends;
- requests: a 201 is kept, a 400 leaves nothing, what is served was stored, a
  created user is served in the end, with the contents its creation was
  answered with, whichever the protocol;
- start: it fails only for a reason, can be repeated after any failure, and makes
  no reader that could not work;
- lifecycle: nothing is closed under a running component, everything is closed
  in the end, a signal or any error ends the process;
- metrics: no message lost or counted twice, reported in the end.

## Modules

| module | models |
|---|---|
| `UserProjection` | abstract: a store that is a projection of the users created |
| `StoreWrite` | abstract: one call of `user.Creator`, and what its reply promises |
| `Listing` | abstract: calls of `user.Reader` on a store that others write to |
| `ConsumerGroup` | one group of consumers, with topic and coordinator |
| `UserPipeline` | requests, storage, both groups, both read stores: whether and when a user arrives |
| `UserRequests` | both protocols' handlers, MySQL's columns, the event, the processor: what a user looks like |
| `IndexFanOut` | one `userSearch.Create`: goroutines, WaitGroup, channel |
| `CacheScan` | `userCache.Read`: SCAN page by page, then MGET |
| `Startup` | config and `bootstrap.New`, repeated, against services that come and go |
| `AppLifecycle` | one process from New to Close |
| `ConsumerMetrics` | readers' counts, callbacks, collections, exports |
| `MC...` | constants and symmetry for TLC |
| `...Proofs` | theorems, a module for each of the eight above |

**Composition.** Three abstract specifications stand between the modules.

- `ConsumerGroup` implements `UserProjection`. `UserPipeline` puts a projection
  in the place of each group: a published user shows up in the store, or the
  group has given up on it (`missedBy`, which stands for `ConsumerGroup`'s
  `failed`, `rejected` and `compacted`). From MySQL's rows to Redis it is shown to
  implement `UserProjection` itself.
- `IndexFanOut` implements `StoreWrite`: after nil every user has been written
  or refused, after an error a write may still be on its way. Those are the
  ways a message ends in `ConsumerGroup` (`ProcessCreate`,
  `ProcessCreateRejected`, `ProcessCreateError` with the write applied or not), where the
  write that is late counts as applied with the error.
- `CacheScan` implements `Listing`. `UserPipeline` takes a list as one call of
  `Listing`, with `ListStart` and then `ListDone` or `ListEmpty`, and claims nothing
  of its own about what a list leaves out.

`Startup` ends where `AppLifecycle` runs, which takes `New` as the sequence of
its steps with what each leaves to be closed; `AppLifecycle` runs the consumers
as components that wait for their context; what they do in between is
`ConsumerGroup`. `UserRequests` follows the contents of the users that
`UserPipeline` follows as names.

### ConsumerGroup

`pc` is where `c.Run` stands: `fetch` (in FetchMessage), `consume` (in consume,
before the commit), `commit` (in CommitMessages), `returned`, `down`. `hand` is
`msg`, `ctxDone` says that the context is cancelled. `view` and `position` are
the kafka-go reader's assignment and offset, `committed`, `owner`, `members` and
`synced` the coordinator's. `failed` and `rejected` are history: the messages
whose error was logged, and those whose write Elasticsearch refused without
`userSearch.Create` noticing.

One action for each outcome of a call: `ProcessCreate`, `ProcessCreateError`
(with the write applied or not) and `ProcessCreateRejected` are the three ways
`creator.Create` can end, `Commit` and `CommitError` those of CommitMessages. A
store call fails freely once the context is cancelled, otherwise at the cost of
one of `MaxFaults`. A commit is accepted from any member of the current
generation, for any partition, at any offset, backwards too; from an older
generation it fails. A commit between two generations may also wait for the
next one (`Waits`), so `CommitError` happens there but nothing counts on it. `Sync` is separate from the loop, so a consumer may hold
and process a message of a partition it no longer owns. A panic (`msg[5:]` in
`schema.Decode` with a value of fewer than five bytes) is a `Crash`.

An id is inserted once (`uuid.New` in the create interactor), may be updated and
deleted by hand, and the connector may publish again anything it has published.

### UserPipeline

`create` and `status` follow a POST through controller, interactor and storage;
`executing` are statements MySQL has not dealt with, so that an INSERT can
happen after the request was answered 500. `query` follows a list or a search.
`ListDone` takes from `CacheScan` what it shows of SCAN: the keys there throughout, and any of
those that come in between. `ListEmpty` is the error of MGET that
`userCache.Read` does not look at. `SearchDone` returns any of the visible documents, since
which match and which are among the first ten does not matter here. Ids are
identified with requests.

### UserRequests

`at` is where each call is: `idle`, `storing` and `stored` (in and after the
interactor's call of Create), `answered`. `user` is the `user.User` the create
interactor has made, `answer` the status and the users of the response. Strings
are short sequences of characters, times numbers of milliseconds. `CreateHTTP`
and `CreateGRPC` each call `ValidateStruct` on their own, as the controllers do.
`Insert` rounds the time to the column's precision (`RowOf`), or fails if a name does not
fit (`Fits`). `Consume` is a group that gets the event of a row: `Decoded` and
`Before` are what the processor's conversion makes of after and before,
`Process` its three cases. `Query` answers a read with all documents of the
cache and `Search` with a page of those that match the cleaned term.
`faulted` is history: the calls a store has failed.

### IndexFanOut

`pc` is the caller in `userSearch.Create`: `spawning` (the loop over the users),
`collecting` (the loop over the channel), `returned`. `worker[i]` is the
goroutine of a user: `calling` Elasticsearch, `handing` its response to the
unbuffered channel, `handed` (received, `wg.Done` to come), `done`; `closer` is
the goroutine that waits for `wg` and closes. `Receive(i)` is a send and its receive,
which an unbuffered channel makes one step. `MarshalFails` is the early return
of the loop. The program passes one user per call; the type allows any number.

### CacheScan

Redis visits its keys bucket by bucket. `NextPage` is one page of the iterator:
the keys of the bucket as they are then, perhaps none, and perhaps a key found
before (`Again`). `MGet` fails for a key that is gone, since Read does not take
a nil for a user, and `MGetFails` is the error that is not looked at, which leaves
an empty list. `owed`, of `Listing`, is history: what Redis has held since the
call began. `Evict` is Redis or somebody who deletes.

### Startup

`pc` is the step of `New` that a process has come to, in the code's order.
`env` are the settings by the getter that reads them; an int, duration or bool that
does not parse panics at once (`ReadConfig`), used or not; an error of `NewLogger`,
which zap does not return for its own two configurations, is left out. Every step that
calls a service may fail (`Fail`), and `create` may fail after the broker has
created the topic. `CreateReaders` is `NewConsumers`, once per group; `kafka.NewReader` panics over
settings that parse and make no sense to it (`Refuses`). The readers' topic
comes from the environment, that of New is fixed (`UsersTopic`); `topic`
is the number of partitions the broker has, which a second process, an earlier
attempt, or the connector (`ConnectorCreatesTopic`, with one partition) may
have fixed before.

### AppLifecycle

`BootSteps` lists the steps of `bootstrap.New` that can fail with what each
appends to the closers. `comp` is where the Run of each component is, `first`
the error the errgroup keeps, `Cancelled` the context it derives. `stopped` is
the goroutine in each router that waits for the context; it may run before or
after Serve is called. `End` is the end of the process, however it comes about.

### ConsumerMetrics

`snapshot` is what kafka-go's `Stats` will return next, `total` the copy of
`totalMsgCount` in each callback, `observed` and `exported` what a collection
and the outside have of each series. `NewConsumer` is a round of the loop of
`NewConsumers`, which makes a reader and registers its callback; readers read
from then on, collections begin when the telemetry has set the meter provider
(`SetMeterProvider`), which is after New. A series is its attributes: both groups have the
same (empty) id by default, and only the destination keeps them apart.

## Runs

| run | instance | shows | distinct states |
|---|---|---|---|
| `group` | 2 consumers, 1 partition, 2 ids with 2 contents, 3 messages, 1 disturbance | `CommittedIsSettled`, `StoreOnlyGrows`, implements `UserProjection`, `EventuallySettled`, `ShutdownEnds` | 412 000 |
| `group_lost` | 1 consumer, 2 messages, 1 failure | **violated**: `CommittedIsStored` | |
| `pipeline` | 2 requests, 1 query, 3 failures, MySQL | `RefusedIsNeverServed`, `CreatedIsStored`, `ServedIsStored`, implements `UserProjection`, `EventuallyServed`, `LateRowsAreServed` | 201 000 |
| `pipeline_memory` | 1 request, memory storage | **violated**: `EventuallyServed` | |
| `requests_safety` | 2 HTTP callers, 1 gRPC caller, 2 ids, names that are too short, right and too long, terms with and without a foreign character, 2 ticks of the clock | `NoInputBreaksTheStore`, `ServedNamesAreValid`, `ServedAsAnswered`, `SameEverywhere`, `CreationsAreRecognised` | 90 000 (symmetry) |
| `fanout_safety` | 3 users | `NeverSendsOnClosed`, `ReplyIsRight`, implements `StoreWrite`, `EverythingEnds` | 2 500 |
| `cache_lists` | 3 keys in 3 buckets, 1 list, 2 failures | implements `Listing`, `EveryListEnds` | 112 000 |
| `startup` | 2 processes, 13 environments, 2 failures | `PanicsForAReason`, `ReadersCanWork`, `Recovers` | 225 000 |
| `app_sql` | 2 consumers, 2 HTTP requests, 1 gRPC request, MySQL | `ClosedAfterReturn`, `ReadersAreClosed`, `CancellationEnds` | 73 000 |
| `app_memory` | the same with the memory storage | **violated**: `ReadersAreClosed` | |
| `app_graceful` | as `app_sql` | **violated**: `HTTPIsGraceful` | |
| `metrics_counts` | 1 reader of the cache and 2 of the search group, 2 messages each, 1 failed export | `NothingUncounted`, `ExportedIsCurrent`, `EventuallyReported` | 48 000 |

Every passing run also checks its module's type invariant. `TypeOK` says more
than types in three places: the WaitGroup is never negative (`IndexFanOut`), a
list has no user that nobody has created (`CacheScan`), and what is left of a
search term has nothing but letters and hyphens in it (`UserRequests`).

**Bounds.** `MaxEvents` (messages per partition), `MaxMessages` (per reader)
and `MaxFaults` (failures, crashes, shutdowns, spurious rebalances, replays,
compactions, evictions) are guards of the actions they count, `Start` and `End`
bound the clock.

- `group`: two consumers and one partition are what it takes for a partition
  to change hands and come back; three messages let one fail, one follow it and
  one be redelivered. With one disturbance, none hits while another is being recovered from
  by more than a redelivery; the safety properties of this module are proved
  for any number. Partitions do not interact but through their owner.
- `pipeline`: two requests let a user come in while another is
  listed or searched for; one query, since a query changes nothing that others
  see; three failures let a request time out, a crash follow and a group give up.
- `requests_safety`: a second is two milliseconds, so that the clock passes a time that
  is rounded up; a page has one hit, so that hits are left out; three callers
  let one create, one list and one search in either order and protocol. The
  contents of a name only matter for its length and its letters.
- `fanout_safety`: with three users one can fail, one succeed and one be last.
- `cache_lists`: three pages have a first, one in between that may be empty, and a last;
  one list, since lists do not touch what others see.
- `startup`: two processes race for the topic; each environment departs from
  `.env.dist` in one setting, or sets nothing; each process can fail and
  start again without bound, calls fail twice.
- `metrics_counts`: the default numbers of readers, one failed export between two good ones.

Symmetry is used in `requests_safety` and in violated runs of `AppLifecycle`,
which check no liveness. Deadlock is checked for `AppLifecycle`, with
`Finished` as the one state it may rest in. The other modules stop when their
bounds are used up or when all calls have been answered.

**Fairness.**

- `ConsumerGroup`: weak fairness of every consumer's loop (the Go scheduler) but for
  a commit that waits for the next generation,
  of each reader's `Sync` and of `Rebalance` (kafka-go and the broker), and of `Close` (main
  returns). None for the connector, the signals or restarts: `EventuallySettled`
  assumes instead that some consumer goes on. An error of a fetch changes no
  state and is no step: a broker that never answers again is outside of what is claimed.
- `UserPipeline`: MySQL deals with its statements, the connector with the
  rows, Elasticsearch refreshes, and each group takes its turn for what it has
  not given up on, as `EventuallySettled` of `ConsumerGroup` shows. None for the
  requests.
- `IndexFanOut`: the caller, every worker and the closer are scheduled, and a
  request ends, since its context does. Late arrivals are not fair.
- `CacheScan`: a call takes its next step, and its command ends. Consumers may
  write for ever or never.
- `Startup`: a process goes on with its start, and each call ends, well or not.
  Nobody has to start anything or register the schema.
- `AppLifecycle`: weak fairness of main and of every component, none for
  requests, signals or failures, so a handler may hang for ever.
- `ConsumerMetrics`: New and the start of the telemetry come to their end,
  collections, callbacks and exports go on.
- `UserRequests`: none, it has no liveness property.

### What the violated runs show

- `group_lost`: a write fails, the error is logged, the next message of the
  partition is committed, and with it the failed one (`consume/consumer.go:101`,
  with a TODO about a retry topic). README.md:14 counts on the events to
  populate the stores without the problem of dual writes.
- `app_memory`: `newUserStorage` returns a nil closer with the memory storage.
  `addCloser` asks whether the slice of its arguments is nil, and collects it
  (`bootstrap/bootstrap.go:80`). `Close` panics on it before it reaches the
  readers. `app/app.go:38` speaks of graceful shutdown of the Kafka consumers.
- `app_graceful`: `Shutdown` is given the context whose end triggered it
  (`routing/http.go:139`), so that it waits for nothing, and Run has returned by
  then anyway. The same comment speaks of the HTTP server.
- `pipeline_memory`: with the memory storage, the default, no query reads what
  was created (`bootstrap/router.go:54`), though README.md:11 and README.md:761
  offer it as a storage to run the API with.

Each property of the other runs is tried against a slip in the code's
definitions ("A slip: ..." in the modules, listed in `PROJECT.json`), which TLC
must find: a group that starts at the end of the topic, a WaitGroup counted too
late, an error replaced by the next, a page that is empty taken for the last, a
protocol that forgets the validation, a topic that exists taken for an error.

### Seen while modelling

What follows the modules show too, but no run is kept for it.

- The topic is compacted by key (`config/config.go:234`). A creation that a
  later change of the same id overtakes is gone before a slow group has read
  it, and the update is "not implemented": the user is missing without any write
  having failed. `ConsumerGroup` keeps such ids in `compacted`.
- Elasticsearch's refusal (a 429 or 503) is a response without an error. It is
  collected but its status is not looked at (`storage/elastic/user.go:124`), so
  Create returns nil and the message is committed. The models keep refused users
  apart (`rejected`, `refused`).
- If marshalling fails for a later user, Create returns while the goroutines
  before it wait for a receiver for ever (`storage/elastic/user.go:84`). The
  program passes one user per call, so this cannot happen today.
- gRPC is stopped with `Stop`, not `GracefulStop` (`routing/grpc.go:115`):
  calls in flight are cancelled though what they have stored stays stored.
- A delete that fails in Process is followed by its tombstone, whose commit
  passes it (`consume/consumer.go:117`). Nothing is lost by it as long as the processor
  carries no delete out.
- An INSERT whose request was answered 500 may still be carried out, and
  its user is then served like any other (`LateRowsAreServed`). A client that tries
  again has made two users.
- The id of a consumer in the metrics is made of its group's id, which is empty for
  both groups by default (`consume/consumer.go:63`): only the destination keeps them apart.
- `IsEnabled` of a consumer is read from the environment and never looked at.
- The readers' topic is read from the environment (`config/config.go:169`), the one that
  New creates is fixed (`config/config.go:228`): they agree by `.env.dist` only.
- The connector creates the topic with one partition where New asks for two; whoever is first
  wins, and one of the two search readers then has nothing to read.
- Search terms lose all but letters and hyphens; names are stored as they come.
  A name with an apostrophe or a space is not found by itself. A query is
  matched against every field, ids included.
- A list after an eviction fails as a whole, and a failed MGET is an empty
  list with a 200.

## Proofs

Theorems hold for every number of consumers, partitions, ids, requests,
callers, users, pages, processes and disturbances. Every safety property and
action property of a passing run, and every refinement, is the statement of
one. Each rests on an inductive invariant, most of them called `IInv`, that
has been model-checked before it was proved.

### The invariants behind the safety properties

- `ConsumerGroupProofs`: `TypeCorrect`, `NothingSkipped`, `StoreSound`,
  `StoreMonotone`. `CommittedIsSettled` is not inductive: an offset may be committed long after
  the partition was assigned to somebody else. `IInv` says why it is
  harmless. All that a reader has gone past is settled but for the message in
  hand (`BehindPosition`), all before the message in hand is settled even if the
  reader has been given other partitions since (`BehindHand`), and a message
  about to be committed is settled itself (`CommitIsSettled`). Being settled is stable, since
  the store only grows, and that in turn needs all creations of an id to agree
  (`CreationsAgree`), which a fresh id per insert gives.
  `NothingIsLostByItself`: until the first disturbance every creation behind a
  committed offset is in the store, though updates and deletes end in errors
  that are logged like any other (`Undisturbed`).
- `UserPipelineProofs`: `TypeCorrect`, `AnswersHold`, `ReadsAreStored`,
  `RefusalsHold`. `IInv` is the chain of the stores
  (`Downstream`: cache, index and results come from
  what was published, which comes from the rows), that nothing comes of a request not
  accepted (`OnlyAccepted`), and that a statement is executed once.
  Two theorems look further. `ListsDoNotGoBack`: what one list has shown, the
  next one owes. `NothingIsLostByItself`: with MySQL and until the
  first fault, no request fails or goes unanswered and no group gives up,
  however all of them overlap; whatever
  is lost is lost to a failure of something else.
- `UserRequestsProofs`: `TypeCorrect`, `AcceptedFits`, `NamesAreValid`, `AnswersAgree`,
  `OneUserPerId`, `EveryCreationCounts`, for any names, bounds and precision of the clock.
  Two arguments meet. One is arithmetic: what is rounded to the second and then
  cut off is the second cut off before, or the next (`ColumnRounds`), it is never zero,
  and `MsecToTime` loses nothing of a time that is not (`MsecKeeps`). The other is where
  things come from: every row is the row of one user that one call has made (`RowsAreUsers`,
  `IdsDiffer`), the documents of a group are the rows it has processed
  (`DocsAreRows`, which needs that the empty before is decoded into the empty
  user, `BeforeIsEmpty`), and answers show rows (`AnswersAre`).
  `AlphaLeaves` says what the cleaning of a term leaves, for every string.
- `CacheScanProofs`: `TypeCorrect`. While a call scans, Redis still holds all that it owes,
  and of that the call has found what is in the buckets it has passed (`Found`).
- `IndexFanOutProofs`: `TypeCorrect`, `ChannelSafe`, `NoLeak`, `ReplyCorrect`,
  `NilMeansAll`. The heart is `Counted`: the WaitGroup is the number of goroutines
  that have not ended, so that zero means none; `Joined` says which errors have
  been received.
- `StartupProofs`: `TypeCorrect`, `Repeatable`, `ReadersReady`, `Configured`,
  from what a process has got hold of by each step (`AtLeast`).
- `AppLifecycleProofs`: `TypeCorrect`, `ClosedLast`, and with MySQL
  `ReadersClosed`. Every step of a component, a server or a request either
  leaves main alone and happens while Run waits (`Aside`), or ends the process (`Gone`).
- `ConsumerMetricsProofs`: `TypeCorrect`, `Complete`, `Current`, `Monotone`.
  What is observed and exported lies between the totals at both ends of a
  collection (`Observed`).

### The refinements

Each is proved step by step from the same invariants: `Refinement` in
`ConsumerGroupProofs` (a group is a projection), in `UserPipelineProofs` (with
MySQL, everything from the requests to the cache is one) and in
`IndexFanOutProofs` (the fan-out is one call of Create), and `ListingRefinement` in
`CacheScanProofs` (SCAN and MGET are a list of `Listing`). In the last one
`Found` carries the argument: at MGET no bucket is left in front
of the cursor, so that all the call owes is among its keys.

### What liveness rests on

Fairness and ENABLED are out of the prover's reach, so that a property such as
`EventuallySettled` stays with TLC. Its safety half is proved, for every size:
that steps run out, that nobody waits for somebody who waits, and that when
all have come to rest what had to happen has happened. What is left to TLC is
that fair steps are taken, and the gaps in the table.

| liveness property | nobody waits | steps run out | at rest, it is done |
|---|---|---|---|
| `EventuallySettled`, `ShutdownEnds` | `OnlyKafkaIsEverWaitedFor` | `TheLoopGetsOn` | `RestMeansSettled` |
| `EventuallyServed`, `LateRowsAreServed` | | | `RestMeansServed` |
| `EverythingEnds` | `NobodyWaitsForEver` | `StepsRunOut` | `NoLeak` |
| `CancellationEnds` | `NobodyWaitsForEver` | `StepsRunOut` (all but those of requests) | `ReadersClosed` |
| `EveryListEnds` | | `EveryListRunsOut` | |
| `Recovers` | | `UsableStartsArrive` (ten steps, in order) | |
| `EventuallyReported` | | | `ExportsAreComplete` |

"Waits" and "at rest" are stated with the guards of the actions written out
(`CanRun`, `AtRest`, `SomebodyCan`, `MainCan`); TLC has compared those of
`ConsumerGroup` and `UserPipeline` with ENABLED in every state of the runs `group` and
`pipeline`. `OnlyKafkaIsEverWaitedFor` says of a consumer that it waits in
FetchMessage, or with a commit for the next generation (which `JoinsNext` brings it
to without any failure), and in both only while its context lives: every other message in hand has
a way on that takes no failure. `TheLoopGetsOn` compares what is still unread with what was, and
then the places in the loop, so that an error that makes the loop spin without
fetching would show.

### Findings in general

Two findings of the violated runs hold for every size. `MemoryServesNothing`:
with the memory storage no query ever returns a user. `MemoryClosesOnlyRedis`:
with it Close never gets past the Redis client, and no process ends by itself,
whatever there is to be closed behind it.

### Induction

Two proofs need induction over numbers, which the library states with an operator as a
parameter. They take the least counterexample instead: a set of numbers that is
not empty has a least one (`LeastNumber`, from the well-foundedness of `<`). For a
prefix of a search term that is the least at which the recursive function of
`AlphaWithHyphen` has not left just the letters; the function itself exists by
the same argument (`SomeLeft`). For a consumer it is the next message that is still there
behind a run of compacted ones. Measures that are finite sets (`Left`) need none:
a proper subset has fewer members.

`StoreIsPublished`, `NothingOutlivesTheCall`,
`RunsAsConfigured` and `ExportedOnlyGrows` are proved and not among the
properties of the runs.

The assumptions are those named in the modules: the constants that stand for
"none" are not members of the sets beside them, the bounds are natural numbers,
each id has a partition, the storage type is one of the two, the validator's
upper bound is not above the column's width, ids, names and
terms are sequences of characters, and the clock is past the first second of the epoch.

Only model-checked: the liveness properties `EventuallySettled`, `ShutdownEnds`,
`EventuallyServed`, `LateRowsAreServed`, `EverythingEnds`, `EveryListEnds`, `Recovers`,
`CancellationEnds` and `EventuallyReported` themselves.

## Not modelled

- `Read` of the MySQL and memory storage: nothing calls them. The memory
  storage's iterates over the map without the mutex Create holds, so that
  calling it would be a data race.
- Formatting and wording of the log, tracing, the wrappers of the telemetry.
  The telemetry's collection interval is read and not passed on; in the model
  a collection may begin at any time.
- The messages in `generated/user.pb.go`: accessors and descriptors. The
  service's dispatch is `GRPCCall` in `UserRequests`.
- Settings that are only handed to a library, such as addresses and byte limits.
- How Elasticsearch analyses text: a term matches a field that contains it.
- A Kafka reader without a group id, which the defaults allow
  (`config/config.go:153`): `ConsumerGroup` assumes one, as `.env.dist` has it.
- That a value too short for its header (`schema/schema.go:49`) panics again
  after every restart: it takes infinitely many crashes to say, and `Crash` is bounded.
- Widths of integers: milliseconds, seconds and counts are 64 bits wide and
  stay far from their limits.

## Plan

Done: all modules of the plan, and a theorem for every safety property. What is left:

1. The table above has gaps. That the steps of `UserPipeline` run out: no row,
   event or query is dealt with twice but for what a crash repeats. That a
   collection of `ConsumerMetrics` comes to its export.
2. `group` with two disturbances under fairness, if it can be made to fit.
3. `UserRequests` and `UserPipeline` under one clock: an abstract service of
   users, with contents, that both implement.
4. Updates and deletes, once the processor implements them: `UserProjection`
   would become a projection of the last change instead of the creation.
