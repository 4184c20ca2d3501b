# Formal models of the warehouse inventory service

TLA+ models of the C++ service in this repository, with TLC configurations that
check them on small instances and TLAPS proofs of the properties that matter
most. Paths below are relative to the repository; `pool.cpp:127` stands for line
127 of `src/infrastructure/database/connection_pool.cpp`, and so on.

The service is a Drogon HTTP server over PostgreSQL. Every request runs in one
of several server threads; the threads meet in the connection pool (one mutex,
one condition variable) and in the database (one transaction for each repository
call). That is where its hard behaviour is, so that is where the models are.

The repository contains code that does not compile as it stands (results
returned without `std::unexpected`, for example `migration.cpp:30` and
`message_broker.cpp:19`; `gmtime_s` and a `timegm` from two platforms). The
models follow the evident meaning of such a line: an error is returned.

## Inventory

| Component | State it keeps | Operations | What makes it correct | Module |
|---|---|---|---|---|
| Connection pool (`infrastructure/database/connection_pool`) | queue of connections, count, shutdown flag, reference count | acquire, create_connection, release by the wrapper, destructor | one user per connection; no lost wakeup; no slot lost without a fault; nobody on a destroyed pool | `ConnectionPool`, contract in `ConnectionLease` |
| Item API (`api/controllers/item_controller`, `item_validator`, use cases, `postgres_item_repository`) | the `items` table | create, get, update, patch, delete | unique SKUs, valid rows, answers that tell the truth, no lost or resurrected items; each request one instant | `ItemService`, contract in `ItemStore` |
| Message broker (`infrastructure/messaging`) | a queue per topic, running flag | publish, consume with timeout, subscribe, unsubscribe, destructor | a message is consumed once, in order; nobody sleeps beside one; consume returns | `MessageBroker`, contract in `TopicChannels` |
| Migrations (`infrastructure/database/migration.cpp`) | `schema_migrations` and the schema | apply at startup | each file once, in order, before anyone serves | `Migration` |
| Startup (`main.cpp`) | the pool's pointer, the wiring | initialize_application, main, signal handler | the pool outlives its users; nothing is served before migrations; a start ends | in `ConnectionPool` (`DropOwner`) and `Migration` (`Start`, `Serve`) |
| Authentication (`main.cpp`, `auth_controller`, `auth_middleware`, `postgres_user_repository`) | none of its own; the `users` table | login, refresh, logout, token checks | who is given tokens and who must be; the role is the present one | `Authentication` |
| Cache (`infrastructure/cache`) | entries with an expiry | get, set, del, exists, flush, evict_expired | an expired value is never returned; a fresh one never evicted | `CacheAdapter`, contract in `ExpiringMap` |
| Listing (`list_items_use_case`, query builders) | none; reads the `items` table | find_all, count | a walk over the pages misses nothing and repeats nothing; totals agree | `Listing` |
| UUIDs (`common/utils/uuid.hpp`) | one random generator for all threads | generate, from_string | no id twice | in `ItemService` (`Generate`) |
| Value objects, time conversions | none | arithmetic, parsing | no wraparound, round trips | not modelled |
| Category, supplier, warehouse; `InventoryService`, `WarehouseRepository` | none | none: interfaces without an implementation | | not modelled |
| Configuration, logging, HTTP and JSON libraries | | | | not modelled |

How they interact. `main` builds the pool, runs the migrations through it, gives
a plain reference to it to both repositories, and lets the pool's only
`shared_ptr` go at the end of `initialize_application`. A handler validates the
body, calls a use case, which makes one or two repository calls; each acquires a
connection, runs one transaction and destroys the wrapper, which gives the
connection back. The broker and the cache are used by no handler.

Hard behaviours, each at its line under "hazards" in `PROJECT.json`: wakeups and
barging in the pool and the broker; objects destroyed under a thread that uses
them; references held across a wait; check-then-act over two transactions; stale
items written back; accounts that change between two lookups; pages read from a
table that changes; crashes around a commit; slots that leak; a clock that is
set back; a random generator that threads share without a lock.

## Modules

| Module | What it is |
|---|---|
| `ConnectionLease` | contract of the pool: idle connections, leases, callers asking, closed |
| `ConnectionPool` | the pool itself; refines the contract |
| `ConnectionPoolProofs` | its theorems, the refinement among them |
| `ItemStore` | contract of the item API: a table, and requests each served in one instant |
| `ItemService` | handlers and table of the item API; refines the contract |
| `ItemServiceProofs` | its theorems, the refinement among them |
| `TopicChannels` | contract of the broker: a FIFO channel for each open topic, senders and receivers |
| `MessageBroker` | the broker; refines the contract |
| `MessageBrokerProofs` | its theorems, the refinement among them |
| `Migration` | migrations by several instances |
| `MigrationProofs` | its theorems |
| `Authentication` | login, refresh, logout, the middleware, and the table of users |
| `AuthenticationProofs` | its theorems |
| `Listing` | the list handler and a client that walks over its pages |
| `ListingProofs` | its theorems about one request |
| `ListingWalkProofs` | its theorems about a walk over the pages |
| `ExpiringMap` | contract of the cache: a map whose entries last for the time they were given |
| `CacheAdapter` | the cache; refines the contract |
| `CacheProofs` | its theorems, the refinement among them |
| `MC*` | values of the constants and symmetry for TLC |

Each module has one type invariant, its properties at the end, and, before a
definition `D`, the defective variants `D_...` that the mutants of
`PROJECT.json` put in its place to show that a property can fail.

### ConnectionPool

A step is what one thread does between two points where another can see it.
`pc` names the point: `locking` (about to lock in acquire), `blocking` (the
predicate was false, the mutex still held), `waiting` (asleep), `popped`,
`connecting` (one step for each attempt of `create_connection`), `wrapping`
(about to call `shared_from_this`), `using`, then `releasing`, `notifying` and
`dropref`, the three parts of the wrapper's release. `queue`, `available` and
`dtor` are `m_pool`, `m_available` and the progress of the destructor;
`m_shutdown` follows from the last. A member of `Conns` is a slot, so a
reconnected connection keeps its name. `open` holds the slots for which
`is_open()` is true; libpqxx may take one out at any moment (`Break`). The
reference count is the owner's pointer plus the threads with a wrapper.

`OwnerOutlivesAcquires` is the one assumption about the creator. TRUE: it drops
its pointer only at a moment when no thread is inside `acquire`. Threads that use a
connection, or give one back, do not hold it up: their wrappers keep the pool, and
the last of them runs the destructor. FALSE: it may drop the pointer at any moment,
as `main.cpp:165` does. A thread that uses a destroyed pool goes to `undefined` and
is followed no further, for what it does there is undefined behaviour.

### ItemService

Between two repository calls of a handler every other handler may run; a
repository call is one transaction on one row and hence one step. `pc` is the
call a handler is about to make. Any call may fail without effect, and a failed
write may have been committed (the connection died during COMMIT). Data is cut to
what properties tell apart: `name` for the texts, `category` for the two foreign
keys, `price` and `stock` for the amounts (`stock` for both quantities),
`status`. PUT and PATCH share one action, as their handlers are the same text: both
are partial updates, both refuse a body without `sku` (`item_dto.hpp:135`) and
ignore the SKU of one that has it, and both ignore `status` (`Decoded`).
Paths carry well-formed ids: one that is not is answered before any call.
`ver`, `base`, `wrote`, `deleted`, `acks` and `doubled` are history: no guard
reads them.

`Uuid::generate` draws from a static `std::mt19937_64` (`uuid.hpp:16`) that all
threads share without a lock, a data race. `Generate` therefore lets a creation
draw an id of its own or that of a creation it overlaps, one that has drawn and
not yet saved; `doubled` remembers the ids that were drawn twice. The primary key
is in `Insertable`. Properties about the life of an id except `doubled` ids only
where the code leaves no choice: an item deleted under such an id may come back
as the other creation's.

`ItemStore` is what a client may rely on: a request takes effect entirely or not at all,
in the instant of its answer, and the answer is true of the table then: 201 a new item
that fits, 204 an item that was there and is gone, 404 nobody there, 409 the SKU taken;
500 leaves all of it open. It has no repository calls, no bounds and no ids set aside.
What an update may do is a pair of its constants, for there code and documentation
disagree (see below): as documented, `Settable` is all of `Fields` and `UpdateNeedsSku`
is FALSE; `ItemService` implements the contract with `status` left out of `Settable`,
and with `UpdateNeedsSku` TRUE. The exception it has to make is the draft of an update,
made of the item as it was at some instant since the request came. The mapping keeps the
rows and the drafts (`item`), and of `pc` whether a request is served and has a draft
(`Stage`); it forgets the id of a creation, which a client learns from the answer
(`AsAsked`), so that drawing one, even twice, is invisible.

### MessageBroker

`consume` looks its queue up, may go to sleep, and uses the reference when it is back.
Subscriptions of a topic are numbered, so a reference is `Valid` while the queue it was
taken from is the one in the map. While the broker runs, a consumer that looks at its
queue through any other reference goes to `queue_gone` (`TouchErased`). Once the
destructor has stored `m_running = false` neither the predicate nor the code after the
wait reads the queue (`message_broker.cpp:66, 73`), so that such a consumer is answered
like the others (`TakeNothing`). A spurious wakeup does what a notification for another
topic does, so it has no action of its own. The destructor waits for nobody, so threads
still inside a call end in `broker_gone`.

`TopicChannels` is what a caller may rely on: a channel for each open topic, whose
messages are delivered once and in the order in which they were accepted; an empty
answer only beside an empty channel, or to a caller that did not find the topic, or
from a broker that is closing. It has no mutex, no notification and no timeout: that
no wakeup is lost is a property of the broker, not of a channel. The mapping takes a
thread's place to what it asks for (`Role`), a queue to its channel, and `running` and
the destructor to `Life`. A reference to a queue becomes a receiver that waits
(`Referring`), and one that unsubscribe has outdated an orphan (`Orphaned`). The
contract promises nothing to the orphans of a broker that is up and to the callers of
one that is gone, as the code does; orphans of a closing broker are answered.

`ConsumeReturns` says that a consume comes back to its caller, and takes for granted
what the code needs for that (`Intact`): the broker's members still exist, and no
unsubscribe erases the consumer's queue while the broker runs. The second is what
`broker_unsubscribe` shows to go wrong; the first is no more than that a caller does
not destroy a broker it is using, for the destructor waits for nobody.

### Migration

An instance's start is `Start`, which builds the pool, `EnsureTable`, then for each file
`Skip`, or `Execute`, `Insert` and `Commit`. The last three are one transaction, split
because an INSERT of a key another transaction has inserted waits for it (`KeyLocked`)
and fails if that one commits (`InsertRefused`). Any failure ends the process, which is
`Stop` with or without the effect of a commit under way. Instances may run different
versions, with different files.

The pool's constructor leaves out a connection that it cannot open
(`pool.cpp:100`), so an instance started in an outage may have a pool without any
(`pooled`). Every call of `apply` acquires first, and `acquire` on an empty pool
waits for ever, with the database back: `Stuck`. That is the composition of
startup with the pool that a run needs; the pool's other states do not arise,
since at startup one thread takes one connection at a time.

### Authentication

A request's lookups of the user are steps of their own, since each is a
transaction: `pc` is the lookup about to be made. A login makes two by name
(`CheckUser` is the use case's, `Authenticate` the service's), a refresh one by id
and one by the name found, the middleware one by id. Each finds the user, finds
none or fails; the code mostly treats the last two alike. SHA-256 is the constant
`Sha256`, a digest for each password. A JWT is the record of its claims.
`decode_jwt` (`main.cpp:122-134`) reads them and checks neither the signature nor the
expiry, so a request may bring any token that decodes, one that the server has handed
out, whenever that was, or one of `OtherTokens`, which it has not (`Decodable`). A
token may also not decode (`Malformed`), or decode to a subject that is no UUID
(`Garbled`): then `Uuid::from_string` throws out of the handler, which the model
takes for a 500 by Drogon. The code stores no token, so there is no clock and
`logout` changes nothing. `Invoke` is the middleware as a route would run it; `main`
registers it, but no route asks for it. `SaveUser`, `UpdateUser` and `RemoveUser` are the repository's writes, by whoever
calls them. `seen`, `missed` and `failed` are history: the rows the table had
during the request, the names and ids it was without at some moment, and whether
a lookup failed.

### Listing

`Calls` is the order of the use case's two queries; `Start` and `NextPage` begin
a request, `FindAll` and `Count` are its queries. `WHERE` stands twice, as the
two query builders do. Rows with the same `created_at` come in any order, and in
another order with the next query. `Offset` is a product of `int`s and wraps at
`IntMax`; `TotalPages` is a set because dividing by a page size of 0 converts
infinity or NaN to `int`, which C++ leaves undefined. The walk over the pages is
the client's: the program sees single requests. A parameter that `std::stoi`,
`std::stoll` or the `std::stoull` of `Uuid::from_string` cannot read throws out of
the handler (`Throws`).

### CacheAdapter

Each operation is one critical section and reads the clock inside it, so it is
one step; `evict_expired` reads the clock first and locks later, so it is two,
`StartEvict` and `EvictExpired`, with anything between. The clock counts seconds,
advances with `Tick` and may be set back (`SetBack`), for `system_clock` is not
steady. `has_ttl` and `expires_at` are kept apart as in the code: an entry without
a time to live leaves `expires_at` at the epoch.

`ExpiringMap` is what a caller may rely on: an entry is usable until its time is
over, and may be forgotten only once the clock has shown that time. The
refinement maps an entry to its value and its end, `Forever` without one. The
abstract `peak`, the latest time there has been, is what makes a late sweep
legal: the time it has read may lie ahead of a clock set back since. No handler
uses the cache; the callers are any threads.

## What the runs show

| Run | Instance | Result |
|---|---|---|
| `pool_shared` | 3 threads, 2 slots, 2 calls each, 1 retry, 1 fault, 1 spurious wakeup, owner leaves when nobody is inside `acquire` | `TypeOK`, `Exclusive`, `NoLostWakeup`, `SlotsAccounted`, `NoCallOnDestroyedPool`, and every call returns (`AllServed`) |
| `pool_contract` | the same without retries, owner may leave at any moment | `WrapperKeepsPoolAlive`, `CapacityInUse`, and the pool refines `ConnectionLease` |
| `pool_dangling` | the same | violated: a thread in acquire uses a destroyed pool |
| `items` | 2 clients with 2 requests each, 2 ids, 2 SKUs, 5 bodies of POST and 7 of PUT/PATCH, empty table or one item, 1 failing call | `TypeOK`, `SkuUnique`, `StoredItemsValid`, `NoResurrection`, `DeletedOnce`, `UncontendedUpdateIsPartial`, `SkuNeverChanges`, and the handlers refine `ItemStore` |
| `items_patch` | 1 request each | violated: overlapping partial updates, one is lost |
| `broker` | 3 threads with 1 call each, 2 topics, 2 messages, one topic subscribed to up to twice, the other once | `TypeOK`, `MessagesAccounted`, `NoSleeperBesideMessage`, a consume whose queue and broker stay returns (`ConsumeReturns`), and the broker refines `TopicChannels` |
| `broker_unsubscribe` | both topics subscribed to up to twice, nothing destroyed | violated: consume uses a queue that unsubscribe has erased |
| `migration` | 3 instances, versions with 1 and with 3 files, 2 faults | `TypeOK`, `RanOnce`, `ServesMigratedSchema`, `InOrder`, and all end up serving but those with an empty pool (`AllServe`) |
| `auth` | 2 clients with 1 request each, 2 accounts, 2 writes of 3 possible rows, 1 failing lookup, 2 tokens that nobody was handed | `TypeOK`, `GrantedWhileActive`, `StableAccountLogsIn`, `AttributesAreCurrent` |
| `auth_refresh` | the same | violated: the refresh of an untouched account is answered 500 |
| `listing` | 1 client, 4 ids, 12 queries, up to 5 pages, 3 writes, 1 failing call, `int` of 6 bits | `TypeOK`, `TotalsAgree`, `WalkMissesNothing`, `NothingTwice`, `NewestFirst` |
| `cache` | 2 threads, 2 keys, 2 values, times to live -1, 0 and 2 with a default of 1, 4 seconds, clock set back once | `TypeOK`, `SweepsOnlyExpired`, and the cache refines `ExpiringMap` |

Why the bounds are enough. The pool's interesting case is a waiter, a releaser and a
caller that overtakes: three threads, and two connections so that two releases can race
with one wakeup; two calls let a thread come back to a pool it has changed. With
`MaxFaults` equal to the number of slots the pool can be drained and `acquire` waits for
ever; `pool_shared` stops one short of that, which is the exact bound of `AllServed`.
The general statement is `CapacityInUse`, without a bound: while a thread sleeps, every
connection is with a thread that will give it back or was lost to a fault, so a sleeper
is never beside capacity that nobody uses. The item properties relate at most two
handlers, and two requests of each let one see what its first left behind. For the order
of a channel two publishes and one consume suffice: a message that overtakes is the
second in and the first out. A broker needs two consumers and a publisher, and a topic
to unsubscribe from beside the one in use; the second subscription of a topic tells a
stale reference from a missing one, and one topic that has it is enough for `broker`,
where a consumer that slept through both can meet the new queue, a running broker or a
closing one (the proofs have no such bound). For migrations three instances give a
winner, a loser and one of the other version, and two faults one that stops beside one
that starts in an outage. In `auth` one client logs in and the other uses the token; two
writes suffice to take a name from one account and give it to another between two
lookups. The two other tokens claim a role and a name that their users do not have. A
walk of `listing` needs three items, so that one moves over the edge of a page, and room
for a fourth to push them; clients only read and do not meet, so one is enough. Six bits
make the offset wrap on a page that a query can name. In `cache` one thread sweeps late
while the other replaces what it is about to erase; four seconds hold an entry's whole
life and a setback inside it.

Symmetry is used only in runs without liveness. Deadlock is checked in all runs;
`Terminated` marks the states where the program has nothing left to do.

Fairness. Pool and broker: a thread that can run does, and a caller gives its
connection back after a finite time; there is no fairness for calls, faults,
spurious wakeups, subscriptions or the owner. In the broker it covers the passing
of time for a sleeper. Wakeups are bounded by `MaxCalls`, so a consumer is not
woken for ever; the code has an absolute deadline to the same effect. `acquire`
has no deadline, and without `MaxCalls` a waiter could be overtaken for ever:
the code promises no more than `AllServed` for finitely many calls. Migration: a
process makes progress and one that is down is started again (the operator's
part), with finitely many faults. `Stuck` is in the exception of `AllServe`
because the code has no other outcome: an acquire on an empty pool waits without
a deadline. The cache promises nothing about time passing, and has no fairness.

## What is proved

The theorems hold for every value of the constants, from the assumptions named
beside them, and have no bound on threads, calls or faults.

* `ConnectionPoolProofs`: `TypeCorrect`, `ExclusiveUse`, `NoWakeupIsLost`,
  `SlotsAreAccounted`, `WrapperKeepsPool`, `NoCallOnDestroyed`, and `Refinement`, `Spec
  => ImplementsLease`. The inductive invariant has a part for each. `TypeInv` says where
  a thread has a connection in its hands and that `available` is the length of the
  queue. `RefInv` ties the destructor to the references: it has begun exactly if none is
  left. `NoCallOnDestroyed` is `OwnerOutlivesAcquires => []NoCallOnDestroyedPool`: a
  creator that lets go at a moment when nobody is inside `acquire` is safe, although
  connections are in use then and the destructor runs in whichever thread gives back the
  last one. That rests on the wrappers' references and on the order in which a release
  drops them, last; `OwnerInv` adds to `RefInv` that nobody is inside `acquire` once the
  pointer is gone. `main.cpp` does not meet that premise, which is the finding of
  `pool_dangling`. `WakeInv` counts: free connections against the threads on their way
  to them, with `blocking` covered by the mutex; a release adds one to both sides and a
  pop takes one from both. `SlotsInv` bounds what is missing. They are needed because
  none of the properties is inductive: `NoLostWakeup`, for one, does not say that a
  thread between its predicate and its sleep has seen an empty queue.
  `SleepersAreJustified` is `[]CapacityInUse`, and `StuckOnlyWhenDrained` its
  consequence: if a thread sleeps and no other is at work, there have been at least as
  many faults as connections. Both come from `WakeInv` and `SlotsInv` by counting: if a
  thread sleeps, no connection is free that no woken thread is on its way to, so that
  each of them is in somebody's hands or missing (`UnionBound`, `CirculatingBound`).
* `ItemServiceProofs`: `TypeCorrect`, `SkusAreUnique`, `StoredItemsAreValid`,
  `NothingComesBack`, `SkuIsFixed`, `AnswersAreTrue`,
  `OneDeletionIsAcknowledged`, `UncontendedUpdates`, and `Refinement`,
  `Spec => ImplementsStore`. `HandlerInv` says what a handler between two calls knows
  of its request; `LifeInv` that an id goes from unused to present to deleted and
  never back, unless two creations have drawn it; `VersionInv` that the item read
  matches the row while the row's version has not changed; `ValidInv` that what
  a handler is about to write has passed validation; `TruthInv` what has been
  committed for it. The refinement needs `TypeInv` alone: its lemmas say that the
  controller and the use case let through the bodies that the contract calls acceptable
  (`CheckedCreate`, `CheckedUpdate`), that the two texts make the same rows
  (`DraftIsPatched`, `RoomForIt`), and, for each repository call, which step or stutter
  of the contract it is.
* `MessageBrokerProofs`: `TypeCorrect`, `EachMessageOnce`, `NobodyOversleeps`, and
  `Refinement`, `Spec => ImplementsChannels`.
  `CarryInv` and `AccountInv` follow a message from the thread that publishes it to
  its queue and out of it, so that two calls never carry one message; `SleepInv` adds
  to the third property that a consumer whose predicate was false holds the mutex
  until it sleeps, so that its queue is then still empty (`StillEmpty`); a push
  after that puts the publisher at `notifying`. The refinement needs `HeldInv` beside
  `TypeInv`: a thread has a reference exactly from going to sleep to returning, and
  no subscription has a number that is still to come, so that a new subscription of a
  topic never makes an orphan's reference good again. An orphan's return from a
  closing broker is a step of the contract, `DeliverNothing`.
* `MigrationProofs`: `TypeCorrect`, `EachRunsOnce`, `ServedSchema`,
  `RunsInOrder`. `LoopInv` says that the files an instance has passed are
  recorded, `KeysHeld` that an uncommitted row is its transaction's alone.
* `AuthenticationProofs`: `TypeCorrect`, `LoginIsGrantedToAnActiveAccount`,
  `StableAccountIsLetIn`, `RoleIsCurrent`, whatever tokens requests bring, and
  `RefreshNeverSucceeds`: while no account has the empty password's digest, no refresh
  at all is answered with tokens, which is what `auth_refresh` shows of one account.
  `CallInv` says what a handler between two lookups knows of its request; `HistoryInv`
  that the history of a request in progress contains the present table, so that what a
  lookup finds is in the history, and what it does not find is missing from it;
  `FoundInv` that what the first lookup found is in the history when the second is made,
  when the table may no longer have it; `NamesInv` that usernames are unique, without
  which a login could meet another account of the same name.
* `ListingProofs`: `TypeCorrect`, `TotalsFit`. `PageInv` says that after
  `find_all` the page is as long as the result, were it counted now, would make it,
  unless `moved` says that a write has changed the result; `CountedMatching` that
  the two texts of the WHERE clause select the same items; `SliceLength` and
  `PagesFill` that offset and limit cut pages which `ceil(count / page_size)` counts.
* `ListingWalkProofs`: `ShownOnce`, `ShownInOrder`, `ShownAll`, for pages whose
  offset an int can hold. None of the three is inductive, because what a page may
  show depends on where the items of the earlier pages are by now. `WalkInv`
  therefore counts: the rank of an item is how many of the result are newer
  (`Rank`), and `Passed` is where the pages read so far end. While items only
  leave, what was shown has a rank below `Passed` (`LowRanks`), so a page, which
  begins at `Passed`, shows neither it nor anything newer; while items only enter,
  what has such a rank was shown (`NoneMissing`), and after the last page every rank
  is below `Passed`, because `count` runs after `find_all`. `OrderRanks` and
  `RankIsPlace` relate ranks to the places of `ORDER BY created_at DESC`.
* `CacheProofs`: `TypeCorrect`, `SweepsTakeOnlyExpired`, and `Refinement`,
  `Spec => ImplementsMap`. What carries them is that the clock, and the time that a
  sweep has read, are at most `peak`, and that without a setback `peak` is the clock
  (`ClockInv`).

Out of the prover's reach, and checked by TLC only: `AllServed`,
`ConsumeReturns` and `AllServe` (liveness under fairness). Every invariant,
action property and refinement of a passing run is the subject of a theorem.
`AnswersTellTheTruth` and `NoneRefreshed` are theorems without a run: the first is part
of what `ImplementsStore` says, and `auth_refresh` shows a case of the second.

## Where code and documentation disagree

* `pool_dangling`: the pool dies at the end of `initialize_application` (`main.cpp:165`)
  while repositories keep a reference (`main.cpp:185-186`); README.md:64 calls it safe
  for many threads.
* `items_patch`: a partial update writes the whole row
  (`update_item_use_case.cpp:61`); item_controller.hpp:71 says partial.
* `broker_unsubscribe`: `consume` uses a queue that `unsubscribe` may have erased
  (`message_broker.cpp:63`); message_broker.hpp:30 says thread-safe.
* `auth_refresh`: a refresh authenticates with an empty password (`main.cpp:81`)
  and is answered 500; docs/api.yaml:189 says that it returns tokens.

Met on the way, and without a run of their own:

* Of two creations of one SKU that overlap, the loser is answered 500 and not 409
  (`create_item_use_case.cpp:24`, docs/api.yaml:268), because only the lookup
  before the insert maps to 409; and a login with a wrong password is answered 500
  and not 401 (docs/api.yaml:171), because `auth_controller.cpp:67` maps two other
  codes. `AnswersTellTheTruth` and `Status` model both as the code has them.
* An update without `sku` is answered 400, by PATCH too, because `item_dto.hpp:135`
  demands it; README.md:329 and the PATCH body of docs/api.yaml:345-363 have none. A
  body's `status` is ignored, which docs/api.yaml:362 offers. PUT is as partial as
  PATCH, where item_controller.hpp:57 says "full update", README.md:309 "all fields"
  and docs/api.yaml:310 takes a whole item. POST and PUT answer a body that fails
  validation with 422, as README.md:351 has it, and docs/api.yaml:265 says 400. The
  contract `ItemStore` says where it leaves the documentation (`Settable`,
  `UpdateNeedsSku`); `UncontendedUpdateIsPartial` is about what a body does not name,
  and makes no claim about these cases.
* A token is believed on its claims: `decode_jwt` (`main.cpp:122-134`) checks neither
  signature nor expiry, where docs/diagrams/sequence.puml:45 has both and README.md:51
  gives tokens 15 minutes and 7 days. And no route of the items installs the
  middleware that `main.cpp:205-207` registers, where docs/api.yaml asks for
  `BearerAuth` and README.md:356-363 for roles. `Decodable` takes tokens as the code
  does. `AttributesAreCurrent` says where the role comes from, not that whoever
  brings a token is its user.
* A connection that dies in use never returns to the pool (`pool.cpp:54`), where
  test_db_connection.cpp:53 expects it back; `SlotsAccounted` counts such slots.
* A start on a pool without connections neither succeeds nor fails, where
  migration.hpp:32 has "Ok on success, Error on failure": the `Stuck` of `AllServe`.
* A time to live of 0 "means no expiration" in `CacheAdapter` (cache_adapter.hpp:36)
  and asks for the default in `InMemoryCacheAdapter` (cache_adapter.hpp:79), which
  `ExpiringMap` has as the promise. A time to live of centuries overflows the
  nanoseconds of `system_clock`; the model's clock is a natural number.

## Not modelled

* Value objects (`Money`, `Quantity`, `Email`, `Address`) and entities: data that
  handlers build and read within one step. `ItemService` keeps of an amount what
  validation looks at, its sign; nothing in the program adds or multiplies amounts.
* Odd page queries, as a property: `Listing` has page sizes and pages below 1 and
  offsets that wrap, and its type invariant bounds what becomes of them, but
  `TotalsAgree` leaves them out, since nothing says what they should give. Items that
  share a `created_at` may be repeated or missed by a walk, because nothing orders them;
  the walk's properties are about distinct times, and only `NewestFirst` covers ties.
* Texts and formats: JSON, dates (`time_utils.hpp`, and the static buffer of
  `std::ctime` in `item_dto.hpp:169`), UUIDs as text. Responses are cut to their
  status. Two hazards of the list are about such texts and have no property.
* `InventoryService`, `WarehouseRepository`, category, supplier, warehouse:
  interfaces or data without an implementation.
* Configuration, logging, signal handling, Drogon and libpqxx beyond what the
  models say of them as external definitions.
* `size`, `available`, `pending_count`, `subscribed_topics`, `find_low_stock`,
  `applied_migrations`, `pending_migrations`: they only read, and nothing depends on
  what they return.
* More than one queue for a topic: the broker promises a message "to all
  subscribers" (message_broker.hpp:37) and has no notion of a subscriber, so there
  is nothing to state the property about.

## Plan

Done: every component that keeps state has its model, its runs and its proofs, and
the pool, the item API, the broker and the cache have a contract that they are proved
to refine.
Worth adding, in this order:

1. Requests over the pool: handlers that acquire before each repository call, with
   the pool's own steps instead of a call that may fail. A handler holds at most
   one connection at a time, so `AllServed` carries over.
2. `Money`, `Quantity` and the timestamp's way to the database and back, as pure
   functions, once a caller depends on them.
