# A formal model of goredis-cpp

goredis-cpp is an in-memory key-value server that speaks the Redis protocol. This
directory holds TLA+ specifications of its parts, instances of them that TLC
checks exhaustively, and proofs that TLAPS checks for instances of any size.

## The system

| part | source (`src/src/`) | state | operations |
|---|---|---|---|
| Store | `store/store.{h,cpp}`, `store/value.h` | `data_` behind one `shared_mutex`, `used_memory_bytes_`, `max_memory_bytes_`, `access_clock_`, a sweeper thread | strings, lists, hashes, `Expire`/`TTL`, `SetMaxMemory`, `Snapshot`/`LoadSnapshot`, sweeping, eviction |
| HashTable | `store/hash_table.h` | `buckets_`, `num_entries_` | `Set`, `Get`, `Delete`, `Len`, `Keys`/`ForEach`, `SampleKeys`, `Clear`, with growing and shrinking |
| TcpServer | `server/tcp_server.{h,cpp}` | `stop_flag_`, `listen_fd_`, `client_fds_`, `active_clients_` | `Start`, `AcceptLoop`, `HandleClient` (one detached thread per client), `Stop` |
| main | `main.cpp` | the shutdown flag, the persistence mode | load, serve, `Stop`, join, save |
| Dispatcher | `server/dispatcher.{h,cpp}` | none | one branch per command: parse arguments, call the store, log the command, answer |
| Append-only file | `server/aof.{h,cpp}` | the log file, `mu_` | `Append` (write, fsync), `LoadAof` (replay) |
| RDB snapshots | `persistence/rdb.{h,cpp}` | the snapshot file | `SaveRdb` (temporary file, rename), `LoadRdb` |
| CommandParser | `resp/command_parser.{h,cpp}` | `buffer_` | `Feed`, `TryParseCommand` |
| RespValue | `resp/resp_value.{h,cpp}` | none | constructors, `Encode` |

A handler thread of TcpServer reads bytes, feeds the parser and calls the
dispatcher, which calls the store and then the log. All handler threads share the
store and the log. The store runs its own sweeper thread and keeps its entries, and
the fields of each hash, in HashTables. `main` loads one persistence file before the
server starts and, in RDB mode, saves one after it has stopped.

What is hard about it:

* readers hold the store's lock shared, so they overlap; a reader or sweep that
  sees an expired entry must give the lock up, take it exclusively, and look again;
* the byte counter is adjusted in a dozen places and is unsigned;
* eviction, expiry and sweeping remove entries nobody asked to remove;
* the table is rehashed in place, in both directions;
* `Stop` races with the accept loop and with handlers that close their descriptors,
  and the kernel reuses descriptor numbers;
* writes are applied and logged in two steps, and a crash can come anywhere.

What should hold: of the Store, that each method looks atomic, that expired keys are
invisible at once and gone eventually, that bytes are accounted for and the budget
is met; of HashTable, that it is a finite map with a bounded load; of TcpServer,
that descriptors are used only by their owner and that after `Stop` nothing runs; of
the log and the snapshots, that a restart brings back what was acknowledged; of the
parser, that fragmentation does not matter.

## Modules

| module | content |
|---|---|
| `Keyspace` | abstract: what the store promises its callers, one atomic action per operation |
| `Store` | `goredis::Store`, with its locks, threads, accounting, eviction; implements `Keyspace` |
| `SumLemmas` | theorems about sums over finite sets |
| `StoreProofs`, `StoreStepProofs` | theorems about `Store` |
| `Dictionary` | abstract: a finite map |
| `HashTable` | `goredis::HashTable<V>`; implements `Dictionary` |
| `TcpServer` | `goredis::TcpServer` and the shutdown of `main` |
| `MCStore`, `MCHashTable`, `MCTcpServer` | instances for TLC |

A definition whose name has a suffix after an underscore and whose comment begins
with "Mutation" (`SweepDelete_NoRecheck`) is not part of the model. It states a
plausible mistake in the definition it precedes; putting it in that definition's
place makes one of the properties fail, which is how each property is known to
depend on the code it is about.

### Store

The variables are the members of the class (`data`, `used_memory_bytes`,
`max_memory_bytes`, `access_clock`, `stop_sweeper`), the clock, and where each client
thread and the sweeper are. An entry is a record with the fields of `Value`.

A critical section is one action wherever nothing else can see its inside:

* A write method holds `mu_` exclusively from beginning to end: one action
  (`Set`, `LPush`, `HDel`, `Expire`, ...), followed by one action per turn of the
  loop of `EvictIfOverBudget` (`EvictOne`, `EvictReturn`) while the client stays at
  `"evict"`, which is what holding the lock means to `CanLock` and `CanLockShared`.
* A read method holds it shared, and other readers see the stamps it leaves.
  `Touch` is a `fetch_add` and a store: `DrawTicket` is part of the method's action,
  `StampEntry` the second one; in between the client is at `"touch"`. What a read
  copies out cannot change under the shared lock, so the reply is determined in the
  first action.
* A reader that meets an expired entry goes to `"reap"`, without the lock, and
  performs one `DeleteIfExpired` per key.
* The sweeper waits, scans (`SweepScan`) and deletes (`SweepDelete`).

`GetOrCreateList` and `GetOrCreateHash` insert and touch an empty value that the
caller fills and touches again before the lock is released: together this is `Put`
with two touches. The methods on lists and hashes share `ReadTyped` and `Update`,
as their code shares its shape.

A sample of `SampleKeys` is any non-empty set of at most `kSampleSize` entries:
draws are random and with repetition. The code draws only heads of chains; which
entries are heads depends on the hash, so every entry may be one.
`SampleMayBeEmpty` says whether all draws may hit empty buckets.
`TimePoint` wraps in two's complement, which is what the overflow in `Expire`
produces on the platforms the project builds for.

The refinement to `Keyspace` maps an expired entry to "absent", so that reaping is
invisible and the passage of time deletes.

### HashTable

`buckets` is a sequence of chains. The hash function is a parameter; only as many
low bits of it are kept as the largest capacity needs, and the bucket is selected
with the mask of the code. `RehashTo` prepends every node to its new chain, which
reverses the order of the nodes as the code does. `Keys` and `ForEach` visit the
same nodes and are one action. Refinement: a key is mapped to what `Get` finds.

### TcpServer

Three kinds of threads: the accept loop (`accept_pc`), a handler per connection
(`handler[c]`), and the main thread (`main_pc`). Each access to an atomic, each
system call and each critical section of `clients_mu_` is an action: `AcceptReturn`,
`AcceptPush`, `AcceptCount` and `AcceptSpawn` are the four steps between `accept()`
and the running thread, `Close`, `Erase` and `Leave` the three of `~ClientGuard`.
The kernel hands out the lowest free descriptor number and frees it on close.
What peers send is abstracted to complete commands and protocol violations, in any
grouping into reads. `writes` counts executed commands; `saved` is its value at the
final save.

## Runs

| run | shows |
|---|---|
| `store_ttl` | two clients, two keys, TTLs, sweeper, clock: types, no stamp into a freed entry, distinct stamps, only the dead are reaped, refinement of `Keyspace` |
| `store_types` | all list and hash methods on a key that changes type and expires: accounting, no empty collection, refinement |
| `store_evict` | three keys with values of different sizes, budgets set, lowered and removed: accounting, the budget is met, refinement |
| `store_live` | expired keys are reclaimed, methods return, the destructor joins |
| `hash_table` | four keys, through growth from 2 to 8 buckets and back: placement, load, hysteresis, refinement of `Dictionary` |
| `tcp_stop` | two connections at every point of `Stop`: descriptor ownership, the counter, what is left after the drain |
| `tcp_live` | the shutdown completes, disconnected clients leave |
| `store_empty_sample`, `store_freshest`, `store_overflow`, `tcp_tracked`, `tcp_straggler` | where the code and its comments disagree, below |

Bounds. Two clients suffice for the races of the store: each involves one thread
that looked and one that changed something, and the sweeper is a third. Two keys let
a thread work on one while another is reaped; eviction needs a third, so that a
sample can leave one out. The clock stops at `MaxNow` and the access clock at
`MaxSeq`, enough for a key to expire, be rewritten and expire again. In `tcp_stop`,
two connections on two descriptors cover the reuse of a number; up to two items per
peer cover pipelining. `kInitialCapacity` is 2 instead of 16, so that four keys
reach two doublings. Symmetry is used only in runs without liveness properties, on
clients, keys and connections, none of which a definition singles out.

Fairness. A thread that can run eventually does: the sweeper, whose wait times out,
a client inside a method, the accept loop, handlers, and main once it is stopping.
No client is obliged to call a method, no peer to do anything.
`std::shared_mutex` promises nobody the lock, so what needs the exclusive lock is
claimed only if from some point on no new calls arrive (`TrafficPauses`).

### Where the code and its comments disagree

* `store_empty_sample`: `EvictIfOverBudget` gives up when the sample is empty, which
  its comment says does not happen; the store stays over budget until the next write.
* `store_freshest`: the entry just written can be the victim although older ones
  could have been freed, because a sample may consist of it alone.
* `store_overflow`: a TTL beyond the range of `time_point` yields a deadline in the past.
* `tcp_tracked`: a descriptor is closed before it is untracked; if the number is
  reused in between, the new client is untracked with it and `Stop` misses it.
* `tcp_straggler`: a connection is counted only after `accept()` has returned; `Stop`
  can see no active client, return, and have its caller save while a handler starts.
  `OnlyTheLastRemains` shows that this is at most the connection accepted last.

## Proofs

For every set of keys, fields, strings and clients (keys and fields finite), every
size function and every overhead, and whatever the bounds of the model:

| theorem | states |
|---|---|
| `StoreProofs!TypeCorrect` | `TypeOK`; the byte counter never wraps below zero |
| `StoreProofs!MemoryIsAccounted` | `MemoryAccounted` |
| `StoreProofs!TouchedIsPresent` | `TouchedEntryIsPresent` |
| `StoreStepProofs!StampsAreDistinct` | `StampsDistinct` |
| `StoreStepProofs!CollectionsAreNonEmpty` | `NoEmptyCollection` |
| `StoreStepProofs!ReapsOnlyDead` | `ReapsOnlyTheDead` |

The inductive invariant is

    Inv == TypeOK /\ MemoryAccounted /\ LocksExclude /\ TicketsHeld

Its conjuncts need each other. That a subtraction leaves the counter natural follows
only because the counter is the sum over all entries, of which the deleted ones are a
part. That `StampEntry` writes into an entry needs `TicketsHeld`, which a deletion
keeps because it needs the exclusive lock while a ticket needs the shared one:
`LocksExclude` for the eviction loop, the guard `CanLock` elsewhere.

`MemoryAccounted` is about a sum over a finite set, defined in the library by a
recursive function. `SumLemmas` derives from that definition, by induction over
finite sets, how a sum changes when one summand changes or some become zero.

For stamps and collections, `StoreStepProofs` first classifies every step into four
kinds: it leaves stamps and contents of the surviving entries alone (`Keeps`), writes
one non-empty entry with a fresh stamp (`Renews`), draws a ticket (`Draws`) or uses
one (`Stamps`). `StampInv` says that stamps in the table and those still in flight are
all different and below the access clock; it is checked against the four kinds
instead of against some thirty actions.

Assumptions on the constants: `FiniteStrings`, `SizesAreNat`, `OverheadsAreNat`,
`NilIsNoValue`, `InputsAreTyped` (pushes have at least one value, which the
dispatcher's arity checks guarantee) and `ClockIsInteger`, all in `Store`.

Only model-checked: the refinements, the budget, everything about `HashTable` and
`TcpServer`, and all liveness properties, which are out of the proof system's reach.

## Not modelled

The dispatcher, the append-only file, snapshots (with `Snapshot`, `LoadSnapshot` and
`UsedMemory` of the store), the parser and the reply encoder. Of what is modelled,
left out are: hash values beyond the bits that select a bucket, the failure paths of
`TcpServer::Start` (main returns), a peer that does not read its replies (its
handler is blocked in `send` until it is shut down), and argument parsing.

## Plan

1. `Dispatcher` and `Aof`: commands as the dispatcher executes them on `Keyspace`,
   applied and then logged; crashes, torn tails, failed appends, replay. Properties:
   what was acknowledged is replayed, the replayed state is a state of the original
   run, a torn tail costs at most the last command.
2. `Rdb`: `Snapshot`, `SaveRdb`, `LoadRdb` and `LoadSnapshot` with a file system that
   can crash between write and rename; deadlines across a restart.
3. `CommandParser`: incremental parsing against a parse of the whole input.
4. `GlobMatch`, `ClampToInt` and the rounding in `TTL` as operators, against reference
   definitions.
5. Proofs: `Store` implements `Keyspace`; placement and load of `HashTable`;
   `ActiveCounted`, `OwnsItsDescriptor` and `OnlyTheLastRemains` of `TcpServer`.
