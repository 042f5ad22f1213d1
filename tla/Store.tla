------------------------------- MODULE Store --------------------------------
(***************************************************************************)
(* goredis::Store (src/src/store/store.cpp): the keyspace, its TTLs, its   *)
(* byte accounting, approximate-LRU eviction and the background sweeper.   *)
(*                                                                         *)
(* Client threads call the public methods concurrently.  A method that     *)
(* writes holds mu_ exclusively from its first access to its last, so it   *)
(* is one action, followed, while the lock is still held, by one action    *)
(* per turn of the eviction loop.  A method that only reads holds mu_      *)
(* shared: other readers overlap with it, so the two atomic accesses of    *)
(* Touch (draw a ticket from access_clock_, store it into the entry) are   *)
(* two actions.  A reader that meets an expired entry gives the shared     *)
(* lock up and comes back with the exclusive one to delete the entry:      *)
(* everything may happen in between.  The sweeper scans under the shared   *)
(* lock and deletes under the exclusive one in the same manner.            *)
(*                                                                         *)
(* All clock readings inside one critical section are taken at one         *)
(* instant.  Table data_ is a map here; module HashTable is about it.      *)
(***************************************************************************)
EXTENDS Integers, Sequences, FiniteSets, Functions

CONSTANTS
  Key, Field, Str,   \* std::strings used as keys, hash fields and payloads
  Size(_),           \* std::string::size()
  Nil,               \* nullptr, std::nullopt
  Client,            \* the threads that call the store
  kPerEntryOverheadBytes, kPerListElementOverheadBytes,
  kPerHashFieldOverheadBytes, kSampleSize,
  TicksPerSecond,    \* resolution of steady_clock in the model
  MaxTimePoint,      \* the largest steady_clock::time_point
  SampleMayBeEmpty   \* HashTable::SampleKeys may draw only empty buckets

CONSTANTS            \* What the clients ask for.
  Commands,          \* the methods they call
  Pushes,            \* argument lists of LPush and RPush
  KeyLists,          \* argument lists of Exists
  Seconds,           \* arguments of Expire
  Index,             \* arguments of LRange
  Budgets            \* arguments of SetMaxMemory

CONSTANTS MaxNow, MaxSeq, MaxListLen   \* Bounds of the model.

VARIABLES
  data,              \* data_: key -> Value, Nil when absent
  used_memory_bytes, max_memory_bytes, access_clock,
  now,               \* steady_clock::now()
  pc,                \* where each client is: idle, or inside a method
  ticket,            \* client -> the entry it is touching and the stamp it drew
  expired_keys,      \* client -> the keys it still has to DeleteIfExpired
  sweeper,           \* where the sweeper thread is
  expired,           \* the keys phase 1 of SweepExpired collected
  stop_sweeper,      \* ~Store has begun
  reply              \* the answer of the last method called

table == <<data, used_memory_bytes, max_memory_bytes>>
clients == <<pc, ticket, expired_keys>>
sweep == <<sweeper, expired, stop_sweeper>>
vars == <<table, access_clock, now, clients, sweep, reply>>
-----------------------------------------------------------------------------
(* Values, expiry and sizes.                                               *)
NoFields == [f \in Field |-> Nil]
Fresh(type) == [type |-> type, str |-> Nil, list |-> <<>>, hash |-> NoFields,
                expires_at |-> Nil, last_accessed_seq |-> 0]

FieldsOf(v) == {f \in Field : v.hash[f] # Nil}

IsExpired(v) == v.expires_at # Nil /\ now >= v.expires_at

Present == {k \in Key : data[k] # Nil}
Dead == {k \in Present : IsExpired(data[k])}
Live == Present \ Dead

EstimateEntryBytes(k, v) ==
  Size(k) + kPerEntryOverheadBytes +
    CASE v.type = "string" -> Size(v.str)
      [] v.type = "list" ->
           SumFunction([i \in DOMAIN v.list |->
                          Size(v.list[i]) + kPerListElementOverheadBytes])
      [] v.type = "hash" ->
           SumFunction([f \in FieldsOf(v) |->
                          Size(f) + Size(v.hash[f]) + kPerHashFieldOverheadBytes])

\* The bytes an entry is charged for, and the bytes a set of entries is.
Charge(k) == IF k \in Present THEN EstimateEntryBytes(k, data[k]) ELSE 0
ChargeOf(K) == SumFunctionOnSet([k \in Key |-> Charge(k)], K)
-----------------------------------------------------------------------------
(* mu_: readers are inside their critical section at "touch", a writer at  *)
(* "evict".  No method starts once the destructor has.                     *)
CanLockShared == \A c \in Client : pc[c] # "evict"
\* Mutation: the exclusive lock does not wait for readers.
CanLock_IgnoresReaders == \A c \in Client : pc[c] # "evict"

CanLock == \A c \in Client : pc[c] \notin {"touch", "evict"}

Call(c, method) == method \in Commands /\ pc[c] = "idle" /\ ~stop_sweeper
CallShared(c, method) == Call(c, method) /\ CanLockShared
CallUnique(c, method) == Call(c, method) /\ CanLock

\* A method that ends without changing anything but its caller's reply.
Answer(r) == /\ reply' = r
             /\ UNCHANGED <<table, access_clock, now, clients, sweep>>
-----------------------------------------------------------------------------
(* The read methods.                                                       *)

\* Mutation: the ticket is loaded from the clock, not drawn with fetch_add.
DrawTicket_Load(c, k) ==
  /\ access_clock < MaxSeq
  /\ access_clock' = access_clock
  /\ ticket' = [ticket EXCEPT ![c] = [key |-> k, seq |-> access_clock]]
  /\ pc' = [pc EXCEPT ![c] = "touch"]

\* Touch under the shared lock, first half: draw a ticket.
DrawTicket(c, k) ==
  /\ access_clock < MaxSeq
  /\ access_clock' = access_clock + 1
  /\ ticket' = [ticket EXCEPT ![c] = [key |-> k, seq |-> access_clock]]
  /\ pc' = [pc EXCEPT ![c] = "touch"]

\* Second half: stamp the entry; the method then unlocks and returns.
StampEntry(c) ==
  /\ pc[c] = "touch"
  /\ data' = [data EXCEPT ![ticket[c].key].last_accessed_seq = ticket[c].seq]
  /\ ticket' = [ticket EXCEPT ![c] = Nil]
  /\ pc' = [pc EXCEPT ![c] = "idle"]
  /\ UNCHANGED <<used_memory_bytes, max_memory_bytes, access_clock, now,
                 expired_keys, sweep, reply>>

\* The reader unlocks and escalates for the keys it found expired.
Escalate(c, keys, r) ==
  /\ reply' = r
  /\ expired_keys' = [expired_keys EXCEPT ![c] = keys]
  /\ pc' = [pc EXCEPT ![c] = IF keys = {} THEN "idle" ELSE "reap"]
  /\ UNCHANGED <<table, access_clock, now, ticket, sweep>>

\* The body Get, LLen, LRange, HGet, HGetAll, HLen, HExists, HKeys and HVals
\* share: `hit' answers for a live value of the right type, `miss' for none.
ReadTyped(c, k, type, hit, miss) ==
  \/ k \notin Present /\ Answer(miss)
  \/ k \in Live /\ data[k].type # type /\ Answer(<<"err">>)
  \/ /\ k \in Live /\ data[k].type = type
     /\ DrawTicket(c, k)
     /\ reply' = hit
     /\ UNCHANGED <<table, now, expired_keys, sweep>>
  \/ k \in Dead /\ Escalate(c, {k}, miss)

Get(c, k) ==
  /\ CallShared(c, "GET")
  /\ ReadTyped(c, k, "string", <<"str", data[k].str>>, <<"nil">>)

LLen(c, k) ==
  /\ CallShared(c, "LLEN")
  /\ ReadTyped(c, k, "list", <<"int", Len(data[k].list)>>, <<"int", 0>>)

\* The slice LRange copies out of a list.
NormalizeIndex(index, n) == IF index < 0 THEN n + index ELSE index
Slice(list, start, stop) ==
  LET n == Len(list)
      from == NormalizeIndex(start, n)
      upto == NormalizeIndex(stop, n)
      norm_start == IF from > 0 THEN from ELSE 0
      norm_stop == IF upto < n - 1 THEN upto ELSE n - 1
  IN  IF norm_start > norm_stop \/ n = 0 THEN <<>>
      ELSE SubSeq(list, norm_start + 1, norm_stop + 1)

LRange(c, k, start, stop) ==
  /\ CallShared(c, "LRANGE")
  /\ ReadTyped(c, k, "list", <<"arr", Slice(data[k].list, start, stop)>>, <<"arr", <<>>>>)

HGet(c, k, f) ==
  /\ CallShared(c, "HGET")
  /\ ReadTyped(c, k, "hash",
               IF data[k].hash[f] = Nil THEN <<"nil">> ELSE <<"str", data[k].hash[f]>>,
               <<"nil">>)

HGetAll(c, k) ==
  /\ CallShared(c, "HGETALL")
  /\ ReadTyped(c, k, "hash", <<"map", data[k].hash>>, <<"map", NoFields>>)

HLen(c, k) ==
  /\ CallShared(c, "HLEN")
  /\ ReadTyped(c, k, "hash", <<"int", Cardinality(FieldsOf(data[k]))>>, <<"int", 0>>)

HExists(c, k, f) ==
  /\ CallShared(c, "HEXISTS")
  /\ ReadTyped(c, k, "hash",
               <<"int", IF data[k].hash[f] = Nil THEN 0 ELSE 1>>, <<"int", 0>>)

HKeys(c, k) ==
  /\ CallShared(c, "HKEYS")
  /\ ReadTyped(c, k, "hash", <<"set", FieldsOf(data[k])>>, <<"set", {}>>)

HVals(c, k) ==
  /\ CallShared(c, "HVALS")
  /\ ReadTyped(c, k, "hash",
               <<"bag", [s \in Str |-> Cardinality({f \in Field : data[k].hash[f] = s})]>>,
               <<"bag", [s \in Str |-> 0]>>)

\* TTL rounds to the nearest second and does not touch the entry.
RoundToSeconds(ticks) == (ticks + TicksPerSecond \div 2) \div TicksPerSecond
TTL(c, k) ==
  /\ CallShared(c, "TTL")
  /\ \/ k \notin Present /\ Answer(<<"int", -2>>)
     \/ k \in Live /\ data[k].expires_at = Nil /\ Answer(<<"int", -1>>)
     \/ /\ k \in Live /\ data[k].expires_at # Nil
        /\ Answer(<<"int", RoundToSeconds(data[k].expires_at - now)>>)
     \/ k \in Dead /\ Escalate(c, {k}, <<"int", -2>>)

Exists(c, keys) ==
  /\ CallShared(c, "EXISTS")
  /\ Escalate(c, {keys[i] : i \in DOMAIN keys} \cap Dead,
              <<"int", Cardinality({i \in DOMAIN keys : keys[i] \in Live})>>)

Keys(c) ==
  /\ CallShared(c, "KEYS")
  /\ Escalate(c, Dead, <<"set", Live>>)
-----------------------------------------------------------------------------
(* The write methods.                                                      *)

\* Mutation: the bytes are given back but the entries stay.
Delete_KeepsEntries(keys) ==
  /\ data' = data
  /\ used_memory_bytes' = used_memory_bytes - ChargeOf(keys)

\* Deleting a set of keys: the bytes of those present are given back.
Delete(keys) ==
  /\ data' = [k \in Key |-> IF k \in keys THEN Nil ELSE data[k]]
  /\ used_memory_bytes' = used_memory_bytes - ChargeOf(keys)

\* Mutations: EvictIfOverBudget is not called; or is not told what 0 means.
EnterEviction_Never(c, budget) == pc' = [pc EXCEPT ![c] = "idle"]
EnterEviction_Always(c, budget) == pc' = [pc EXCEPT ![c] = "evict"]

\* EvictIfOverBudget returns at once when there is no budget.
EnterEviction(c, budget) ==
  pc' = [pc EXCEPT ![c] = IF budget = 0 THEN "idle" ELSE "evict"]

\* Mutation: the bytes of the entry that is replaced are not given back.
Put_NoBefore(c, k, v, touches, r) ==
  /\ access_clock + touches <= MaxSeq
  /\ access_clock' = access_clock + touches
  /\ data' = [data EXCEPT ![k] =
                [v EXCEPT !.last_accessed_seq = access_clock + touches - 1]]
  /\ used_memory_bytes' = used_memory_bytes + EstimateEntryBytes(k, v)
  /\ reply' = r
  /\ EnterEviction(c, max_memory_bytes)
  /\ UNCHANGED <<max_memory_bytes, now, ticket, expired_keys, sweep>>

\* Replace the entry of k by v, touch it, go on to EvictIfOverBudget.
Put(c, k, v, touches, r) ==
  /\ access_clock + touches <= MaxSeq
  /\ access_clock' = access_clock + touches
  /\ data' = [data EXCEPT ![k] =
                [v EXCEPT !.last_accessed_seq = access_clock + touches - 1]]
  /\ used_memory_bytes' = used_memory_bytes - Charge(k) + EstimateEntryBytes(k, v)
  /\ reply' = r
  /\ EnterEviction(c, max_memory_bytes)
  /\ UNCHANGED <<max_memory_bytes, now, ticket, expired_keys, sweep>>

Set(c, k, s) ==
  /\ CallUnique(c, "SET")
  /\ Put(c, k, [Fresh("string") EXCEPT !.str = s], 1, <<"ok">>)


\* GetOrCreateList and GetOrCreateHash: the value to update, a new one when
\* the key is absent or expired; creating one touches it a first time.
GetOrCreate(k, type) == IF k \in Live THEN data[k] ELSE Fresh(type)
Update(c, k, type, v, r) ==
  \/ k \in Live /\ data[k].type # type /\ Answer(<<"err">>)
  \/ k \in Live /\ data[k].type = type /\ Put(c, k, v, 1, r)
  \/ k \notin Live /\ Put(c, k, v, 2, r)

Push(c, k, list) ==
  /\ Len(list) <= MaxListLen
  /\ Update(c, k, "list", [GetOrCreate(k, "list") EXCEPT !.list = list],
            <<"int", Len(list)>>)

RPush(c, k, vals) ==
  /\ CallUnique(c, "RPUSH")
  /\ Push(c, k, GetOrCreate(k, "list").list \o vals)

\* Each value in turn is inserted at the head.
LPush(c, k, vals) ==
  /\ CallUnique(c, "LPUSH")
  /\ Push(c, k, [i \in 1..Len(vals) |-> vals[Len(vals) + 1 - i]]
                  \o GetOrCreate(k, "list").list)

HSet(c, k, fields) ==
  LET old == GetOrCreate(k, "hash") IN
  /\ CallUnique(c, "HSET")
  /\ Update(c, k, "hash",
            [old EXCEPT !.hash = [f \in Field |-> IF f \in DOMAIN fields
                                                  THEN fields[f] ELSE old.hash[f]]],
            <<"int", Cardinality({f \in DOMAIN fields : old.hash[f] = Nil})>>)

\* A write that deletes keys and does not run eviction.
Remove(keys, r) ==
  /\ Delete(keys)
  /\ reply' = r
  /\ UNCHANGED <<max_memory_bytes, access_clock, now, clients, sweep>>

\* Mutation: an emptied hash stays in the keyspace.
HDelFields_KeepsEmpty(c, k, fields) ==
  LET left == [data[k] EXCEPT !.hash = [f \in Field |-> IF f \in fields
                                           THEN Nil ELSE data[k].hash[f]]]
  IN
  /\ access_clock < MaxSeq
  /\ access_clock' = access_clock + 1
  /\ data' = [data EXCEPT ![k] = [left EXCEPT !.last_accessed_seq = access_clock]]
  /\ used_memory_bytes' = used_memory_bytes - Charge(k) + EstimateEntryBytes(k, left)
  /\ reply' = <<"int", Cardinality(fields \cap FieldsOf(data[k]))>>
  /\ UNCHANGED <<max_memory_bytes, now, clients, sweep>>

HDelFields(c, k, fields) ==
  LET v == data[k]
      left == [v EXCEPT !.hash = [f \in Field |-> IF f \in fields
                                                  THEN Nil ELSE v.hash[f]]]
      removed == <<"int", Cardinality(fields \cap FieldsOf(v))>>
  IN
  \/ FieldsOf(left) = {} /\ Remove({k}, removed)
  \/ /\ FieldsOf(left) # {}
     /\ access_clock < MaxSeq
     /\ access_clock' = access_clock + 1
     /\ data' = [data EXCEPT ![k] = [left EXCEPT !.last_accessed_seq = access_clock]]
     /\ used_memory_bytes' = used_memory_bytes - Charge(k) + EstimateEntryBytes(k, left)
     /\ reply' = removed
     /\ UNCHANGED <<max_memory_bytes, now, clients, sweep>>

HDel(c, k, fields) ==
  /\ CallUnique(c, "HDEL")
  /\ \/ k \notin Present /\ Answer(<<"int", 0>>)
     \/ k \in Dead /\ Remove({k}, <<"int", 0>>)
     \/ k \in Live /\ data[k].type # "hash" /\ Answer(<<"err">>)
     \/ k \in Live /\ data[k].type = "hash" /\ HDelFields(c, k, fields)

\* Del deletes expired entries too, but does not count them.
Del(c, keys) ==
  /\ CallUnique(c, "DEL")
  /\ Remove(keys, <<"int", Cardinality(keys \cap Live)>>)

FlushAll(c) ==
  /\ CallUnique(c, "FLUSHALL")
  /\ data' = [k \in Key |-> Nil]
  /\ used_memory_bytes' = 0
  /\ reply' = <<"ok">>
  /\ UNCHANGED <<max_memory_bytes, access_clock, now, clients, sweep>>

\* time_point arithmetic in two's complement.
TimePoint(t) ==
  ((t + MaxTimePoint + 1) % (2 * (MaxTimePoint + 1))) - (MaxTimePoint + 1)

Expire(c, k, seconds) ==
  /\ CallUnique(c, "EXPIRE")
  /\ \/ k \notin Present /\ Answer(<<"int", 0>>)
     \/ k \in Dead /\ Remove({k}, <<"int", 0>>)
     \/ k \in Live /\ seconds <= 0 /\ Remove({k}, <<"int", 1>>)
     \/ /\ k \in Live /\ seconds > 0
        /\ data' = [data EXCEPT ![k].expires_at =
                      TimePoint(now + seconds * TicksPerSecond)]
        /\ reply' = <<"int", 1>>
        /\ UNCHANGED <<used_memory_bytes, max_memory_bytes, access_clock, now,
                       clients, sweep>>

SetMaxMemory(c, bytes) ==
  /\ CallUnique(c, "MAXMEMORY")
  /\ max_memory_bytes' = bytes
  /\ reply' = <<"ok">>
  /\ EnterEviction(c, bytes)
  /\ UNCHANGED <<data, used_memory_bytes, access_clock, now, ticket,
                 expired_keys, sweep>>
-----------------------------------------------------------------------------
(* EvictIfOverBudget, one action per turn of its loop; the caller holds    *)
(* the exclusive lock throughout.  HashTable::SampleKeys draws bucket      *)
(* heads with repetition, so any few entries can make up the sample.       *)
OverBudget == used_memory_bytes > max_memory_bytes /\ Present # {}

Oldest(sample) ==
  CHOOSE k \in sample : \A j \in sample :
    data[k].last_accessed_seq <= data[j].last_accessed_seq

\* Mutation: an evicted entry's bytes are not given back.
EvictOne_KeepsBytes(c) ==
  /\ pc[c] = "evict"
  /\ OverBudget
  /\ \E k \in Present : data' = [data EXCEPT ![k] = Nil]
  /\ UNCHANGED <<used_memory_bytes, max_memory_bytes, access_clock, now,
                 clients, sweep, reply>>

EvictOne(c) ==
  /\ pc[c] = "evict"
  /\ OverBudget
  /\ \E sample \in SUBSET Present :
       /\ sample # {} /\ Cardinality(sample) <= kSampleSize
       /\ Delete({Oldest(sample)})
  /\ UNCHANGED <<max_memory_bytes, access_clock, now, clients, sweep, reply>>

EvictReturn(c) ==
  /\ pc[c] = "evict"
  /\ ~OverBudget \/ SampleMayBeEmpty
  /\ pc' = [pc EXCEPT ![c] = "idle"]
  /\ UNCHANGED <<table, access_clock, now, ticket, expired_keys, sweep, reply>>
-----------------------------------------------------------------------------
(* Expired entries leave the table.                                        *)

DeleteIfExpired_Retries(c, k) ==
  /\ pc[c] = "reap" /\ k \in expired_keys[c] \cap Dead
  /\ CanLock
  /\ Delete({k})
  /\ expired_keys' = [expired_keys EXCEPT ![c] = @ \ {k}]
  /\ pc' = [pc EXCEPT ![c] = IF expired_keys[c] = {k} THEN "idle" ELSE "reap"]
  /\ UNCHANGED <<max_memory_bytes, access_clock, now, ticket, sweep, reply>>

\* One call of DeleteIfExpired by a reader that escalates.
DeleteIfExpired(c, k) ==
  /\ pc[c] = "reap" /\ k \in expired_keys[c]
  /\ CanLock
  /\ Delete({k} \cap Dead)
  /\ expired_keys' = [expired_keys EXCEPT ![c] = @ \ {k}]
  /\ pc' = [pc EXCEPT ![c] = IF expired_keys[c] = {k} THEN "idle" ELSE "reap"]
  /\ UNCHANGED <<max_memory_bytes, access_clock, now, ticket, sweep, reply>>

\* Mutation: stop_sweeper_ is never looked at.
SweeperWake_NeverStops ==
  /\ sweeper = "waiting"
  /\ sweeper' = "scan"
  /\ UNCHANGED <<table, access_clock, now, clients, expired, stop_sweeper, reply>>

\* SweeperRun: the wait ends by timeout or by the destructor's notification.
SweeperWake ==
  /\ sweeper = "waiting"
  /\ sweeper' = IF stop_sweeper THEN "exited" ELSE "scan"
  /\ UNCHANGED <<table, access_clock, now, clients, expired, stop_sweeper, reply>>

\* SweepExpired, phase 1.
SweepScan ==
  /\ sweeper = "scan"
  /\ CanLockShared
  /\ expired' = Dead
  /\ sweeper' = IF Dead = {} THEN "waiting" ELSE "delete"
  /\ UNCHANGED <<table, access_clock, now, clients, stop_sweeper, reply>>

\* Mutations: phase 2 trusts phase 1; or the thread sweeps only once.
SweepDelete_NoRecheck ==
  /\ sweeper = "delete"
  /\ CanLock
  /\ Delete(expired)
  /\ expired' = {}
  /\ sweeper' = "waiting"
  /\ UNCHANGED <<max_memory_bytes, access_clock, now, clients, stop_sweeper, reply>>
SweepDelete_Once ==
  /\ sweeper = "delete"
  /\ CanLock
  /\ Delete(expired \cap Dead)
  /\ expired' = {}
  /\ sweeper' = "exited"
  /\ UNCHANGED <<max_memory_bytes, access_clock, now, clients, stop_sweeper, reply>>

\* SweepExpired, phase 2.
SweepDelete ==
  /\ sweeper = "delete"
  /\ CanLock
  /\ Delete(expired \cap Dead)
  /\ expired' = {}
  /\ sweeper' = "waiting"
  /\ UNCHANGED <<max_memory_bytes, access_clock, now, clients, stop_sweeper, reply>>

\* ~Store, after the last client is done with the store.
Destroy ==
  /\ ~stop_sweeper
  /\ \A c \in Client : pc[c] = "idle"
  /\ stop_sweeper' = TRUE
  /\ UNCHANGED <<table, access_clock, now, clients, sweeper, expired, reply>>

Tick ==
  /\ now < MaxNow
  /\ now' = now + 1
  /\ UNCHANGED <<table, access_clock, clients, sweep, reply>>

\* The destructor has joined the sweeper: nothing is left to run.
Destroyed == sweeper = "exited" /\ UNCHANGED vars
-----------------------------------------------------------------------------
Init ==
  /\ data = [k \in Key |-> Nil]
  /\ used_memory_bytes = 0 /\ max_memory_bytes = 0 /\ access_clock = 0
  /\ now = 0
  /\ pc = [c \in Client |-> "idle"]
  /\ ticket = [c \in Client |-> Nil]
  /\ expired_keys = [c \in Client |-> {}]
  /\ sweeper = "waiting" /\ expired = {} /\ stop_sweeper = FALSE
  /\ reply = <<"nil">>

FieldValues == UNION {[D -> Str] : D \in (SUBSET Field) \ {{}}}

ReadNext(c, k) ==
  \/ Get(c, k) \/ TTL(c, k) \/ LLen(c, k)
  \/ HGetAll(c, k) \/ HLen(c, k) \/ HKeys(c, k) \/ HVals(c, k)
  \/ \E start, stop \in Index : LRange(c, k, start, stop)
  \/ \E f \in Field : HGet(c, k, f) \/ HExists(c, k, f)

WriteNext(c, k) ==
  \/ \E s \in Str : Set(c, k, s)
  \/ \E vals \in Pushes : LPush(c, k, vals) \/ RPush(c, k, vals)
  \/ \E fields \in FieldValues : HSet(c, k, fields)
  \/ \E fields \in (SUBSET Field) \ {{}} : HDel(c, k, fields)
  \/ \E seconds \in Seconds : Expire(c, k, seconds)

ClientNext(c) ==
  \/ \E k \in Key : ReadNext(c, k) \/ WriteNext(c, k) \/ DeleteIfExpired(c, k)
  \/ \E keys \in KeyLists : Exists(c, keys)
  \/ \E keys \in (SUBSET Key) \ {{}} : Del(c, keys)
  \/ \E bytes \in Budgets : SetMaxMemory(c, bytes)
  \/ Keys(c) \/ FlushAll(c)
  \/ StampEntry(c) \/ EvictOne(c) \/ EvictReturn(c)

SweeperNext == SweeperWake \/ SweepScan \/ SweepDelete

Next == (\E c \in Client : ClientNext(c)) \/ SweeperNext \/ Tick \/ Destroy \/ Destroyed

Spec == Init /\ [][Next]_vars

\* Every thread that can run is eventually scheduled: the sweeper, whose
\* timed wait ends at the latest after sweep_interval_, and a client that is
\* inside a method.  Nobody is obliged to call a method.
Fairness ==
  /\ WF_vars(SweeperWake) /\ WF_vars(SweepScan) /\ WF_vars(SweepDelete)
  /\ \A c \in Client :
       /\ WF_vars(StampEntry(c))
       /\ WF_vars(EvictOne(c) \/ EvictReturn(c))
       /\ WF_vars(\E k \in Key : DeleteIfExpired(c, k))

FairSpec == Spec /\ Fairness
-----------------------------------------------------------------------------
(* Assumptions on the constants.                                           *)
Record == [type : {"string", "list", "hash"}, str : Str \cup {Nil},
           list : Seq(Str), hash : [Field -> Str \cup {Nil}],
           expires_at : Int \cup {Nil}, last_accessed_seq : Nat]
Value == {v \in Record : v.type = "string" => v.str # Nil}

ASSUME FiniteStrings == IsFiniteSet(Key) /\ IsFiniteSet(Field)
ASSUME SizesAreNat == \A s \in Key \cup Field \cup Str : Size(s) \in Nat
ASSUME OverheadsAreNat ==
  /\ kPerEntryOverheadBytes \in Nat
  /\ kPerListElementOverheadBytes \in Nat
  /\ kPerHashFieldOverheadBytes \in Nat
ASSUME NilIsNoValue == Nil \notin Str /\ Nil \notin Int /\ Nil \notin Record
ASSUME InputsAreTyped ==
  /\ Pushes \subseteq Seq(Str) \ {<<>>} /\ KeyLists \subseteq Seq(Key)
  /\ Seconds \subseteq Int /\ Index \subseteq Int /\ Budgets \subseteq Nat
ASSUME ClockIsInteger ==
  /\ TicksPerSecond \in Nat \ {0} /\ MaxTimePoint \in Nat \ {0}
-----------------------------------------------------------------------------
(* Properties.                                                             *)

\* Type invariant.  That used_memory_bytes is a natural number says that the
\* unsigned counter never wraps below zero.
TypeOK ==
  /\ data \in [Key -> Value \cup {Nil}]
  /\ used_memory_bytes \in Nat /\ max_memory_bytes \in Nat /\ access_clock \in Nat
  /\ now \in Nat
  /\ pc \in [Client -> {"idle", "touch", "reap", "evict"}]
  /\ ticket \in [Client -> [key : Key, seq : Nat] \cup {Nil}]
  /\ expired_keys \in [Client -> SUBSET Key]
  /\ sweeper \in {"waiting", "scan", "delete", "exited"}
  /\ expired \in SUBSET Key
  /\ stop_sweeper \in BOOLEAN

\* used_memory_bytes_ is at every moment exactly the sum of what
\* EstimateEntryBytes charges for the entries in the table, whichever method
\* inserted, changed, evicted or reaped them.
MemoryAccounted == used_memory_bytes = ChargeOf(Key)

\* Once the writer that was evicting has released the lock, the table is
\* within the budget (store.h:277-280).
WithinBudget ==
  (max_memory_bytes # 0 /\ \A c \in Client : pc[c] # "evict")
    => used_memory_bytes <= max_memory_bytes

\* The entry a reader is about to stamp is still in the table: no writer, no
\* sweeper and no other reader's DeleteIfExpired freed it meanwhile.
TouchedEntryIsPresent ==
  \A c \in Client : pc[c] = "touch" => ticket[c].key \in Present

\* No two entries carry the same recency stamp ("A counter can never tie two
\* *different* accesses", value.h:80-81), although readers stamp concurrently.
StampsDistinct ==
  \A j, k \in Present :
    j # k => data[j].last_accessed_seq # data[k].last_accessed_seq

\* The keyspace never holds an empty list or an empty hash (store.cpp:560-562).
NoEmptyCollection ==
  \A k \in Present :
    /\ data[k].type = "list" => data[k].list # <<>>
    /\ data[k].type = "hash" => FieldsOf(data[k]) # {}

\* The sweeper's phase 2 and a reader's DeleteIfExpired remove only entries
\* that are expired when they are removed, even if what was seen expired
\* under the shared lock has been overwritten or refreshed since; and they
\* change no entry they leave in the table.
ReapsOnlyTheDead ==
  [][(sweeper' # sweeper \/ expired_keys' # expired_keys)
       => \A k \in Present : data'[k] = data[k] \/ (data'[k] = Nil /\ k \in Dead)]_vars

\* std::shared_mutex promises no thread the lock while others keep taking it,
\* so what needs the exclusive lock is promised for traffic that pauses.
TrafficPauses == <>[][\A c \in Client : pc[c] = "idle" => pc'[c] = "idle"]_pc

\* A key whose deadline has passed does not stay in memory waiting for a
\* read (store.h:248-252): it is reclaimed, unless the store is destroyed.
ExpiredIsReclaimed ==
  TrafficPauses => \A k \in Key : k \in Dead ~> (k \notin Dead \/ stop_sweeper)

\* Every method returns: readers and writers never wait for each other for
\* ever, and the eviction loop ends.
MethodsReturn ==
  TrafficPauses => \A c \in Client : pc[c] # "idle" ~> pc[c] = "idle"

\* ~Store returns: the sweeper notices stop_sweeper_ wherever it is.
DestructorJoins == stop_sweeper ~> sweeper = "exited"

\* EXPIRE with a positive TTL puts the deadline into the future (store.h:120).
DeadlineInFuture ==
  [][\A k \in Present : (k \in Live /\ data'[k] # Nil /\ data'[k].expires_at # Nil)
       => data'[k].expires_at > now]_vars


\* Store implements the abstract keyspace: an expired entry that has not been
\* reaped yet is invisible, so reaping is a stuttering step.
VisibleValue(v) == [type |-> v.type, str |-> v.str, list |-> v.list,
                    hash |-> v.hash, expires_at |-> v.expires_at]
Abstract == INSTANCE Keyspace WITH
  kv <- [k \in Key |-> IF k \in Live THEN VisibleValue(data[k]) ELSE Nil],
  bounded <- max_memory_bytes # 0
ImplementsKeyspace == Abstract!Spec
=============================================================================
