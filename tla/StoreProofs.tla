---------------------------- MODULE StoreProofs -----------------------------
(***************************************************************************)
(* Safety of Store for every number of keys, fields, strings and clients,  *)
(* every size function and every budget.                                   *)
(*                                                                         *)
(* The invariant Inv is inductive.  Type correctness needs the accounting  *)
(* (used_memory_bytes stays natural because what is subtracted is part of  *)
(* the sum), and the lock discipline (an entry that is being stamped is    *)
(* there); the lock discipline needs only the program counters.            *)
(***************************************************************************)
EXTENDS Store, SumLemmas

\* At most one thread is in its exclusive critical section, and then no
\* reader is in its shared one.
LocksExclude ==
  \A c, d \in Client : (c # d /\ pc[c] = "evict") => pc[d] \notin {"touch", "evict"}

\* A reader between the two halves of Touch holds a ticket for an entry.
TicketsHeld ==
  \A c \in Client : pc[c] = "touch" =>
    ticket[c] \in [key : Key, seq : Nat] /\ ticket[c].key \in Present

Inv == TypeOK /\ MemoryAccounted /\ LocksExclude /\ TicketsHeld
-----------------------------------------------------------------------------
(* Sizes.                                                                  *)

\* Every entry is charged a natural number of bytes.
LEMMA EstimateIsNat ==
  ASSUME NEW k \in Key, NEW v \in Value
  PROVE  EstimateEntryBytes(k, v) \in Nat
<1>1. Size(k) \in Nat /\ kPerEntryOverheadBytes \in Nat
  BY SizesAreNat, OverheadsAreNat
<1>2. CASE v.type = "string"
  <2>1. v.str \in Str
    BY <1>2 DEF Value, Record
  <2> QED BY <1>1, <1>2, <2>1, SizesAreNat DEF EstimateEntryBytes
<1>3. CASE v.type = "list"
  <2> DEFINE g == [i \in DOMAIN v.list |-> Size(v.list[i]) + kPerListElementOverheadBytes]
  <2>1. v.list \in Seq(Str)
    BY DEF Value, Record
  <2>2. DOMAIN g = 1..Len(v.list) /\ IsFiniteSet(DOMAIN g)
    BY <2>1, FS_Interval
  <2>3. \A i \in DOMAIN g : g[i] \in Nat
    BY <2>1, SizesAreNat, OverheadsAreNat
  <2> HIDE DEF g
  <2>4. SumFunction(g) \in Nat
    BY <2>2, <2>3, SumType DEF SumFunction
  <2>5. EstimateEntryBytes(k, v) = Size(k) + kPerEntryOverheadBytes + SumFunction(g)
    BY <1>3 DEF EstimateEntryBytes, g
  <2> QED BY <1>1, <2>4, <2>5
<1>4. CASE v.type = "hash"
  <2> DEFINE g == [f \in FieldsOf(v) |->
                     Size(f) + Size(v.hash[f]) + kPerHashFieldOverheadBytes]
  <2>1. v.hash \in [Field -> Str \cup {Nil}]
    BY DEF Value, Record
  <2>2. DOMAIN g \subseteq Field /\ IsFiniteSet(DOMAIN g)
    BY FiniteStrings, FS_Subset DEF FieldsOf
  <2>3. \A f \in DOMAIN g : g[f] \in Nat
    BY <2>1, SizesAreNat, OverheadsAreNat DEF FieldsOf
  <2> HIDE DEF g
  <2>4. SumFunction(g) \in Nat
    BY <2>2, <2>3, SumType DEF SumFunction
  <2>5. EstimateEntryBytes(k, v) = Size(k) + kPerEntryOverheadBytes + SumFunction(g)
    BY <1>4 DEF EstimateEntryBytes, g
  <2> QED BY <1>1, <2>4, <2>5
<1> QED BY <1>2, <1>3, <1>4 DEF Value, Record

\* The estimate does not look at the deadline or the stamp.
LEMMA EstimateIgnoresMeta ==
  ASSUME NEW k, NEW v, NEW w, v.type = w.type, v.str = w.str,
         v.list = w.list, v.hash = w.hash
  PROVE  EstimateEntryBytes(k, v) = EstimateEntryBytes(k, w)
BY Zenon DEF EstimateEntryBytes, FieldsOf

\* A key is charged a natural number of bytes, present or not.
LEMMA ChargeIsNat ==
  ASSUME data \in [Key -> Value \cup {Nil}], NEW k \in Key
  PROVE  Charge(k) \in Nat
BY EstimateIsNat DEF Charge, Present

\* So is a set of keys.
LEMMA ChargeOfIsNat ==
  ASSUME data \in [Key -> Value \cup {Nil}], NEW K \in SUBSET Key
  PROVE  ChargeOf(K) \in Nat
<1> DEFINE g == [k \in Key |-> Charge(k)]
<1>1. \A k \in Key : g[k] \in Nat
  BY ChargeIsNat
<1> HIDE DEF g
<1>2. SumFunctionOnSet(g, K) \in Nat
  BY <1>1, FiniteStrings, SumType
<1> QED BY <1>2 DEF ChargeOf, g

\* What a set of entries is charged is part of what all entries are charged.
LEMMA DeletePreserves ==
  ASSUME TypeOK, MemoryAccounted, NEW keys \in SUBSET Key, Delete(keys)
  PROVE  /\ data' \in [Key -> Value \cup {Nil}]
         /\ used_memory_bytes' \in Nat
         /\ MemoryAccounted'
         /\ \A k \in Key : data'[k] = IF k \in keys THEN Nil ELSE data[k]
<1>1. /\ data \in [Key -> Value \cup {Nil}]
      /\ data' = [k \in Key |-> IF k \in keys THEN Nil ELSE data[k]]
  BY DEF TypeOK, Delete
<1>2. data' \in [Key -> Value \cup {Nil}]
  BY <1>1
<1> DEFINE g == [k \in Key |-> Charge(k)]
           h == [k \in Key |-> Charge(k)']
<1>3. \A k \in Key : g[k] \in Nat
  BY <1>1, ChargeIsNat
<1>4. \A k \in Key : h[k] = IF k \in keys THEN 0 ELSE g[k]
  BY <1>1 DEF Charge, Present
<1>5. SumFunctionOnSet(h, Key) = SumFunctionOnSet(g, Key) - SumFunctionOnSet(g, keys)
  <2> HIDE DEF g, h
  <2> QED BY <1>3, <1>4, FiniteStrings, SumClear
<1>6. SumFunctionOnSet(h, Key) \in Nat
  <2>1. \A k \in Key : h[k] \in Nat
    BY <1>3, <1>4
  <2> HIDE DEF g, h
  <2> QED BY <2>1, FiniteStrings, SumType
<1>7. used_memory_bytes' = ChargeOf(Key) - ChargeOf(keys)
  BY DEF MemoryAccounted, Delete
<1>8. used_memory_bytes' = SumFunctionOnSet(h, Key)
  BY <1>5, <1>7 DEF ChargeOf
<1>9. MemoryAccounted'
  BY <1>8 DEF MemoryAccounted, ChargeOf
<1> QED BY <1>1, <1>2, <1>6, <1>8, <1>9

\* Replacing one entry and charging the difference keeps the sum right.
LEMMA ReplacePreserves ==
  ASSUME TypeOK, MemoryAccounted, NEW k \in Key, NEW v \in Value, NEW w \in Value,
         v.type = w.type, v.str = w.str, v.list = w.list, v.hash = w.hash,
         data' = [data EXCEPT ![k] = v],
         used_memory_bytes' = used_memory_bytes - Charge(k) + EstimateEntryBytes(k, w)
  PROVE  /\ data' \in [Key -> Value \cup {Nil}]
         /\ used_memory_bytes' \in Nat
         /\ MemoryAccounted'
<1>1. data \in [Key -> Value \cup {Nil}] /\ data' \in [Key -> Value \cup {Nil}]
  BY DEF TypeOK
<1> DEFINE g == [j \in Key |-> Charge(j)]
           h == [j \in Key |-> Charge(j)']
<1>2. \A j \in Key : g[j] \in Nat
  BY <1>1, ChargeIsNat
<1>3. h[k] = EstimateEntryBytes(k, w)
  <2>1. v # Nil /\ data'[k] = v
    BY <1>1, NilIsNoValue DEF Value, TypeOK
  <2>2. h[k] = EstimateEntryBytes(k, v)
    BY <2>1 DEF Charge, Present
  <2> QED BY <2>2, EstimateIgnoresMeta
<1>4. \A j \in Key \ {k} : h[j] = g[j]
  BY <1>1 DEF Charge, Present, TypeOK
<1>5. \A j \in Key : h[j] \in Nat
  BY <1>2, <1>3, <1>4, EstimateIsNat
<1>6. g[k] = Charge(k)
  OBVIOUS
<1>7. /\ SumFunctionOnSet(h, Key) = SumFunctionOnSet(g, Key) - g[k] + h[k]
      /\ SumFunctionOnSet(h, Key) \in Nat
  <2> HIDE DEF g, h
  <2> QED BY <1>2, <1>4, <1>5, FiniteStrings, SumUpdate, SumType
<1>8. used_memory_bytes' = SumFunctionOnSet(h, Key)
  BY <1>3, <1>6, <1>7 DEF MemoryAccounted, ChargeOf
<1>9. MemoryAccounted'
  BY <1>8 DEF MemoryAccounted, ChargeOf
<1> QED BY <1>1, <1>7, <1>8, <1>9
-----------------------------------------------------------------------------
(* The shared parts of the methods preserve Inv.                           *)

\* The accounting only looks at the table and at the counter.
LEMMA AccountFrame ==
  ASSUME MemoryAccounted, data' = data, used_memory_bytes' = used_memory_bytes
  PROVE  MemoryAccounted'
BY DEF MemoryAccounted, ChargeOf, Charge, Present

\* A method that only answers keeps Inv.
LEMMA AnswerPreserves ==
  ASSUME Inv, NEW r, Answer(r)
  PROVE  Inv'
<1>1. MemoryAccounted'
  BY AccountFrame DEF Inv, Answer, table
<1> QED BY <1>1 DEF Inv, Answer, table, clients, sweep, TypeOK, LocksExclude,
                    TicketsHeld, Present

\* A reader giving the shared lock up for DeleteIfExpired keeps Inv.
LEMMA EscalatePreserves ==
  ASSUME Inv, NEW c \in Client, NEW keys \in SUBSET Key, NEW r, Escalate(c, keys, r)
  PROVE  Inv'
<1>1. MemoryAccounted'
  BY AccountFrame DEF Inv, Escalate, table
<1>2. TypeOK'
  BY DEF Inv, Escalate, table, sweep, TypeOK
<1>3. LocksExclude' /\ TicketsHeld'
  BY DEF Inv, Escalate, table, TypeOK, LocksExclude, TicketsHeld, Present
<1> QED BY <1>1, <1>2, <1>3 DEF Inv

\* The common body of the typed reads keeps Inv.
LEMMA ReadTypedPreserves ==
  ASSUME Inv, NEW c \in Client, NEW k \in Key, NEW type, NEW hit, NEW miss,
         CanLockShared, ReadTyped(c, k, type, hit, miss)
  PROVE  Inv'
<1>1. CASE Answer(miss) \/ Answer(<<"err">>)
  BY <1>1, AnswerPreserves
<1>2. CASE Escalate(c, {k}, miss)
  BY <1>2, EscalatePreserves
<1>3. CASE /\ k \in Live /\ DrawTicket(c, k)
           /\ UNCHANGED <<table, now, expired_keys, sweep>>
  <2>1. MemoryAccounted'
    BY <1>3, AccountFrame DEF Inv, table
  <2>2. TypeOK'
    BY <1>3 DEF Inv, DrawTicket, table, sweep, TypeOK
  <2>3. LocksExclude'
    BY <1>3 DEF Inv, DrawTicket, TypeOK, LocksExclude, CanLockShared
  <2>4. TicketsHeld'
    BY <1>3 DEF Inv, DrawTicket, table, TypeOK, TicketsHeld, Live, Present
  <2> QED BY <2>1, <2>2, <2>3, <2>4 DEF Inv
<1> QED BY <1>1, <1>2, <1>3 DEF ReadTyped

\* Stamping a value changes nothing else of it.
LEMMA StampedIsValue ==
  ASSUME NEW v \in Value, NEW n \in Nat
  PROVE  LET w == [v EXCEPT !.last_accessed_seq = n]
         IN  /\ w \in Value /\ w.last_accessed_seq = n /\ w.type = v.type
             /\ w.str = v.str /\ w.list = v.list /\ w.hash = v.hash
BY DEF Value, Record

\* While the exclusive lock is free to take, no reader holds a ticket.
LEMMA PutPreserves ==
  ASSUME Inv, NEW c \in Client, NEW k \in Key, NEW v \in Value, NEW touches \in {1, 2},
         NEW r, CanLock, Put(c, k, v, touches, r)
  PROVE  Inv'
<1> DEFINE w == [v EXCEPT !.last_accessed_seq = access_clock + touches - 1]
<1>1. w \in Value /\ w.type = v.type /\ w.str = v.str /\ w.list = v.list /\ w.hash = v.hash
  <2>1. access_clock + touches - 1 \in Nat
    BY DEF Inv, TypeOK
  <2> QED BY <2>1, StampedIsValue
<1>2. /\ data' = [data EXCEPT ![k] = w]
      /\ used_memory_bytes' = used_memory_bytes - Charge(k) + EstimateEntryBytes(k, v)
  BY DEF Put
<1>3. /\ data' \in [Key -> Value \cup {Nil}]
      /\ used_memory_bytes' \in Nat /\ MemoryAccounted'
  <2> HIDE DEF w
  <2> QED BY <1>1, <1>2, ReplacePreserves DEF Inv
<1>4. TypeOK'
  BY <1>3 DEF Inv, Put, EnterEviction, sweep, TypeOK
<1>5. LocksExclude' /\ TicketsHeld'
  BY DEF Inv, Put, EnterEviction, TypeOK, CanLock, LocksExclude, TicketsHeld
<1> QED BY <1>3, <1>4, <1>5 DEF Inv

\* Deleting a set of keys under the exclusive lock keeps Inv.
LEMMA RemovePreserves ==
  ASSUME Inv, NEW keys \in SUBSET Key, NEW r, CanLock, Remove(keys, r)
  PROVE  Inv'
<1>1. /\ data' \in [Key -> Value \cup {Nil}]
      /\ used_memory_bytes' \in Nat /\ MemoryAccounted'
  BY DeletePreserves DEF Inv, Remove
<1>2. TypeOK'
  BY <1>1 DEF Inv, Remove, clients, sweep, TypeOK
<1>3. LocksExclude' /\ TicketsHeld'
  BY DEF Inv, Remove, clients, CanLock, LocksExclude, TicketsHeld
<1> QED BY <1>1, <1>2, <1>3 DEF Inv

\* What GetOrCreateList and GetOrCreateHash create is a value.
LEMMA FreshIsValue ==
  ASSUME NEW type \in {"list", "hash"}
  PROVE  Fresh(type) \in Value
BY DEF Fresh, NoFields, Value, Record

\* What they return is one.
LEMMA GetOrCreateIsValue ==
  ASSUME Inv, NEW k \in Key, NEW type \in {"list", "hash"}
  PROVE  GetOrCreate(k, type) \in Value
BY FreshIsValue DEF GetOrCreate, Live, Present, Inv, TypeOK

\* The common body of LPush, RPush and HSet keeps Inv.
LEMMA UpdatePreserves ==
  ASSUME Inv, NEW c \in Client, NEW k \in Key, NEW type, NEW v \in Value, NEW r,
         CanLock, Update(c, k, type, v, r)
  PROVE  Inv'
<1>1. CASE Answer(<<"err">>)
  BY <1>1, AnswerPreserves
<1>2. CASE Put(c, k, v, 1, r)
  BY <1>2, PutPreserves
<1>3. CASE Put(c, k, v, 2, r)
  BY <1>3, PutPreserves
<1> QED BY <1>1, <1>2, <1>3 DEF Update
-----------------------------------------------------------------------------
(* Every method and every step of the sweeper preserves Inv.               *)

\* Set keeps Inv.
LEMMA SetPreserves ==
  ASSUME Inv, NEW c \in Client, NEW k \in Key, NEW s \in Str, Set(c, k, s)
  PROVE  Inv'
<1> DEFINE v == [Fresh("string") EXCEPT !.str = s]
<1>1. v \in Value
  <2>1. Fresh("string") \in Record
    BY DEF Fresh, NoFields, Record
  <2>2. v \in Record /\ v.str = s
    BY <2>1 DEF Record
  <2> HIDE DEF v
  <2> QED BY <2>2, NilIsNoValue DEF Value
<1>2. CanLock /\ Put(c, k, v, 1, <<"ok">>)
  BY DEF Set, CallUnique
<1> HIDE DEF v
<1> QED BY <1>1, <1>2, PutPreserves

\* Writing a new list keeps Inv.
LEMMA PushPreserves ==
  ASSUME Inv, NEW c \in Client, NEW k \in Key, NEW list \in Seq(Str), CanLock,
         Push(c, k, list)
  PROVE  Inv'
<1> DEFINE v == [GetOrCreate(k, "list") EXCEPT !.list = list]
<1>1. GetOrCreate(k, "list") \in Value
  BY GetOrCreateIsValue
<1>2. v \in Value
  BY <1>1 DEF Value, Record
<1>3. Update(c, k, "list", v, <<"int", Len(list)>>)
  BY DEF Push
<1> HIDE DEF v
<1> QED BY <1>2, <1>3, UpdatePreserves

\* RPush keeps Inv.
LEMMA RPushPreserves ==
  ASSUME Inv, NEW c \in Client, NEW k \in Key, NEW vals \in Pushes, RPush(c, k, vals)
  PROVE  Inv'
<1>1. GetOrCreate(k, "list").list \in Seq(Str) /\ vals \in Seq(Str)
  BY GetOrCreateIsValue, InputsAreTyped DEF Value, Record
<1>2. GetOrCreate(k, "list").list \o vals \in Seq(Str)
  BY <1>1
<1> QED BY <1>2, PushPreserves DEF RPush, CallUnique

\* LPush keeps Inv.
LEMMA LPushPreserves ==
  ASSUME Inv, NEW c \in Client, NEW k \in Key, NEW vals \in Pushes, LPush(c, k, vals)
  PROVE  Inv'
<1> DEFINE reversed == [i \in 1..Len(vals) |-> vals[Len(vals) + 1 - i]]
<1>1. GetOrCreate(k, "list").list \in Seq(Str) /\ vals \in Seq(Str)
  BY GetOrCreateIsValue, InputsAreTyped DEF Value, Record
<1>2. reversed \in Seq(Str)
  BY <1>1
<1>3. reversed \o GetOrCreate(k, "list").list \in Seq(Str)
  BY <1>1, <1>2
<1> QED BY <1>3, PushPreserves DEF LPush, CallUnique

\* HSet keeps Inv.
LEMMA HSetPreserves ==
  ASSUME Inv, NEW c \in Client, NEW k \in Key, NEW fields \in FieldValues,
         HSet(c, k, fields)
  PROVE  Inv'
<1> DEFINE old == GetOrCreate(k, "hash")
           new == [f \in Field |-> IF f \in DOMAIN fields THEN fields[f] ELSE old.hash[f]]
           v == [old EXCEPT !.hash = new]
           r == <<"int", Cardinality({f \in DOMAIN fields : old.hash[f] = Nil})>>
<1>1. old \in Value
  BY GetOrCreateIsValue
<1>2. new \in [Field -> Str \cup {Nil}]
  BY <1>1 DEF FieldValues, Value, Record
<1>3. v \in Value
  <2> HIDE DEF old, new
  <2> QED BY <1>1, <1>2 DEF Value, Record
<1>4. CanLock /\ Update(c, k, "hash", v, r)
  BY DEF HSet, CallUnique
<1> HIDE DEF v, r
<1> QED BY <1>3, <1>4, UpdatePreserves

\* Removing fields from a live hash keeps Inv, emptied or not.
LEMMA HDelFieldsPreserves ==
  ASSUME Inv, NEW c \in Client, NEW k \in Live, NEW fields, CanLock,
         HDelFields(c, k, fields)
  PROVE  Inv'
<1> DEFINE v == data[k]
           new == [f \in Field |-> IF f \in fields THEN Nil ELSE v.hash[f]]
           left == [v EXCEPT !.hash = new]
           w == [left EXCEPT !.last_accessed_seq = access_clock]
<1>1. k \in Key /\ v \in Value /\ access_clock \in Nat
  BY DEF Live, Present, Inv, TypeOK
<1>2. CASE Remove({k}, <<"int", Cardinality(fields \cap FieldsOf(v))>>)
  BY <1>1, <1>2, RemovePreserves
<1>3. CASE /\ access_clock' = access_clock + 1
           /\ data' = [data EXCEPT ![k] = w]
           /\ used_memory_bytes' = used_memory_bytes - Charge(k) + EstimateEntryBytes(k, left)
           /\ UNCHANGED <<max_memory_bytes, now, clients, sweep>>
  <2>1. left \in Value
    <3>1. new \in [Field -> Str \cup {Nil}]
      BY <1>1 DEF Value, Record
    <3> HIDE DEF v, new
    <3> QED BY <1>1, <3>1 DEF Value, Record
  <2>2. /\ w \in Value /\ w.type = left.type
        /\ w.str = left.str /\ w.list = left.list /\ w.hash = left.hash
    BY <1>1, <2>1, StampedIsValue
  <2>3. /\ data' \in [Key -> Value \cup {Nil}]
        /\ used_memory_bytes' \in Nat /\ MemoryAccounted'
    <3> HIDE DEF left, w
    <3> QED BY <1>1, <1>3, <2>1, <2>2, ReplacePreserves DEF Inv
  <2>4. TypeOK'
    BY <1>3, <2>3 DEF Inv, clients, sweep, TypeOK
  <2>5. LocksExclude' /\ TicketsHeld'
    BY <1>3 DEF Inv, clients, CanLock, LocksExclude, TicketsHeld
  <2> QED BY <2>3, <2>4, <2>5 DEF Inv
<1> QED BY <1>2, <1>3 DEF HDelFields

\* HDel keeps Inv on each of its paths.
LEMMA HDelPreserves ==
  ASSUME Inv, NEW c \in Client, NEW k \in Key, NEW fields, HDel(c, k, fields)
  PROVE  Inv'
<1>1. CanLock
  BY DEF HDel, CallUnique
<1>2. CASE Answer(<<"int", 0>>) \/ Answer(<<"err">>)
  BY <1>2, AnswerPreserves
<1>3. CASE Remove({k}, <<"int", 0>>)
  BY <1>1, <1>3, RemovePreserves
<1>4. CASE k \in Live /\ HDelFields(c, k, fields)
  BY <1>1, <1>4, HDelFieldsPreserves
<1> QED BY <1>2, <1>3, <1>4 DEF HDel

\* FlushAll keeps Inv: an empty table is charged nothing.
LEMMA FlushAllPreserves ==
  ASSUME Inv, NEW c \in Client, FlushAll(c)
  PROVE  Inv'
<1> DEFINE h == [k \in Key |-> Charge(k)']
<1>1. data' = [k \in Key |-> Nil] /\ used_memory_bytes' = 0
  BY DEF FlushAll
<1>2. \A k \in Key : h[k] = 0
  BY <1>1 DEF Charge, Present
<1>3. SumFunctionOnSet(h, Key) = 0
  <2> HIDE DEF h
  <2>1. \A k \in Key : h[k] \in Nat /\ h[k] = IF k \in Key THEN 0 ELSE h[k]
    BY <1>2
  <2>2. SumFunctionOnSet(h, Key) = SumFunctionOnSet(h, Key) - SumFunctionOnSet(h, Key)
    BY <2>1, FiniteStrings, SumClear
  <2>3. SumFunctionOnSet(h, Key) \in Nat
    BY <2>1, FiniteStrings, SumType
  <2> QED BY <2>2, <2>3
<1>4. MemoryAccounted'
  BY <1>1, <1>3 DEF MemoryAccounted, ChargeOf
<1>5. TypeOK'
  BY <1>1 DEF FlushAll, Inv, clients, sweep, TypeOK
<1>6. LocksExclude' /\ TicketsHeld'
  BY DEF FlushAll, CallUnique, Inv, clients, CanLock, LocksExclude, TicketsHeld
<1> QED BY <1>4, <1>5, <1>6 DEF Inv

\* Expire keeps Inv on each of its paths: a deadline costs no bytes.
LEMMA ExpirePreserves ==
  ASSUME Inv, NEW c \in Client, NEW k \in Key, NEW seconds \in Seconds,
         Expire(c, k, seconds)
  PROVE  Inv'
<1>1. CanLock
  BY DEF Expire, CallUnique
<1>2. CASE Answer(<<"int", 0>>)
  BY <1>2, AnswerPreserves
<1>3. CASE Remove({k}, <<"int", 0>>) \/ Remove({k}, <<"int", 1>>)
  BY <1>1, <1>3, RemovePreserves
<1>4. CASE /\ k \in Live
           /\ data' = [data EXCEPT ![k].expires_at =
                         TimePoint(now + seconds * TicksPerSecond)]
           /\ UNCHANGED <<used_memory_bytes, max_memory_bytes, access_clock, now,
                          clients, sweep>>
  <2> DEFINE t == TimePoint(now + seconds * TicksPerSecond)
             v == data[k]
             w == [v EXCEPT !.expires_at = t]
  <2>1. t \in Int
    <3>1. now + seconds * TicksPerSecond \in Int
      BY InputsAreTyped, ClockIsInteger DEF Inv, TypeOK
    <3>2. MaxTimePoint + 1 \in Int /\ 2 * (MaxTimePoint + 1) \in Nat \ {0}
      BY ClockIsInteger
    <3>3. \A a \in Int, m \in Nat \ {0} : a % m \in Int
      OBVIOUS
    <3>4. now + seconds * TicksPerSecond + MaxTimePoint + 1 \in Int
      BY <3>1, ClockIsInteger
    <3>5. (now + seconds * TicksPerSecond + MaxTimePoint + 1) % (2 * (MaxTimePoint + 1)) \in Int
      BY <3>2, <3>3, <3>4
    <3> QED BY <3>2, <3>5 DEF TimePoint
  <2>2. v \in Value
    BY <1>4 DEF Live, Present, Inv, TypeOK
  <2>3. /\ w \in Value /\ w.type = v.type
        /\ w.str = v.str /\ w.list = v.list /\ w.hash = v.hash
    <3> HIDE DEF t, v
    <3> QED BY <2>1, <2>2 DEF Value, Record
  <2>4. data' = [data EXCEPT ![k] = w]
    BY <1>4
  <2>5. used_memory_bytes' = used_memory_bytes - Charge(k) + EstimateEntryBytes(k, v)
    <3>1. Charge(k) = EstimateEntryBytes(k, v)
      BY <1>4 DEF Charge, Live
    <3>2. Charge(k) \in Nat
      BY ChargeIsNat DEF Inv, TypeOK
    <3> QED BY <1>4, <3>1, <3>2 DEF Inv, TypeOK
  <2>6. /\ data' \in [Key -> Value \cup {Nil}]
        /\ used_memory_bytes' \in Nat /\ MemoryAccounted'
    <3> HIDE DEF v, w
    <3> QED BY <2>2, <2>3, <2>4, <2>5, ReplacePreserves DEF Inv
  <2>7. TypeOK'
    BY <1>4, <2>6 DEF Inv, clients, sweep, TypeOK
  <2>8. LocksExclude' /\ TicketsHeld'
    BY <1>1, <1>4 DEF Inv, clients, CanLock, LocksExclude, TicketsHeld
  <2> QED BY <2>6, <2>7, <2>8 DEF Inv
<1> QED BY <1>2, <1>3, <1>4 DEF Expire

\* SetMaxMemory keeps Inv.
LEMMA SetMaxMemoryPreserves ==
  ASSUME Inv, NEW c \in Client, NEW bytes \in Budgets, SetMaxMemory(c, bytes)
  PROVE  Inv'
<1>1. MemoryAccounted'
  BY AccountFrame DEF Inv, SetMaxMemory
<1>2. TypeOK'
  BY InputsAreTyped DEF Inv, SetMaxMemory, EnterEviction, sweep, TypeOK
<1>3. LocksExclude' /\ TicketsHeld'
  BY DEF Inv, SetMaxMemory, CallUnique, EnterEviction, TypeOK, CanLock,
         LocksExclude, TicketsHeld
<1> QED BY <1>1, <1>2, <1>3 DEF Inv

\* The second half of Touch keeps Inv: the entry is present, its size unchanged.
LEMMA StampEntryPreserves ==
  ASSUME Inv, NEW c \in Client, StampEntry(c)
  PROVE  Inv'
<1> DEFINE k == ticket[c].key
           v == data[k]
           w == [v EXCEPT !.last_accessed_seq = ticket[c].seq]
<1>1. k \in Present /\ k \in Key /\ ticket[c].seq \in Nat
  BY DEF StampEntry, Inv, TicketsHeld
<1>2. v \in Value
  BY <1>1 DEF Present, Inv, TypeOK
<1>3. /\ w \in Value /\ w.type = v.type
      /\ w.str = v.str /\ w.list = v.list /\ w.hash = v.hash
  BY <1>1, <1>2, StampedIsValue
<1>4. data' = [data EXCEPT ![k] = w]
  BY DEF StampEntry
<1>5. used_memory_bytes' = used_memory_bytes - Charge(k) + EstimateEntryBytes(k, v)
  <2>1. Charge(k) = EstimateEntryBytes(k, v)
    BY <1>1 DEF Charge
  <2>2. Charge(k) \in Nat
    BY <1>1, ChargeIsNat DEF Inv, TypeOK
  <2> QED BY <2>1, <2>2 DEF StampEntry, Inv, TypeOK
<1>6. /\ data' \in [Key -> Value \cup {Nil}]
      /\ used_memory_bytes' \in Nat /\ MemoryAccounted'
  <2> HIDE DEF k, v, w
  <2> QED BY <1>1, <1>2, <1>3, <1>4, <1>5, ReplacePreserves DEF Inv
<1>7. TypeOK'
  BY <1>6 DEF StampEntry, Inv, sweep, TypeOK
<1>8. Present \subseteq Present'
  <2> HIDE DEF k, w
  <2> QED BY <1>3, <1>4, NilIsNoValue DEF Present, Value, Inv, TypeOK
<1>9. LocksExclude' /\ TicketsHeld'
  BY <1>8 DEF StampEntry, Inv, TypeOK, LocksExclude, TicketsHeld
<1> QED BY <1>6, <1>7, <1>9 DEF Inv

\* The victim is a member of the sample.
LEMMA OldestIsSampled ==
  ASSUME TypeOK, NEW sample \in SUBSET Present, sample # {}
  PROVE  Oldest(sample) \in sample
<1> DEFINE seq(k) == data[k].last_accessed_seq
           Good == {T \in SUBSET sample :
                      T # {} => \E k \in T : \A j \in T : seq(k) <= seq(j)}
<1>1. IsFiniteSet(sample)
  BY FiniteStrings, FS_Subset DEF Present
<1>2. \A k \in sample : seq(k) \in Nat
  BY DEF TypeOK, Present, Value, Record
<1>3. ASSUME NEW T \in SUBSET sample, \A U \in SUBSET T : U # T => U \in Good
      PROVE  T \in Good
  <2> HIDE DEF seq
  <2>1. SUFFICES ASSUME T # {} PROVE \E k \in T : \A j \in T : seq(k) <= seq(j)
    OBVIOUS
  <2>2. PICK x \in T : TRUE
    BY <2>1
  <2>3. CASE T = {x}
    BY <1>2, <2>3
  <2>4. CASE T # {x}
    <3>1. PICK m \in T \ {x} : \A j \in T \ {x} : seq(m) <= seq(j)
      <4>1. T \ {x} \in Good /\ T \ {x} # {}
        BY <1>3, <2>2, <2>4
      <4> QED BY <4>1
    <3>2. CASE seq(m) <= seq(x)
      BY <3>1, <3>2
    <3>3. CASE ~(seq(m) <= seq(x))
      BY <1>2, <3>1, <3>3
    <3> QED BY <3>2, <3>3
  <2> QED BY <2>3, <2>4
<1>4. \A T \in SUBSET sample : T \in Good
  <2> HIDE DEF Good
  <2> QED BY <1>1, <1>3, SubsetInduction
<1>5. \E k \in sample : \A j \in sample : seq(k) <= seq(j)
  BY <1>4
<1> QED BY <1>5 DEF Oldest

\* A writer in its eviction loop is alone, so its victim has no ticket.
LEMMA EvictOnePreserves ==
  ASSUME Inv, NEW c \in Client, EvictOne(c)
  PROVE  Inv'
<1>1. PICK sample \in SUBSET Present : sample # {} /\ Delete({Oldest(sample)})
  BY DEF EvictOne
<1>2. Oldest(sample) \in Key
  BY <1>1, OldestIsSampled DEF Inv, Present
<1>3. /\ data' \in [Key -> Value \cup {Nil}]
      /\ used_memory_bytes' \in Nat /\ MemoryAccounted'
  BY <1>1, <1>2, DeletePreserves DEF Inv
<1>4. TypeOK'
  BY <1>3 DEF EvictOne, Inv, clients, sweep, TypeOK
<1>5. LocksExclude' /\ TicketsHeld'
  BY DEF EvictOne, Inv, clients, LocksExclude, TicketsHeld
<1> QED BY <1>3, <1>4, <1>5 DEF Inv

\* Leaving the eviction loop keeps Inv.
LEMMA EvictReturnPreserves ==
  ASSUME Inv, NEW c \in Client, EvictReturn(c)
  PROVE  Inv'
<1>1. MemoryAccounted'
  BY AccountFrame DEF Inv, EvictReturn, table
<1>2. TypeOK'
  BY DEF Inv, EvictReturn, table, sweep, TypeOK
<1>3. LocksExclude' /\ TicketsHeld'
  BY DEF Inv, EvictReturn, table, TypeOK, LocksExclude, TicketsHeld, Present
<1> QED BY <1>1, <1>2, <1>3 DEF Inv

\* A reader's DeleteIfExpired keeps Inv.
LEMMA DeleteIfExpiredPreserves ==
  ASSUME Inv, NEW c \in Client, NEW k \in Key, DeleteIfExpired(c, k)
  PROVE  Inv'
<1>1. /\ data' \in [Key -> Value \cup {Nil}]
      /\ used_memory_bytes' \in Nat /\ MemoryAccounted'
  BY DeletePreserves DEF DeleteIfExpired, Inv
<1>2. TypeOK'
  BY <1>1 DEF DeleteIfExpired, Inv, sweep, TypeOK
<1>3. LocksExclude' /\ TicketsHeld'
  BY DEF DeleteIfExpired, Inv, TypeOK, CanLock, LocksExclude, TicketsHeld
<1> QED BY <1>1, <1>2, <1>3 DEF Inv

\* Phase 2 of SweepExpired keeps Inv.
LEMMA SweepDeletePreserves ==
  ASSUME Inv, SweepDelete
  PROVE  Inv'
<1>1. /\ data' \in [Key -> Value \cup {Nil}]
      /\ used_memory_bytes' \in Nat /\ MemoryAccounted'
  <2>1. expired \cap Dead \in SUBSET Key
    BY DEF Inv, TypeOK
  <2> QED BY <2>1, DeletePreserves DEF SweepDelete, Inv
<1>2. TypeOK'
  BY <1>1 DEF SweepDelete, Inv, clients, TypeOK
<1>3. LocksExclude' /\ TicketsHeld'
  BY DEF SweepDelete, Inv, clients, CanLock, LocksExclude, TicketsHeld
<1> QED BY <1>1, <1>2, <1>3 DEF Inv

\* The steps that leave the table, the clients and the access clock alone.
LEMMA IdlePreserves ==
  ASSUME Inv, UNCHANGED <<table, access_clock, clients>>,
         now' \in Nat, sweeper' \in {"waiting", "scan", "delete", "exited"},
         expired' \in SUBSET Key, stop_sweeper' \in BOOLEAN
  PROVE  Inv'
<1>1. MemoryAccounted'
  BY AccountFrame DEF Inv, table
<1>2. TypeOK'
  BY DEF Inv, table, clients, TypeOK
<1>3. LocksExclude' /\ TicketsHeld'
  BY DEF Inv, table, clients, LocksExclude, TicketsHeld, Present
<1> QED BY <1>1, <1>2, <1>3 DEF Inv

\* So do the other steps of the sweeper, the clock and the destructor.
LEMMA BackgroundPreserves ==
  ASSUME Inv, SweeperWake \/ SweepScan \/ Tick \/ Destroy \/ UNCHANGED vars
  PROVE  Inv'
<1> USE DEF Inv, TypeOK, sweep
<1>1. CASE SweeperWake
  BY <1>1, IdlePreserves DEF SweeperWake
<1>2. CASE SweepScan
  BY <1>2, IdlePreserves DEF SweepScan, Dead, Present
<1>3. CASE Tick
  BY <1>3, IdlePreserves DEF Tick
<1>4. CASE Destroy
  BY <1>4, IdlePreserves DEF Destroy
<1>5. CASE UNCHANGED vars
  BY <1>5, IdlePreserves DEF vars
<1> QED BY <1>1, <1>2, <1>3, <1>4, <1>5

\* Every read method keeps Inv.
LEMMA ReadPreserves ==
  ASSUME Inv, NEW c \in Client, NEW k \in Key, ReadNext(c, k)
  PROVE  Inv'
<1>1. CASE Get(c, k)
  BY <1>1, ReadTypedPreserves DEF Get, CallShared
<1>2. CASE TTL(c, k)
  <2>1. CASE \E r : Answer(r)
    BY <2>1, AnswerPreserves
  <2>2. CASE Escalate(c, {k}, <<"int", -2>>)
    BY <2>2, EscalatePreserves
  <2> QED BY <1>2, <2>1, <2>2, Zenon DEF TTL
<1>3. CASE LLen(c, k)
  BY <1>3, ReadTypedPreserves DEF LLen, CallShared
<1>4. CASE HGetAll(c, k)
  BY <1>4, ReadTypedPreserves DEF HGetAll, CallShared
<1>5. CASE HLen(c, k)
  BY <1>5, ReadTypedPreserves DEF HLen, CallShared
<1>6. CASE HKeys(c, k)
  BY <1>6, ReadTypedPreserves DEF HKeys, CallShared
<1>7. CASE HVals(c, k)
  BY <1>7, ReadTypedPreserves DEF HVals, CallShared
<1>8. CASE \E start, stop \in Index : LRange(c, k, start, stop)
  BY <1>8, ReadTypedPreserves DEF LRange, CallShared
<1>9. CASE \E f \in Field : HGet(c, k, f)
  BY <1>9, ReadTypedPreserves, Zenon DEF HGet, CallShared
<1>10. CASE \E f \in Field : HExists(c, k, f)
  BY <1>10, ReadTypedPreserves, Zenon DEF HExists, CallShared
<1> QED BY <1>1, <1>2, <1>3, <1>4, <1>5, <1>6, <1>7, <1>8, <1>9, <1>10 DEF ReadNext

\* Every write method on one key keeps Inv.
LEMMA WritePreserves ==
  ASSUME Inv, NEW c \in Client, NEW k \in Key, WriteNext(c, k)
  PROVE  Inv'
BY SetPreserves, LPushPreserves, RPushPreserves, HSetPreserves, HDelPreserves,
   ExpirePreserves DEF WriteNext

\* Every step of a client keeps Inv.
LEMMA ClientPreserves ==
  ASSUME Inv, NEW c \in Client, ClientNext(c)
  PROVE  Inv'
<1>1. CASE \E k \in Key : ReadNext(c, k) \/ WriteNext(c, k) \/ DeleteIfExpired(c, k)
  BY <1>1, ReadPreserves, WritePreserves, DeleteIfExpiredPreserves
<1>2. CASE \E keys \in KeyLists : Exists(c, keys)
  <2>1. PICK keys \in KeyLists : Exists(c, keys)
    BY <1>2
  <2>2. {keys[i] : i \in DOMAIN keys} \cap Dead \in SUBSET Key
    BY DEF Dead, Present
  <2> QED BY <2>1, <2>2, EscalatePreserves DEF Exists
<1>3. CASE \E keys \in (SUBSET Key) \ {{}} : Del(c, keys)
  BY <1>3, RemovePreserves DEF Del, CallUnique
<1>4. CASE \E bytes \in Budgets : SetMaxMemory(c, bytes)
  BY <1>4, SetMaxMemoryPreserves
<1>5. CASE Keys(c)
  <2>1. Dead \in SUBSET Key
    BY DEF Dead, Present
  <2> QED BY <1>5, <2>1, EscalatePreserves DEF Keys
<1>6. CASE FlushAll(c) \/ StampEntry(c) \/ EvictOne(c) \/ EvictReturn(c)
  BY <1>6, FlushAllPreserves, StampEntryPreserves, EvictOnePreserves,
     EvictReturnPreserves
<1> QED BY <1>1, <1>2, <1>3, <1>4, <1>5, <1>6 DEF ClientNext

\* Inv holds in an empty store.
LEMMA InitEstablishes == Init => Inv
<1> SUFFICES ASSUME Init PROVE Inv
  OBVIOUS
<1> DEFINE g == [k \in Key |-> Charge(k)]
<1>1. \A k \in Key : g[k] = 0
  BY DEF Init, Charge, Present
<1>2. SumFunctionOnSet(g, Key) = 0
  <2> HIDE DEF g
  <2>1. \A k \in Key : g[k] \in Nat /\ g[k] = IF k \in Key THEN 0 ELSE g[k]
    BY <1>1
  <2>2. SumFunctionOnSet(g, Key) = SumFunctionOnSet(g, Key) - SumFunctionOnSet(g, Key)
    BY <2>1, FiniteStrings, SumClear
  <2>3. SumFunctionOnSet(g, Key) \in Nat
    BY <2>1, FiniteStrings, SumType
  <2> QED BY <2>2, <2>3
<1>3. MemoryAccounted
  BY <1>2 DEF Init, MemoryAccounted, ChargeOf
<1>4. TypeOK
  BY DEF Init, TypeOK
<1>5. LocksExclude /\ TicketsHeld
  BY DEF Init, LocksExclude, TicketsHeld
<1> QED BY <1>3, <1>4, <1>5 DEF Inv

\* Every step keeps Inv.
LEMMA NextPreserves == Inv /\ [Next]_vars => Inv'
<1> SUFFICES ASSUME Inv, [Next]_vars PROVE Inv'
  OBVIOUS
<1>1. CASE \E c \in Client : ClientNext(c)
  BY <1>1, ClientPreserves
<1>2. CASE SweepDelete
  BY <1>2, SweepDeletePreserves
<1>3. CASE SweeperWake \/ SweepScan \/ Tick \/ Destroy \/ UNCHANGED vars
  BY <1>3, BackgroundPreserves
<1> QED BY <1>1, <1>2, <1>3 DEF Next, SweeperNext, Destroyed

\* Inv is an invariant of the store.
THEOREM Invariance == Spec => []Inv
BY InitEstablishes, NextPreserves, PTL DEF Spec

\* Type correctness of the store: in particular the unsigned counter
\* used_memory_bytes_ never goes below zero, whichever methods run, evict and
\* reap concurrently.
THEOREM TypeCorrect == Spec => []TypeOK
<1>1. Inv => TypeOK
  BY DEF Inv
<1> QED BY <1>1, Invariance, PTL

\* used_memory_bytes_ always equals the sum of EstimateEntryBytes over the
\* entries of the table.
THEOREM MemoryIsAccounted == Spec => []MemoryAccounted
<1>1. Inv => MemoryAccounted
  BY DEF Inv
<1> QED BY <1>1, Invariance, PTL

\* The entry a reader stamps under the shared lock has not been freed.
THEOREM TouchedIsPresent == Spec => []TouchedEntryIsPresent
<1>1. Inv => TouchedEntryIsPresent
  BY DEF Inv, TicketsHeld, TouchedEntryIsPresent
<1> QED BY <1>1, Invariance, PTL
=============================================================================
