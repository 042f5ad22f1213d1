-------------------------- MODULE StoreStepProofs ---------------------------
(***************************************************************************)
(* What a step of Store can do to an entry, and what follows from it: the  *)
(* recency stamps are distinct, the keyspace holds no empty collection,    *)
(* and reaping removes expired entries only.                               *)
(*                                                                         *)
(* The argument goes through StepKinds: every step of a method or of the   *)
(* sweeper keeps or drops entries, or rewrites one entry with a new stamp, *)
(* or draws a ticket, or uses one.                                         *)
(***************************************************************************)
EXTENDS StoreProofs

NonEmpty(v) == /\ v.type = "list" => v.list # <<>>
               /\ v.type = "hash" => FieldsOf(v) # {}

\* Entries may be dropped; those that stay keep their stamp and contents.
Keeps ==
  /\ \A k \in Present' :
       /\ k \in Present
       /\ data'[k].last_accessed_seq = data[k].last_accessed_seq
       /\ data'[k].type = data[k].type
       /\ data'[k].list = data[k].list /\ data'[k].hash = data[k].hash
  /\ access_clock' = access_clock
  /\ \A c \in Client : pc'[c] = "touch" => pc[c] = "touch" /\ ticket'[c] = ticket[c]

\* One entry is written, with a stamp drawn in this step, and no reader is
\* between the halves of Touch.
Renews ==
  /\ access_clock' \in Nat /\ access_clock < access_clock'
  /\ \E k \in Key :
       /\ \A j \in Key \ {k} : data'[j] = data[j]
       /\ NonEmpty(data'[k])
       /\ data'[k].last_accessed_seq \in Nat
       /\ access_clock <= data'[k].last_accessed_seq
       /\ data'[k].last_accessed_seq < access_clock'
  /\ \A c \in Client : pc'[c] # "touch"

Draws == data' = data /\ \E c \in Client, k \in Key : DrawTicket(c, k)

Stamps == \E c \in Client : StampEntry(c)

StepKind == Keeps \/ Renews \/ Draws \/ Stamps
-----------------------------------------------------------------------------
\* A method that only answers writes no entry and draws no stamp.
LEMMA AnswerKeeps == ASSUME NEW r, Answer(r) PROVE Keeps
BY DEF Answer, Keeps, table, clients, Present

\* Nor does a reader that escalates.
LEMMA EscalateKeeps ==
  ASSUME Inv, NEW c \in Client, NEW keys, NEW r, Escalate(c, keys, r)
  PROVE  Keeps
BY DEF Inv, TypeOK, Escalate, Keeps, table, Present

\* Deleting entries writes none of those that stay.
LEMMA DeleteKeeps ==
  ASSUME NEW keys, Delete(keys), access_clock' = access_clock,
         \A c \in Client : pc'[c] = "touch" => pc[c] = "touch" /\ ticket'[c] = ticket[c]
  PROVE  Keeps
BY DEF Delete, Keeps, Present

\* In particular in Del, Expire and HDel.
LEMMA RemoveKeeps ==
  ASSUME NEW keys, NEW r, Remove(keys, r)
  PROVE  Keeps
BY DeleteKeeps DEF Remove, clients

\* A typed read answers, escalates, or draws one stamp.
LEMMA ReadTypedKind ==
  ASSUME Inv, NEW c \in Client, NEW k \in Key, NEW type, NEW hit, NEW miss,
         ReadTyped(c, k, type, hit, miss)
  PROVE  StepKind
<1>1. CASE Answer(miss) \/ Answer(<<"err">>)
  BY <1>1, AnswerKeeps DEF StepKind
<1>2. CASE Escalate(c, {k}, miss)
  BY <1>2, EscalateKeeps DEF StepKind
<1>3. CASE DrawTicket(c, k) /\ UNCHANGED table
  BY <1>3 DEF StepKind, Draws, table
<1> QED BY <1>1, <1>2, <1>3 DEF ReadTyped

\* Put writes one non-empty entry with a stamp just drawn.
LEMMA PutRenews ==
  ASSUME Inv, NEW c \in Client, NEW k \in Key, NEW v \in Value, NEW touches \in {1, 2},
         NEW r, CanLock, NonEmpty(v), Put(c, k, v, touches, r)
  PROVE  Renews
<1> DEFINE n == access_clock + touches - 1
           w == [v EXCEPT !.last_accessed_seq = n]
<1>1. n \in Nat /\ access_clock' \in Nat /\ access_clock <= n /\ n < access_clock'
  BY DEF Put, Inv, TypeOK
<1>2. /\ w.last_accessed_seq = n /\ w.type = v.type
      /\ w.list = v.list /\ w.hash = v.hash
  BY <1>1, StampedIsValue
<1>3. data' = [data EXCEPT ![k] = w] /\ data \in [Key -> Value \cup {Nil}]
  BY DEF Put, Inv, TypeOK
<1>4. \A d \in Client : pc'[d] # "touch"
  BY DEF Put, EnterEviction, CanLock, Inv, TypeOK
<1> HIDE DEF n, w
<1>5. data'[k] = w /\ \A j \in Key \ {k} : data'[j] = data[j]
  BY <1>3
<1>6. NonEmpty(w)
  BY <1>2 DEF NonEmpty, FieldsOf
<1>7. access_clock < access_clock'
  BY <1>1 DEF Inv, TypeOK
<1> QED BY <1>1, <1>2, <1>4, <1>5, <1>6, <1>7 DEF Renews

\* LPush, RPush and HSet answer an error or renew one entry.
LEMMA UpdateKind ==
  ASSUME Inv, NEW c \in Client, NEW k \in Key, NEW type, NEW v \in Value, NEW r,
         CanLock, (k \in Live => data[k].type = type) => NonEmpty(v),
         Update(c, k, type, v, r)
  PROVE  StepKind
<1>1. CASE Answer(<<"err">>)
  BY <1>1, AnswerKeeps DEF StepKind
<1>2. CASE data[k].type = type /\ Put(c, k, v, 1, r)
  BY <1>2, PutRenews DEF StepKind
<1>3. CASE k \notin Live /\ Put(c, k, v, 2, r)
  BY <1>3, PutRenews DEF StepKind
<1> QED BY <1>1, <1>2, <1>3 DEF Update

\* Set renews one entry.
LEMMA SetKind ==
  ASSUME Inv, NEW c \in Client, NEW k \in Key, NEW s \in Str, Set(c, k, s)
  PROVE  StepKind
<1> DEFINE v == [Fresh("string") EXCEPT !.str = s]
<1>1. v \in Value /\ NonEmpty(v)
  <2>1. Fresh("string") \in Record /\ Fresh("string").type = "string"
    BY DEF Fresh, NoFields, Record
  <2>2. v \in Record /\ v.str = s /\ v.type = "string"
    BY <2>1 DEF Record
  <2> HIDE DEF v
  <2> QED BY <2>2, NilIsNoValue DEF Value, NonEmpty
<1>2. CanLock /\ Put(c, k, v, 1, <<"ok">>)
  BY DEF Set, CallUnique
<1> HIDE DEF v
<1> QED BY <1>1, <1>2, PutRenews DEF StepKind

\* What an update of a list or a hash starts from has that type, unless the
\* key holds another type.
LEMMA GetOrCreateType ==
  ASSUME NEW k, NEW type, k \in Live => data[k].type = type
  PROVE  GetOrCreate(k, type).type = type
BY DEF GetOrCreate, Fresh

\* A push that writes a non-empty list renews one entry.
LEMMA PushKind ==
  ASSUME Inv, NEW c \in Client, NEW k \in Key, NEW list \in Seq(Str), list # <<>>,
         CanLock, Push(c, k, list)
  PROVE  StepKind
<1> DEFINE v == [GetOrCreate(k, "list") EXCEPT !.list = list]
<1>1. GetOrCreate(k, "list") \in Value
  BY GetOrCreateIsValue
<1>2. v \in Value /\ v.list = list /\ v.type = GetOrCreate(k, "list").type
  BY <1>1 DEF Value, Record
<1>3. Update(c, k, "list", v, <<"int", Len(list)>>)
  BY DEF Push
<1> HIDE DEF v
<1>4. (k \in Live => data[k].type = "list") => NonEmpty(v)
  BY <1>2, GetOrCreateType DEF NonEmpty
<1> QED BY <1>2, <1>3, <1>4, UpdateKind

\* RPush of at least one value does.
LEMMA RPushKind ==
  ASSUME Inv, NEW c \in Client, NEW k \in Key, NEW vals \in Pushes, RPush(c, k, vals)
  PROVE  StepKind
<1>1. /\ GetOrCreate(k, "list").list \in Seq(Str)
      /\ vals \in Seq(Str) /\ vals # <<>>
  BY GetOrCreateIsValue, InputsAreTyped DEF Value, Record
<1>2. /\ GetOrCreate(k, "list").list \o vals \in Seq(Str)
      /\ GetOrCreate(k, "list").list \o vals # <<>>
  BY <1>1
<1> QED BY <1>2, PushKind DEF RPush, CallUnique

\* LPush of at least one value does.
LEMMA LPushKind ==
  ASSUME Inv, NEW c \in Client, NEW k \in Key, NEW vals \in Pushes, LPush(c, k, vals)
  PROVE  StepKind
<1> DEFINE reversed == [i \in 1..Len(vals) |-> vals[Len(vals) + 1 - i]]
<1>1. /\ GetOrCreate(k, "list").list \in Seq(Str)
      /\ vals \in Seq(Str) /\ vals # <<>>
  BY GetOrCreateIsValue, InputsAreTyped DEF Value, Record
<1>2. reversed \in Seq(Str) /\ reversed # <<>>
  BY <1>1
<1>3. /\ reversed \o GetOrCreate(k, "list").list \in Seq(Str)
      /\ reversed \o GetOrCreate(k, "list").list # <<>>
  <2> HIDE DEF reversed
  <2> QED BY <1>1, <1>2
<1> QED BY <1>3, PushKind DEF LPush, CallUnique

\* HSet of at least one field renews one entry.
LEMMA HSetKind ==
  ASSUME Inv, NEW c \in Client, NEW k \in Key, NEW fields \in FieldValues,
         HSet(c, k, fields)
  PROVE  StepKind
<1> DEFINE old == GetOrCreate(k, "hash")
           new == [f \in Field |-> IF f \in DOMAIN fields THEN fields[f] ELSE old.hash[f]]
           v == [old EXCEPT !.hash = new]
           r == <<"int", Cardinality({f \in DOMAIN fields : old.hash[f] = Nil})>>
<1>1. old \in Value
  BY GetOrCreateIsValue
<1>2. new \in [Field -> Str \cup {Nil}]
  BY <1>1 DEF FieldValues, Value, Record
<1>3. PICK f \in Field : new[f] # Nil
  <2>1. PICK D \in (SUBSET Field) \ {{}} : fields \in [D -> Str]
    BY DEF FieldValues
  <2>2. PICK f \in D : TRUE
    BY <2>1
  <2>3. f \in Field /\ f \in DOMAIN fields /\ fields[f] \in Str
    BY <2>1, <2>2
  <2>4. new[f] = fields[f]
    BY <2>3
  <2> QED BY <2>3, <2>4, NilIsNoValue
<1>4. v \in Value /\ v.hash = new /\ v.type = old.type
  <2> HIDE DEF old, new
  <2> QED BY <1>1, <1>2 DEF Value, Record
<1>5. CanLock /\ Update(c, k, "hash", v, r)
  BY DEF HSet, CallUnique
<1>6. (k \in Live => data[k].type = "hash") => old.type = "hash"
  BY GetOrCreateType
<1> HIDE DEF v, r, old, new
<1>7. (k \in Live => data[k].type = "hash") => NonEmpty(v)
  BY <1>3, <1>4, <1>6 DEF NonEmpty, FieldsOf
<1> QED BY <1>4, <1>5, <1>7, UpdateKind

\* HDel deletes the hash it empties and renews any other.
LEMMA HDelFieldsKind ==
  ASSUME Inv, NEW c \in Client, NEW k \in Live, data[k].type = "hash", NEW fields,
         CanLock, HDelFields(c, k, fields)
  PROVE  StepKind
<1> DEFINE v == data[k]
           new == [f \in Field |-> IF f \in fields THEN Nil ELSE v.hash[f]]
           left == [v EXCEPT !.hash = new]
           w == [left EXCEPT !.last_accessed_seq = access_clock]
<1>1. k \in Key /\ v \in Value /\ access_clock \in Nat
  BY DEF Live, Present, Inv, TypeOK
<1>2. CASE Remove({k}, <<"int", Cardinality(fields \cap FieldsOf(v))>>)
  BY <1>2, RemoveKeeps DEF StepKind
<1>3. CASE /\ FieldsOf(left) # {}
           /\ access_clock' = access_clock + 1
           /\ data' = [data EXCEPT ![k] = w]
           /\ UNCHANGED clients
  <2>1. left \in Value /\ left.type = "hash"
    <3>1. new \in [Field -> Str \cup {Nil}] /\ v.type = "hash"
      BY <1>1 DEF Value, Record
    <3> HIDE DEF v, new
    <3> QED BY <1>1, <3>1 DEF Value, Record
  <2>2. w.type = left.type /\ w.hash = left.hash /\ w.last_accessed_seq = access_clock
    BY <1>1, <2>1, StampedIsValue
  <2> HIDE DEF left, w
  <2>3. data'[k] = w /\ \A j \in Key \ {k} : data'[j] = data[j]
    BY <1>1, <1>3 DEF Inv, TypeOK
  <2>4. NonEmpty(w)
    BY <1>3, <2>1, <2>2 DEF NonEmpty, FieldsOf
  <2>5. \A d \in Client : pc'[d] # "touch"
    BY <1>3 DEF clients, CanLock
  <2> QED BY <1>1, <1>3, <2>2, <2>3, <2>4, <2>5 DEF StepKind, Renews
<1> QED BY <1>2, <1>3 DEF HDelFields

\* HDel is of a known kind on each of its paths.
LEMMA HDelKind ==
  ASSUME Inv, NEW c \in Client, NEW k \in Key, NEW fields, HDel(c, k, fields)
  PROVE  StepKind
<1>1. CASE Answer(<<"int", 0>>) \/ Answer(<<"err">>)
  BY <1>1, AnswerKeeps DEF StepKind
<1>2. CASE Remove({k}, <<"int", 0>>)
  BY <1>2, RemoveKeeps DEF StepKind
<1>3. CASE k \in Live /\ data[k].type = "hash" /\ HDelFields(c, k, fields)
  BY <1>3, HDelFieldsKind DEF HDel, CallUnique
<1> QED BY <1>1, <1>2, <1>3 DEF HDel

\* Expire deletes entries or changes only a deadline.
LEMMA ExpireKind ==
  ASSUME Inv, NEW c \in Client, NEW k \in Key, NEW seconds, Expire(c, k, seconds)
  PROVE  StepKind
<1>1. CASE Answer(<<"int", 0>>)
  BY <1>1, AnswerKeeps DEF StepKind
<1>2. CASE Remove({k}, <<"int", 0>>) \/ Remove({k}, <<"int", 1>>)
  BY <1>2, RemoveKeeps DEF StepKind
<1>3. CASE /\ k \in Live
           /\ data' = [data EXCEPT ![k].expires_at =
                         TimePoint(now + seconds * TicksPerSecond)]
           /\ UNCHANGED <<access_clock, clients>>
  <2> DEFINE v == data[k]
             w == [v EXCEPT !.expires_at = TimePoint(now + seconds * TicksPerSecond)]
  <2>1. v \in Value
    BY <1>3 DEF Live, Present, Inv, TypeOK
  <2>2. /\ w.last_accessed_seq = v.last_accessed_seq /\ w.type = v.type
        /\ w.list = v.list /\ w.hash = v.hash
    BY <2>1 DEF Value, Record
  <2>3. data' = [data EXCEPT ![k] = w] /\ data \in [Key -> Value \cup {Nil}]
    BY <1>3 DEF Inv, TypeOK
  <2>4. k \in Present /\ v = data[k]
    BY <1>3 DEF Live
  <2> HIDE DEF v, w
  <2>5. Keeps
    BY <1>3, <2>2, <2>3, <2>4 DEF Keeps, Present, clients
  <2> QED BY <2>5 DEF StepKind
<1> QED BY <1>1, <1>2, <1>3 DEF Expire

\* Every read method is of a known kind.
LEMMA ReadKind ==
  ASSUME Inv, NEW c \in Client, NEW k \in Key, ReadNext(c, k)
  PROVE  StepKind
<1>1. CASE Get(c, k) \/ LLen(c, k) \/ HGetAll(c, k)
  BY <1>1, ReadTypedKind DEF Get, LLen, HGetAll
<1>2. CASE HLen(c, k) \/ HKeys(c, k) \/ HVals(c, k)
  BY <1>2, ReadTypedKind DEF HLen, HKeys, HVals
<1>3. CASE TTL(c, k)
  <2>1. CASE \E r : Answer(r)
    BY <2>1, AnswerKeeps DEF StepKind
  <2>2. CASE Escalate(c, {k}, <<"int", -2>>)
    BY <2>2, EscalateKeeps DEF StepKind
  <2> QED BY <1>3, <2>1, <2>2, Zenon DEF TTL
<1>4. CASE \E start, stop \in Index : LRange(c, k, start, stop)
  BY <1>4, ReadTypedKind DEF LRange
<1>5. CASE \E f \in Field : HGet(c, k, f)
  BY <1>5, ReadTypedKind, Zenon DEF HGet
<1>6. CASE \E f \in Field : HExists(c, k, f)
  BY <1>6, ReadTypedKind, Zenon DEF HExists
<1> QED BY <1>1, <1>2, <1>3, <1>4, <1>5, <1>6 DEF ReadNext

\* The four kinds are all there is.
LEMMA StepKinds == Inv /\ [Next]_vars => StepKind
<1> SUFFICES ASSUME Inv, [Next]_vars PROVE StepKind
  OBVIOUS
<1>1. CASE \E c \in Client, k \in Key : ReadNext(c, k)
  BY <1>1, ReadKind
<1>2. CASE \E c \in Client, k \in Key : WriteNext(c, k)
  BY <1>2, SetKind, LPushKind, RPushKind, HSetKind, HDelKind, ExpireKind DEF WriteNext
<1>3. CASE \E c \in Client, k \in Key : DeleteIfExpired(c, k)
  BY <1>3, DeleteKeeps DEF DeleteIfExpired, StepKind, Inv, TypeOK
<1>4. CASE \E c \in Client : Keys(c) \/ \E keys \in KeyLists : Exists(c, keys)
  BY <1>4, EscalateKeeps DEF Keys, Exists, StepKind
<1>5. CASE \E c \in Client, keys \in SUBSET Key : Del(c, keys)
  BY <1>5, RemoveKeeps DEF Del, StepKind
<1>6. CASE \E c \in Client, bytes \in Budgets : SetMaxMemory(c, bytes)
  BY <1>6 DEF SetMaxMemory, EnterEviction, Keeps, Present, StepKind, Inv, TypeOK
<1>7. CASE \E c \in Client : FlushAll(c)
  BY <1>7 DEF FlushAll, Keeps, Present, clients, StepKind
<1>8. CASE \E c \in Client : StampEntry(c)
  BY <1>8 DEF Stamps, StepKind
<1>9. CASE \E c \in Client : EvictOne(c)
  BY <1>9, DeleteKeeps DEF EvictOne, clients, StepKind
<1>10. CASE \E c \in Client : EvictReturn(c)
  BY <1>10 DEF EvictReturn, Keeps, Present, table, StepKind, Inv, TypeOK
<1>11. CASE SweepDelete
  BY <1>11, DeleteKeeps DEF SweepDelete, clients, StepKind
<1>12. CASE UNCHANGED <<table, access_clock, clients>>
  BY <1>12 DEF Keeps, Present, table, clients, StepKind
<1>13. CASE SweeperWake \/ SweepScan \/ Tick \/ Destroy \/ UNCHANGED vars
  BY <1>12, <1>13 DEF SweeperWake, SweepScan, Tick, Destroy, vars
<1>14. CASE \E c \in Client : ClientNext(c)
  BY <1>1, <1>2, <1>3, <1>4, <1>5, <1>6, <1>7, <1>8, <1>9, <1>10, <1>14 DEF ClientNext
<1> QED BY <1>11, <1>13, <1>14 DEF Next, SweeperNext, Destroyed
-----------------------------------------------------------------------------
(* Recency stamps.  The stamps of entries and of tickets are all distinct, *)
(* and below the access clock from which the next one is drawn.            *)
Touching == {c \in Client : pc[c] = "touch"}

StampInv ==
  /\ StampsDistinct
  /\ \A k \in Present : data[k].last_accessed_seq < access_clock
  /\ \A c \in Touching :
       /\ ticket[c].seq < access_clock
       /\ \A k \in Present : data[k].last_accessed_seq # ticket[c].seq
       /\ \A d \in Touching : d # c => ticket[d].seq # ticket[c].seq

\* Types of the stamps in the table and in flight.
LEMMA StampsTyped ==
  ASSUME Inv
  PROVE  /\ \A k \in Present : k \in Key /\ data[k].last_accessed_seq \in Nat
         /\ \A c \in Touching : c \in Client /\ ticket[c].key \in Present /\ ticket[c].seq \in Nat
         /\ access_clock \in Nat
BY DEF Inv, TypeOK, TicketsHeld, Present, Touching, Value, Record

\* Every kind of step keeps the stamps, stored and in flight, distinct.
LEMMA StampInvPreserved == Inv /\ StampInv /\ [Next]_vars => StampInv'
<1> SUFFICES ASSUME Inv, StampInv, [Next]_vars PROVE StampInv'
  OBVIOUS
<1>1. CASE Keeps
  <2>1. Touching' \subseteq Touching /\ Present' \subseteq Present
    BY <1>1 DEF Keeps, Touching
  <2>2. \A c \in Touching' : ticket'[c] = ticket[c]
    BY <1>1 DEF Keeps, Touching
  <2> QED BY <1>1, <2>1, <2>2 DEF Keeps, StampInv, StampsDistinct
<1>2. CASE Renews
  <2>1. PICK k \in Key :
          /\ \A j \in Key \ {k} : data'[j] = data[j]
          /\ data'[k].last_accessed_seq \in Nat
          /\ access_clock <= data'[k].last_accessed_seq
          /\ data'[k].last_accessed_seq < access_clock'
    BY <1>2 DEF Renews
  <2>2. Touching' = {} /\ access_clock' \in Nat /\ access_clock < access_clock'
    BY <1>2 DEF Renews, Touching
  <2>3. \A j \in Present' : j \in Key /\ (j # k => j \in Present /\ data'[j] = data[j])
    BY <2>1 DEF Present
  <2> QED BY <2>1, <2>2, <2>3, StampsTyped DEF StampInv, StampsDistinct
<1>3. CASE Draws
  <2>1. PICK c \in Client, k \in Key : DrawTicket(c, k)
    BY <1>3 DEF Draws
  <2>2. Present' = Present /\ data' = data
    BY <1>3 DEF Draws, Present
  <2>3. /\ Touching' \subseteq Touching \cup {c}
        /\ ticket'[c].seq = access_clock /\ access_clock' = access_clock + 1
        /\ \A d \in Client \ {c} : ticket'[d] = ticket[d]
    BY <2>1 DEF DrawTicket, Touching, Inv, TypeOK
  <2>4. \A d \in Touching' : d \in Client /\ (d # c => d \in Touching)
    BY <2>3 DEF Touching
  <2> QED BY <2>2, <2>3, <2>4, StampsTyped DEF StampInv, StampsDistinct
<1>4. CASE Stamps
  <2>1. PICK c \in Client : StampEntry(c)
    BY <1>4 DEF Stamps
  <2> DEFINE k == ticket[c].key
  <2>2. c \in Touching /\ k \in Present /\ k \in Key /\ data[k] \in Value /\ ticket[c].seq \in Nat
    BY <2>1 DEF StampEntry, Touching, Inv, TypeOK, TicketsHeld, Present
  <2>3. /\ data'[k].last_accessed_seq = ticket[c].seq
        /\ \A j \in Key \ {k} : data'[j] = data[j]
    <3> DEFINE w == [data[k] EXCEPT !.last_accessed_seq = ticket[c].seq]
    <3>1. data' = [data EXCEPT ![k] = w]
      BY <2>1 DEF StampEntry
    <3>2. w.last_accessed_seq = ticket[c].seq
      BY <2>2, StampedIsValue
    <3> HIDE DEF w, k
    <3> QED BY <2>2, <3>1, <3>2 DEF Inv, TypeOK
  <2>4. /\ Touching' \subseteq Touching \ {c} /\ access_clock' = access_clock
        /\ \A d \in Touching' : ticket'[d] = ticket[d]
    BY <2>1 DEF StampEntry, Touching, Inv, TypeOK
  <2>5. \A j \in Present' : j \in Key /\ (j # k => j \in Present /\ data'[j] = data[j])
    BY <2>3 DEF Present
  <2> HIDE DEF k
  <2> QED BY <2>2, <2>3, <2>4, <2>5, StampsTyped DEF StampInv, StampsDistinct
<1> QED BY <1>1, <1>2, <1>3, <1>4, StepKinds DEF StepKind

\* No two entries ever carry the same recency stamp, although concurrent
\* readers draw and store their stamps in two separate steps (value.h:80-84).
THEOREM StampsAreDistinct == Spec => []StampsDistinct
<1>1. Init => StampInv
  BY DEF Init, StampInv, StampsDistinct, Present, Touching
<1>2. StampInv => StampsDistinct
  BY DEF StampInv
<1> QED BY <1>1, <1>2, StampInvPreserved, Invariance, PTL DEF Spec
-----------------------------------------------------------------------------
\* Every kind of step keeps collections non-empty.
LEMMA NoEmptyPreserved == Inv /\ NoEmptyCollection /\ [Next]_vars => NoEmptyCollection'
<1> SUFFICES ASSUME Inv, NoEmptyCollection, [Next]_vars PROVE NoEmptyCollection'
  OBVIOUS
<1> USE DEF NoEmptyCollection, FieldsOf
<1>1. CASE Keeps
  BY <1>1 DEF Keeps
<1>2. CASE Renews
  BY <1>2 DEF Renews, NonEmpty, Present
<1>3. CASE Draws
  BY <1>3 DEF Draws, Present
<1>4. CASE Stamps
  <2>1. PICK c \in Client : StampEntry(c)
    BY <1>4 DEF Stamps
  <2> DEFINE k == ticket[c].key
             w == [data[k] EXCEPT !.last_accessed_seq = ticket[c].seq]
  <2>2. k \in Present /\ k \in Key /\ data[k] \in Value /\ ticket[c].seq \in Nat
    BY <2>1 DEF StampEntry, Inv, TypeOK, TicketsHeld, Present
  <2>3. w.type = data[k].type /\ w.list = data[k].list /\ w.hash = data[k].hash
    BY <2>2, StampedIsValue
  <2>4. data' = [data EXCEPT ![k] = w] /\ data \in [Key -> Value \cup {Nil}]
    BY <2>1 DEF StampEntry, Inv, TypeOK
  <2> HIDE DEF k, w
  <2> QED BY <2>2, <2>3, <2>4 DEF Present
<1> QED BY <1>1, <1>2, <1>3, <1>4, StepKinds DEF StepKind

\* The keyspace never holds an empty list or an empty hash: pushes and HSET
\* write at least one element, and HDEL deletes the hash it empties.
THEOREM CollectionsAreNonEmpty == Spec => []NoEmptyCollection
<1>1. Init => NoEmptyCollection
  BY DEF Init, NoEmptyCollection, Present
<1> QED BY <1>1, NoEmptyPreserved, Invariance, PTL DEF Spec
-----------------------------------------------------------------------------
(* Reaping.                                                                *)

\* A step that moves the sweeper or a reader's list of expired keys deletes
\* expired entries, or nothing.
Reaps == UNCHANGED <<sweeper, expired_keys>> \/ data' = data
           \/ \E keys \in SUBSET Dead : Delete(keys)

\* A read method removes nothing itself.
LEMMA ReadReaps ==
  ASSUME NEW c \in Client, NEW k \in Key, ReadNext(c, k)
  PROVE  Reaps
<1>1. ASSUME NEW type, NEW hit, NEW miss, ReadTyped(c, k, type, hit, miss)
      PROVE  Reaps
  BY <1>1 DEF ReadTyped, Answer, Escalate, table, Reaps
<1>2. CASE Get(c, k) \/ LLen(c, k) \/ HGetAll(c, k)
  BY <1>1, <1>2 DEF Get, LLen, HGetAll
<1>3. CASE HLen(c, k) \/ HKeys(c, k) \/ HVals(c, k)
  BY <1>1, <1>3 DEF HLen, HKeys, HVals
<1>4. CASE TTL(c, k)
  BY <1>4, Zenon DEF TTL, Answer, Escalate, table, Reaps
<1>5. CASE \E start, stop \in Index : LRange(c, k, start, stop)
  BY <1>1, <1>5 DEF LRange
<1>6. CASE \E f \in Field : HGet(c, k, f)
  BY <1>1, <1>6, Zenon DEF HGet
<1>7. CASE \E f \in Field : HExists(c, k, f)
  BY <1>1, <1>7, Zenon DEF HExists
<1> QED BY <1>2, <1>3, <1>4, <1>5, <1>6, <1>7 DEF ReadNext

\* A write method is not a reaping step.
LEMMA WriteReaps ==
  ASSUME NEW c \in Client, NEW k \in Key, WriteNext(c, k)
  PROVE  Reaps
<1> DEFINE Same == UNCHANGED <<sweeper, expired_keys>>
<1>1. ASSUME NEW v, NEW n, NEW r, Put(c, k, v, n, r) PROVE Same
  BY <1>1 DEF Put, sweep
<1>2. ASSUME NEW r, Answer(r) PROVE Same
  BY <1>2 DEF Answer, clients, sweep
<1>3. ASSUME NEW keys, NEW r, Remove(keys, r) PROVE Same
  BY <1>3 DEF Remove, clients, sweep
<1>4. ASSUME NEW type, NEW v, NEW r, Update(c, k, type, v, r) PROVE Same
  BY <1>1, <1>2, <1>4 DEF Update
<1>5. ASSUME NEW s, Set(c, k, s) PROVE Same
  BY <1>1, <1>5 DEF Set
<1>6. ASSUME NEW list, Push(c, k, list) PROVE Same
  BY <1>4, <1>6 DEF Push
<1>7. ASSUME NEW vals, LPush(c, k, vals) \/ RPush(c, k, vals) PROVE Same
  BY <1>6, <1>7 DEF LPush, RPush
<1>8. ASSUME NEW fields, HSet(c, k, fields) PROVE Same
  BY <1>4, <1>8, Zenon DEF HSet
<1>9. ASSUME NEW fields, HDelFields(c, k, fields) PROVE Same
  BY <1>3, <1>9, Zenon DEF HDelFields, clients, sweep
<1>10. ASSUME NEW fields, HDel(c, k, fields) PROVE Same
  BY <1>2, <1>3, <1>9, <1>10 DEF HDel
<1>11. ASSUME NEW seconds, Expire(c, k, seconds) PROVE Same
  BY <1>2, <1>3, <1>11 DEF Expire, clients, sweep
<1>12. Same
  <2> HIDE DEF Same
  <2> QED BY <1>5, <1>7, <1>8, <1>10, <1>11 DEF WriteNext
<1> QED BY <1>12 DEF Reaps

\* Every step that reaps removes only what is expired.
LEMMA StepReaps == [Next]_vars => Reaps
<1> SUFFICES ASSUME [Next]_vars PROVE Reaps
  OBVIOUS
<1>1. ASSUME NEW c \in Client, ClientNext(c) PROVE Reaps
  <2>1. CASE \E k \in Key : ReadNext(c, k) \/ WriteNext(c, k)
    BY <2>1, ReadReaps, WriteReaps
  <2>2. CASE \E k \in Key : DeleteIfExpired(c, k)
    <3>1. PICK k \in Key : Delete({k} \cap Dead)
      BY <2>2 DEF DeleteIfExpired
    <3> QED BY <3>1 DEF Reaps
  <2>3. CASE \E keys : Exists(c, keys)
    BY <2>3 DEF Exists, Escalate, table, Reaps
  <2>4. CASE Keys(c)
    BY <2>4 DEF Keys, Escalate, table, Reaps
  <2>5. CASE \E keys : Del(c, keys)
    BY <2>5 DEF Del, Remove, clients, sweep, Reaps
  <2>6. CASE \E bytes : SetMaxMemory(c, bytes)
    BY <2>6 DEF SetMaxMemory, Reaps
  <2>7. CASE FlushAll(c) \/ StampEntry(c)
    BY <2>7 DEF FlushAll, StampEntry, clients, sweep, Reaps
  <2>8. CASE EvictOne(c) \/ EvictReturn(c)
    BY <2>8 DEF EvictOne, EvictReturn, clients, sweep, Reaps
  <2> QED BY <1>1, <2>1, <2>2, <2>3, <2>4, <2>5, <2>6, <2>7, <2>8 DEF ClientNext
<1>2. CASE SweepDelete
  <2>1. Delete(expired \cap Dead)
    BY <1>2 DEF SweepDelete
  <2> QED BY <2>1 DEF Reaps
<1>3. CASE SweeperWake \/ SweepScan \/ Tick \/ Destroy \/ UNCHANGED vars
  BY <1>3 DEF SweeperWake, SweepScan, Tick, Destroy, vars, table, Reaps
<1> QED BY <1>1, <1>2, <1>3 DEF Next, SweeperNext, Destroyed

\* Phase 2 of the sweeper and a reader's DeleteIfExpired remove no entry that
\* is not expired at that moment, whatever happened to it since it was seen
\* expired under the shared lock.
THEOREM ReapsOnlyDead == Spec => ReapsOnlyTheDead
<1>1. [Next]_vars
        => [(sweeper' # sweeper \/ expired_keys' # expired_keys)
              => \A k \in Present :
                   data'[k] = data[k] \/ (data'[k] = Nil /\ k \in Dead)]_vars
  BY StepReaps DEF Reaps, Delete, Present
<1> QED BY <1>1, PTL DEF Spec, ReapsOnlyTheDead
=============================================================================
