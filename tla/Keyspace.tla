------------------------------ MODULE Keyspace ------------------------------
(***************************************************************************)
(* What goredis::Store promises to its callers, as the comments of         *)
(* src/src/store/store.h state it operation by operation: a map from keys  *)
(* to values in which a key is gone the moment its deadline passes, every  *)
(* operation takes effect and determines its reply at one instant, and a   *)
(* key is forgotten early only while a memory budget is set.               *)
(*                                                                         *)
(* Nothing of the implementation is visible here: no locks, no expired     *)
(* entry waiting to be reaped, no recency stamps, no byte accounting, no   *)
(* threads.  Module Store is shown to implement this specification.        *)
(***************************************************************************)
EXTENDS Integers, Sequences, FiniteSets

CONSTANTS
  Key, Field, Str,   \* strings used as keys, as hash fields and as payloads
  Nil,               \* "no value"
  Pushes,            \* the value lists LPUSH and RPUSH are called with
  KeyLists,          \* the key lists EXISTS is called with
  Seconds,           \* the TTLs EXPIRE is called with
  Index,             \* the positions LRANGE is called with
  TicksPerSecond     \* the resolution of the clock

VARIABLES kv,       \* key -> value, Nil when the key does not exist
          now,      \* the clock deadlines are measured against
          bounded,  \* a memory budget is set
          reply     \* what the last operation answers
vars == <<kv, now, bounded, reply>>

NoFields == [f \in Field |-> Nil]
New(type) == [type |-> type, str |-> Nil, list |-> <<>>, hash |-> NoFields,
              expires_at |-> Nil]

Exists(k) == kv[k] # Nil
Holds(k, type) == Exists(k) /\ kv[k].type = type
\* The value an update of a list or hash starts from.
Base(k, type) == IF Exists(k) THEN kv[k] ELSE New(type)

Init == /\ kv = [k \in Key |-> Nil]
        /\ now = 0
        /\ bounded = FALSE
        /\ reply = <<"nil">>
-----------------------------------------------------------------------------
(* Reads: a key of another type answers an error, a missing one `miss'.    *)
Read(k, type, hit, miss) ==
  /\ reply' = IF ~Exists(k) THEN miss
              ELSE IF kv[k].type = type THEN hit ELSE <<"err">>
  /\ UNCHANGED <<kv, now, bounded>>

Get(k) == Read(k, "string", <<"str", kv[k].str>>, <<"nil">>)
LLen(k) == Read(k, "list", <<"int", Len(kv[k].list)>>, <<"int", 0>>)
HGet(k, f) == Read(k, "hash",
                   IF kv[k].hash[f] = Nil THEN <<"nil">> ELSE <<"str", kv[k].hash[f]>>,
                   <<"nil">>)
HGetAll(k) == Read(k, "hash", <<"map", kv[k].hash>>, <<"map", NoFields>>)
HExists(k, f) == Read(k, "hash",
                      <<"int", IF kv[k].hash[f] = Nil THEN 0 ELSE 1>>, <<"int", 0>>)
FieldsOf(k) == {f \in Field : kv[k].hash[f] # Nil}
HLen(k) == Read(k, "hash", <<"int", Cardinality(FieldsOf(k))>>, <<"int", 0>>)
HKeys(k) == Read(k, "hash", <<"set", FieldsOf(k)>>, <<"set", {}>>)
\* HVALS answers the values with repetition: how often each one occurs.
HVals(k) == Read(k, "hash",
                 <<"bag", [s \in Str |-> Cardinality({f \in Field : kv[k].hash[f] = s})]>>,
                 <<"bag", [s \in Str |-> 0]>>)

\* The elements whose position lies between start and stop, both inclusive,
\* where a negative index counts from the end of the list.
Slice(list, start, stop) ==
  LET Pos(i) == IF i < 0 THEN Len(list) + i ELSE i
      In == {p \in 1..Len(list) : p - 1 >= Pos(start) /\ p - 1 <= Pos(stop)}
  IN  [i \in 1..Cardinality(In) |->
         list[CHOOSE p \in In : Cardinality({q \in In : q < p}) = i - 1]]
LRange(k, start, stop) ==
  Read(k, "list", <<"arr", Slice(kv[k].list, start, stop)>>, <<"arr", <<>>>>)

\* TTL answers a whole number of seconds at most half a second away.
TTL(k) ==
  /\ \/ ~Exists(k) /\ reply' = <<"int", -2>>
     \/ Exists(k) /\ kv[k].expires_at = Nil /\ reply' = <<"int", -1>>
     \/ /\ Exists(k) /\ kv[k].expires_at # Nil
        /\ reply'[1] = "int"
        /\ LET error == 2 * (reply'[2] * TicksPerSecond - (kv[k].expires_at - now))
           IN  -TicksPerSecond <= error /\ error <= TicksPerSecond
  /\ UNCHANGED <<kv, now, bounded>>

ExistsMany(keys) ==
  /\ reply' = <<"int", Cardinality({i \in DOMAIN keys : Exists(keys[i])})>>
  /\ UNCHANGED <<kv, now, bounded>>

Keys == /\ reply' = <<"set", {k \in Key : Exists(k)}>>
        /\ UNCHANGED <<kv, now, bounded>>
-----------------------------------------------------------------------------
(* Writes.                                                                 *)
Assign(k, v, r) == /\ kv' = [kv EXCEPT ![k] = v]
                   /\ reply' = r
                   /\ UNCHANGED <<now, bounded>>

\* SET replaces the key wholesale, whatever its type, and drops its TTL.
Set(k, s) == Assign(k, [New("string") EXCEPT !.str = s], <<"ok">>)

Refuse(k, type) == /\ Exists(k) /\ kv[k].type # type
                   /\ reply' = <<"err">>
                   /\ UNCHANGED <<kv, now, bounded>>

Push(k, list) ==
  \/ Refuse(k, "list")
  \/ /\ Exists(k) => Holds(k, "list")
     /\ Assign(k, [Base(k, "list") EXCEPT !.list = list], <<"int", Len(list)>>)
RPush(k, vals) == Push(k, Base(k, "list").list \o vals)
LPush(k, vals) ==
  Push(k, [i \in 1..Len(vals) |-> vals[Len(vals) + 1 - i]] \o Base(k, "list").list)

HSet(k, fields) ==
  LET old == Base(k, "hash").hash IN
  \/ Refuse(k, "hash")
  \/ /\ Exists(k) => Holds(k, "hash")
     /\ Assign(k, [Base(k, "hash") EXCEPT
                     !.hash = [f \in Field |-> IF f \in DOMAIN fields
                                               THEN fields[f] ELSE old[f]]],
               <<"int", Cardinality({f \in DOMAIN fields : old[f] = Nil})>>)

\* A hash that loses its last field stops existing.
HDel(k, fields) ==
  LET left == [f \in Field |-> IF f \in fields THEN Nil ELSE kv[k].hash[f]]
  IN
  \/ Refuse(k, "hash")
  \/ /\ ~Exists(k)
     /\ reply' = <<"int", 0>> /\ UNCHANGED <<kv, now, bounded>>
  \/ /\ Holds(k, "hash")
     /\ Assign(k, IF left = NoFields THEN Nil ELSE [kv[k] EXCEPT !.hash = left],
               <<"int", Cardinality({f \in fields : kv[k].hash[f] # Nil})>>)

Del(keys) == /\ kv' = [k \in Key |-> IF k \in keys THEN Nil ELSE kv[k]]
             /\ reply' = <<"int", Cardinality({k \in keys : Exists(k)})>>
             /\ UNCHANGED <<now, bounded>>

FlushAll == /\ kv' = [k \in Key |-> Nil]
            /\ reply' = <<"ok">>
            /\ UNCHANGED <<now, bounded>>

\* EXPIRE answers whether the key exists; a non-positive TTL deletes it.
Expire(k, seconds) ==
  \/ ~Exists(k) /\ reply' = <<"int", 0>> /\ UNCHANGED <<kv, now, bounded>>
  \/ /\ Exists(k)
     /\ Assign(k, IF seconds <= 0 THEN Nil
                  ELSE [kv[k] EXCEPT !.expires_at = now + seconds * TicksPerSecond],
               <<"int", 1>>)

SetBudget(on) == /\ bounded' = on
                 /\ reply' = <<"ok">>
                 /\ UNCHANGED <<kv, now>>
-----------------------------------------------------------------------------
(* What happens to keys without a caller asking for it.                    *)
Forget(k) == /\ bounded
             /\ kv' = [kv EXCEPT ![k] = Nil]
             /\ UNCHANGED <<now, bounded, reply>>

Tick == /\ now' = now + 1
        /\ kv' = [k \in Key |->
                    IF Exists(k) /\ kv[k].expires_at # Nil /\ kv[k].expires_at <= now'
                    THEN Nil ELSE kv[k]]
        /\ UNCHANGED <<bounded, reply>>

PartialFcn(S, T) == UNION {[D -> T] : D \in SUBSET S}

Next ==
  \/ \E k \in Key :
       \/ Get(k) \/ TTL(k) \/ Forget(k)
       \/ LLen(k) \/ HGetAll(k) \/ HLen(k) \/ HKeys(k) \/ HVals(k)
       \/ \E f \in Field : HGet(k, f) \/ HExists(k, f)
       \/ \E start, stop \in Index : LRange(k, start, stop)
       \/ \E s \in Str : Set(k, s)
       \/ \E vals \in Pushes : LPush(k, vals) \/ RPush(k, vals)
       \/ \E fields \in PartialFcn(Field, Str) : HSet(k, fields)
       \/ \E fields \in SUBSET Field : HDel(k, fields)
       \/ \E seconds \in Seconds : Expire(k, seconds)
  \/ \E keys \in KeyLists : ExistsMany(keys)
  \/ \E keys \in SUBSET Key : Del(keys)
  \/ \E on \in BOOLEAN : SetBudget(on)
  \/ Keys \/ FlushAll \/ Tick

Spec == Init /\ [][Next]_vars
=============================================================================
