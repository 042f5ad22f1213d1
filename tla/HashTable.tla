----------------------------- MODULE HashTable ------------------------------
(***************************************************************************)
(* goredis::HashTable (src/src/store/hash_table.h): separate chaining with *)
(* a power-of-two number of buckets, doubled when the load factor exceeds  *)
(* kMaxLoadFactor and halved when it falls below a quarter of that.        *)
(*                                                                         *)
(* A chain of Nodes is a sequence, its head first; bucket number i of the  *)
(* code is element i + 1 of buckets.  The hash of a key is any number; its *)
(* low bits select the bucket with the same mask as in the code.           *)
(***************************************************************************)
EXTENDS Naturals, Sequences, FiniteSets, SequencesExt

CONSTANTS Key, Val, Nil,
          HashKey(_),          \* the 64-bit FNV-1a hash of a key
          kHashBits,           \* how many of its bits the model keeps
          kInitialCapacity, kGrowthMultiplier,
          kMaxLoadNum, kMaxLoadDen,   \* kMaxLoadFactor as a fraction
          Counts               \* arguments of SampleKeys

VARIABLES buckets, num_entries,
          result   \* what the last method returned
vars == <<buckets, num_entries, result>>

Node == [key : Key, value : Val]
-----------------------------------------------------------------------------
Word == 0..(2^kHashBits - 1)
\* The & operator of C++ on the bits that are kept.
BitAnd == LET Bit(n, i) == (n \div 2^i) % 2
          IN  [a, b \in Word |->
                 SumFunction([i \in 0..(kHashBits - 1) |-> Bit(a, i) * Bit(b, i) * 2^i])]

\* hash & (capacity - 1), counted from 1.
Index(k, capacity) == BitAnd[HashKey(k), capacity - 1] + 1
BucketIndex(k) == Index(k, Len(buckets))

\* All nodes in the order ForEach and Keys visit them.
AllNodes(table) == FlattenSeq(table)

\* Mutation: a chain's tail is not saved before its head is moved.
RehashTo_LosesTail(table, new_capacity) ==
  [i \in 1..new_capacity |->
     Reverse(SelectSeq([b \in 1..Len(SelectSeq(table, LAMBDA c : c # <<>>)) |->
                          SelectSeq(table, LAMBDA c : c # <<>>)[b][1]],
                       LAMBDA node : Index(node.key, new_capacity) = i))]

\* Every node is prepended to its new chain in turn.
RehashTo(table, new_capacity) ==
  [i \in 1..new_capacity |->
     Reverse(SelectSeq(AllNodes(table), LAMBDA node : Index(node.key, new_capacity) = i))]

Resize(table) == RehashTo(table, Len(table) * kGrowthMultiplier)

\* Mutation: no hysteresis, the table shrinks at the boundary it grows at.
MaybeShrink_SameBoundary(table, n) ==
  IF Len(table) <= kInitialCapacity \/ n * kMaxLoadDen >= kMaxLoadNum * Len(table)
  THEN table
  ELSE RehashTo(table, Len(table) \div kGrowthMultiplier)

\* kMaxLoadFactor / 4 <= n / capacity keeps the capacity.
MaybeShrink(table, n) ==
  LET half == Len(table) \div kGrowthMultiplier
  IN
  IF Len(table) <= kInitialCapacity \/ n * kMaxLoadDen * 4 >= kMaxLoadNum * Len(table)
  THEN table
  ELSE RehashTo(table, IF half > kInitialCapacity THEN half ELSE kInitialCapacity)

\* The position of a key in its chain, 0 if it is not there.
Find(k) == SelectInSeq(buckets[BucketIndex(k)], LAMBDA node : node.key = k)
Lookup(k) == IF Find(k) = 0 THEN Nil ELSE buckets[BucketIndex(k)][Find(k)].value
-----------------------------------------------------------------------------
\* Mutation: the load factor is computed before the new entry is counted.
Insert_ChecksFirst(k, v) ==
  LET linked == [buckets EXCEPT ![BucketIndex(k)] = <<[key |-> k, value |-> v]>> \o @]
  IN
  /\ num_entries' = num_entries + 1
  /\ buckets' = IF num_entries * kMaxLoadDen > kMaxLoadNum * Len(buckets)
                THEN Resize(linked) ELSE linked

\* A new key goes to the head of its chain; then the load factor is checked.
Insert(k, v) ==
  LET linked == [buckets EXCEPT ![BucketIndex(k)] = <<[key |-> k, value |-> v]>> \o @]
  IN
  /\ num_entries' = num_entries + 1
  /\ buckets' = IF num_entries' * kMaxLoadDen > kMaxLoadNum * Len(buckets)
                THEN Resize(linked) ELSE linked

Set(k, v) ==
  /\ result' = <<"bool", Find(k) # 0>>
  /\ \/ /\ Find(k) # 0
        /\ buckets' = [buckets EXCEPT ![BucketIndex(k)][Find(k)].value = v]
        /\ UNCHANGED num_entries
     \/ Find(k) = 0 /\ Insert(k, v)

Get(k) == /\ result' = <<"value", Lookup(k)>>
          /\ UNCHANGED <<buckets, num_entries>>

\* Mutation: num_entries_ counts a key that was not there.
Delete_AlwaysCounts(k) ==
  /\ result' = <<"bool", Find(k) # 0>>
  /\ num_entries > 0
  /\ num_entries' = num_entries - 1
  /\ buckets' = IF Find(k) = 0 THEN buckets
                ELSE MaybeShrink([buckets EXCEPT ![BucketIndex(k)] = RemoveAt(@, Find(k))],
                                 num_entries')

Delete(k) ==
  /\ result' = <<"bool", Find(k) # 0>>
  /\ \/ Find(k) = 0 /\ UNCHANGED <<buckets, num_entries>>
     \/ /\ Find(k) # 0
        /\ num_entries' = num_entries - 1
        /\ buckets' = MaybeShrink([buckets EXCEPT ![BucketIndex(k)] = RemoveAt(@, Find(k))],
                                  num_entries')

Size == result' = <<"int", num_entries>> /\ UNCHANGED <<buckets, num_entries>>

ForEach == /\ LET nodes == AllNodes(buckets)
              IN  result' = <<"entries", [i \in DOMAIN nodes |-> <<nodes[i].key, nodes[i].value>>]>>
           /\ UNCHANGED <<buckets, num_entries>>

\* Draws random buckets until `count' of them had a head; a draw that hits an
\* empty bucket yields nothing, and the number of draws is bounded.
SampleKeys(count) ==
  LET Heads == {buckets[b][1] : b \in {c \in DOMAIN buckets : buckets[c] # <<>>}}
      SomeEmpty == \E b \in DOMAIN buckets : buckets[b] = <<>>
  IN
  /\ \E n \in 0..count : \E out \in [1..n -> {<<h.key, h.value>> : h \in Heads}] :
       /\ n < count => SomeEmpty
       /\ result' = <<"sample", out>>
  /\ UNCHANGED <<buckets, num_entries>>

Clear == /\ buckets' = [i \in 1..kInitialCapacity |-> <<>>]
         /\ num_entries' = 0
         /\ result' = <<"none">>

Init == /\ buckets = [i \in 1..kInitialCapacity |-> <<>>]
        /\ num_entries = 0
        /\ result = <<"none">>

Next == \/ \E k \in Key : Get(k) \/ Delete(k) \/ \E v \in Val : Set(k, v)
        \/ \E n \in Counts : SampleKeys(n)
        \/ Size \/ ForEach \/ Clear

Spec == Init /\ [][Next]_vars
-----------------------------------------------------------------------------
ASSUME CapacitiesAreNat ==
  /\ kInitialCapacity \in Nat \ {0} /\ kGrowthMultiplier \in Nat \ {0, 1}
  /\ kMaxLoadNum \in Nat \ {0} /\ kMaxLoadDen \in Nat \ {0}
-----------------------------------------------------------------------------
\* Every node hangs in the bucket its hash selects under the present
\* capacity, no key has two nodes, and num_entries_ counts the nodes: what
\* Set, Delete and both directions of rehashing must keep for Get to work.
WellPlaced ==
  /\ buckets \in Seq(Seq(Node))
  /\ \A b \in DOMAIN buckets : \A i \in DOMAIN buckets[b] :
       /\ BucketIndex(buckets[b][i].key) = b
       /\ \A j \in DOMAIN buckets[b] : buckets[b][j].key = buckets[b][i].key => i = j
  /\ num_entries = Len(AllNodes(buckets))

\* The capacity follows the number of entries: never more entries than
\* kMaxLoadFactor allows, and no bucket array left from an old peak.
LoadBounded ==
  /\ num_entries * kMaxLoadDen <= kMaxLoadNum * Len(buckets)
  /\ Len(buckets) > kInitialCapacity
       => num_entries * kMaxLoadDen * 4 >= kMaxLoadNum * Len(buckets)

\* "Deliberate hysteresis" (hash_table.h:312-316): after growing, the next
\* delete does not shrink the table; after shrinking, the next insert does
\* not grow it.
NoThrashing ==
  [][/\ (Len(buckets') > Len(buckets))
          => (num_entries' - 1) * kMaxLoadDen * 4 >= kMaxLoadNum * Len(buckets')
     /\ (Len(buckets') < Len(buckets) /\ num_entries' > 0)
          => (num_entries' + 1) * kMaxLoadDen <= kMaxLoadNum * Len(buckets')]_vars

\* The table implements a finite map: rehashing never loses, duplicates or
\* misplaces an entry.
Map == INSTANCE Dictionary WITH map <- [k \in Key |-> Lookup(k)]
ImplementsDictionary == Map!Spec
=============================================================================
