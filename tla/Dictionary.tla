----------------------------- MODULE Dictionary -----------------------------
(***************************************************************************)
(* What goredis::HashTable promises to Store: a finite map.  Enumeration   *)
(* visits every entry exactly once in some order; a sample consists of     *)
(* entries of the map and may repeat some or come out short.               *)
(***************************************************************************)
EXTENDS Naturals, Sequences, FiniteSets

CONSTANTS Key, Val, Nil, Counts

VARIABLES map,     \* key -> value, Nil when absent
          result   \* what the last operation returned
vars == <<map, result>>

Present == {k \in Key : map[k] # Nil}

Init == map = [k \in Key |-> Nil] /\ result = <<"none">>

\* True when the key was there before.
Set(k, v) == /\ map' = [map EXCEPT ![k] = v]
             /\ result' = <<"bool", k \in Present>>

Get(k) == result' = <<"value", map[k]>> /\ UNCHANGED map

Delete(k) == /\ map' = [map EXCEPT ![k] = Nil]
             /\ result' = <<"bool", k \in Present>>

Size == result' = <<"int", Cardinality(Present)>> /\ UNCHANGED map

\* Every entry once.
Entries ==
  /\ result'[1] = "entries"
  /\ Len(result'[2]) = Cardinality(Present)
  /\ {result'[2][i] : i \in DOMAIN result'[2]} = {<<k, map[k]>> : k \in Present}
  /\ UNCHANGED map

Sample(n) ==
  /\ result'[1] = "sample"
  /\ Len(result'[2]) <= n
  /\ \A i \in DOMAIN result'[2] : result'[2][i] \in {<<k, map[k]>> : k \in Present}
  /\ UNCHANGED map

Clear == map' = [k \in Key |-> Nil] /\ result' = <<"none">>

Next == \/ \E k \in Key : Get(k) \/ Delete(k) \/ \E v \in Val : Set(k, v)
        \/ \E n \in Counts : Sample(n)
        \/ Size \/ Entries \/ Clear

Spec == Init /\ [][Next]_vars
=============================================================================
