---------------------------- MODULE MCHashTable -----------------------------
(* An instance of HashTable for TLC. *)
EXTENDS HashTable

CONSTANTS k1, k2, k3, k4

\* k1 and k2 collide until there are eight buckets, k3 and k4 always do.
MCHashKey(k) == CASE k = k1 -> 1 [] k = k2 -> 5 [] k = k3 -> 6 [] k = k4 -> 14
=============================================================================
