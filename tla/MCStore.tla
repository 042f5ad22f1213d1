------------------------------ MODULE MCStore -------------------------------
(* Instances of Store for TLC. *)
EXTENDS Store, TLC

CONSTANTS c1, c2, k1, k2, k3, f1, f2, small, large

\* "large" is the one string whose size differs from the others'.
MCSize(s) == IF s = large THEN 3 ELSE 1

View == <<table, access_clock, now, clients, sweep>>
OneKeyLists == {<<k1>>, <<k1, k1>>}
TwoKeyLists == {<<k1, k2>>, <<k1, k1>>}
NoPushes == {}
\* First, second, last position and one before the start of any list here.
Positions == {-4, -1, 0, 1}
OnePushes == {<<small>>, <<small, large>>}

Symmetry == Permutations(Client)
KeySymmetry == Permutations(Client) \cup Permutations(Key)
=============================================================================
