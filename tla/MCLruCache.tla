------------------------------ MODULE MCLruCache ----------------------------
(* Three keys in a cache of two: every new key may evict, and a lifetime   *)
(* can lie above or below the stale-while-revalidate time.                 *)
EXTENDS LruCache, TLC

CONSTANTS k1, k2, k3, v1, v2

MCKeys == {k1, k2, k3}
MCValues == {v1, v2}

DataSymmetry == Permutations(MCKeys) \cup Permutations(MCValues)
=============================================================================
