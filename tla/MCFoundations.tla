---------------------------- MODULE MCFoundations ----------------------------
(* What the rest of the program stands on: the memory pool, the hash table   *)
(* and the log.  They share nothing, so each moves while the others rest.    *)
EXTENDS MemoryPool, HashTable, Logger

\* The pool: two threads over two slabs of two blocks; it grows once and can run
\* out, and six allocations reuse blocks in every order.
CONSTANTS u1, u2, slab1, slab2

Symmetry == Permutations({u1, u2}) \cup Permutations({slab1, slab2})

\* The table: four keys, two of them with the same hash, three in one chain after
\* it has grown from 5 to 11 buckets and two in one chain before; hints that are
\* raised to 5, stepped over 9, and taken past an even number.
MCHash  == [k \in {"a", "b", "c", "d"} |->
              CASE k = "a" -> 6 [] k = "b" -> 5 [] k = "c" -> 16 [] k = "d" -> 5]
MCHints == {3, 8}

CONSTANT t1   \* iterations; the other calls are anybody's

Pool  == Init /\ LogInit /\ PoolNext /\ UNCHANGED <<vars, logVars>>
Table == PoolInit /\ LogInit /\ Next /\ UNCHANGED <<poolVars, logVars>>
Log   == PoolInit /\ Init /\ LogNext /\ UNCHANGED <<poolVars, vars>>

MCInit == PoolInit /\ Init /\ LogInit
MCNext == Pool \/ Table \/ Log
MCSpec == MCInit /\ [][MCNext]_<<poolVars, vars, logVars>>
==============================================================================
