------------------------------ MODULE HashTable ------------------------------
(* The separate-chaining table of hash_table.c: buckets of nodes, a prime    *)
(* number of them, and more of them when it fills up.  Calls are atomic      *)
(* under the table's read-write lock, except an iteration, which calls back  *)
(* entry by entry while it holds the lock shared.                            *)
EXTENDS Integers, SequencesExt

CONSTANTS
  Threads,     \* those that iterate; the other calls are atomic, whoever makes them
  Keys, Values,
  Hash,        \* what hash_fn makes of each key
  Hints,       \* initial_capacity_hint
  MaxCapacity, \* how many buckets calloc may have memory for
  None

ASSUME HashAssumption == Hash \in [Keys -> Nat] /\ Hints \subseteq Nat /\ MaxCapacity \in Nat
ASSUME NoneAssumption == None \notin Nat \X (Nat \ {0})

VARIABLES
  buckets,       \* the chain of each bucket, indexed from 0
  count,         \* table->count
  position,      \* an iteration's next <<bucket, place in its chain>>, or None
  seen,          \* what an iteration's callback has been given
  answer         \* the last call that ended, and what it gave

vars == <<buckets, count, position, seen, answer>>

-------------------------------------------------------------------------------
\* Slip: the trial division stops before the root.
IsPrimeShort(n) ==
  /\ n >= 2
  /\ IF n % 2 = 0 THEN n = 2
     ELSE \A i \in 3..n : i % 2 = 1 /\ i * i < n => n % i # 0

\* is_prime tries 2 and the odd numbers up to the root.
IsPrime(n) ==
  /\ n >= 2
  /\ IF n % 2 = 0 THEN n = 2
     ELSE \A i \in 3..n : i % 2 = 1 /\ i * i <= n => n % i # 0

\* next_prime tries the odd numbers from 5; there is memory for as many buckets,
\* or there may be none.
Primes(n) ==
  LET low == IF n < 5 THEN 5 ELSE n
      odd == IF low % 2 = 0 THEN low + 1 ELSE low
  IN  {m \in odd..MaxCapacity : (m - odd) % 2 = 0 /\ IsPrime(m)}
NextPrime(n) == Min(Primes(n))
MayFit(n) == Primes(n) # {}

Capacity == Cardinality(DOMAIN buckets)
Created  == Capacity > 0
Chain(k) == buckets[Hash[k] % Capacity]

\* The places in its chain at which a walk finds k: hashes and keys are equal.
Places(k) == {i \in DOMAIN Chain(k) : Hash[Chain(k)[i][1]] = Hash[k] /\ Chain(k)[i][1] = k}
Place(k)  == Min(Places(k))

Answer(call, status, data) == answer' = [call |-> call, status |-> status, data |-> data]

\* Iterations hold the lock shared: writers wait for them.
Writable == Created /\ \A t \in Threads : position[t] = None

-------------------------------------------------------------------------------
Init ==
  /\ buckets = <<>> /\ count = 0
  /\ position = [t \in Threads |-> None] /\ seen = [t \in Threads |-> <<>>]
  /\ answer = [call |-> "none", status |-> "OK", data |-> <<>>]

\* ht_create; when it fails there is no table.
Create(hint) ==
  /\ ~Created /\ MayFit(hint)
  /\ buckets' = [b \in 0..(NextPrime(hint) - 1) |-> <<>>]
  /\ Answer("none", "OK", <<>>)
  /\ UNCHANGED <<count, position, seen>>

\* ht_destroy; the callers' keys and values are not its own (free_key_fn and
\* free_value_fn are NULL in every table of the program).
Destroy ==
  /\ Writable
  /\ buckets' = <<>> /\ count' = 0
  /\ Answer("none", "OK", <<>>)
  /\ UNCHANGED <<position, seen>>

-------------------------------------------------------------------------------
\* A bucket of the new array after a chain of the old one: each node that
\* belongs there is pushed on its front.
Pushed(chain, b, capacity, front) ==
  LET pushed[i \in 0..Len(chain)] ==
        IF i = 0 THEN front
        ELSE IF Hash[chain[i][1]] % capacity = b THEN <<chain[i]>> \o pushed[i-1] ELSE pushed[i-1]
  IN  pushed[Len(chain)]

\* A bucket of the new array after all of the old ones, in their order.
Walked(chains, b, capacity) ==
  LET walked[o \in 0..Capacity] ==
        IF o = 0 THEN <<>> ELSE Pushed(chains[o-1], b, capacity, walked[o-1])
  IN  walked[Capacity]

\* Slip: nodes go to the bucket of their old index.
RelinkedByOldIndex(chains, capacity) == [b \in 0..(capacity - 1) |-> Walked(chains, b, Capacity)]

\* resize_locked
Relinked(chains, capacity) == [b \in 0..(capacity - 1) |-> Walked(chains, b, capacity)]

Overloaded == 4 * (count + 1) > 3 * Capacity

\* ht_put of a key it has: refused, or the node gets the new value.
PutKnown(k, v, replace) ==
  /\ Writable /\ Places(k) # {}
  /\ IF replace
     THEN /\ buckets' = [buckets EXCEPT ![Hash[k] % Capacity][Place(k)] = <<k, v>>]
          /\ Answer("put", "OK", <<k, v>>)
     ELSE Answer("put", "DUPLICATE", <<k, v>>) /\ UNCHANGED buckets
  /\ UNCHANGED <<count, position, seen>>

\* Slip: a failed resize is reported, although the entry stays.
PutNewFailsLate(k, v) ==
  /\ Writable /\ Places(k) = {}
  /\ LET linked == [buckets EXCEPT ![Hash[k] % Capacity] = <<<<k, v>>>> \o @]
     IN  \/ /\ Overloaded /\ MayFit(2 * Capacity)
            /\ buckets' = Relinked(linked, NextPrime(2 * Capacity))
            /\ Answer("put", "OK", <<k, v>>)
         \/ Overloaded /\ buckets' = linked /\ Answer("put", "ALLOC_FAILED", <<k, v>>)
         \/ ~Overloaded /\ buckets' = linked /\ Answer("put", "OK", <<k, v>>)
  /\ count' = count + 1
  /\ UNCHANGED <<position, seen>>

\* ht_put of a new key: a node on the front of its chain; when the load passes
\* 0.75 the table grows, or stays as it is if there is no memory for that.
PutNew(k, v) ==
  /\ Writable /\ Places(k) = {}
  /\ LET linked == [buckets EXCEPT ![Hash[k] % Capacity] = <<<<k, v>>>> \o @]
     IN  \/ /\ Overloaded /\ MayFit(2 * Capacity)
            /\ buckets' = Relinked(linked, NextPrime(2 * Capacity))
         \/ buckets' = linked
  /\ count' = count + 1
  /\ Answer("put", "OK", <<k, v>>)
  /\ UNCHANGED <<position, seen>>

PutFails(k, v) ==
  /\ Writable /\ Places(k) = {}
  /\ Answer("put", "ALLOC_FAILED", <<k, v>>)
  /\ UNCHANGED <<buckets, count, position, seen>>

\* ht_get
Get(k) ==
  /\ Created
  /\ IF Places(k) # {} THEN Answer("get", "OK", Chain(k)[Place(k)])
                       ELSE Answer("get", "NOT_FOUND", <<k>>)
  /\ UNCHANGED <<buckets, count, position, seen>>

\* Slip: the count is lowered whether or not the key was there.
RemoveKeyMiscounts(k) ==
  /\ Writable
  /\ IF Places(k) # {}
     THEN /\ buckets' = [buckets EXCEPT ![Hash[k] % Capacity] = RemoveAt(@, Place(k))]
          /\ Answer("remove", "OK", <<k>>)
     ELSE Answer("remove", "NOT_FOUND", <<k>>) /\ UNCHANGED buckets
  /\ count' = count - 1
  /\ UNCHANGED <<position, seen>>

\* ht_remove
RemoveKey(k) ==
  /\ Writable
  /\ IF Places(k) # {}
     THEN /\ buckets' = [buckets EXCEPT ![Hash[k] % Capacity] = RemoveAt(@, Place(k))]
          /\ count' = count - 1
          /\ Answer("remove", "OK", <<k>>)
     ELSE Answer("remove", "NOT_FOUND", <<k>>) /\ UNCHANGED <<buckets, count>>
  /\ UNCHANGED <<position, seen>>

\* ht_size
Size ==
  /\ Created
  /\ Answer("size", "OK", <<count>>)
  /\ UNCHANGED <<buckets, count, position, seen>>

-------------------------------------------------------------------------------
\* ht_iterate: bucket by bucket, chain by chain, until the callback says stop.
IterateStart(t) ==
  /\ Created /\ position[t] = None
  /\ position' = [position EXCEPT ![t] = <<0, 1>>]
  /\ seen' = [seen EXCEPT ![t] = <<>>]
  /\ UNCHANGED <<buckets, count, answer>>

IterateStep(t) ==
  /\ position[t] # None /\ position[t][1] < Capacity
  /\ LET chain == buckets[position[t][1]]
     IN  IF position[t][2] \in DOMAIN chain
         THEN /\ position' = [position EXCEPT ![t][2] = @ + 1]
              /\ seen' = [seen EXCEPT ![t] = Append(@, chain[position[t][2]])]
         ELSE /\ position' = [position EXCEPT ![t] = <<@[1] + 1, 1>>]
              /\ UNCHANGED seen
  /\ UNCHANGED <<buckets, count, answer>>

\* The end of the last bucket, or a callback that returned false.
IterateEnd(t) ==
  /\ position[t] # None
  /\ \/ position[t][1] = Capacity /\ Answer("iterate", "OK", seen[t])
     \/ position[t][2] > 1 /\ Answer("iterate", "STOPPED", seen[t])
  /\ position' = [position EXCEPT ![t] = None]
  /\ seen' = [seen EXCEPT ![t] = <<>>]
  /\ UNCHANGED <<buckets, count>>

Next ==
  \/ \E hint \in Hints : Create(hint)
  \/ Destroy \/ Size
  \/ \E k \in Keys : Get(k) \/ RemoveKey(k)
  \/ \E k \in Keys, v \in Values : PutNew(k, v) \/ PutFails(k, v)
  \/ \E k \in Keys, v \in Values, replace \in BOOLEAN : PutKnown(k, v, replace)
  \/ \E t \in Threads : IterateStart(t) \/ IterateStep(t) \/ IterateEnd(t)

Spec == Init /\ [][Next]_vars

-------------------------------------------------------------------------------
Nodes == UNION {ToSet(buckets[b]) : b \in DOMAIN buckets}

\* The layout of sm_hash_table_t and of its nodes; answers are of known form.
TypeOK ==
  /\ DOMAIN buckets = 0..(Capacity - 1)
  /\ Nodes \subseteq Keys \X Values
  /\ count \in Nat
  /\ \A t \in Threads : position[t] = None \/ position[t] \in Nat \X (Nat \ {0})
  /\ \A t \in Threads : ToSet(seen[t]) \subseteq Keys \X Values
  /\ answer.status \in {"OK", "DUPLICATE", "ALLOC_FAILED", "NOT_FOUND", "STOPPED"}

\* Every node is in the bucket its hash leads to, a key has one node, and the
\* count is the number of nodes, after any history of inserts, removals and
\* resizes that worked or failed.
ChainsWellFormed ==
  /\ \A b \in DOMAIN buckets, n \in Nodes :
       n \in ToSet(buckets[b]) => Hash[n[1]] % Capacity = b
  /\ \A b \in DOMAIN buckets : \A i, j \in DOMAIN buckets[b] :
       i # j => buckets[b][i][1] # buckets[b][j][1]
  /\ \A m, n \in Nodes : m[1] = n[1] => m = n
  /\ count = Cardinality(Nodes)

\* "capacity: always a prime number" (hash_table.h:33), by the definition of a
\* prime and not by trial division.
CapacityIsPrime == Created => Capacity > 1 /\ \A d \in 2..(Capacity - 1) : Capacity % d # 0

\* Callers see a map: each answer is the one the map gives when the call ends,
\* and an iteration that is not stopped shows every entry once.
MapOf == [k \in {n[1] : n \in Nodes} |-> (CHOOSE n \in Nodes : n[1] = k)[2]]
Map == INSTANCE KeyValueMap WITH map <- MapOf
ImplementsMap == Map!Spec
===============================================================================
