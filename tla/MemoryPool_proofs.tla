-------------------------- MODULE MemoryPool_proofs --------------------------
(* For any threads, slabs and slab size: the free list, which runs through   *)
(* memory that its former owners wrote and its next ones zero, visits every  *)
(* block that nobody holds once and ends; the counters add up; and a block   *)
(* that was handed out is written by its owner only.                         *)
EXTENDS MemoryPool, FiniteSetTheorems, WellFoundedInduction, TLAPS

Links  == Blocks \cup {Null}
Unheld == PoolBlocks \ (owned \cup Taken)

(* From head, following links, one comes past every block of S, once, and    *)
(* then to the end; c[k] is the k-th block one comes to.                     *)
IsWalk(c, n, head, links, S) ==
  /\ n \in Nat /\ c \in [1..(n+1) -> Links]
  /\ c[1] = head /\ c[n+1] = Null
  /\ \A k \in 1..n : c[k] \in S /\ c[k+1] = links[c[k]]
  /\ \A k, l \in 1..n : k # l => c[k] # c[l]
  /\ \A b \in S : \E k \in 1..n : c[k] = b

List(head, links, S) == \E n \in Nat : \E c \in [1..(n+1) -> Links] : IsWalk(c, n, head, links, S)

-----------------------------------------------------------------------------
(* Induction, from the order of the naturals being well founded.             *)

LEMMA LeastNatural ==
  ASSUME NEW S, S \subseteq Nat, S # {}
  PROVE  \E n \in S : \A m \in S : n <= m
<1> DEFINE R == {p \in Nat \X Nat : p[1] < p[2]}
<1>1. R = OpToRel(<, Nat)
  BY Zenon DEF OpToRel
<1>2. IsWellFoundedOn(R, Nat)
  BY <1>1, NatLessThanWellFounded, Zenon
<1> HIDE DEF R
<1>3. PICK n \in S : \A m \in S : <<m, n>> \notin R
  BY <1>2, WFMin, Zenon
<1>4. \A m \in S : ~ (m < n)
  BY <1>3 DEF R
<1> QED
  BY <1>4

LEMMA EveryNatural ==
  ASSUME NEW S, 0 \in S, \A n \in Nat : n \in S => n + 1 \in S
  PROVE  Nat \subseteq S
<1> DEFINE missing == {n \in Nat : n \notin S}
<1>1. ASSUME missing # {} PROVE FALSE
  <2>1. PICK n \in missing : \A m \in missing : n <= m
    BY <1>1, LeastNatural
  <2>2. n # 0 /\ n - 1 \in Nat /\ n - 1 \notin missing
    BY <2>1
  <2> QED
    BY <2>1, <2>2
<1> QED
  BY <1>1

-----------------------------------------------------------------------------
(* Lists.                                                                    *)

LEMMA NullIsNoBlock == Null \notin Blocks /\ Data \notin Blocks
  BY PoolAssumption DEF Blocks

LEMMA EmptyList ==
  ASSUME NEW links
  PROVE  List(Null, links, {})
<1> DEFINE c == [k \in 1..1 |-> Null]
<1>1. IsWalk(c, 0, Null, links, {})
  BY DEF IsWalk, Links
<1> QED
  BY <1>1 DEF List, IsWalk

LEMMA NoHead ==
  ASSUME NEW links, NEW S, List(Null, links, S), Null \notin S
  PROVE  S = {}
<1>1. PICK n, c : IsWalk(c, n, Null, links, S)
  BY DEF List
<1>2. n = 0
  BY <1>1 DEF IsWalk
<1> QED
  BY <1>1, <1>2 DEF IsWalk

LEMMA ListUntouched ==
  ASSUME NEW head, NEW links, NEW links2, NEW S, List(head, links, S),
         \A b \in S : links2[b] = links[b]
  PROVE  List(head, links2, S)
<1>1. PICK n, c : IsWalk(c, n, head, links, S)
  BY DEF List
<1>2. IsWalk(c, n, head, links2, S)
  BY <1>1 DEF IsWalk
<1> QED
  BY <1>2 DEF List, IsWalk

LEMMA ListPush ==
  ASSUME NEW head, NEW links, NEW S, List(head, links, S),
         NEW b \in Blocks, b \notin S, NEW links2,
         links2[b] = head, \A d \in S : links2[d] = links[d]
  PROVE  List(b, links2, S \cup {b})
<1>1. PICK n, c : IsWalk(c, n, head, links2, S)
  BY ListUntouched DEF List
<1>n. n \in Nat /\ c \in [1..(n+1) -> Links]
  BY <1>1 DEF IsWalk
<1> DEFINE e == [k \in 1..(n+2) |-> IF k = 1 THEN b ELSE c[k-1]]
<1>2. \A k \in 2..(n+2) : k - 1 \in 1..(n+1) /\ e[k] = c[k-1]
  BY <1>n
<1>3. e \in [1..(n+2) -> Links] /\ e[1] = b
  BY <1>n, <1>2 DEF Links
<1>4. e[n+2] = Null
  BY <1>1, <1>2 DEF IsWalk
<1> HIDE DEF e
<1>5. \A k \in 1..(n+1) : e[k] \in S \cup {b} /\ e[k+1] = links2[e[k]]
  <2> TAKE k \in 1..(n+1)
  <2>1. CASE k = 1
    BY <2>1, <1>1, <1>2, <1>3 DEF IsWalk
  <2>2. CASE k # 1
    <3>1. k - 1 \in 1..n /\ e[k] = c[k-1] /\ e[k+1] = c[k]
      BY <2>2, <1>2, <1>n
    <3> QED
      BY <3>1, <1>1 DEF IsWalk
  <2> QED
    BY <2>1, <2>2
<1>6. \A k, l \in 1..(n+1) : k # l => e[k] # e[l]
  <2>1. \A k \in 2..(n+1) : k - 1 \in 1..n /\ e[k] = c[k-1] /\ c[k-1] \in S
    BY <1>1, <1>2 DEF IsWalk
  <2>2. \A k, l \in 2..(n+1) : k # l => e[k] # e[l]
    BY <2>1, <1>1 DEF IsWalk
  <2>3. \A k \in 2..(n+1) : e[k] # e[1]
    BY <2>1, <1>3
  <2> QED
    BY <2>2, <2>3
<1>7. \A d \in S \cup {b} : \E k \in 1..(n+1) : e[k] = d
  <2> TAKE d \in S \cup {b}
  <2>1. CASE d = b
    BY <2>1, <1>3, <1>n
  <2>2. CASE d \in S
    <3>1. PICK k \in 1..n : c[k] = d
      BY <2>2, <1>1 DEF IsWalk
    <3>2. k + 1 \in 1..(n+1) /\ e[k+1] = d
      BY <3>1, <1>2, <1>n
    <3> QED
      BY <3>2
  <2> QED
    BY <2>1, <2>2
<1>8. n + 1 \in Nat /\ (n + 1) + 1 = n + 2
  BY <1>n
<1>9. IsWalk(e, n + 1, b, links2, S \cup {b})
  BY <1>3, <1>4, <1>5, <1>6, <1>7, <1>8 DEF IsWalk
<1> QED
  BY <1>3, <1>8, <1>9 DEF List

LEMMA ListPop ==
  ASSUME NEW head, NEW links, NEW S, List(head, links, S), head # Null
  PROVE  head \in S /\ List(links[head], links, S \ {head})
<1>1. PICK n, c : IsWalk(c, n, head, links, S)
  BY DEF List
<1>n. n \in Nat /\ c \in [1..(n+1) -> Links]
  BY <1>1 DEF IsWalk
<1>2. n # 0 /\ n - 1 \in Nat /\ 1 \in 1..n /\ (n - 1) + 1 = n
  BY <1>1 DEF IsWalk
<1>3. head = c[1] /\ head \in S /\ links[head] = c[2]
  BY <1>1, <1>2 DEF IsWalk
<1> DEFINE e == [k \in 1..n |-> c[k+1]]
<1>4. e \in [1..n -> Links] /\ e[1] = links[head] /\ e[n] = Null
  BY <1>1, <1>2, <1>3 DEF IsWalk
<1>5. \A k \in 1..(n-1) : k + 1 \in 1..n /\ e[k] = c[k+1] /\ e[k+1] = c[k+2]
  BY <1>2, <1>n
<1> HIDE DEF e
<1>6. \A k \in 1..(n-1) : e[k] \in S \ {head} /\ e[k+1] = links[e[k]]
  BY <1>1, <1>2, <1>3, <1>5 DEF IsWalk
<1>7. \A k, l \in 1..(n-1) : k # l => e[k] # e[l]
  BY <1>1, <1>5 DEF IsWalk
<1>8. \A d \in S \ {head} : \E k \in 1..(n-1) : e[k] = d
  <2> TAKE d \in S \ {head}
  <2>1. PICK k \in 1..n : c[k] = d
    BY <1>1 DEF IsWalk
  <2>2. k # 1
    BY <2>1, <1>3
  <2>3. k - 1 \in 1..(n-1) /\ e[k-1] = d
    BY <2>1, <2>2, <1>5, <1>n
  <2> QED
    BY <2>3
<1>9. IsWalk(e, n - 1, links[head], links, S \ {head})
  BY <1>2, <1>4, <1>6, <1>7, <1>8 DEF IsWalk
<1> QED
  BY <1>2, <1>3, <1>4, <1>9 DEF List

(* What grow_pool threads is a list of the new slab.                         *)
LEMMA SlabIsList ==
  ASSUME NEW s \in Slabs, free_list = Null, NEW links, links = Threaded(s)
  PROVE  List(Top(s), links, {s} \X (1..BlocksPerSlab))
<1> DEFINE N == BlocksPerSlab
           c == [k \in 1..(N+1) |-> IF k = N + 1 THEN Null ELSE <<s, N + 1 - k>>]
<1>1. N \in Nat /\ N # 0
  BY PoolAssumption
<1>2. \A k \in 1..N : N + 1 - k \in 1..N /\ c[k] = <<s, N + 1 - k>>
  BY <1>1
<1>3. c[N+1] = Null /\ c[1] = Top(s)
  BY <1>1 DEF Top
<1>4. c \in [1..(N+1) -> Links]
  BY <1>1, <1>2 DEF Links, Blocks
<1> HIDE DEF c
<1>5. \A k \in 1..N : c[k+1] = links[c[k]]
  <2> TAKE k \in 1..N
  <2>1. c[k] \in Blocks /\ c[k][1] = s /\ c[k][2] = N + 1 - k
    BY <1>2 DEF Blocks
  <2>2. links[c[k]] = IF N + 1 - k = 1 THEN Null ELSE <<s, N + 1 - k - 1>>
    BY <2>1, <1>1 DEF Threaded
  <2>3. CASE k = N
    BY <2>2, <2>3, <1>1, <1>3
  <2>4. CASE k # N
    <3>1. k + 1 \in 1..N /\ N + 1 - k # 1 /\ N + 1 - (k + 1) = N + 1 - k - 1
      BY <2>4, <1>1
    <3> QED
      BY <3>1, <2>2, <1>2
  <2> QED
    BY <2>3, <2>4
<1>6. \A k, l \in 1..N : k # l => c[k] # c[l]
  BY <1>1, <1>2
<1>7. \A b \in {s} \X (1..N) : \E k \in 1..N : c[k] = b
  <2> TAKE b \in {s} \X (1..N)
  <2>1. PICK i \in 1..N : b = <<s, i>>
    OBVIOUS
  <2>2. N + 1 - i \in 1..N /\ N + 1 - (N + 1 - i) = i
    BY <1>1
  <2> QED
    BY <2>1, <2>2, <1>2
<1>8. \A k \in 1..N : c[k] \in {s} \X (1..N)
  BY <1>2
<1> HIDE DEF N
<1>9. IsWalk(c, N, Top(s), links, {s} \X (1..N))
  BY <1>1, <1>3, <1>4, <1>5, <1>6, <1>7, <1>8 DEF IsWalk
<1> QED
  BY <1>1, <1>4, <1>9 DEF List, N

-----------------------------------------------------------------------------
(* The invariant: the blocks that somebody holds are the pool's, each with   *)
(* one holder, and the list is one of the others.                            *)

Held == owned \cup Taken

PoolInv ==
  /\ PoolTypeOK
  /\ IsFiniteSet(slabs) /\ (~created => slabs = {})
  /\ Held \subseteq PoolBlocks
  /\ owned \cap Taken = {}
  /\ \A t, u \in Users : t # u /\ taken[t] # Null => taken[t] # taken[u]
  /\ List(free_list, mem, Unheld)
  /\ CountersAddUp

LEMMA SlabSizes ==
  ASSUME NEW S, IsFiniteSet(S)
  PROVE  /\ IsFiniteSet(S \X (1..BlocksPerSlab))
         /\ Cardinality(S) \in Nat
         /\ Cardinality(S \X (1..BlocksPerSlab)) = BlocksPerSlab * Cardinality(S)
<1>1. BlocksPerSlab \in Nat
  BY PoolAssumption
<1>2. IsFiniteSet(1..BlocksPerSlab) /\ Cardinality(1..BlocksPerSlab) = BlocksPerSlab
  BY <1>1, FS_Interval
<1>3. Cardinality(S) \in Nat
  BY FS_CardinalityType
<1>4. /\ IsFiniteSet(S \X (1..BlocksPerSlab))
      /\ Cardinality(S \X (1..BlocksPerSlab)) = Cardinality(S) * Cardinality(1..BlocksPerSlab)
  BY <1>2, FS_Product
<1> QED
  BY <1>1, <1>2, <1>3, <1>4

LEMMA HeldFits ==
  ASSUME IsFiniteSet(slabs), Held \subseteq PoolBlocks
  PROVE  /\ IsFiniteSet(Held) /\ Cardinality(Held) \in Nat
         /\ Cardinality(Held) <= BlocksPerSlab * Cardinality(slabs)
<1>1. IsFiniteSet(PoolBlocks) /\ Cardinality(PoolBlocks) = BlocksPerSlab * Cardinality(slabs)
  BY SlabSizes DEF PoolBlocks
<1>2. IsFiniteSet(Held) /\ Cardinality(Held) <= Cardinality(PoolBlocks)
  BY <1>1, FS_Subset
<1> QED
  BY <1>1, <1>2, FS_CardinalityType

LEMMA TakenGains ==
  ASSUME PoolTypeOK, NEW t \in Users, NEW b \in Blocks, taken[t] = Null,
         taken' = [taken EXCEPT ![t] = b]
  PROVE  Taken' = Taken \cup {b}
<1>1. \A u \in Users : taken'[u] = IF u = t THEN b ELSE taken[u]
  BY DEF PoolTypeOK
<1> QED
  BY <1>1, NullIsNoBlock DEF Taken

LEMMA TakenLoses ==
  ASSUME PoolTypeOK, NEW t \in Users, taken[t] # Null,
         \A v, u \in Users : v # u /\ taken[v] # Null => taken[v] # taken[u],
         taken' = [taken EXCEPT ![t] = Null]
  PROVE  Taken' = Taken \ {taken[t]}
<1>1. \A u \in Users : taken'[u] = IF u = t THEN Null ELSE taken[u]
  BY DEF PoolTypeOK
<1> QED
  BY <1>1 DEF Taken

LEMMA HoldersDistinct ==
  ASSUME PoolTypeOK, NEW t \in Users, NEW b \in Links, b \notin Taken,
         \A v, u \in Users : v # u /\ taken[v] # Null => taken[v] # taken[u],
         taken' = [taken EXCEPT ![t] = b]
  PROVE  \A v, u \in Users : v # u /\ taken'[v] # Null => taken'[v] # taken'[u]
<1>1. \A u \in Users : taken'[u] = IF u = t THEN b ELSE taken[u]
  BY DEF PoolTypeOK
<1> QED
  BY <1>1 DEF Taken

LEMMA InvInit == PoolInit => PoolInv
<1> SUFFICES ASSUME PoolInit PROVE PoolInv
  OBVIOUS
<1>1. PoolTypeOK
  BY DEF PoolInit, PoolTypeOK
<1>2. Taken = {} /\ Held = {} /\ Unheld = {} /\ PoolBlocks = {}
  BY DEF PoolInit, Taken, Held, Unheld, PoolBlocks
<1>3. List(free_list, mem, Unheld)
  BY <1>2, EmptyList DEF PoolInit
<1>4. CountersAddUp
  BY <1>2, FS_EmptySet, PoolAssumption DEF PoolInit, CountersAddUp, Held
<1> QED
  BY <1>1, <1>2, <1>3, <1>4, FS_EmptySet DEF PoolInit, PoolInv, Held

LEMMA Growing ==
  ASSUME PoolInv, NEW s \in Slabs \ slabs, GrowPool(s), free_list = Null
  PROVE  /\ Unheld = {} /\ Held = PoolBlocks
         /\ IsFiniteSet(slabs') /\ total_blocks' = BlocksPerSlab * Cardinality(slabs')
         /\ PoolBlocks' = PoolBlocks \cup ({s} \X (1..BlocksPerSlab))
         /\ PoolBlocks \cap ({s} \X (1..BlocksPerSlab)) = {}
         /\ List(Top(s), mem', {s} \X (1..BlocksPerSlab))
         /\ Top(s) \in {s} \X (1..BlocksPerSlab)
         /\ slabs' \subseteq Slabs /\ total_blocks' \in Nat /\ mem' \in [Blocks -> Blocks \cup {Null, Data}]
         /\ \A b \in PoolBlocks : mem'[b] = mem[b]
<1>1. BlocksPerSlab \in Nat \ {0}
  BY PoolAssumption
<1>2. Unheld = {}
  BY NoHead, NullIsNoBlock DEF PoolInv, Unheld, PoolBlocks, Blocks, PoolTypeOK
<1>3. Held = PoolBlocks
  BY <1>2 DEF PoolInv, Unheld, Held
<1>4. IsFiniteSet(slabs') /\ Cardinality(slabs') = Cardinality(slabs) + 1 /\ Cardinality(slabs) \in Nat
  BY FS_AddElement, FS_CardinalityType DEF PoolInv, GrowPool
<1>5. total_blocks' = BlocksPerSlab * Cardinality(slabs')
  BY <1>1, <1>4 DEF PoolInv, CountersAddUp, GrowPool
<1>6. PoolBlocks' = PoolBlocks \cup ({s} \X (1..BlocksPerSlab)) /\ PoolBlocks \cap ({s} \X (1..BlocksPerSlab)) = {}
  BY DEF GrowPool, PoolBlocks
<1>7. List(Top(s), mem', {s} \X (1..BlocksPerSlab))
  BY SlabIsList DEF GrowPool
<1>8. Top(s) \in {s} \X (1..BlocksPerSlab)
  BY <1>1 DEF Top
<1>9. slabs' \subseteq Slabs /\ total_blocks' \in Nat
  BY <1>1 DEF PoolInv, PoolTypeOK, GrowPool
<1>10. mem' \in [Blocks -> Blocks \cup {Null, Data}]
  <2> SUFFICES ASSUME NEW b \in Blocks
               PROVE  Threaded(s)[b] \in Blocks \cup {Null, Data}
    BY DEF GrowPool, Threaded
  <2>1. CASE b[1] # s
    BY <2>1 DEF Threaded, PoolInv, PoolTypeOK
  <2>2. CASE b[1] = s /\ b[2] = 1
    BY <2>2 DEF Threaded
  <2>3. CASE b[1] = s /\ b[2] # 1
    <3>1. b[2] - 1 \in 1..BlocksPerSlab
      BY <2>3, <1>1 DEF Blocks
    <3> QED
      BY <2>3, <3>1 DEF Threaded, Blocks
  <2> QED
    BY <2>1, <2>2, <2>3
<1>11. \A b \in PoolBlocks : mem'[b] = mem[b]
  BY DEF PoolInv, PoolTypeOK, PoolBlocks, Blocks, GrowPool, Threaded
<1> QED
  BY <1>2, <1>3, <1>4, <1>5, <1>6, <1>7, <1>8, <1>9, <1>10, <1>11

LEMMA CreateKeeps ==
  ASSUME PoolInv, CreatePool
  PROVE  PoolInv'
<1>1. slabs = {} /\ Held = {} /\ Unheld = {}
  BY DEF CreatePool, PoolInv, Held, Unheld, PoolBlocks
<1>2. free_list = Null
  BY <1>1, ListPop DEF PoolInv
<1>3. PICK s \in Slabs : GrowPool(s) /\ free_list' = Top(s)
  BY DEF CreatePool
<1>4. s \in Slabs \ slabs
  BY <1>1
<1>5. Taken' = Taken /\ Held' = Held
  BY DEF CreatePool, Taken, Held
<1>6. Unheld' = {s} \X (1..BlocksPerSlab)
  BY <1>1, <1>2, <1>3, <1>4, <1>5, Growing DEF Unheld, Held, PoolBlocks
<1>7. PoolTypeOK'
  <2>1. free_list' \in Blocks
    BY <1>2, <1>3, <1>4, PoolAssumption DEF Top, Blocks
  <2> QED
    BY <2>1, <1>2, <1>3, <1>4, Growing DEF PoolTypeOK, PoolInv, CreatePool, counters
<1>8. List(free_list', mem', Unheld')
  BY <1>2, <1>3, <1>4, <1>6, Growing
<1>9. CountersAddUp'
  <2>1. used_blocks = 0
    BY <1>1, FS_EmptySet DEF PoolInv, CountersAddUp, Held
  <2>2. peak_blocks = 0
    BY <1>1, FS_EmptySet, PoolAssumption DEF PoolInv, CountersAddUp, PoolTypeOK
  <2>3. Cardinality(owned' \cup Taken') = 0
    BY <1>1, <1>5, FS_EmptySet DEF Held
  <2>4. total_blocks' = BlocksPerSlab * Cardinality(slabs') /\ total_blocks' \in Nat
    BY <1>2, <1>3, <1>4, Growing
  <2>5. alloc_count = free_count + used_blocks /\ UNCHANGED <<used_blocks, peak_blocks, alloc_count, free_count>>
    BY DEF PoolInv, CountersAddUp, CreatePool, counters
  <2> QED
    BY <2>1, <2>2, <2>3, <2>4, <2>5 DEF CountersAddUp
<1> QED
  BY <1>1, <1>2, <1>3, <1>4, <1>5, <1>7, <1>8, <1>9, Growing DEF PoolInv, CreatePool, Held

LEMMA DestroyKeeps ==
  ASSUME PoolInv, DestroyPool
  PROVE  PoolInv'
<1>1. Taken' = {} /\ Held' = {} /\ Unheld' = {} /\ PoolBlocks' = {}
  BY DEF DestroyPool, Taken, Held, Unheld, PoolBlocks
<1>2. PoolTypeOK'
  BY DEF PoolInv, PoolTypeOK, DestroyPool
<1>3. CountersAddUp'
  BY <1>1, FS_EmptySet, PoolAssumption DEF DestroyPool, CountersAddUp, Held
<1>4. List(free_list', mem', Unheld')
  BY <1>1, EmptyList DEF DestroyPool
<1> QED
  BY <1>1, <1>2, <1>3, <1>4, FS_EmptySet DEF PoolInv, DestroyPool

(* The counters, when one more block is held and there is room for it.       *)
LEMMA CountAlloc ==
  ASSUME PoolInv, PoolTypeOK', IsFiniteSet(slabs'), Held' \subseteq PoolBlocks',
         NEW b, b \notin Held, Held' = Held \cup {b},
         total_blocks' = BlocksPerSlab * Cardinality(slabs'), total_blocks <= total_blocks',
         used_blocks' = used_blocks + 1, alloc_count' = alloc_count + 1, free_count' = free_count,
         peak_blocks' = IF used_blocks + 1 > peak_blocks THEN used_blocks + 1 ELSE peak_blocks
  PROVE  CountersAddUp'
<1>1. IsFiniteSet(Held) /\ Cardinality(Held) \in Nat
  BY HeldFits DEF PoolInv
<1>2. Cardinality(Held') = Cardinality(Held) + 1
  BY <1>1, FS_AddElement
<1>3. Cardinality(Held') <= total_blocks'
  <2>1. IsFiniteSet(PoolBlocks') /\ Cardinality(PoolBlocks') = BlocksPerSlab * Cardinality(slabs')
    BY SlabSizes DEF PoolBlocks
  <2>2. Cardinality(Held') <= Cardinality(PoolBlocks')
    BY <2>1, FS_Subset
  <2> QED
    BY <2>1, <2>2
<1> QED
  BY <1>1, <1>2, <1>3 DEF PoolInv, CountersAddUp, Held, PoolTypeOK

LEMMA AllocKeeps ==
  ASSUME PoolInv, NEW t \in Users, Alloc(t)
  PROVE  PoolInv'
<1> DEFINE b == free_list
<1>1. /\ b \in Unheld /\ b \in Blocks /\ b \notin Held
      /\ List(mem[b], mem, Unheld \ {b})
  <2>1. b # Null /\ List(b, mem, Unheld)
    BY DEF Alloc, PoolInv
  <2>2. b \in Unheld /\ List(mem[b], mem, Unheld \ {b})
    BY <2>1, ListPop
  <2> QED
    BY <2>1, <2>2 DEF PoolInv, PoolTypeOK, Unheld, Held
<1>2. Taken' = Taken \cup {b} /\ Held' = Held \cup {b} /\ PoolBlocks' = PoolBlocks
  BY <1>1, TakenGains DEF PoolInv, Alloc, CanAlloc, Unlink, Held, PoolBlocks
<1>3. Unheld' = Unheld \ {b}
  BY <1>2 DEF Unheld, Held
<1>4. List(free_list', mem', Unheld')
  BY <1>1, <1>3 DEF Alloc, Unlink
<1>5. PoolTypeOK'
  <2>1. mem[b] \in Links
    BY <1>1 DEF List, IsWalk, Links
  <2> QED
    BY <1>1, <2>1 DEF PoolInv, PoolTypeOK, Alloc, Unlink, Links
<1>6. CountersAddUp'
  <2>1. IsFiniteSet(slabs') /\ Held' \subseteq PoolBlocks'
    BY <1>1, <1>2 DEF Alloc, PoolInv, Unheld
  <2>2. total_blocks' = BlocksPerSlab * Cardinality(slabs') /\ total_blocks <= total_blocks'
    BY <1>5 DEF Alloc, PoolInv, CountersAddUp, PoolTypeOK
  <2> QED
    BY <2>1, <2>2, <1>1, <1>2, <1>5, CountAlloc DEF Alloc, Unlink
<1>7. \A v, u \in Users : v # u /\ taken'[v] # Null => taken'[v] # taken'[u]
  BY <1>1, HoldersDistinct DEF Alloc, Unlink, PoolInv, Links, Held
<1> QED
  BY <1>1, <1>2, <1>4, <1>5, <1>6, <1>7 DEF PoolInv, Alloc, Unlink, CanAlloc, Held, Unheld

LEMMA AllocGrowKeeps ==
  ASSUME PoolInv, NEW t \in Users, AllocGrow(t)
  PROVE  PoolInv'
<1>1. PICK s \in Slabs \ slabs : GrowPool(s) /\ Unlink(t, Top(s), mem')
  BY DEF AllocGrow
<1>2. free_list = Null /\ taken[t] = Null /\ created
  BY DEF AllocGrow, CanAlloc
<1> DEFINE b == Top(s)
           fresh == {s} \X (1..BlocksPerSlab)
<1>3. /\ Held = PoolBlocks
      /\ IsFiniteSet(slabs') /\ total_blocks' = BlocksPerSlab * Cardinality(slabs')
      /\ PoolBlocks' = PoolBlocks \cup fresh /\ PoolBlocks \cap fresh = {}
      /\ List(b, mem', fresh) /\ b \in fresh
      /\ slabs' \subseteq Slabs /\ total_blocks' \in Nat /\ mem' \in [Blocks -> Blocks \cup {Null, Data}]
  BY <1>1, <1>2, Growing
<1> HIDE DEF fresh, b
<1>4. b \in Blocks /\ b \notin Held /\ b # Null
  <2>1. b \in Blocks
    BY <1>3 DEF fresh, Blocks
  <2> QED
    BY <2>1, <1>3, NullIsNoBlock
<1>5. List(mem'[b], mem', fresh \ {b})
  BY <1>3, <1>4, ListPop
<1>6. Taken' = Taken \cup {b} /\ Held' = Held \cup {b}
  BY <1>1, <1>2, <1>4, TakenGains DEF PoolInv, Unlink, Held, b
<1>7. Unheld' = fresh \ {b}
  BY <1>3, <1>6 DEF Unheld, Held
<1>8. List(free_list', mem', Unheld')
  BY <1>1, <1>5, <1>7 DEF Unlink, b
<1>9. PoolTypeOK'
  <2>1. mem'[b] \in Links
    BY <1>5 DEF List, IsWalk, Links
  <2>2. free_list' \in Links /\ taken' \in [Users -> Links]
    BY <2>1, <1>1, <1>4 DEF Unlink, PoolInv, PoolTypeOK, Links, b
  <2> QED
    BY <2>2, <1>1, <1>3 DEF PoolInv, PoolTypeOK, Unlink, Links
<1>10. CountersAddUp'
  <2>1. Held' \subseteq PoolBlocks'
    BY <1>3, <1>6
  <2>2. total_blocks <= total_blocks'
    BY <1>1, PoolAssumption DEF GrowPool, PoolInv, PoolTypeOK
  <2> QED
    BY <1>1, <1>3, <1>4, <1>6, <1>9, <2>1, <2>2, CountAlloc DEF Unlink
<1>11. \A v, u \in Users : v # u /\ taken'[v] # Null => taken'[v] # taken'[u]
  BY <1>1, <1>4, HoldersDistinct DEF Unlink, PoolInv, Links, Held, b
<1>12. owned' \cap Taken' = {} /\ Held' \subseteq PoolBlocks' /\ created'
  BY <1>1, <1>2, <1>3, <1>4, <1>6 DEF Unlink, PoolInv, Held
<1> QED
  BY <1>3, <1>8, <1>9, <1>10, <1>11, <1>12 DEF PoolInv

LEMMA AllocFailsKeeps ==
  ASSUME PoolInv, NEW t \in Users, AllocFails(t)
  PROVE  PoolInv'
<1>1. PoolTypeOK'
  BY DEF PoolInv, PoolTypeOK, AllocFails, list
<1>2. Taken' = Taken /\ Held' = Held /\ PoolBlocks' = PoolBlocks /\ Unheld' = Unheld
  BY DEF AllocFails, list, Taken, Held, PoolBlocks, Unheld
<1>3. UNCHANGED <<created, slabs, free_list, mem, total_blocks, used_blocks, peak_blocks, alloc_count,
                  free_count, taken, owned>>
  BY DEF AllocFails, list
<1> QED
  BY <1>1, <1>2, <1>3 DEF PoolInv, CountersAddUp

LEMMA ZeroKeeps ==
  ASSUME PoolInv, NEW t \in Users, Zero(t)
  PROVE  PoolInv'
<1> DEFINE b == taken[t]
<1>1. b \in Taken /\ b \in Blocks /\ b \in Held
  BY DEF Zero, PoolInv, PoolTypeOK, Taken, Held
<1>2. Taken' = Taken \ {b}
  BY TakenLoses DEF Zero, PoolInv
<1>3. Held' = Held /\ owned' \cup Taken' = owned \cup Taken
  BY <1>1, <1>2 DEF Held, Zero
<1>4. PoolBlocks' = PoolBlocks /\ Unheld' = Unheld
  BY <1>3 DEF PoolBlocks, Unheld, Zero
<1>5. PoolTypeOK'
  BY <1>1 DEF PoolInv, PoolTypeOK, Zero, counters
<1>6. List(free_list', mem', Unheld')
  <2>1. \A d \in Unheld : mem'[d] = mem[d]
    BY <1>1 DEF Unheld, Held, Zero, PoolInv, PoolTypeOK, PoolBlocks, Blocks
  <2> QED
    BY <2>1, <1>4, ListUntouched DEF PoolInv, Zero
<1>7. CountersAddUp'
  BY <1>3 DEF PoolInv, CountersAddUp, Zero, counters
<1>8. \A v, u \in Users : v # u /\ taken'[v] # Null => taken'[v] # taken'[u]
  <2>1. Null \notin Taken
    BY DEF Taken
  <2> QED
    BY <2>1, HoldersDistinct DEF Zero, PoolInv, Links
<1> QED
  BY <1>1, <1>2, <1>3, <1>4, <1>5, <1>6, <1>7, <1>8 DEF PoolInv, Zero

LEMMA UseKeeps ==
  ASSUME PoolInv, NEW b \in Blocks, Use(b)
  PROVE  PoolInv'
<1>1. Taken' = Taken /\ Held' = Held /\ PoolBlocks' = PoolBlocks /\ Unheld' = Unheld
  BY DEF Use, Taken, Held, PoolBlocks, Unheld
<1>2. PoolTypeOK'
  BY DEF PoolInv, PoolTypeOK, Use, counters
<1>3. \A d \in Unheld : mem'[d] = mem[d]
  BY DEF Unheld, Use, PoolInv, PoolTypeOK, PoolBlocks, Blocks
<1>4. List(free_list', mem', Unheld')
  BY <1>1, <1>3, ListUntouched DEF PoolInv, Use
<1> QED
  BY <1>1, <1>2, <1>4 DEF PoolInv, CountersAddUp, Use, counters

LEMMA FreeKeeps ==
  ASSUME PoolInv, NEW b \in Blocks, Free(b)
  PROVE  PoolInv'
<1>1. b \in Held /\ b \notin Taken /\ b \notin Unheld /\ b \in PoolBlocks
  BY DEF Free, PoolInv, Held, Unheld
<1>2. Taken' = Taken /\ PoolBlocks' = PoolBlocks /\ Held' = Held \ {b}
  BY <1>1 DEF Free, Taken, Held, PoolBlocks
<1>3. Unheld' = Unheld \cup {b}
  BY <1>1, <1>2 DEF Unheld, Held
<1>4. Unheld \subseteq Blocks
  BY DEF PoolInv, PoolTypeOK, Unheld, PoolBlocks, Blocks
<1>5. mem'[b] = free_list /\ \A d \in Unheld : mem'[d] = mem[d]
  BY <1>1, <1>4 DEF Free, PoolInv, PoolTypeOK
<1>6. List(free_list', mem', Unheld')
  BY <1>1, <1>3, <1>5, ListPush DEF PoolInv, Free
<1>7. IsFiniteSet(Held) /\ Cardinality(Held) \in Nat
  BY HeldFits DEF PoolInv
<1>8. Cardinality(Held') = Cardinality(Held) - 1 /\ Cardinality(Held') \in Nat
  <2>1. IsFiniteSet(Held') /\ Cardinality(Held') = Cardinality(Held) - 1
    BY <1>1, <1>2, <1>7, FS_RemoveElement
  <2> QED
    BY <2>1, FS_CardinalityType
<1>9. used_blocks > 0 /\ used_blocks' = used_blocks - 1
  BY <1>7, <1>8 DEF Free, PoolInv, PoolTypeOK, CountersAddUp, Held
<1>10. PoolTypeOK'
  BY <1>9 DEF PoolInv, PoolTypeOK, Free
<1>11. CountersAddUp'
  <2>1. used_blocks' = Cardinality(owned' \cup Taken')
    BY <1>8, <1>9 DEF Held, PoolInv, CountersAddUp
  <2> QED
    BY <2>1, <1>9 DEF PoolInv, PoolTypeOK, CountersAddUp, Free
<1> QED
  BY <1>1, <1>2, <1>6, <1>10, <1>11 DEF PoolInv, Free

LEMMA InvNext == PoolInv /\ [PoolNext]_poolVars => PoolInv'
<1> SUFFICES ASSUME PoolInv, [PoolNext]_poolVars PROVE PoolInv'
  OBVIOUS
<1>1. CASE CreatePool \/ DestroyPool
  BY <1>1, CreateKeeps, DestroyKeeps
<1>2. CASE \E t \in Users : Alloc(t) \/ AllocGrow(t) \/ AllocFails(t) \/ Zero(t)
  BY <1>2, AllocKeeps, AllocGrowKeeps, AllocFailsKeeps, ZeroKeeps
<1>3. CASE \E b \in Blocks : Use(b) \/ Free(b)
  BY <1>3, UseKeeps, FreeKeeps
<1>4. CASE UNCHANGED poolVars
  <2>1. UNCHANGED <<created, slabs, free_list, mem, total_blocks, used_blocks, peak_blocks, alloc_count,
                    free_count, alloc_failures, taken, owned>>
    BY <1>4 DEF poolVars, list, counters
  <2>2. Taken' = Taken /\ PoolBlocks' = PoolBlocks
    BY <2>1 DEF Taken, PoolBlocks
  <2>3. Held' = Held /\ Unheld' = Unheld
    BY <2>1, <2>2 DEF Held, Unheld
  <2> QED
    BY <2>1, <2>2, <2>3 DEF PoolInv, PoolTypeOK, CountersAddUp
<1> QED
  BY <1>1, <1>2, <1>3, <1>4 DEF PoolNext

-----------------------------------------------------------------------------
(* From the list to the chain that following the links computes: the walk    *)
(* satisfies the chain's equation, and nothing else does.                    *)

LEMMA ChainIsWalk ==
  ASSUME PoolInv, NEW n, NEW c, IsWalk(c, n, free_list, mem, Unheld), n <= Cardinality(PoolBlocks),
         Cardinality(PoolBlocks) \in Nat
  PROVE  \A k \in 0..n : FreeChain[k] = c[k+1]
<1> DEFINE size == Cardinality(PoolBlocks)
           Def(b, k) == IF k = 0 THEN free_list
                        ELSE IF b[k-1] \in Blocks THEN mem[b[k-1]] ELSE b[k-1]
           w == [k \in 0..size |-> IF k < n THEN c[k+1] ELSE Null]
<1>1. n \in Nat /\ c \in [1..(n+1) -> Links] /\ size \in Nat
  BY DEF IsWalk
<1>2. Unheld \subseteq Blocks
  BY DEF PoolInv, PoolTypeOK, Unheld, PoolBlocks, Blocks
<1>3. \A k \in 0..size : w[k] = Def(w, k)
  <2> TAKE k \in 0..size
  <2>1. CASE k = 0
    BY <2>1, <1>1 DEF IsWalk
  <2>2. CASE k # 0 /\ k - 1 < n
    <3>1. k \in 1..n /\ k - 1 \in 0..size /\ w[k-1] = c[k]
      BY <2>2, <1>1
    <3>2. c[k] \in Blocks /\ c[k+1] = mem[c[k]]
      BY <3>1, <1>2 DEF IsWalk
    <3>3. w[k] = c[k+1]
      BY <3>1, <1>1 DEF IsWalk
    <3> QED
      BY <2>2, <3>1, <3>2, <3>3
  <2>3. CASE k # 0 /\ ~(k - 1 < n)
    <3>1. k - 1 \in 0..size /\ w[k-1] = Null /\ w[k] = Null
      BY <2>3, <1>1
    <3> QED
      BY <2>3, <3>1, NullIsNoBlock
  <2> QED
    BY <2>1, <2>2, <2>3
<1>4. w = [k \in 0..size |-> Def(w, k)]
  BY <1>3
<1>5. FreeChain = [k \in 0..size |-> Def(FreeChain, k)]
  BY <1>4 DEF FreeChain
<1>6. \A k \in 0..size : FreeChain[k] = Def(FreeChain, k)
  BY <1>5
<1> HIDE DEF w
<1> DEFINE same == {k \in Nat : k <= n => FreeChain[k] = c[k+1]}
<1>7. 0 \in same
  BY <1>1, <1>6 DEF IsWalk
<1>8. ASSUME NEW k \in Nat, k \in same
      PROVE  k + 1 \in same
  <2> SUFFICES ASSUME k + 1 <= n
               PROVE  FreeChain[k+1] = c[(k+1)+1]
    OBVIOUS
  <2>1. k + 1 \in 0..size /\ k + 1 # 0 /\ (k + 1) - 1 = k /\ FreeChain[k] = c[k+1] /\ k + 1 \in 1..n
    BY <1>1, <1>8
  <2>2. c[k+1] \in Blocks /\ c[(k+1)+1] = mem[c[k+1]]
    BY <2>1, <1>2 DEF IsWalk
  <2> QED
    BY <2>1, <2>2, <1>6
<1>9. Nat \subseteq same
  BY <1>7, <1>8, EveryNatural
<1> QED
  BY <1>1, <1>9

LEMMA WalkCounts ==
  ASSUME NEW n, NEW c, NEW head, NEW links, NEW S, IsWalk(c, n, head, links, S)
  PROVE  n \in Nat /\ Cardinality(S) = n
<1> DEFINE e == [k \in 1..n |-> c[k]]
<1>1. n \in Nat
  BY DEF IsWalk
<1>2. \A k \in 1..n : e[k] = c[k]
  OBVIOUS
<1>3. e \in [1..n -> S]
  BY DEF IsWalk
<1> HIDE DEF e
<1>4. e \in Bijection(1..n, S)
  BY <1>1, <1>2, <1>3 DEF IsWalk, Bijection, Injection, IsInjective, Surjection
<1>5. ExistsBijection(1..n, S)
  BY <1>4 DEF ExistsBijection
<1> QED
  BY <1>1, <1>5, FS_CountingElements

LEMMA ListIsIntact == PoolInv => FreeListIntact
<1> SUFFICES ASSUME PoolInv PROVE FreeListIntact
  OBVIOUS
<1>1. PICK n, c : IsWalk(c, n, free_list, mem, Unheld)
  BY DEF PoolInv, List
<1>2. n \in Nat /\ Cardinality(Unheld) = n
  BY <1>1, WalkCounts
<1>3. IsFiniteSet(PoolBlocks) /\ Cardinality(PoolBlocks) \in Nat
  BY SlabSizes, FS_CardinalityType DEF PoolInv, PoolBlocks
<1>4. n <= Cardinality(PoolBlocks)
  <2>1. Unheld \subseteq PoolBlocks
    BY DEF Unheld
  <2> QED
    BY <2>1, <1>2, <1>3, FS_Subset
<1>5. \A k \in 0..n : FreeChain[k] = c[k+1]
  BY <1>1, <1>3, <1>4, ChainIsWalk
<1>6. {FreeChain[k] : k \in 0..(n-1)} = Unheld
  <2>1. \A k \in 0..(n-1) : k + 1 \in 1..n /\ k \in 0..n
    BY <1>2
  <2>2. \A k \in 1..n : k - 1 \in 0..(n-1) /\ (k - 1) + 1 = k
    BY <1>2
  <2>3. \A k \in 0..(n-1) : FreeChain[k] \in Unheld
    BY <2>1, <1>1, <1>5 DEF IsWalk
  <2>4. \A b \in Unheld : \E k \in 0..(n-1) : FreeChain[k] = b
    <3> TAKE b \in Unheld
    <3>1. PICK k \in 1..n : c[k] = b
      BY <1>1 DEF IsWalk
    <3>2. FreeChain[k-1] = b /\ k - 1 \in 0..(n-1)
      BY <3>1, <2>1, <2>2, <1>5
    <3> QED
      BY <3>2
  <2> QED
    BY <2>3, <2>4
<1>7. FreeChain[n] = Null
  BY <1>1, <1>2, <1>5 DEF IsWalk
<1> QED
  BY <1>2, <1>6, <1>7 DEF FreeListIntact, Unheld, PoolInv

(* Nobody but its owner writes to a block.                                   *)
LEMMA StepIsPrivate ==
  ASSUME PoolInv, [PoolNext]_poolVars, NEW b \in Blocks
  PROVE  /\ b \in owned' \ owned => mem'[b] = Null
         /\ b \in owned \cap owned' => mem'[b] \in {mem[b], Data}
<1>1. CASE CreatePool
  <2>1. owned = {} /\ owned' = {}
    BY <1>1 DEF CreatePool, PoolInv, Held, PoolBlocks
  <2> QED
    BY <2>1
<1>2. CASE DestroyPool
  BY <1>2 DEF DestroyPool
<1>3. ASSUME NEW t \in Users, Alloc(t) \/ AllocFails(t)
      PROVE  mem' = mem /\ owned' = owned
  BY <1>3 DEF Alloc, Unlink, AllocFails, list
<1>4. ASSUME NEW t \in Users, AllocGrow(t)
      PROVE  owned' = owned /\ (b \in owned => mem'[b] = mem[b])
  <2>1. PICK s \in Slabs \ slabs : GrowPool(s) /\ Unlink(t, Top(s), mem')
    BY <1>4 DEF AllocGrow
  <2>2. \A d \in PoolBlocks : mem'[d] = mem[d]
    BY <1>4, <2>1, Growing DEF AllocGrow
  <2> QED
    BY <2>1, <2>2 DEF Unlink, PoolInv, Held
<1>5. ASSUME NEW t \in Users, Zero(t)
      PROVE  /\ b \in owned' \ owned => mem'[b] = Null
             /\ b \in owned \cap owned' => mem'[b] = mem[b]
  <2>1. taken[t] \in Taken /\ taken[t] \in Blocks
    BY <1>5 DEF Zero, Taken, PoolInv, PoolTypeOK
  <2> QED
    BY <1>5, <2>1 DEF Zero, PoolInv, PoolTypeOK
<1>6. ASSUME NEW d \in Blocks, Use(d) \/ Free(d)
      PROVE  owned' \subseteq owned /\ (b \in owned' => mem'[b] \in {mem[b], Data})
  BY <1>6 DEF Use, Free, PoolInv, PoolTypeOK
<1>7. CASE UNCHANGED poolVars
  BY <1>7 DEF poolVars, list
<1> QED
  BY <1>1, <1>2, <1>3, <1>4, <1>5, <1>6, <1>7 DEF PoolNext

-----------------------------------------------------------------------------
(* The invariant: one holder for each block that is out, a list of the rest. *)
THEOREM PoolInvHolds == PoolSpec => []PoolInv
  BY InvInit, InvNext, PTL DEF PoolSpec

(* The counters and the blocks of the pool keep their types.                 *)
THEOREM TypeCorrect == PoolSpec => []PoolTypeOK
<1>1. PoolInv => PoolTypeOK
  BY DEF PoolInv
<1> QED
  BY <1>1, PoolInvHolds, PTL

(* No block is lost, handed out twice, or on the list while somebody has it. *)
THEOREM FreeListStaysIntact == PoolSpec => []FreeListIntact
  BY ListIsIntact, PoolInvHolds, PTL

(* The statistics agree with each other and with the blocks that are out.    *)
THEOREM CountersStayRight == PoolSpec => []CountersAddUp
<1>1. PoolInv => CountersAddUp
  BY DEF PoolInv
<1> QED
  BY <1>1, PoolInvHolds, PTL

(* A block reaches its caller zeroed, and until it is freed nobody else      *)
(* writes to it, though blocks are zeroed without the mutex.                 *)
THEOREM BlocksArePrivate == PoolSpec => OwnedIsPrivate
<1>1. PoolInv /\ [PoolNext]_poolVars
        => [\A b \in Blocks :
              /\ b \in owned' \ owned => mem'[b] = Null
              /\ b \in owned \cap owned' => mem'[b] \in {mem[b], Data}]_poolVars
  BY StepIsPrivate
<1> QED
  BY <1>1, PoolInvHolds, PTL DEF PoolSpec, OwnedIsPrivate
=============================================================================
