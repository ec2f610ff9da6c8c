--------------------------- MODULE HashTable_proofs ---------------------------
(* For any keys, values, hash function and capacities: every node is found   *)
(* in the bucket of its hash, and the table is a map.                        *)
EXTENDS HashTable, FiniteSetTheorems, WellFoundedInduction, TLAPS

-----------------------------------------------------------------------------
(* Induction, from the order of the naturals being well founded.             *)

LEMMA LeastNatural ==
  ASSUME NEW S, S \subseteq Nat, S # {}
  PROVE  \E n \in S : \A m \in S : n <= m
<1> DEFINE R == {p \in Nat \X Nat : p[1] < p[2]}
<1>1. R = OpToRel(<, Nat)
  BY Zenon DEF OpToRel
<1>2. IsWellFoundedOn(R, Nat)
  BY <1>1, NatLessThanWellFounded, Zenon
<1> HIDE DEF R
<1>3. PICK n \in S : \A m \in S : <<m, n>> \notin R
  BY <1>2, WFMin, Zenon
<1>4. \A m \in S : ~ (m < n)
  BY <1>3 DEF R
<1> QED
  BY <1>4

LEMMA EveryNatural ==
  ASSUME NEW S, 0 \in S, \A n \in Nat : n \in S => n + 1 \in S
  PROVE  Nat \subseteq S
<1> DEFINE missing == {n \in Nat : n \notin S}
<1>1. ASSUME missing # {} PROVE FALSE
  <2>1. PICK n \in missing : \A m \in missing : n <= m
    BY <1>1, LeastNatural
  <2>2. n # 0 /\ n - 1 \in Nat /\ n - 1 \notin missing
    BY <2>1
  <2> QED
    BY <2>1, <2>2
<1> QED
  BY <1>1

-----------------------------------------------------------------------------
(* Capacities.  Trial division by the odd numbers up to the root finds every *)
(* divisor: of two factors of an odd number one is in that range.            *)

LEMMA ProductOfOdds ==
  ASSUME NEW n \in Nat, NEW d \in Nat, NEW q \in Nat, n = d * q, n % 2 # 0
  PROVE  d % 2 = 1 /\ q % 2 = 1
<1>1. ASSUME NEW a \in Nat, NEW b \in Nat, n = a * b, a % 2 = 0
      PROVE  FALSE
  <2>1. PICK h \in Nat : a = 2 * h
    BY <1>1
  <2>2. n = 2 * (h * b) /\ h * b \in Nat
    BY <1>1, <2>1
  <2> DEFINE p == h * b
  <2> HIDE DEF p
  <2>3. n = 2 * p /\ p \in Nat
    BY <2>2 DEF p
  <2> QED
    BY <2>3
<1>2. n = q * d
  OBVIOUS
<1>3. d % 2 # 0 /\ q % 2 # 0
  BY <1>1, <1>2
<1>4. \A k \in Nat : k % 2 # 0 => k % 2 = 1
  OBVIOUS
<1> QED
  BY <1>3, <1>4

LEMMA Division ==
  ASSUME NEW n \in Nat, NEW d \in Nat, d > 0
  PROVE  n \div d \in Nat /\ n = d * (n \div d) + (n % d) /\ n % d \in 0..(d-1)
<1>1. n \div d \in Int /\ n \div d >= 0
  OBVIOUS
<1>2. n = d * (n \div d) + (n % d)
  OBVIOUS
<1>3. n % d \in 0..(d-1)
  OBVIOUS
<1> QED
  BY <1>1, <1>2, <1>3

LEMMA Multiple ==
  ASSUME NEW n \in Nat, NEW d \in Nat, d > 0, NEW q \in Nat, n = q * d
  PROVE  n % d = 0
  OBVIOUS

LEMMA TrialDivision ==
  ASSUME NEW n \in Nat, IsPrime(n)
  PROVE  n > 1 /\ \A d \in 2..(n - 1) : n % d # 0
<1>1. n >= 2
  BY DEF IsPrime
<1>2. CASE n % 2 = 0
  BY <1>1, <1>2 DEF IsPrime
<1>3. ASSUME n % 2 # 0, NEW d \in 2..(n - 1), n % d = 0
      PROVE  FALSE
  <2>1. \A i \in 3..n : i % 2 = 1 /\ i * i <= n => n % i # 0
    BY <1>3 DEF IsPrime
  <2>2. d \in Nat /\ d > 0 /\ d >= 2 /\ d < n
    BY <1>3
  <2> DEFINE q == n \div d
  <2>3. q \in Nat /\ n = d * q
    BY <1>3, <2>2, Division
  <2> HIDE DEF q
  <2>4. d % 2 = 1 /\ q % 2 = 1
    BY <1>3, <2>2, <2>3, ProductOfOdds
  <2>5. q # 1
    BY <2>2, <2>3
  <2>6. d >= 3 /\ q >= 3
    BY <2>2, <2>3, <2>4, <2>5
  <2>7. q <= n
    BY <2>2, <2>3, <2>6
  <2>8. n % q = 0
    BY <2>2, <2>3, <2>6, Multiple
  <2>9. d * d <= n \/ q * q <= n
    <3>1. CASE d <= q
      BY <2>2, <2>3, <3>1
    <3>2. CASE q <= d
      BY <2>2, <2>3, <3>2
    <3> QED
      BY <2>2, <2>3, <3>1, <3>2
  <2>10. d \in 3..n /\ q \in 3..n
    BY <2>2, <2>3, <2>6, <2>7
  <2>11. n % d # 0 \/ n % q # 0
    <3>1. d * d <= n => n % d # 0
      BY <2>1, <2>4, <2>10
    <3>2. q * q <= n => n % q # 0
      BY <2>1, <2>4, <2>10
    <3> QED
      BY <2>9, <3>1, <3>2
  <2> QED
    BY <1>3, <2>8, <2>11
<1>4. n > 1
  BY <1>1
<1> QED
  BY <1>2, <1>3, <1>4

LEMMA NextPrimeIsPrime ==
  ASSUME NEW n \in Nat, MayFit(n)
  PROVE  /\ NextPrime(n) \in Nat /\ NextPrime(n) > 1
         /\ \A d \in 2..(NextPrime(n) - 1) : NextPrime(n) % d # 0
<1> DEFINE ps == Primes(n)
<1>1. ps \subseteq Nat /\ \A m \in ps : IsPrime(m)
  BY HashAssumption DEF Primes
<1> HIDE DEF ps
<1>2. ps # {}
  BY DEF MayFit, ps
<1>3. \E m \in ps : \A k \in ps : m <= k
  BY <1>1, <1>2, LeastNatural
<1>4. NextPrime(n) \in ps
  BY <1>3 DEF NextPrime, Min, ps
<1> QED
  BY <1>1, <1>4, TrialDivision

-----------------------------------------------------------------------------
(* Chains: sequences of nodes, no key twice.                                 *)

Node == Keys \X Values

IsChain(chain) ==
  /\ chain \in Seq(Node)
  /\ \A i, j \in 1..Len(chain) : i # j => chain[i][1] # chain[j][1]

LEMMA ChainElements ==
  ASSUME NEW chain, IsChain(chain)
  PROVE  /\ ToSet(chain) = {chain[i] : i \in 1..Len(chain)} /\ DOMAIN chain = 1..Len(chain)
         /\ Len(chain) \in Nat /\ ToSet(chain) \subseteq Node
         /\ \A x, y \in ToSet(chain) : x[1] = y[1] => x = y
<1>1. chain \in Seq(Node) /\ DOMAIN chain = 1..Len(chain) /\ Len(chain) \in Nat
  BY DEF IsChain
<1>2. ToSet(chain) = {chain[i] : i \in 1..Len(chain)}
  BY <1>1 DEF ToSet
<1>3. ToSet(chain) \subseteq Node
  BY <1>1, <1>2
<1>4. \A x, y \in ToSet(chain) : x[1] = y[1] => x = y
  BY <1>2 DEF IsChain
<1> QED
  BY <1>1, <1>2, <1>3, <1>4

LEMMA EmptyChain == IsChain(<<>>) /\ ToSet(<<>>) = {}
  BY DEF IsChain, ToSet

LEMMA PushNode ==
  ASSUME NEW chain, IsChain(chain), NEW x \in Node, \A y \in ToSet(chain) : y[1] # x[1]
  PROVE  IsChain(<<x>> \o chain) /\ ToSet(<<x>> \o chain) = ToSet(chain) \cup {x}
<1> DEFINE new == <<x>> \o chain
           l == Len(chain)
<1>1. chain \in Seq(Node) /\ l \in Nat /\ ToSet(chain) = {chain[i] : i \in 1..l}
  BY ChainElements DEF IsChain
<1>2. /\ new \in Seq(Node) /\ Len(new) = l + 1 /\ new[1] = x /\ DOMAIN new = 1..(l+1)
      /\ \A i \in 2..(l+1) : new[i] = chain[i-1]
  BY <1>1
<1> HIDE DEF new
<1>3. \A i \in 1..(l+1) : i = 1 \/ (i \in 2..(l+1) /\ i - 1 \in 1..l)
  BY <1>1
<1>4. \A i \in 1..l : i + 1 \in 2..(l+1) /\ (i + 1) - 1 = i
  BY <1>1
<1>5. \A i \in 2..(l+1) : new[i] \in ToSet(chain)
  BY <1>1, <1>2, <1>3
<1>6. \A i, j \in 1..(l+1) : i # j => new[i][1] # new[j][1]
  <2> SUFFICES ASSUME NEW i \in 1..(l+1), NEW j \in 1..(l+1), i # j
               PROVE  new[i][1] # new[j][1]
    OBVIOUS
  <2>1. CASE i = 1
    BY <1>2, <1>3, <1>5, <2>1
  <2>2. CASE j = 1
    BY <1>2, <1>3, <1>5, <2>2
  <2>3. CASE i # 1 /\ j # 1
    <3>1. new[i] = chain[i-1] /\ new[j] = chain[j-1] /\ i - 1 \in 1..l /\ j - 1 \in 1..l /\ i - 1 # j - 1
      BY <1>2, <1>3, <2>3
    <3> QED
      BY <3>1 DEF IsChain
  <2> QED
    BY <2>1, <2>2, <2>3
<1>7. ToSet(new) = ToSet(chain) \cup {x}
  <2>1. ToSet(new) = {new[i] : i \in 1..(l+1)}
    BY <1>2 DEF ToSet
  <2>2. \A y \in ToSet(chain) : \E i \in 1..(l+1) : new[i] = y
    <3> TAKE y \in ToSet(chain)
    <3>1. PICK i \in 1..l : chain[i] = y
      BY <1>1
    <3>2. i + 1 \in 1..(l+1) /\ i + 1 \in 2..(l+1) /\ (i + 1) - 1 = i
      BY <1>1
    <3>3. new[i+1] = chain[(i+1)-1]
      BY <1>2, <3>2
    <3> QED
      BY <3>1, <3>2, <3>3
  <2>3. 1 \in 1..(l+1)
    BY <1>1
  <2> QED
    BY <1>2, <1>3, <1>5, <2>1, <2>2, <2>3
<1>8. IsChain(new)
  BY <1>2, <1>6 DEF IsChain
<1> QED
  BY <1>7, <1>8 DEF new

LEMMA ReplaceNode ==
  ASSUME NEW chain, IsChain(chain), NEW p \in 1..Len(chain), NEW x \in Node, x[1] = chain[p][1],
         NEW new \in Seq(Node), Len(new) = Len(chain), new[p] = x,
         \A i \in 1..Len(chain) : i # p => new[i] = chain[i]
  PROVE  IsChain(new) /\ ToSet(new) = (ToSet(chain) \ {chain[p]}) \cup {x}
<1> DEFINE l == Len(chain)
<1>1. chain \in Seq(Node) /\ l \in Nat /\ ToSet(chain) = {chain[i] : i \in 1..l}
  BY ChainElements DEF IsChain
<1>2. /\ Len(new) = l /\ DOMAIN new = 1..l
      /\ \A i \in 1..l : i # p => new[i] = chain[i]
  BY <1>1
<1>3. \A i \in 1..l : new[i][1] = chain[i][1]
  BY <1>2
<1>4. IsChain(new)
  BY <1>2, <1>3 DEF IsChain
<1>5. \A i \in 1..l : i # p => chain[i] # chain[p]
  BY DEF IsChain
<1>6. ToSet(new) = {new[i] : i \in 1..l}
  BY <1>2 DEF ToSet
<1>7. ToSet(new) = (ToSet(chain) \ {chain[p]}) \cup {x}
  BY <1>1, <1>2, <1>5, <1>6
<1> QED
  BY <1>4, <1>7

LEMMA RemoveNode ==
  ASSUME NEW chain, IsChain(chain), NEW p \in 1..Len(chain)
  PROVE  /\ IsChain(RemoveAt(chain, p))
         /\ ToSet(RemoveAt(chain, p)) = ToSet(chain) \ {chain[p]}
<1> DEFINE l == Len(chain)
           new == RemoveAt(chain, p)
<1>1. chain \in Seq(Node) /\ l \in Nat /\ ToSet(chain) = {chain[i] : i \in 1..l} /\ p \in Nat
  BY ChainElements DEF IsChain
<1>2. /\ new \in Seq(Node) /\ Len(new) = l - 1
      /\ \A i \in 1..(l-1) : new[i] = chain[IF i < p THEN i ELSE i + 1]
  <2> DEFINE front == SubSeq(chain, 1, p - 1)
             back == SubSeq(chain, p + 1, l)
  <2>1. front \in Seq(Node) /\ Len(front) = p - 1 /\ \A i \in 1..(p-1) : front[i] = chain[i]
    BY <1>1
  <2>2. back \in Seq(Node) /\ Len(back) = l - p /\ \A i \in 1..(l-p) : back[i] = chain[p+i]
    BY <1>1
  <2>3. new = front \o back
    BY DEF RemoveAt
  <2> HIDE DEF front, back, new
  <2>4. new \in Seq(Node) /\ Len(new) = (p - 1) + (l - p)
    <3>1. front \in Seq(Node) /\ back \in Seq(Node)
      BY <2>1, <2>2
    <3>2. front \o back \in Seq(Node) /\ Len(front \o back) = Len(front) + Len(back)
      BY <3>1
    <3> QED
      BY <2>1, <2>2, <2>3, <3>2
  <2>5. \A i \in 1..(l-1) : new[i] = IF i <= p - 1 THEN front[i] ELSE back[i - (p - 1)]
    BY <1>1, <2>1, <2>2, <2>3, <2>4
  <2>6. ASSUME NEW i \in 1..(l-1) PROVE new[i] = chain[IF i < p THEN i ELSE i + 1]
    <3>1. CASE i < p
      BY <1>1, <2>1, <2>5, <3>1
    <3>2. CASE ~(i < p)
      <4>1. i - (p - 1) \in 1..(l-p) /\ p + (i - (p - 1)) = i + 1
        BY <1>1, <3>2
      <4> QED
        BY <1>1, <2>2, <2>5, <3>2, <4>1
    <3> QED
      BY <3>1, <3>2
  <2> QED
    BY <1>1, <2>4, <2>6
<1> HIDE DEF new
<1> DEFINE at(i) == IF i < p THEN i ELSE i + 1
<1>3. \A i \in 1..(l-1) : at(i) \in 1..l /\ at(i) # p
  BY <1>1
<1>4. \A i, j \in 1..(l-1) : i # j => at(i) # at(j)
  BY <1>1
<1>5. \A i \in 1..(l-1) : new[i] = chain[at(i)]
  BY <1>2
<1>6. \A i \in 1..l : i # p => \E j \in 1..(l-1) : at(j) = i
  <2> SUFFICES ASSUME NEW i \in 1..l, i # p PROVE \E j \in 1..(l-1) : at(j) = i
    OBVIOUS
  <2>1. CASE i < p
    BY <1>1, <2>1
  <2>2. CASE ~(i < p)
    <3>1. i - 1 \in 1..(l-1) /\ at(i-1) = i
      BY <1>1, <2>2
    <3> QED
      BY <3>1
  <2> QED
    BY <2>1, <2>2
<1> HIDE DEF at
<1>7. IsChain(new)
  <2>1. \A i, j \in 1..(l-1) : i # j => new[i][1] # new[j][1]
    BY <1>3, <1>4, <1>5 DEF IsChain
  <2> QED
    BY <1>2, <2>1 DEF IsChain
<1>8. ToSet(new) = {new[i] : i \in 1..(l-1)}
  BY <1>1, <1>2 DEF ToSet
<1>9. \A i \in 1..l : i # p => chain[i] # chain[p]
  BY DEF IsChain
<1>10. ToSet(new) = ToSet(chain) \ {chain[p]}
  <2>1. \A x \in ToSet(new) : x \in ToSet(chain) \ {chain[p]}
    BY <1>1, <1>3, <1>5, <1>8, <1>9
  <2>2. \A x \in ToSet(chain) \ {chain[p]} : x \in ToSet(new)
    BY <1>1, <1>5, <1>6, <1>8
  <2> QED
    BY <2>1, <2>2
<1> QED
  BY <1>7, <1>10 DEF new

-----------------------------------------------------------------------------
(* Growth: the old chains are walked and their nodes pushed on the new ones. *)

Lands(x, b, capacity) == Hash[x[1]] % capacity = b

LEMMA PushedChain ==
  ASSUME NEW chain, IsChain(chain), NEW front, IsChain(front), NEW b, NEW capacity,
         \A x \in ToSet(chain), y \in ToSet(front) : x[1] # y[1]
  PROVE  /\ IsChain(Pushed(chain, b, capacity, front))
         /\ ToSet(Pushed(chain, b, capacity, front))
              = ToSet(front) \cup {x \in ToSet(chain) : Lands(x, b, capacity)}
<1> DEFINE size == Len(chain)
           Def(f, i) == IF i = 0 THEN front
                        ELSE IF Hash[chain[i][1]] % capacity = b THEN <<chain[i]>> \o f[i-1]
                        ELSE f[i-1]
           Fits(f, i) == f = [k \in 0..i |-> Def(f, k)]
           fit == {i \in Nat : \E f : Fits(f, i)}
           found == CHOOSE f : Fits(f, size)
<1>1. size \in Nat /\ Pushed(chain, b, capacity, front) = found[size]
  BY ChainElements DEF Pushed
<1>2. Nat \subseteq fit
  <2>1. 0 \in fit
    <3>1. \A k \in 0..0 : k = 0
      OBVIOUS
    <3>2. Fits([k \in 0..0 |-> front], 0)
      BY <3>1
    <3> QED
      BY <3>2
  <2>2. ASSUME NEW n \in Nat, n \in fit
        PROVE  n + 1 \in fit
    <3>1. PICK f : Fits(f, n)
      BY <2>2
    <3> DEFINE g == [k \in 0..(n+1) |-> IF k <= n THEN f[k] ELSE Def(f, k)]
    <3> HIDE DEF Def
    <3>2. \A k \in 0..n : f[k] = Def(f, k)
      BY <3>1
    <3> USE DEF Def
    <3>3. \A k \in 0..(n+1) : g[k] = Def(g, k)
      <4> TAKE k \in 0..(n+1)
      <4>1. CASE k = 0
        <5>1. g[k] = f[k] /\ k \in 0..n
          BY <4>1
        <5>2. f[k] = front
          BY <3>2, <4>1, <5>1
        <5> QED
          BY <4>1, <5>1, <5>2
      <4>2. CASE k # 0
        <5>1. k - 1 \in 0..(n+1) /\ k - 1 <= n /\ k - 1 \in 0..n
          BY <4>2
        <5>2. g[k-1] = f[k-1]
          BY <5>1
        <5>3. Def(g, k) = Def(f, k)
          BY <5>2
        <5>4. g[k] = Def(f, k)
          BY <3>2
        <5> QED
          BY <5>3, <5>4
      <4> QED
        BY <4>1, <4>2
    <3>4. g = [k \in 0..(n+1) |-> Def(g, k)]
      <4>1. g = [k \in 0..(n+1) |-> g[k]]
        OBVIOUS
      <4> HIDE DEF g, Def
      <4> QED
        BY <4>1, <3>3
    <3>5. n + 1 \in Nat /\ Fits(g, n + 1)
      BY <3>4
    <3> HIDE DEF g, Fits
    <3> QED
      BY <3>5
  <2> HIDE DEF fit
  <2> QED
    BY <2>1, <2>2, EveryNatural
<1>3. Fits(found, size)
  <2>1. \E f : Fits(f, size)
    BY <1>1, <1>2
  <2> HIDE DEF Fits
  <2> QED
    BY <2>1
<1>4. \A n \in 0..size : found[n] = Def(found, n)
  BY <1>3
<1> HIDE DEF found, fit, Fits
<1> DEFINE landed(n) == {x \in ToSet(chain) : Lands(x, b, capacity) /\ \E i \in 1..n : x = chain[i]}
           Right(n) == IsChain(found[n]) /\ ToSet(found[n]) = ToSet(front) \cup landed(n)
           right == {n \in Nat : n <= size => Right(n)}
<1>5. 0 \in right
  <2>1. found[0] = front
    <3>1. 0 \in 0..size
      BY <1>1
    <3>2. found[0] = Def(found, 0)
      <4> HIDE DEF Def
      <4> QED
        BY <1>4, <3>1
    <3> QED
      BY <3>2
  <2>2. landed(0) = {}
    <3>1. \A k \in 1..0 : FALSE
      OBVIOUS
    <3> QED
      BY <3>1
  <2> HIDE DEF landed
  <2> QED
    BY <2>1, <2>2
<1>6. ASSUME NEW n \in Nat, n \in right
      PROVE  n + 1 \in right
  <2> SUFFICES ASSUME n + 1 <= size
               PROVE  Right(n + 1)
    BY <1>6
  <2> DEFINE x == chain[n+1]
  <2>1. n + 1 \in 1..size /\ n + 1 \in 0..size /\ (n + 1) - 1 = n /\ n <= size /\ n + 1 # 0
    BY <1>1
  <2>2. IsChain(found[n]) /\ ToSet(found[n]) = ToSet(front) \cup landed(n)
    BY <1>6, <2>1
  <2>3. found[n+1] = IF Lands(x, b, capacity) THEN <<x>> \o found[n] ELSE found[n]
    <3>1. found[n+1] = Def(found, n + 1)
      BY <1>4, <2>1
    <3> QED
      BY <3>1, <2>1 DEF Lands
  <2>4. x \in Node /\ x \in ToSet(chain) /\ ToSet(chain) = {chain[i] : i \in 1..size}
    BY <2>1, ChainElements
  <2>5. \A k \in 1..(n+1) : k \in 1..n \/ k = n + 1
    OBVIOUS
  <2>6. \A k \in 1..n : k \in 1..(n+1) /\ k \in 1..size /\ k # n + 1
    BY <2>1
  <2>7. CASE Lands(x, b, capacity)
    <3>1. \A y \in ToSet(found[n]) : y[1] # x[1]
      <4>1. \A y \in ToSet(front) : y[1] # x[1]
        BY <2>4
      <4>2. \A k \in 1..n : chain[k][1] # x[1]
        BY <2>1, <2>6 DEF IsChain
      <4>3. \A y \in landed(n) : y[1] # x[1]
        BY <2>4, <4>2
      <4> HIDE DEF landed
      <4> QED
        BY <2>2, <4>1, <4>3
    <3>2. landed(n+1) = landed(n) \cup {x}
      <4>1. n + 1 \in 1..(n+1)
        OBVIOUS
      <4> QED
        BY <2>4, <2>5, <2>6, <2>7, <4>1
    <3> HIDE DEF landed, x
    <3>3. IsChain(<<x>> \o found[n]) /\ ToSet(<<x>> \o found[n]) = ToSet(found[n]) \cup {x}
      BY <2>2, <2>4, <3>1, PushNode
    <3> QED
      BY <2>2, <2>3, <2>7, <3>2, <3>3
  <2>8. CASE ~Lands(x, b, capacity)
    <3>1. landed(n+1) = landed(n)
      BY <2>5, <2>6, <2>8
    <3> HIDE DEF landed, x
    <3> QED
      BY <2>2, <2>3, <2>8, <3>1
  <2> QED
    BY <2>7, <2>8
<1>7. Nat \subseteq right
  <2> HIDE DEF right
  <2> QED
    BY <1>5, <1>6, EveryNatural
<1>8. Right(size)
  BY <1>1, <1>7
<1>9. landed(size) = {x \in ToSet(chain) : Lands(x, b, capacity)}
  BY ChainElements
<1> HIDE DEF landed
<1> QED
  BY <1>1, <1>8, <1>9

-----------------------------------------------------------------------------
(* Tables: n chains, each node in the chain that its hash leads to.          *)

Layout(bs, n) ==
  /\ n \in Nat /\ DOMAIN bs = 0..(n-1) /\ bs = [b \in 0..(n-1) |-> bs[b]]
  /\ \A b \in 0..(n-1) : IsChain(bs[b]) /\ \A x \in ToSet(bs[b]) : Hash[x[1]] % n = b

NodesIn(bs, n) == UNION {ToSet(bs[b]) : b \in 0..(n-1)}

LEMMA KeysOnce ==
  ASSUME NEW bs, NEW n, Layout(bs, n)
  PROVE  /\ NodesIn(bs, n) \subseteq Node
         /\ \A x, y \in NodesIn(bs, n) : x[1] = y[1] => x = y
<1>1. \A b \in 0..(n-1) : ToSet(bs[b]) \subseteq Node
  BY ChainElements DEF Layout
<1>2. ASSUME NEW x \in NodesIn(bs, n), NEW y \in NodesIn(bs, n), x[1] = y[1]
      PROVE  x = y
  <2>1. PICK b \in 0..(n-1) : x \in ToSet(bs[b])
    BY DEF NodesIn
  <2>2. PICK c \in 0..(n-1) : y \in ToSet(bs[c])
    BY DEF NodesIn
  <2>3. b = c
    <3>1. Hash[x[1]] % n = b /\ Hash[y[1]] % n = c
      BY <2>1, <2>2 DEF Layout
    <3> QED
      BY <1>2, <3>1
  <2>4. IsChain(bs[b])
    BY DEF Layout
  <2> QED
    BY <1>2, <2>1, <2>2, <2>3, <2>4, ChainElements
<1> QED
  BY <1>1, <1>2 DEF NodesIn

LEMMA WalkedChain ==
  ASSUME NEW chains, Layout(chains, Capacity), NEW b, NEW capacity
  PROVE  /\ IsChain(Walked(chains, b, capacity))
         /\ ToSet(Walked(chains, b, capacity))
              = {x \in NodesIn(chains, Capacity) : Lands(x, b, capacity)}
<1> DEFINE size == Capacity
           Def(f, o) == IF o = 0 THEN <<>> ELSE Pushed(chains[o-1], b, capacity, f[o-1])
           Fits(f, i) == f = [k \in 0..i |-> Def(f, k)]
           fit == {i \in Nat : \E f : Fits(f, i)}
           found == CHOOSE f : Fits(f, size)
<1>1. size \in Nat /\ Walked(chains, b, capacity) = found[size]
  BY DEF Walked, Layout
<1>2. Nat \subseteq fit
  <2>1. 0 \in fit
    <3>1. \A k \in 0..0 : k = 0
      OBVIOUS
    <3>2. Fits([k \in 0..0 |-> <<>>], 0)
      BY <3>1
    <3> QED
      BY <3>2
  <2>2. ASSUME NEW n \in Nat, n \in fit
        PROVE  n + 1 \in fit
    <3>1. PICK f : Fits(f, n)
      BY <2>2
    <3> DEFINE g == [k \in 0..(n+1) |-> IF k <= n THEN f[k] ELSE Def(f, k)]
    <3> HIDE DEF Def
    <3>2. \A k \in 0..n : f[k] = Def(f, k)
      BY <3>1
    <3> USE DEF Def
    <3>3. \A k \in 0..(n+1) : g[k] = Def(g, k)
      <4> TAKE k \in 0..(n+1)
      <4>1. CASE k = 0
        <5>1. g[k] = f[k] /\ k \in 0..n
          BY <4>1
        <5>2. f[k] = <<>>
          BY <3>2, <4>1, <5>1
        <5> QED
          BY <4>1, <5>1, <5>2
      <4>2. CASE k # 0
        <5>1. k - 1 \in 0..(n+1) /\ k - 1 <= n /\ k - 1 \in 0..n
          BY <4>2
        <5>2. g[k-1] = f[k-1]
          BY <5>1
        <5>3. Def(g, k) = Def(f, k)
          BY <5>2
        <5>4. g[k] = Def(f, k)
          BY <3>2
        <5> QED
          BY <5>3, <5>4
      <4> QED
        BY <4>1, <4>2
    <3>4. g = [k \in 0..(n+1) |-> Def(g, k)]
      <4>1. g = [k \in 0..(n+1) |-> g[k]]
        OBVIOUS
      <4> HIDE DEF g, Def
      <4> QED
        BY <4>1, <3>3
    <3>5. n + 1 \in Nat /\ Fits(g, n + 1)
      BY <3>4
    <3> HIDE DEF g, Fits
    <3> QED
      BY <3>5
  <2> HIDE DEF fit
  <2> QED
    BY <2>1, <2>2, EveryNatural
<1>3. Fits(found, size)
  <2>1. \E f : Fits(f, size)
    BY <1>1, <1>2
  <2> HIDE DEF Fits
  <2> QED
    BY <2>1
<1>4. \A n \in 0..size : found[n] = Def(found, n)
  BY <1>3
<1> HIDE DEF found, fit, Fits, size
<1> DEFINE before(n) == {x \in NodesIn(chains, size) : Lands(x, b, capacity)
                                                        /\ \E c \in 0..(n-1) : x \in ToSet(chains[c])}
           Right(n) == IsChain(found[n]) /\ ToSet(found[n]) = before(n)
           right == {n \in Nat : n <= size => Right(n)}
<1>5. 0 \in right
  <2>1. found[0] = <<>>
    <3>1. 0 \in 0..size
      BY <1>1
    <3>2. found[0] = Def(found, 0)
      <4> HIDE DEF Def
      <4> QED
        BY <1>4, <3>1
    <3> QED
      BY <3>2
  <2>2. before(0) = {}
    <3>1. \A k \in 0..(0-1) : FALSE
      OBVIOUS
    <3> QED
      BY <3>1
  <2> HIDE DEF before
  <2> QED
    BY <2>1, <2>2, EmptyChain
<1>6. ASSUME NEW n \in Nat, n \in right
      PROVE  n + 1 \in right
  <2> SUFFICES ASSUME n + 1 <= size
               PROVE  Right(n + 1)
    BY <1>6
  <2> DEFINE old == chains[n]
             front == found[n]
  <2>1. n \in 0..(size-1) /\ n + 1 \in 0..size /\ (n + 1) - 1 = n /\ n <= size /\ n + 1 # 0
    BY <1>1
  <2>2. IsChain(front) /\ ToSet(front) = before(n)
    BY <1>6, <2>1
  <2>3. found[n+1] = Pushed(old, b, capacity, front)
    <3>1. found[n+1] = Def(found, n + 1)
      <4> HIDE DEF Def
      <4> QED
        BY <1>4, <2>1
    <3> QED
      BY <3>1, <2>1
  <2>4. IsChain(old) /\ \A x \in ToSet(old) : Hash[x[1]] % size = n
    BY <2>1 DEF Layout, size
  <2>5. \A k \in 0..((n+1)-1) : k \in 0..(n-1) \/ k = n
    OBVIOUS
  <2>6. \A k \in 0..(n-1) : k \in 0..((n+1)-1) /\ k \in 0..(size-1) /\ k # n
    BY <1>1, <2>1
  <2>7. \A x \in ToSet(old), y \in ToSet(front) : x[1] # y[1]
    <3> SUFFICES ASSUME NEW x \in ToSet(old), NEW y \in ToSet(front), x[1] = y[1]
                 PROVE  FALSE
      OBVIOUS
    <3>1. PICK c \in 0..(n-1) : y \in ToSet(chains[c])
      BY <2>2
    <3>2. Hash[y[1]] % size = c
      BY <2>6, <3>1 DEF Layout, size
    <3>3. Hash[x[1]] % size = n
      BY <2>4
    <3> QED
      BY <2>6, <3>2, <3>3
  <2>8. before(n+1) = before(n) \cup {x \in ToSet(old) : Lands(x, b, capacity)}
    <3>1. ToSet(old) \subseteq NodesIn(chains, size)
      BY <2>1 DEF NodesIn
    <3>2. n \in 0..((n+1)-1)
      OBVIOUS
    <3> QED
      BY <2>5, <2>6, <3>1, <3>2
  <2> HIDE DEF before, old, front
  <2>9. /\ IsChain(Pushed(old, b, capacity, front))
        /\ ToSet(Pushed(old, b, capacity, front))
             = ToSet(front) \cup {x \in ToSet(old) : Lands(x, b, capacity)}
    BY <2>2, <2>4, <2>7, PushedChain
  <2> QED
    BY <2>2, <2>3, <2>8, <2>9
<1>7. Nat \subseteq right
  <2> HIDE DEF right
  <2> QED
    BY <1>5, <1>6, EveryNatural
<1>8. Right(size)
  BY <1>1, <1>7
<1>9. before(size) = {x \in NodesIn(chains, size) : Lands(x, b, capacity)}
  BY DEF NodesIn
<1> HIDE DEF before
<1> QED
  BY <1>1, <1>8, <1>9 DEF size

LEMMA RelinkedLayout ==
  ASSUME NEW chains, Layout(chains, Capacity), NEW n \in Nat, n >= 1
  PROVE  /\ Layout(Relinked(chains, n), n)
         /\ NodesIn(Relinked(chains, n), n) = NodesIn(chains, Capacity)
<1> DEFINE new == Relinked(chains, n)
           all == NodesIn(chains, Capacity)
<1>1. DOMAIN new = 0..(n-1) /\ new = [b \in 0..(n-1) |-> new[b]]
  BY DEF Relinked
<1>2. \A b \in 0..(n-1) : new[b] = Walked(chains, b, n)
  BY DEF Relinked
<1> HIDE DEF new
<1>3. \A b \in 0..(n-1) : IsChain(new[b]) /\ ToSet(new[b]) = {x \in all : Lands(x, b, n)}
  BY <1>2, WalkedChain
<1> HIDE DEF all
<1>4. Layout(new, n)
  BY <1>1, <1>3 DEF Layout, Lands
<1>5. \A x \in all : Hash[x[1]] % n \in 0..(n-1)
  <2>1. \A x \in all : Hash[x[1]] \in Nat
    <3>1. all \subseteq Node
      BY KeysOnce DEF all
    <3> QED
      BY <3>1, HashAssumption DEF Node
  <2>2. \A m \in Nat : m % n \in 0..(n-1)
    BY Division
  <2> QED
    BY <2>1, <2>2
<1>6. NodesIn(new, n) = all
  BY <1>3, <1>5 DEF NodesIn, Lands
<1> QED
  BY <1>4, <1>6 DEF new, all

LEMMA LayoutCapacity ==
  ASSUME NEW bs, NEW n, Layout(bs, n)
  PROVE  Cardinality(DOMAIN bs) = n
<1>1. n \in Nat /\ DOMAIN bs = 0..(n-1)
  BY DEF Layout
<1>2. Cardinality(0..(n-1)) = IF 0 > n - 1 THEN 0 ELSE (n - 1) - 0 + 1
  BY <1>1, FS_Interval
<1> QED
  BY <1>1, <1>2

\* What a call does to one chain it does to the nodes of the table.
Rechained(bs, n, h, new) ==
  /\ DOMAIN new = 0..(n-1) /\ new = [b \in 0..(n-1) |-> new[b]]
  /\ \A b \in 0..(n-1) : b # h => new[b] = bs[b]
  /\ IsChain(new[h]) /\ \A x \in ToSet(new[h]) : Hash[x[1]] % n = h

LEMMA OneChain ==
  ASSUME NEW bs, NEW n, Layout(bs, n), NEW h \in 0..(n-1), NEW new, Rechained(bs, n, h, new)
  PROVE  /\ Layout(new, n)
         /\ NodesIn(new, n) = (NodesIn(bs, n) \ ToSet(bs[h])) \cup ToSet(new[h])
<1> USE DEF Rechained
<1>1. \A b \in 0..(n-1) : IsChain(new[b]) /\ \A x \in ToSet(new[b]) : Hash[x[1]] % n = b
  BY DEF Layout
<1>2. Layout(new, n)
  BY <1>1 DEF Layout
<1>3. \A b \in 0..(n-1) : b # h => \A x \in ToSet(bs[b]) : x \notin ToSet(bs[h])
  BY DEF Layout
<1>4. \A x \in NodesIn(new, n) : x \in (NodesIn(bs, n) \ ToSet(bs[h])) \cup ToSet(new[h])
  BY <1>3 DEF NodesIn
<1>5. \A x \in (NodesIn(bs, n) \ ToSet(bs[h])) \cup ToSet(new[h]) : x \in NodesIn(new, n)
  BY DEF NodesIn
<1> QED
  BY <1>2, <1>4, <1>5

-----------------------------------------------------------------------------
(* The table: its chains are laid out, its count is right, its capacity is   *)
(* a prime.                                                                  *)

TableInv ==
  /\ Layout(buckets, Capacity)
  /\ IsFiniteSet(Nodes) /\ count = Cardinality(Nodes)
  /\ CapacityIsPrime

LEMMA LaidOutNodes ==
  ASSUME NEW n, Layout(buckets, n)
  PROVE  Capacity = n /\ Nodes = NodesIn(buckets, n)
<1>1. DOMAIN buckets = 0..(n-1)
  BY DEF Layout
<1> QED
  BY <1>1, LayoutCapacity DEF Capacity, Nodes, NodesIn

LEMMA LaidOutNodesAfter ==
  ASSUME NEW n, Layout(buckets', n)
  PROVE  Capacity' = n /\ Nodes' = NodesIn(buckets', n)
<1>1. DOMAIN buckets' = 0..(n-1)
  BY DEF Layout
<1> QED
  BY <1>1, LayoutCapacity DEF Capacity, Nodes, NodesIn

LEMMA NodeKeys ==
  ASSUME TableInv
  PROVE  /\ Nodes \subseteq Node
         /\ \A x, y \in Nodes : x[1] = y[1] => x = y
  BY KeysOnce, LaidOutNodes DEF TableInv

\* A walk of one chain finds the node of a key if the table has one.
LEMMA Lookup ==
  ASSUME TableInv, Created, NEW k \in Keys
  PROVE  /\ Capacity \in Nat /\ Hash[k] % Capacity \in 0..(Capacity - 1)
         /\ IsChain(Chain(k)) /\ ToSet(Chain(k)) \subseteq Nodes
         /\ Places(k) = {} => \A x \in Nodes : x[1] # k
         /\ Places(k) # {} => /\ Place(k) \in 1..Len(Chain(k))
                              /\ Chain(k)[Place(k)] \in Nodes
                              /\ Chain(k)[Place(k)] \in ToSet(Chain(k))
                              /\ Chain(k)[Place(k)][1] = k
<1> DEFINE n == Capacity
           h == Hash[k] % n
           chain == Chain(k)
<1>1. Layout(buckets, n) /\ n \in Nat /\ n > 0
  BY DEF TableInv, Layout, Created
<1>2. Hash[k] \in Nat
  BY HashAssumption
<1>3. h \in 0..(n-1)
  <2>1. \A m \in Nat : m % n \in 0..(n-1)
    BY <1>1, Division
  <2> QED
    BY <1>2, <2>1
<1>4. IsChain(chain) /\ chain = buckets[h]
  BY <1>1, <1>3 DEF Layout, Chain
<1>5. Nodes = NodesIn(buckets, n)
  BY <1>1, LaidOutNodes
<1>6. ToSet(chain) \subseteq Nodes
  BY <1>3, <1>4, <1>5 DEF NodesIn
<1>7. ToSet(chain) = {chain[i] : i \in 1..Len(chain)} /\ DOMAIN chain = 1..Len(chain) /\ Len(chain) \in Nat
  BY <1>4, ChainElements
<1>8. Places(k) = {i \in 1..Len(chain) : Hash[chain[i][1]] = Hash[k] /\ chain[i][1] = k}
  BY <1>7 DEF Places
<1>9. ASSUME NEW x \in Nodes, x[1] = k
      PROVE  Places(k) # {}
  <2>1. PICK b \in 0..(n-1) : x \in ToSet(buckets[b])
    BY <1>5 DEF NodesIn
  <2>2. b = h
    BY <1>1, <1>9, <2>1 DEF Layout
  <2>3. PICK i \in 1..Len(chain) : chain[i] = x
    BY <1>4, <1>7, <2>1, <2>2
  <2> QED
    BY <1>8, <1>9, <2>3
<1>10. ASSUME Places(k) # {}
       PROVE  Place(k) \in Places(k)
  <2>1. Places(k) \subseteq Nat
    BY <1>7, <1>8
  <2>2. \E p \in Places(k) : \A q \in Places(k) : p <= q
    BY <1>10, <2>1, LeastNatural
  <2> QED
    BY <2>2 DEF Place, Min
<1>11. \A p \in Places(k) : p \in 1..Len(chain) /\ chain[p] \in ToSet(chain) /\ chain[p][1] = k
  BY <1>7, <1>8
<1> QED
  BY <1>1, <1>3, <1>4, <1>6, <1>9, <1>10, <1>11

\* One chain changed: enough to know its nodes and the new count.
LEMMA ChainEdit ==
  ASSUME TableInv, Created, NEW k \in Keys, NEW chain, IsChain(chain),
         \A x \in ToSet(chain) : x \in Nodes \/ x[1] = k,
         \A x \in ToSet(chain) : x \in ToSet(Chain(k)) \/ x[1] = k,
         NEW new, new = [buckets EXCEPT ![Hash[k] % Capacity] = chain]
  PROVE  /\ Layout(new, Capacity)
         /\ NodesIn(new, Capacity) = (Nodes \ ToSet(Chain(k))) \cup ToSet(chain)
<1> DEFINE n == Capacity
           h == Hash[k] % n
<1>1. Layout(buckets, n) /\ Nodes = NodesIn(buckets, n) /\ h \in 0..(n-1) /\ n \in Nat
  BY Lookup, LaidOutNodes DEF TableInv
<1>2. Chain(k) = buckets[h]
  BY DEF Chain
<1>3. \A x \in ToSet(Chain(k)) : Hash[x[1]] % n = h
  BY <1>1, <1>2 DEF Layout
<1>4. \A x \in ToSet(chain) : Hash[x[1]] % n = h
  BY <1>3
<1>5. /\ DOMAIN new = 0..(n-1) /\ new[h] = chain /\ new = [b \in 0..(n-1) |-> new[b]]
      /\ \A b \in 0..(n-1) : b # h => new[b] = buckets[b]
  BY <1>1 DEF Layout
<1> HIDE DEF h
<1>6. IsChain(new[h]) /\ \A x \in ToSet(new[h]) : Hash[x[1]] % n = h
  BY <1>4, <1>5
<1> HIDE DEF n
<1>7. /\ Layout(new, n)
      /\ NodesIn(new, n) = (NodesIn(buckets, n) \ ToSet(buckets[h])) \cup ToSet(new[h])
  <2>1. Rechained(buckets, n, h, new)
    BY <1>5, <1>6 DEF Rechained
  <2> QED
    <3>1. Layout(buckets, n) /\ h \in 0..(n-1)
      BY <1>1
    <3> QED
      BY ONLY <2>1, <3>1, OneChain
<1> QED
  BY <1>1, <1>2, <1>5, <1>7 DEF n

LEMMA PutNewEffect ==
  ASSUME TableInv, NEW k \in Keys, NEW v \in Values, PutNew(k, v)
  PROVE  /\ TableInv'
         /\ Nodes' = Nodes \cup {<<k, v>>} /\ \A x \in Nodes : x[1] # k
<1> DEFINE n == Capacity
           h == Hash[k] % n
           x == <<k, v>>
           front == <<x>> \o Chain(k)
           linked == [buckets EXCEPT ![h] = front]
<1>1. Created /\ Places(k) = {}
  BY DEF PutNew, Writable
<1>2. /\ n \in Nat /\ h \in 0..(n-1) /\ IsChain(Chain(k)) /\ ToSet(Chain(k)) \subseteq Nodes
      /\ \A y \in Nodes : y[1] # k
  BY <1>1, Lookup
<1>3. IsChain(front) /\ ToSet(front) = ToSet(Chain(k)) \cup {x}
  <2>1. x \in Node /\ \A y \in ToSet(Chain(k)) : y[1] # x[1]
    BY <1>2 DEF Node
  <2> HIDE DEF x
  <2> QED
    BY <1>2, <2>1, PushNode
<1>4. Layout(linked, n) /\ NodesIn(linked, n) = Nodes \cup {x}
  <2>1. \A y \in ToSet(front) : y \in ToSet(Chain(k)) \/ y[1] = k
    BY <1>3
  <2>2. \A y \in ToSet(front) : y \in Nodes \/ y[1] = k
    BY <1>2, <2>1
  <2> HIDE DEF front
  <2>3. Layout(linked, n) /\ NodesIn(linked, n) = (Nodes \ ToSet(Chain(k))) \cup ToSet(front)
    BY <1>1, <1>3, <2>1, <2>2, ChainEdit
  <2> QED
    BY <1>2, <1>3, <2>3
<1>5. linked = [buckets EXCEPT ![Hash[k] % Capacity] = <<<<k, v>>>> \o @]
  BY DEF Chain
<1>6. \/ MayFit(2 * Capacity) /\ buckets' = Relinked(linked, NextPrime(2 * Capacity))
      \/ buckets' = linked
  BY <1>5 DEF PutNew
<1> HIDE DEF linked
<1>7. Layout(buckets', Capacity') /\ Nodes' = Nodes \cup {x} /\ CapacityIsPrime'
  <2>1. CASE buckets' = linked
    <3>1. Layout(buckets', n)
      BY <1>4, <2>1
    <3>2. Capacity' = n /\ Nodes' = NodesIn(buckets', n)
      BY <3>1, LaidOutNodesAfter
    <3>3. CapacityIsPrime'
      BY <3>2 DEF CapacityIsPrime, Created, TableInv
    <3> QED
      BY <1>4, <2>1, <3>1, <3>2, <3>3
  <2>2. CASE MayFit(2 * Capacity) /\ buckets' = Relinked(linked, NextPrime(2 * Capacity))
    <3> DEFINE m == NextPrime(2 * Capacity)
    <3>1. m \in Nat /\ m > 1 /\ \A d \in 2..(m - 1) : m % d # 0
      <4>1. 2 * Capacity \in Nat
        BY <1>2
      <4> QED
        BY <2>2, <4>1, NextPrimeIsPrime
    <3> HIDE DEF m
    <3>2. Layout(Relinked(linked, m), m) /\ NodesIn(Relinked(linked, m), m) = NodesIn(linked, n)
      BY <1>4, <3>1, RelinkedLayout
    <3>3. buckets' = Relinked(linked, m)
      BY <2>2 DEF m
    <3>4. Layout(buckets', m)
      BY <3>2, <3>3
    <3>5. Capacity' = m /\ Nodes' = NodesIn(buckets', m)
      BY <3>4, LaidOutNodesAfter
    <3>6. CapacityIsPrime'
      BY <3>1, <3>5 DEF CapacityIsPrime, Created
    <3> QED
      BY <1>4, <3>2, <3>3, <3>4, <3>5, <3>6
  <2> QED
    BY <1>6, <2>1, <2>2
<1>8. IsFiniteSet(Nodes') /\ count' = Cardinality(Nodes')
  <2>1. x \notin Nodes
    BY <1>2
  <2> HIDE DEF x
  <2>2. IsFiniteSet(Nodes \cup {x}) /\ Cardinality(Nodes \cup {x}) = Cardinality(Nodes) + 1
    BY <2>1, FS_AddElement DEF TableInv
  <2> QED
    BY <1>7, <2>2 DEF TableInv, PutNew
<1> QED
  BY <1>2, <1>7, <1>8 DEF TableInv

LEMMA PutKnownEffect ==
  ASSUME TableInv, NEW k \in Keys, NEW v \in Values, PutKnown(k, v, TRUE)
  PROVE  /\ TableInv'
         /\ \E x \in Nodes : x[1] = k /\ Nodes' = (Nodes \ {x}) \cup {<<k, v>>}
<1> DEFINE n == Capacity
           h == Hash[k] % n
           p == Place(k)
           x == Chain(k)[p]
           chain == [Chain(k) EXCEPT ![p] = <<k, v>>]
<1>1. Created /\ Places(k) # {}
  BY DEF PutKnown, Writable
<1>2. /\ n \in Nat /\ h \in 0..(n-1) /\ IsChain(Chain(k)) /\ ToSet(Chain(k)) \subseteq Nodes
      /\ p \in 1..Len(Chain(k)) /\ x \in Nodes /\ x \in ToSet(Chain(k)) /\ x[1] = k
  BY <1>1, Lookup
<1>3. buckets' = [buckets EXCEPT ![h] = chain]
  <2>1. buckets' = [buckets EXCEPT ![Hash[k] % Capacity][Place(k)] = <<k, v>>]
    BY DEF PutKnown
  <2> QED
    BY <2>1 DEF Chain
<1> HIDE DEF p
<1>4. IsChain(chain) /\ ToSet(chain) = (ToSet(Chain(k)) \ {x}) \cup {<<k, v>>}
  <2>1. <<k, v>> \in Node /\ <<k, v>>[1] = Chain(k)[p][1]
    BY <1>2 DEF Node
  <2>2. Chain(k) \in Seq(Node)
    BY <1>2 DEF IsChain
  <2>3. /\ chain \in Seq(Node) /\ Len(chain) = Len(Chain(k)) /\ chain[p] = <<k, v>>
        /\ \A i \in 1..Len(Chain(k)) : i # p => chain[i] = Chain(k)[i]
    BY <1>2, <2>1, <2>2
  <2> DEFINE y == <<k, v>>
  <2>4. y \in Node /\ y[1] = Chain(k)[p][1] /\ chain[p] = y
    BY <2>1, <2>3
  <2> HIDE DEF chain, y
  <2>5. IsChain(chain) /\ ToSet(chain) = (ToSet(Chain(k)) \ {Chain(k)[p]}) \cup {y}
    BY <1>2, <2>3, <2>4, ReplaceNode
  <2> QED
    BY <2>5 DEF y
<1> HIDE DEF chain, x
<1>5. /\ \A y \in ToSet(chain) : y \in ToSet(Chain(k)) \/ y[1] = k
      /\ \A y \in ToSet(chain) : y \in Nodes \/ y[1] = k
  BY <1>2, <1>4
<1>6. Layout(buckets', n) /\ NodesIn(buckets', n) = (Nodes \ ToSet(Chain(k))) \cup ToSet(chain)
  BY <1>1, <1>3, <1>4, <1>5, ChainEdit
<1>7. Capacity' = n /\ Nodes' = (Nodes \ ToSet(Chain(k))) \cup ToSet(chain)
  BY <1>6, LaidOutNodesAfter
<1>8. Nodes' = (Nodes \ {x}) \cup {<<k, v>>}
  BY <1>2, <1>4, <1>7
<1>9. IsFiniteSet(Nodes') /\ count' = Cardinality(Nodes')
  <2> DEFINE y == <<k, v>>
             rest == Nodes \ {x}
  <2>1. y \notin rest
    BY <1>2, NodeKeys
  <2> HIDE DEF y
  <2>2. IsFiniteSet(rest) /\ Cardinality(rest) = Cardinality(Nodes) - 1
    BY <1>2, FS_RemoveElement DEF TableInv
  <2>3. IsFiniteSet(rest \cup {y}) /\ Cardinality(rest \cup {y}) = Cardinality(rest) + 1
    BY <2>1, <2>2, FS_AddElement
  <2>4. Cardinality(Nodes) \in Nat
    BY FS_CardinalityType DEF TableInv
  <2>5. Nodes' = rest \cup {y}
    BY <1>8 DEF y
  <2>6. count' = count
    BY DEF PutKnown
  <2> QED
    BY <2>2, <2>3, <2>4, <2>5, <2>6 DEF TableInv
<1>10. CapacityIsPrime'
  BY <1>7 DEF CapacityIsPrime, Created, TableInv
<1> QED
  BY <1>2, <1>6, <1>7, <1>8, <1>9, <1>10 DEF TableInv

LEMMA RemoveKeyEffect ==
  ASSUME TableInv, NEW k \in Keys, RemoveKey(k), Places(k) # {}
  PROVE  /\ TableInv'
         /\ \E x \in Nodes : x[1] = k /\ Nodes' = Nodes \ {x}
<1> DEFINE n == Capacity
           h == Hash[k] % n
           p == Place(k)
           x == Chain(k)[p]
           chain == RemoveAt(Chain(k), p)
<1>1. Created
  BY DEF RemoveKey, Writable
<1>2. /\ n \in Nat /\ h \in 0..(n-1) /\ IsChain(Chain(k)) /\ ToSet(Chain(k)) \subseteq Nodes
      /\ p \in 1..Len(Chain(k)) /\ x \in Nodes /\ x \in ToSet(Chain(k)) /\ x[1] = k
  BY <1>1, Lookup
<1>3. buckets' = [buckets EXCEPT ![h] = chain]
  <2>1. buckets' = [buckets EXCEPT ![Hash[k] % Capacity] = RemoveAt(@, Place(k))]
    BY DEF RemoveKey
  <2> QED
    BY <2>1 DEF Chain
<1>4. IsChain(chain) /\ ToSet(chain) = ToSet(Chain(k)) \ {x}
  BY <1>2, RemoveNode
<1> HIDE DEF chain, x
<1>5. /\ \A y \in ToSet(chain) : y \in ToSet(Chain(k)) \/ y[1] = k
      /\ \A y \in ToSet(chain) : y \in Nodes \/ y[1] = k
  BY <1>2, <1>4
<1>6. Layout(buckets', n) /\ NodesIn(buckets', n) = (Nodes \ ToSet(Chain(k))) \cup ToSet(chain)
  BY <1>1, <1>3, <1>4, <1>5, ChainEdit
<1>7. Capacity' = n /\ Nodes' = (Nodes \ ToSet(Chain(k))) \cup ToSet(chain)
  BY <1>6, LaidOutNodesAfter
<1>8. Nodes' = Nodes \ {x}
  BY <1>2, <1>4, <1>7
<1>9. IsFiniteSet(Nodes') /\ count' = Cardinality(Nodes')
  <2>1. IsFiniteSet(Nodes \ {x}) /\ Cardinality(Nodes \ {x}) = Cardinality(Nodes) - 1
    BY <1>2, FS_RemoveElement DEF TableInv
  <2>2. count' = count - 1
    BY DEF RemoveKey
  <2> QED
    BY <1>8, <2>1, <2>2 DEF TableInv
<1>10. CapacityIsPrime'
  BY <1>7 DEF CapacityIsPrime, Created, TableInv
<1> QED
  BY <1>2, <1>6, <1>7, <1>8, <1>9, <1>10 DEF TableInv

LEMMA AppendNode ==
  ASSUME NEW chain, IsChain(chain), NEW x \in Node, \A y \in ToSet(chain) : y[1] # x[1]
  PROVE  IsChain(Append(chain, x)) /\ ToSet(Append(chain, x)) = ToSet(chain) \cup {x}
<1> DEFINE new == Append(chain, x)
           l == Len(chain)
<1>1. chain \in Seq(Node) /\ l \in Nat /\ ToSet(chain) = {chain[i] : i \in 1..l}
  BY ChainElements DEF IsChain
<1>2. /\ new \in Seq(Node) /\ Len(new) = l + 1 /\ new[l+1] = x /\ DOMAIN new = 1..(l+1)
      /\ \A i \in 1..l : new[i] = chain[i]
  BY <1>1
<1> HIDE DEF new
<1>3. \A i \in 1..(l+1) : i \in 1..l \/ i = l + 1
  BY <1>1
<1>4. \A i \in 1..l : i \in 1..(l+1)
  BY <1>1
<1>5. l + 1 \in 1..(l+1)
  BY <1>1
<1>6. \A i, j \in 1..(l+1) : i # j => new[i][1] # new[j][1]
  BY <1>1, <1>2, <1>3 DEF IsChain
<1>7. ToSet(new) = {new[i] : i \in 1..(l+1)}
  BY <1>2 DEF ToSet
<1>8. ToSet(new) = ToSet(chain) \cup {x}
  BY <1>1, <1>2, <1>3, <1>4, <1>5, <1>7
<1>9. IsChain(new)
  BY <1>2, <1>6 DEF IsChain
<1> QED
  BY <1>8, <1>9 DEF new

-----------------------------------------------------------------------------
(* Iterations: the callback has had, once each, the nodes of the buckets     *)
(* before the position and those before it in its bucket.                    *)

Passed(b, i) ==
  {x \in Nodes : \/ \E c \in 0..(b-1) : x \in ToSet(buckets[c])
                 \/ b < Capacity /\ \E j \in 1..(i-1) : x = buckets[b][j]}

Positions == Nat \X (Nat \ {0})

WalkInv(t) ==
  \/ position[t] = None /\ seen[t] = <<>>
  \/ /\ Created /\ position[t] \in Positions /\ position[t][1] <= Capacity
     /\ position[t][1] < Capacity => position[t][2] <= Len(buckets[position[t][1]]) + 1
     /\ IsChain(seen[t]) /\ ToSet(seen[t]) = Passed(position[t][1], position[t][2])

WalksInv ==
  /\ position \in [Threads -> Positions \cup {None}] /\ seen \in [Threads -> Seq(Node)]
  /\ \A t \in Threads : WalkInv(t)

Statuses == {"OK", "DUPLICATE", "ALLOC_FAILED", "NOT_FOUND", "STOPPED"}

HashInv == TableInv /\ WalksInv /\ answer.status \in Statuses

\* Of what a step leaves alone the invariants say what they said.
LEMMA SameTable ==
  ASSUME UNCHANGED <<buckets, count>>, TableInv
  PROVE  TableInv' /\ Nodes' = Nodes /\ Capacity' = Capacity
<1>1. Nodes' = Nodes /\ Capacity' = Capacity
  BY DEF Nodes, Capacity
<1>2. Layout(buckets, Capacity)' 
  BY <1>1 DEF Layout, TableInv
<1>3. CapacityIsPrime'
  BY <1>1 DEF CapacityIsPrime, Created, TableInv
<1>4. IsFiniteSet(Nodes') /\ count' = Cardinality(Nodes')
  BY <1>1 DEF TableInv
<1> QED
  BY <1>1, <1>2, <1>3, <1>4 DEF TableInv

LEMMA SameWalk ==
  ASSUME UNCHANGED buckets, NEW t \in Threads, WalkInv(t),
         position'[t] = position[t], seen'[t] = seen[t]
  PROVE  WalkInv(t)'
<1>1. Nodes' = Nodes /\ Capacity' = Capacity
  BY DEF Nodes, Capacity
<1>2. Passed(position[t][1], position[t][2])' = Passed(position[t][1], position[t][2])
  BY <1>1 DEF Passed
<1> QED
  BY <1>1, <1>2 DEF WalkInv, Created

LEMMA NoWalks ==
  ASSUME Writable, UNCHANGED <<position, seen>>, WalksInv
  PROVE  WalksInv'
<1>1. ASSUME NEW t \in Threads PROVE WalkInv(t)'
  <2>1. position[t] = None /\ seen[t] = <<>>
    BY NoneAssumption DEF WalksInv, WalkInv, Writable, Positions
  <2> QED
    BY <2>1 DEF WalkInv
<1> QED
  BY <1>1 DEF WalksInv

LEMMA WalkAt ==
  ASSUME NEW t \in Threads, NEW c, NEW j, position'[t] = <<c, j>>, <<c, j>> \in Positions,
         UNCHANGED buckets, Created, c <= Capacity, c < Capacity => j <= Len(buckets[c]) + 1,
         IsChain(seen'[t]), ToSet(seen'[t]) = Passed(c, j)
  PROVE  WalkInv(t)'
<1>1. Nodes' = Nodes /\ Capacity' = Capacity
  BY DEF Nodes, Capacity
<1>2. position'[t][1] = c /\ position'[t][2] = j
  OBVIOUS
<1>3. Passed(position[t][1], position[t][2])' = Passed(c, j)
  BY <1>1, <1>2 DEF Passed
<1> QED
  BY <1>1, <1>2, <1>3 DEF WalkInv, Created

LEMMA WalkStarts ==
  ASSUME TableInv, WalksInv, NEW t \in Threads, IterateStart(t)
  PROVE  WalksInv'
<1> DEFINE p == <<0, 1>>
<1>1. /\ Created /\ UNCHANGED <<buckets, count>>
      /\ position' = [position EXCEPT ![t] = p] /\ seen' = [seen EXCEPT ![t] = <<>>]
  BY DEF IterateStart
<1>2. position' \in [Threads -> Positions \cup {None}] /\ seen' \in [Threads -> Seq(Node)]
  <2>1. p \in Positions
    BY DEF Positions
  <2> QED
    BY <1>1, <2>1 DEF WalksInv
<1>3. position'[t] = p /\ seen'[t] = <<>>
  BY <1>1 DEF WalksInv
<1>4. Capacity \in Nat /\ 0 \in 0..(Capacity - 1) /\ Capacity' = Capacity /\ 0 <= Capacity
  BY <1>1, SameTable DEF TableInv, Layout, Created
<1>5. Len(buckets[0]) \in Nat
  BY <1>4, ChainElements DEF TableInv, Layout
<1>6. Passed(0, 1) = {}
  <2>1. \A c \in 0..(0-1) : FALSE
    OBVIOUS
  <2>2. \A j \in 1..(1-1) : FALSE
    OBVIOUS
  <2> QED
    BY <2>1, <2>2 DEF Passed
<1>7. WalkInv(t)'
  <2>1. position'[t] = <<0, 1>> /\ <<0, 1>> \in Positions
    BY <1>3 DEF Positions
  <2>2. 1 <= Len(buckets[0]) + 1
    BY <1>5
  <2>3. UNCHANGED buckets /\ IsChain(seen'[t]) /\ ToSet(seen'[t]) = Passed(0, 1)
    BY <1>1, <1>3, <1>6, EmptyChain
  <2> QED
    BY <1>1, <1>4, <2>1, <2>2, <2>3, WalkAt
<1>8. ASSUME NEW u \in Threads, u # t PROVE WalkInv(u)'
  <2>1. position'[u] = position[u] /\ seen'[u] = seen[u]
    BY <1>1, <1>8 DEF WalksInv
  <2> QED
    BY <1>1, <2>1, SameWalk DEF WalksInv
<1> QED
  BY <1>2, <1>7, <1>8 DEF WalksInv

LEMMA WalkGoesOn ==
  ASSUME TableInv, WalksInv, NEW t \in Threads, IterateStep(t)
  PROVE  WalksInv'
<1> DEFINE b == position[t][1]
           i == position[t][2]
           chain == buckets[b]
<1>1. /\ position[t] # None /\ b < Capacity /\ UNCHANGED <<buckets, count>>
      /\ UNCHANGED Nodes /\ UNCHANGED Capacity
  BY SameTable DEF IterateStep
<1>2. /\ position[t] \in Positions /\ b \in Nat /\ i \in Nat /\ i >= 1 /\ i <= Len(chain) + 1
      /\ position[t] = <<b, i>>
      /\ IsChain(seen[t]) /\ ToSet(seen[t]) = Passed(b, i)
  BY <1>1 DEF WalksInv, WalkInv, Positions
<1>0. Created
  BY <1>1 DEF WalksInv, WalkInv
<1>3. Layout(buckets, Capacity) /\ Capacity \in Nat /\ b \in 0..(Capacity-1)
  BY <1>1, <1>2 DEF TableInv, Layout
<1>4. /\ IsChain(chain) /\ ToSet(chain) = {chain[j] : j \in 1..Len(chain)}
      /\ Len(chain) \in Nat /\ ToSet(chain) \subseteq Nodes /\ DOMAIN chain = 1..Len(chain)
      /\ \A x \in ToSet(chain) : Hash[x[1]] % Capacity = b
  <2>1. IsChain(chain) /\ \A x \in ToSet(chain) : Hash[x[1]] % Capacity = b
    BY <1>3 DEF Layout
  <2>2. ToSet(chain) \subseteq Nodes
    BY <1>3 DEF Nodes, Layout
  <2> QED
    BY <2>1, <2>2, ChainElements
<1>5. \A c \in 0..(b-1) : c # b /\ \A x \in ToSet(buckets[c]) : Hash[x[1]] % Capacity = c
  BY <1>2, <1>3 DEF Layout
<1>7. CASE i \in DOMAIN chain
  <2> DEFINE x == chain[i]
  <2>1. /\ position' = [position EXCEPT ![t][2] = i + 1]
        /\ seen' = [seen EXCEPT ![t] = Append(seen[t], x)]
    BY <1>1, <1>7 DEF IterateStep
  <2>2. i \in 1..Len(chain) /\ x \in ToSet(chain) /\ x \in Nodes /\ Hash[x[1]] % Capacity = b
    BY <1>4, <1>7
  <2>3. x \notin Passed(b, i)
    <3>1. \A c \in 0..(b-1) : x \notin ToSet(buckets[c])
      BY <1>5, <2>2
    <3>2. \A j \in 1..(i-1) : j \in 1..Len(chain) /\ j # i
      <4>1. i \in 1..Len(chain)
        BY <2>2
      <4>2. Len(chain) \in Nat
        BY <1>4
      <4> HIDE DEF i, chain
      <4> QED
        BY <4>1, <4>2
    <3>3. \A j \in 1..(i-1) : x # chain[j]
      BY <1>4, <2>2, <3>2 DEF IsChain
    <3> QED
      BY <3>1, <3>3 DEF Passed
  <2>4. Passed(b, i + 1) = Passed(b, i) \cup {x}
    <3>1. \A j \in 1..((i+1)-1) : j \in 1..(i-1) \/ j = i
      BY <1>2
    <3>2. \A j \in 1..(i-1) : j \in 1..((i+1)-1)
      BY <1>2
    <3>3. i \in 1..((i+1)-1)
      BY <1>2
    <3> QED
      BY <1>1, <2>2, <3>1, <3>2, <3>3 DEF Passed
  <2>5. IsChain(Append(seen[t], x)) /\ ToSet(Append(seen[t], x)) = Passed(b, i + 1)
    <3>1. Passed(b, i) \subseteq Nodes
      BY DEF Passed
    <3>2. \A y \in ToSet(seen[t]) : y[1] # x[1]
      BY <1>2, <2>2, <2>3, <3>1, NodeKeys
    <3>3. x \in Node
      BY <2>2, NodeKeys
    <3> HIDE DEF x
    <3>4. /\ IsChain(Append(seen[t], x))
          /\ ToSet(Append(seen[t], x)) = ToSet(seen[t]) \cup {x}
      BY <1>2, <3>2, <3>3, AppendNode
    <3> QED
      BY <1>2, <2>4, <3>4
  <2> HIDE DEF x
  <2>6. /\ position' = [position EXCEPT ![t] = <<b, i + 1>>]
        /\ <<b, i + 1>> \in Positions
    <3>1. [position[t] EXCEPT ![2] = i + 1] = <<b, i + 1>>
      <4> DEFINE q == position[t]
                 c == q[1]
                 j == q[2]
      <4>1. q = <<c, j>>
        BY <1>2
      <4> HIDE DEF c, j, q
      <4>2. \A k : [q EXCEPT ![2] = k] = <<c, k>>
        BY <4>1
      <4> QED
        BY <4>2 DEF c, q
    <3>2. position' = [position EXCEPT ![t] = [position[t] EXCEPT ![2] = i + 1]]
      BY <2>1
    <3>3. position' = [position EXCEPT ![t] = <<b, i + 1>>]
      BY <3>1, <3>2, Zenon
    <3>4. <<b, i + 1>> \in Positions
      BY <1>2 DEF Positions
    <3> QED
      BY <3>3, <3>4
  <2>7. position'[t] = <<b, i + 1>> /\ seen'[t] = Append(seen[t], x)
    BY <2>1, <2>6 DEF WalksInv
  <2>8. Append(seen[t], x) \in Seq(Node)
    BY <2>5 DEF IsChain
  <2>9. position' \in [Threads -> Positions \cup {None}] /\ seen' \in [Threads -> Seq(Node)]
    BY <2>1, <2>6, <2>8 DEF WalksInv
  <2>10. WalkInv(t)'
    <3>1. i + 1 <= Len(chain) + 1
      BY <1>2, <1>4, <2>2
    <3>2. b <= Capacity
      BY <1>2, <1>3
    <3>3. UNCHANGED buckets /\ IsChain(seen'[t]) /\ ToSet(seen'[t]) = Passed(b, i + 1)
      BY <1>1, <2>5, <2>7
    <3> QED
      BY <1>0, <2>6, <2>7, <3>1, <3>2, <3>3, WalkAt
  <2>11. ASSUME NEW u \in Threads, u # t PROVE WalkInv(u)'
    <3>1. position'[u] = position[u] /\ seen'[u] = seen[u]
      BY <2>1, <2>6, <2>11 DEF WalksInv
    <3> QED
      BY <1>1, <3>1, SameWalk DEF WalksInv
  <2> QED
    BY <2>9, <2>10, <2>11 DEF WalksInv
<1>8. CASE i \notin DOMAIN chain
  <2>1. position' = [position EXCEPT ![t] = <<b + 1, 1>>] /\ seen' = seen
    BY <1>1, <1>8 DEF IterateStep
  <2>2. i = Len(chain) + 1 /\ <<b + 1, 1>> \in Positions
    BY <1>2, <1>4, <1>8 DEF Positions
  <2>3. position'[t] = <<b + 1, 1>> /\ position'[t][1] = b + 1 /\ position'[t][2] = 1
    BY <2>1 DEF WalksInv
  <2>4. position' \in [Threads -> Positions \cup {None}] /\ seen' \in [Threads -> Seq(Node)]
    BY <2>1, <2>2 DEF WalksInv
  <2>5. Passed(b + 1, 1) = Passed(b, i)
    <3>1. \A c \in 0..((b+1)-1) : c \in 0..(b-1) \/ c = b
      BY <1>2
    <3>2. \A c \in 0..(b-1) : c \in 0..((b+1)-1)
      BY <1>2
    <3>3. b \in 0..((b+1)-1)
      BY <1>2
    <3>4. i - 1 = Len(chain)
      BY <1>2, <1>4, <2>2
    <3>5. \A j \in 1..(1-1) : FALSE
      OBVIOUS
    <3>6. \A x \in Nodes : x \in ToSet(chain) <=> \E j \in 1..(i-1) : x = chain[j]
      BY <1>4, <3>4
    <3>7. \A x \in Nodes : (\E c \in 0..((b+1)-1) : x \in ToSet(buckets[c]))
                              <=> (\E c \in 0..(b-1) : x \in ToSet(buckets[c])) \/ x \in ToSet(chain)
      BY <3>1, <3>2, <3>3
    <3> QED
      BY <1>1, <3>5, <3>6, <3>7 DEF Passed
  <2>6. WalkInv(t)'
    <3>1. b + 1 <= Capacity
      BY <1>2, <1>3
    <3>2. b + 1 < Capacity => Len(buckets[b+1]) \in Nat
      <4>1. b + 1 < Capacity => b + 1 \in 0..(Capacity-1)
        BY <1>2, <1>3
      <4> QED
        BY <1>3, <4>1, ChainElements DEF Layout
    <3>3. b + 1 < Capacity => 1 <= Len(buckets[b+1]) + 1
      BY <3>2
    <3>4. UNCHANGED buckets /\ IsChain(seen'[t]) /\ ToSet(seen'[t]) = Passed(b + 1, 1)
      BY <1>1, <1>2, <2>1, <2>5
    <3> QED
      BY <1>0, <2>2, <2>3, <3>1, <3>3, <3>4, WalkAt
  <2>7. ASSUME NEW u \in Threads, u # t PROVE WalkInv(u)'
    <3>1. position'[u] = position[u] /\ seen'[u] = seen[u]
      BY <2>1, <2>7 DEF WalksInv
    <3> QED
      BY <1>1, <3>1, SameWalk DEF WalksInv
  <2> QED
    BY <2>4, <2>6, <2>7 DEF WalksInv
<1> QED
  BY <1>7, <1>8

LEMMA WalkEnds ==
  ASSUME WalksInv, NEW t \in Threads, IterateEnd(t)
  PROVE  WalksInv'
<1>1. /\ UNCHANGED buckets
      /\ position' = [position EXCEPT ![t] = None] /\ seen' = [seen EXCEPT ![t] = <<>>]
  BY DEF IterateEnd
<1>2. position' \in [Threads -> Positions \cup {None}] /\ seen' \in [Threads -> Seq(Node)]
  BY <1>1 DEF WalksInv
<1>3. WalkInv(t)'
  BY <1>1 DEF WalksInv, WalkInv
<1>4. ASSUME NEW u \in Threads, u # t PROVE WalkInv(u)'
  <2>1. position'[u] = position[u] /\ seen'[u] = seen[u]
    BY <1>1, <1>4 DEF WalksInv
  <2> QED
    BY <1>1, <2>1, SameWalk DEF WalksInv
<1> QED
  BY <1>2, <1>3, <1>4 DEF WalksInv

-----------------------------------------------------------------------------
(* Induction over the steps.                                                 *)

LEMMA EmptyLayout ==
  ASSUME NEW n \in Nat, NEW bs, bs = [b \in 0..(n-1) |-> <<>>]
  PROVE  Layout(bs, n) /\ NodesIn(bs, n) = {}
  BY EmptyChain DEF Layout, NodesIn

LEMMA NoLayout == Layout(<<>>, 0) /\ NodesIn(<<>>, 0) = {}
<1>1. \A b \in 0..(0-1) : FALSE
  OBVIOUS
<1>2. DOMAIN <<>> = 0..(0-1)
  BY <1>1
<1>3. <<>> = [b \in 0..(0-1) |-> <<>>[b]]
  BY <1>1, <1>2
<1> QED
  BY <1>1, <1>2, <1>3 DEF Layout, NodesIn

LEMMA InitHolds ==
  ASSUME Init
  PROVE  HashInv
<1>1. Layout(buckets, 0)
  BY NoLayout DEF Init
<1>2. Capacity = 0 /\ Nodes = {}
  BY <1>1, LaidOutNodes, NoLayout DEF Init
<1>3. TableInv
  BY <1>1, <1>2, FS_EmptySet DEF TableInv, Init, CapacityIsPrime, Created
<1>4. WalksInv
  BY DEF WalksInv, WalkInv, Init
<1> QED
  BY <1>3, <1>4 DEF HashInv, Init, Statuses

LEMMA EmptyTable ==
  ASSUME TableInv, ~Created
  PROVE  Nodes = {} /\ count = 0
<1>1. Layout(buckets, Capacity) /\ Capacity \in Nat
  BY DEF TableInv, Layout
<1>2. Capacity = 0 /\ Nodes = NodesIn(buckets, 0)
  BY <1>1, LaidOutNodes DEF Created
<1>3. \A b \in 0..(0-1) : FALSE
  OBVIOUS
<1>4. Nodes = {}
  BY <1>2, <1>3 DEF NodesIn
<1> QED
  BY <1>4, FS_EmptySet DEF TableInv

LEMMA CreateHolds ==
  ASSUME HashInv, NEW hint \in Hints, Create(hint)
  PROVE  HashInv' /\ Nodes' = {} /\ Nodes = {}
<1> DEFINE m == NextPrime(hint)
<1>1. m \in Nat /\ m > 1 /\ \A d \in 2..(m - 1) : m % d # 0
  BY HashAssumption, NextPrimeIsPrime DEF Create
<1>2. buckets' = [b \in 0..(m - 1) |-> <<>>] /\ ~Created /\ UNCHANGED <<count, position, seen>>
  BY DEF Create
<1> HIDE DEF m
<1>3. Layout(buckets', m) /\ NodesIn(buckets', m) = {}
  BY <1>1, <1>2, EmptyLayout
<1>4. Capacity' = m /\ Nodes' = {}
  BY <1>3, LaidOutNodesAfter
<1>5. Nodes = {} /\ count = 0
  BY <1>2, EmptyTable DEF HashInv
<1>6. CapacityIsPrime'
  BY <1>1, <1>4 DEF CapacityIsPrime, Created
<1>7. TableInv'
  BY <1>2, <1>3, <1>4, <1>5, <1>6, FS_EmptySet DEF TableInv
<1>8. WalksInv'
  <2>1. \A t \in Threads : position[t] = None /\ seen[t] = <<>>
    BY <1>2 DEF HashInv, WalksInv, WalkInv
  <2> QED
    BY <1>2, <2>1 DEF HashInv, WalksInv, WalkInv
<1> QED
  BY <1>4, <1>5, <1>7, <1>8 DEF HashInv, Create, Answer, Statuses

LEMMA DestroyHolds ==
  ASSUME HashInv, Destroy
  PROVE  HashInv' /\ Nodes' = {}
<1>1. Layout(buckets', 0) /\ NodesIn(buckets', 0) = {}
  BY NoLayout DEF Destroy
<1>2. Capacity' = 0 /\ Nodes' = {}
  BY <1>1, LaidOutNodesAfter
<1>3. TableInv'
  BY <1>1, <1>2, FS_EmptySet DEF TableInv, Destroy, CapacityIsPrime, Created
<1>4. WalksInv'
  BY NoWalks DEF Destroy, HashInv
<1> QED
  BY <1>2, <1>3, <1>4 DEF HashInv, Destroy, Answer, Statuses

LEMMA NextHolds ==
  ASSUME HashInv, [Next]_vars
  PROVE  HashInv'
<1> USE DEF HashInv
<1>1. ASSUME UNCHANGED <<buckets, count, position, seen>>
      PROVE  TableInv' /\ WalksInv'
  <2>1. TableInv'
    BY <1>1, SameTable
  <2>2. \A t \in Threads : WalkInv(t)'
    BY <1>1, SameWalk DEF WalksInv
  <2> QED
    BY <1>1, <2>1, <2>2 DEF WalksInv
<1>2. CASE UNCHANGED vars
  BY <1>1, <1>2 DEF vars
<1>3. ASSUME NEW hint \in Hints, Create(hint)
      PROVE  HashInv'
  BY <1>3, CreateHolds
<1>4. CASE Destroy
  BY <1>4, DestroyHolds
<1>5. CASE Size
  BY <1>1, <1>5 DEF Size, Answer, Statuses
<1>6. ASSUME NEW k \in Keys, Get(k)
      PROVE  HashInv'
  <2>1. answer'.status \in Statuses
    BY <1>6 DEF Get, Answer, Statuses
  <2> QED
    BY <1>1, <1>6, <2>1 DEF Get
<1>7. ASSUME NEW k \in Keys, RemoveKey(k)
      PROVE  HashInv'
  <2>1. CASE Places(k) # {}
    <3>1. TableInv'
      BY <1>7, <2>1, RemoveKeyEffect
    <3>2. WalksInv'
      BY <1>7, NoWalks DEF RemoveKey
    <3> QED
      BY <1>7, <2>1, <3>1, <3>2 DEF RemoveKey, Answer, Statuses
  <2>2. CASE Places(k) = {}
    BY <1>1, <1>7, <2>2 DEF RemoveKey, Answer, Statuses
  <2> QED
    BY <2>1, <2>2
<1>8. ASSUME NEW k \in Keys, NEW v \in Values, PutNew(k, v)
      PROVE  HashInv'
  <2>1. TableInv'
    BY <1>8, PutNewEffect
  <2>2. WalksInv'
    BY <1>8, NoWalks DEF PutNew
  <2> QED
    BY <1>8, <2>1, <2>2 DEF PutNew, Answer, Statuses
<1>9. ASSUME NEW k \in Keys, NEW v \in Values, PutFails(k, v)
      PROVE  HashInv'
  BY <1>1, <1>9 DEF PutFails, Answer, Statuses
<1>10. ASSUME NEW k \in Keys, NEW v \in Values, NEW replace \in BOOLEAN, PutKnown(k, v, replace)
       PROVE  HashInv'
  <2>1. CASE replace = TRUE
    <3>1. TableInv'
      BY <1>10, <2>1, PutKnownEffect
    <3>2. WalksInv'
      BY <1>10, NoWalks DEF PutKnown
    <3> QED
      BY <1>10, <2>1, <3>1, <3>2 DEF PutKnown, Answer, Statuses
  <2>2. CASE replace = FALSE
    BY <1>1, <1>10, <2>2 DEF PutKnown, Answer, Statuses
  <2> QED
    BY <2>1, <2>2
<1>11. ASSUME NEW t \in Threads, IterateStart(t)
       PROVE  HashInv'
  BY <1>11, WalkStarts, SameTable DEF IterateStart
<1>12. ASSUME NEW t \in Threads, IterateStep(t)
       PROVE  HashInv'
  BY <1>12, WalkGoesOn, SameTable DEF IterateStep
<1>13. ASSUME NEW t \in Threads, IterateEnd(t)
       PROVE  HashInv'
  <2>1. answer'.status \in Statuses
    BY <1>13 DEF IterateEnd, Answer, Statuses
  <2> QED
    BY <1>13, <2>1, WalkEnds, SameTable DEF IterateEnd
<1> QED
  BY <1>2, <1>3, <1>4, <1>5, <1>6, <1>7, <1>8, <1>9, <1>10, <1>11, <1>12, <1>13 DEF Next

LEMMA HashInvHolds == Spec => []HashInv
<1>1. Init => HashInv
  BY InitHolds
<1>2. HashInv /\ [Next]_vars => HashInv'
  BY NextHolds
<1> QED
  BY <1>1, <1>2, PTL DEF Spec

-----------------------------------------------------------------------------
(* The results.                                                              *)

\* The table always has the layout of sm_hash_table_t, and its calls give only
\* the statuses that hash_table.h names (hash_table.c).
THEOREM TypeCorrect == Spec => []TypeOK
<1>1. HashInv => TypeOK
  <2> SUFFICES ASSUME HashInv PROVE TypeOK
    OBVIOUS
  <2>1. DOMAIN buckets = 0..(Capacity - 1)
    BY DEF HashInv, TableInv, Layout
  <2>2. Nodes \subseteq Keys \X Values
    BY NodeKeys DEF HashInv, Node
  <2>3. count \in Nat
    BY FS_CardinalityType DEF HashInv, TableInv
  <2>4. \A t \in Threads : position[t] = None \/ position[t] \in Nat \X (Nat \ {0})
    BY DEF HashInv, WalksInv, Positions
  <2>5. \A t \in Threads : ToSet(seen[t]) \subseteq Keys \X Values
    <3>1. \A t \in Threads : IsChain(seen[t])
      BY EmptyChain DEF HashInv, WalksInv, WalkInv
    <3> QED
      BY <3>1, ChainElements DEF Node
  <2> QED
    BY <2>1, <2>2, <2>3, <2>4, <2>5 DEF TypeOK, HashInv, Statuses
<1> QED
  BY <1>1, HashInvHolds, PTL

\* Inserts, replacements, removals and resizes leave each node in the bucket of
\* its hash, each key with one node, and the count right (ht_put, ht_remove,
\* resize_locked).
THEOREM ChainsStayWellFormed == Spec => []ChainsWellFormed
<1>1. HashInv => ChainsWellFormed
  <2> SUFFICES ASSUME HashInv PROVE ChainsWellFormed
    OBVIOUS
  <2>1. /\ DOMAIN buckets = 0..(Capacity - 1)
        /\ \A b \in DOMAIN buckets : IsChain(buckets[b])
                                     /\ \A x \in ToSet(buckets[b]) : Hash[x[1]] % Capacity = b
    BY DEF HashInv, TableInv, Layout
  <2>2. \A b \in DOMAIN buckets : \A i, j \in DOMAIN buckets[b] :
          i # j => buckets[b][i][1] # buckets[b][j][1]
    BY <2>1, ChainElements DEF IsChain
  <2>3. \A m, n \in Nodes : m[1] = n[1] => m = n
    BY NodeKeys DEF HashInv
  <2> QED
    BY <2>1, <2>2, <2>3 DEF ChainsWellFormed, HashInv, TableInv
<1> QED
  BY <1>1, HashInvHolds, PTL

\* Whatever is asked for and however often the table grows, its number of
\* buckets is a prime: the trial division of is_prime finds every divisor.
THEOREM CapacityStaysPrime == Spec => []CapacityIsPrime
<1>1. HashInv => CapacityIsPrime
  BY DEF HashInv, TableInv
<1> QED
  BY <1>1, HashInvHolds, PTL

-----------------------------------------------------------------------------
(* Refinement: the nodes are the entries of a map, and each call does to     *)
(* the map what KeyValueMap says and gives its answer.                       *)

AsMap(entries) ==
  [k \in {x[1] : x \in entries} |-> (CHOOSE x \in entries : x[1] = k)[2]]

Function(entries) ==
  entries \subseteq Node /\ \A x, y \in entries : x[1] = y[1] => x = y

LEMMA MapEntry ==
  ASSUME NEW entries, Function(entries), NEW x \in entries
  PROVE  x[1] \in DOMAIN AsMap(entries) /\ AsMap(entries)[x[1]] = x[2]
<1>1. x[1] \in {y[1] : y \in entries}
  OBVIOUS
<1>2. (CHOOSE y \in entries : y[1] = x[1]) = x
  BY DEF Function
<1> QED
  BY <1>1, <1>2 DEF AsMap

LEMMA MapDomain ==
  ASSUME NEW entries
  PROVE  DOMAIN AsMap(entries) = {x[1] : x \in entries}
  BY DEF AsMap

\* A map is determined by its entries.
LEMMA MapIs ==
  ASSUME NEW entries, Function(entries), NEW f, f = [k \in DOMAIN f |-> f[k]],
         \A x \in entries : x[1] \in DOMAIN f /\ f[x[1]] = x[2],
         \A k \in DOMAIN f : \E x \in entries : x[1] = k
  PROVE  AsMap(entries) = f
<1>1. DOMAIN AsMap(entries) = DOMAIN f
  <2> DEFINE d == DOMAIN f
  <2>1. {x[1] : x \in entries} = d
    <3>1. \A k \in {x[1] : x \in entries} : k \in d
      OBVIOUS
    <3>2. \A k \in d : k \in {x[1] : x \in entries}
      OBVIOUS
    <3> QED
      BY <3>1, <3>2
  <2> QED
    BY <2>1, MapDomain
<1>2. \A k \in DOMAIN f : AsMap(entries)[k] = f[k]
  <2> TAKE k \in DOMAIN f
  <2>1. PICK x \in entries : x[1] = k
    OBVIOUS
  <2>2. AsMap(entries)[x[1]] = x[2]
    BY MapEntry
  <2> QED
    BY <2>1, <2>2
<1>3. AsMap(entries) = [k \in DOMAIN f |-> AsMap(entries)[k]]
  <2>1. AsMap(entries) = [k \in DOMAIN AsMap(entries) |-> AsMap(entries)[k]]
    BY DEF AsMap
  <2> QED
    BY <1>1, <2>1
<1> QED
  BY <1>2, <1>3

Without(entries, k) == {x \in entries : x[1] # k}

LEMMA MapPut ==
  ASSUME NEW entries, Function(entries), NEW k \in Keys, NEW v \in Values
  PROVE  AsMap(Without(entries, k) \cup {<<k, v>>}) =
           [x \in DOMAIN AsMap(entries) \cup {k} |-> IF x = k THEN v ELSE AsMap(entries)[x]]
<1> DEFINE old == AsMap(entries)
           after == Without(entries, k) \cup {<<k, v>>}
           f == [x \in DOMAIN old \cup {k} |-> IF x = k THEN v ELSE old[x]]
<1>1. Function(after)
  BY DEF Function, Node, Without
<1> USE DEF Without
<1>2. f = [x \in DOMAIN f |-> f[x]] /\ DOMAIN f = DOMAIN old \cup {k}
  OBVIOUS
<1>3. \A x \in after : x[1] \in DOMAIN f /\ f[x[1]] = x[2]
  <2> TAKE x \in after
  <2>1. CASE x = <<k, v>>
    BY <1>2, <2>1
  <2>2. CASE x \in entries /\ x[1] # k
    <3>1. x[1] \in DOMAIN old /\ old[x[1]] = x[2]
      BY <2>2, MapEntry
    <3> HIDE DEF old
    <3> QED
      BY <2>2, <3>1
  <2> QED
    BY <2>1, <2>2
<1>4. \A j \in DOMAIN f : \E x \in after : x[1] = j
  <2> TAKE j \in DOMAIN f
  <2>1. CASE j = k
    <3>1. <<k, v>> \in after /\ <<k, v>>[1] = k
      OBVIOUS
    <3> QED
      BY <2>1, <3>1
  <2>2. CASE j # k
    <3>1. j \in {x[1] : x \in entries}
      BY <1>2, <2>2, MapDomain
    <3> QED
      BY <2>2, <3>1
  <2> QED
    BY <2>1, <2>2
<1> HIDE DEF f, after
<1>5. AsMap(after) = f
  BY <1>1, <1>2, <1>3, <1>4, MapIs
<1> QED
  BY <1>5 DEF f, after

LEMMA MapRemove ==
  ASSUME NEW entries, Function(entries), NEW k
  PROVE  AsMap(Without(entries, k)) = [x \in DOMAIN AsMap(entries) \ {k} |-> AsMap(entries)[x]]
<1> DEFINE old == AsMap(entries)
           after == Without(entries, k)
           f == [x \in DOMAIN old \ {k} |-> old[x]]
<1>1. Function(after)
  BY DEF Function, Without
<1> USE DEF Without
<1>2. f = [x \in DOMAIN f |-> f[x]] /\ DOMAIN f = DOMAIN old \ {k}
  OBVIOUS
<1>3. \A x \in after : x[1] \in DOMAIN f /\ f[x[1]] = x[2]
  <2> TAKE x \in after
  <2>1. x[1] \in DOMAIN old /\ old[x[1]] = x[2] /\ x[1] # k
    BY MapEntry
  <2> HIDE DEF old
  <2> QED
    BY <2>1
<1>4. \A j \in DOMAIN f : \E x \in after : x[1] = j
  <2> TAKE j \in DOMAIN f
  <2>1. j \in {x[1] : x \in entries} /\ j # k
    BY <1>2, MapDomain
  <2> QED
    BY <2>1
<1> HIDE DEF f, after
<1>5. AsMap(after) = f
  BY <1>1, <1>2, <1>3, <1>4, MapIs
<1> QED
  BY <1>5 DEF f, after

LEMMA NoEntries == AsMap({}) = <<>>
<1>1. {x[1] : x \in {}} = {}
  OBVIOUS
<1>2. \A k \in {} : FALSE
  OBVIOUS
<1>3. DOMAIN <<>> = {}
  OBVIOUS
<1> QED
  BY <1>1, <1>2, <1>3 DEF AsMap

\* As many keys as nodes, and a chain of all of them is as long.
LEMMA EntryCount ==
  ASSUME NEW entries, Function(entries), IsFiniteSet(entries)
  PROVE  Cardinality(DOMAIN AsMap(entries)) = Cardinality(entries)
<1> DEFINE keys == {x[1] : x \in entries}
           key == [x \in entries |-> x[1]]
<1>1. key \in Bijection(entries, keys)
  <2>1. key \in [entries -> keys] /\ \A k \in keys : \E x \in entries : key[x] = k
    OBVIOUS
  <2>2. \A x, y \in entries : key[x] = key[y] => x = y
    BY DEF Function
  <2> HIDE DEF key, keys
  <2> QED
    BY <2>1, <2>2 DEF Bijection, Injection, Surjection, IsInjective
<1>2. ExistsBijection(entries, keys)
  <2> HIDE DEF key
  <2> QED
    BY <1>1 DEF ExistsBijection
<1> HIDE DEF keys
<1>3. Cardinality(keys) = Cardinality(entries)
  BY <1>2, FS_Bijection
<1> QED
  BY <1>3, MapDomain DEF keys

LEMMA ChainLength ==
  ASSUME NEW chain, IsChain(chain)
  PROVE  Cardinality(ToSet(chain)) = Len(chain)
<1> DEFINE l == Len(chain)
           at == [i \in 1..l |-> chain[i]]
<1>1. l \in Nat /\ ToSet(chain) = {chain[i] : i \in 1..l}
  BY ChainElements
<1>2. at \in Bijection(1..l, ToSet(chain))
  <2>1. at \in [1..l -> ToSet(chain)] /\ \A x \in ToSet(chain) : \E i \in 1..l : at[i] = x
    BY <1>1
  <2>2. \A i, j \in 1..l : at[i] = at[j] => i = j
    BY DEF IsChain
  <2> HIDE DEF at
  <2> QED
    BY <2>1, <2>2 DEF Bijection, Injection, Surjection, IsInjective
<1>3. ExistsBijection(1..l, ToSet(chain))
  <2> HIDE DEF at
  <2> QED
    BY <1>2 DEF ExistsBijection
<1>4. IsFiniteSet(1..l) /\ Cardinality(1..l) = l
  <2>1. IsFiniteSet(1..l) /\ Cardinality(1..l) = IF 1 > l THEN 0 ELSE l - 1 + 1
    BY <1>1, FS_Interval
  <2> QED
    BY <1>1, <2>1
<1> QED
  BY <1>3, <1>4, FS_Bijection

\* KeyValueMap counts as this module does.
LEMMA SameCount == \A S : Map!Cardinality(S) = Cardinality(S)
  BY DEF Map!Cardinality, Cardinality

LEMMA MapOfNodes == MapOf = AsMap(Nodes) /\ MapOf' = AsMap(Nodes')
  BY DEF MapOf, AsMap

LEMMA TableIsFunction ==
  ASSUME HashInv
  PROVE  Function(Nodes) /\ IsFiniteSet(Nodes)
  BY NodeKeys DEF HashInv, TableInv, Function

\* A key is in the map if a walk of its chain finds it.
LEMMA KnownKeys ==
  ASSUME HashInv, Created, NEW k \in Keys
  PROVE  /\ Places(k) = {} => k \notin DOMAIN MapOf
         /\ Places(k) # {} => /\ k \in DOMAIN MapOf
                              /\ Chain(k)[Place(k)] = <<k, MapOf[k]>>
<1> DEFINE x == Chain(k)[Place(k)]
<1>1. DOMAIN MapOf = {y[1] : y \in Nodes}
  BY MapOfNodes, MapDomain
<1>2. Places(k) = {} => k \notin DOMAIN MapOf
  BY <1>1, Lookup DEF HashInv
<1>3. ASSUME Places(k) # {} PROVE k \in DOMAIN MapOf /\ x = <<k, MapOf[k]>>
  <2>1. x \in Nodes /\ x[1] = k
    BY <1>3, Lookup DEF HashInv
  <2> HIDE DEF x
  <2>2. x[1] \in DOMAIN MapOf /\ MapOf[x[1]] = x[2]
    BY <2>1, MapOfNodes, MapEntry, TableIsFunction
  <2>3. x \in Keys \X Values
    BY <2>1, TableIsFunction DEF Function, Node
  <2> QED
    BY <2>1, <2>2, <2>3
<1> QED
  BY <1>2, <1>3

LEMMA IterationAnswer ==
  ASSUME HashInv, HashInv', NEW t \in Threads, IterateEnd(t)
  PROVE  Map!Iterate
<1> DEFINE walk == seen[t]
<1>1. /\ position[t] # None /\ UNCHANGED <<buckets, count>>
      /\ \/ position[t][1] = Capacity /\ Answer("iterate", "OK", walk)
         \/ Answer("iterate", "STOPPED", walk)
  BY DEF IterateEnd
<1>2. MapOf' = MapOf /\ Function(Nodes) /\ IsFiniteSet(Nodes)
  BY <1>1, SameTable, MapOfNodes, TableIsFunction DEF HashInv
<1>3. IsChain(walk) /\ ToSet(walk) = Passed(position[t][1], position[t][2]) /\ position[t] \in Positions
  BY <1>1 DEF HashInv, WalksInv, WalkInv
<1>4. ToSet(walk) \subseteq Nodes
  BY <1>3 DEF Passed
<1>5. DOMAIN walk = 1..Len(walk) /\ ToSet(walk) = {walk[i] : i \in 1..Len(walk)}
  BY <1>3, ChainElements
<1> HIDE DEF walk
<1>6. \A i \in DOMAIN walk : walk[i][1] \in DOMAIN MapOf /\ MapOf[walk[i][1]] = walk[i][2]
  <2> TAKE i \in DOMAIN walk
  <2> DEFINE x == walk[i]
  <2>1. x \in Nodes
    BY <1>4, <1>5
  <2> HIDE DEF x
  <2>2. x[1] \in DOMAIN MapOf /\ MapOf[x[1]] = x[2]
    BY <1>2, <2>1, MapOfNodes, MapEntry
  <2> QED
    BY <2>2 DEF x
<1>7. \A i, j \in DOMAIN walk : i # j => walk[i][1] # walk[j][1]
  BY <1>3, <1>5 DEF IsChain
<1>8. ASSUME position[t][1] = Capacity
      PROVE  Len(walk) = Cardinality(DOMAIN MapOf)
  <2>1. Nodes \subseteq Passed(position[t][1], position[t][2])
    <3>1. DOMAIN buckets = 0..(Capacity - 1)
      BY DEF HashInv, TableInv, Layout
    <3> QED
      BY <1>8, <3>1 DEF Passed, Nodes
  <2>2. ToSet(walk) = Nodes
    BY <1>3, <1>4, <2>1
  <2>3. Cardinality(DOMAIN MapOf) = Cardinality(Nodes)
    BY <1>2, MapOfNodes, EntryCount
  <2> QED
    BY <1>3, <2>2, <2>3, ChainLength
<1>9. \E status \in {"OK", "STOPPED"} :
        /\ answer' = [call |-> "iterate", status |-> status, data |-> walk]
        /\ status = "OK" => Len(walk) = Cardinality(DOMAIN MapOf)
  <2>1. CASE position[t][1] = Capacity /\ Answer("iterate", "OK", walk)
    <3>1. answer' = [call |-> "iterate", status |-> "OK", data |-> walk]
      BY <2>1 DEF Answer
    <3> QED
      BY <1>8, <2>1, <3>1
  <2>2. CASE Answer("iterate", "STOPPED", walk)
    <3>1. answer' = [call |-> "iterate", status |-> "STOPPED", data |-> walk]
      BY <2>2 DEF Answer
    <3>2. "STOPPED" # "OK"
      OBVIOUS
    <3> QED
      BY <3>1, <3>2
  <2> QED
    BY <1>1, <2>1, <2>2
<1>10. PICK status \in {"OK", "STOPPED"} :
         /\ answer' = [call |-> "iterate", status |-> status, data |-> walk]
         /\ status = "OK" => Len(walk) = Cardinality(DOMAIN MapOf)
  BY <1>9
<1>11. answer'.data = walk
  BY <1>10
<1>12. \E given \in {answer'.data}, ended \in {"OK", "STOPPED"} :
         /\ Map!Answer("iterate", ended, given)
         /\ \A i \in DOMAIN given : given[i][1] \in DOMAIN MapOf /\ MapOf[given[i][1]] = given[i][2]
         /\ \A i, j \in DOMAIN given : i # j => given[i][1] # given[j][1]
         /\ ended = "OK" => Len(given) = Cardinality(DOMAIN MapOf)
  <2>1. walk \in {answer'.data}
    BY <1>11
  <2>2. Map!Answer("iterate", status, walk)
    BY <1>10 DEF Map!Answer
  <2> HIDE DEF Map!Answer
  <2> WITNESS walk \in {answer'.data}, status \in {"OK", "STOPPED"}
  <2> QED
    BY <1>6, <1>7, <1>10, <2>2
<1> QED
  BY <1>2, <1>12, SameCount DEF Map!Iterate

LEMMA StepRefines ==
  ASSUME HashInv, HashInv', [Next]_vars
  PROVE  [Map!Next]_(Map!vars)
<1>1. CASE UNCHANGED vars
  BY <1>1 DEF vars, Map!vars, MapOf, Nodes
<1>2. ASSUME UNCHANGED <<buckets, count>>
      PROVE  MapOf' = MapOf
  BY <1>2 DEF MapOf, Nodes
<1>3. ASSUME NEW hint \in Hints, Create(hint)
      PROVE  Map!Reset
  BY <1>3, CreateHolds, MapOfNodes, NoEntries DEF Create, Answer, Map!Reset, Map!Nothing
<1>4. CASE Destroy
  <2>1. Map!Reset
    BY <1>4, DestroyHolds, MapOfNodes, NoEntries DEF Destroy, Answer, Map!Reset, Map!Nothing
  <2> QED
    BY <2>1 DEF Map!Next
<1>5. CASE Size
  <2>1. count = Cardinality(DOMAIN MapOf)
    BY MapOfNodes, TableIsFunction, EntryCount DEF HashInv, TableInv
  <2>2. MapOf' = MapOf
    BY <1>2, <1>5 DEF Size
  <2>3. answer' = [call |-> "size", status |-> "OK", data |-> <<count>>]
    BY <1>5 DEF Size, Answer
  <2>4. Map!Size
    BY <2>1, <2>2, <2>3, SameCount DEF Map!Size, Map!Answer
  <2> QED
    BY <2>4 DEF Map!Next
<1>6. ASSUME NEW k \in Keys, Get(k)
      PROVE  Map!Get(k)
  <2>1. Created /\ UNCHANGED MapOf
    BY <1>2, <1>6 DEF Get
  <2>2. CASE Places(k) # {}
    <3>1. answer' = [call |-> "get", status |-> "OK", data |-> Chain(k)[Place(k)]]
      BY <1>6, <2>2 DEF Get, Answer
    <3> QED
      BY <2>1, <2>2, <3>1, KnownKeys DEF Map!Get, Map!Answer
  <2>3. CASE Places(k) = {}
    <3>1. answer' = [call |-> "get", status |-> "NOT_FOUND", data |-> <<k>>]
      BY <1>6, <2>3 DEF Get, Answer
    <3> QED
      BY <2>1, <2>3, <3>1, KnownKeys DEF Map!Get, Map!Answer
  <2> QED
    BY <2>2, <2>3
<1>7. ASSUME NEW k \in Keys, RemoveKey(k)
      PROVE  Map!RemoveKey(k)
  <2>1. Created
    BY <1>7 DEF RemoveKey, Writable
  <2>2. Nodes' = Without(Nodes, k)
    <3>1. CASE Places(k) # {}
      <4>1. PICK x \in Nodes : x[1] = k /\ Nodes' = Nodes \ {x}
        BY <1>7, <3>1, RemoveKeyEffect DEF HashInv
      <4> QED
        BY <4>1, TableIsFunction DEF Function, Without
    <3>2. CASE Places(k) = {}
      <4>1. Nodes' = Nodes
        BY <1>7, <3>2 DEF RemoveKey, Nodes
      <4> QED
        BY <2>1, <3>2, <4>1, Lookup DEF HashInv, Without
    <3> QED
      BY <3>1, <3>2
  <2>3. MapOf' = [x \in DOMAIN MapOf \ {k} |-> MapOf[x]]
    <3>1. AsMap(Without(Nodes, k)) = [x \in DOMAIN AsMap(Nodes) \ {k} |-> AsMap(Nodes)[x]]
      BY TableIsFunction, MapRemove
    <3> QED
      BY <2>2, <3>1, MapOfNodes
  <2>4. Map!Answer("remove", IF k \in DOMAIN MapOf THEN "OK" ELSE "NOT_FOUND", <<k>>)
    <3>1. CASE Places(k) # {}
      BY <1>7, <2>1, <3>1, KnownKeys DEF RemoveKey, Answer, Map!Answer
    <3>2. CASE Places(k) = {}
      BY <1>7, <2>1, <3>2, KnownKeys DEF RemoveKey, Answer, Map!Answer
    <3> QED
      BY <3>1, <3>2
  <2> QED
    BY <2>3, <2>4 DEF Map!RemoveKey
<1>8. ASSUME NEW k \in Keys, NEW v \in Values, PutNew(k, v)
      PROVE  Map!Put(k, v, FALSE)
  <2>1. Created /\ Places(k) = {}
    BY <1>8 DEF PutNew, Writable
  <2>2. Nodes' = Nodes \cup {<<k, v>>} /\ \A x \in Nodes : x[1] # k
    BY <1>8, PutNewEffect DEF HashInv
  <2>3. Nodes' = Without(Nodes, k) \cup {<<k, v>>}
    BY <2>2 DEF Without
  <2>4. MapOf' = [x \in DOMAIN MapOf \cup {k} |-> IF x = k THEN v ELSE MapOf[x]]
    <3>1. AsMap(Without(Nodes, k) \cup {<<k, v>>})
            = [x \in DOMAIN AsMap(Nodes) \cup {k} |-> IF x = k THEN v ELSE AsMap(Nodes)[x]]
      BY TableIsFunction, MapPut
    <3> QED
      BY <2>3, <3>1, MapOfNodes
  <2>5. k \notin DOMAIN MapOf
    BY <2>1, KnownKeys
  <2>6. Map!Answer("put", "OK", <<k, v>>)
    BY <1>8 DEF PutNew, Answer, Map!Answer
  <2> QED
    BY <2>4, <2>5, <2>6 DEF Map!Put
<1>9. ASSUME NEW k \in Keys, NEW v \in Values, PutFails(k, v)
      PROVE  Map!Put(k, v, FALSE)
  <2>1. k \notin DOMAIN MapOf
    BY <1>9, KnownKeys DEF PutFails, Writable
  <2>2. MapOf' = MapOf /\ Map!Answer("put", "ALLOC_FAILED", <<k, v>>)
    BY <1>2, <1>9 DEF PutFails, Answer, Map!Answer
  <2> QED
    BY <2>1, <2>2 DEF Map!Put
<1>10. ASSUME NEW k \in Keys, NEW v \in Values, NEW replace \in BOOLEAN, PutKnown(k, v, replace)
       PROVE  Map!Put(k, v, replace)
  <2>1. k \in DOMAIN MapOf
    BY <1>10, KnownKeys DEF PutKnown, Writable
  <2>2. CASE replace = TRUE
    <3>1. PICK x \in Nodes : x[1] = k /\ Nodes' = (Nodes \ {x}) \cup {<<k, v>>}
      BY <1>10, <2>2, PutKnownEffect DEF HashInv
    <3>2. \A y \in Nodes : y[1] = k <=> y = x
      BY <3>1, TableIsFunction DEF Function
    <3>3. Nodes' = Without(Nodes, k) \cup {<<k, v>>}
      BY <3>1, <3>2 DEF Without
    <3>4. MapOf' = [y \in DOMAIN MapOf \cup {k} |-> IF y = k THEN v ELSE MapOf[y]]
      <4>1. AsMap(Without(Nodes, k) \cup {<<k, v>>})
              = [y \in DOMAIN AsMap(Nodes) \cup {k} |-> IF y = k THEN v ELSE AsMap(Nodes)[y]]
        BY TableIsFunction, MapPut
      <4> QED
        BY <3>3, <4>1, MapOfNodes
    <3>5. Map!Answer("put", "OK", <<k, v>>)
      BY <1>10, <2>2 DEF PutKnown, Answer, Map!Answer
    <3> QED
      BY <2>2, <3>4, <3>5 DEF Map!Put
  <2>3. CASE replace = FALSE
    <3>1. MapOf' = MapOf /\ Map!Answer("put", "DUPLICATE", <<k, v>>)
      BY <1>2, <1>10, <2>3 DEF PutKnown, Answer, Map!Answer
    <3> QED
      BY <2>1, <2>3, <3>1 DEF Map!Put
  <2> QED
    BY <2>2, <2>3
<1>11. ASSUME NEW t \in Threads, IterateStart(t) \/ IterateStep(t)
       PROVE  UNCHANGED Map!vars
  BY <1>2, <1>11 DEF IterateStart, IterateStep, Map!vars
<1>12. ASSUME NEW t \in Threads, IterateEnd(t)
       PROVE  Map!Iterate
  BY <1>12, IterationAnswer
<1>13. CASE \E hint \in Hints : Create(hint)
  BY <1>3, <1>13 DEF Map!Next
<1>14. CASE \E k \in Keys : Get(k) \/ RemoveKey(k)
  BY <1>6, <1>7, <1>14 DEF Map!Next
<1>15. CASE \E k \in Keys, v \in Values : PutNew(k, v) \/ PutFails(k, v)
  <2>1. FALSE \in BOOLEAN
    OBVIOUS
  <2> QED
    BY <1>8, <1>9, <1>15, <2>1 DEF Map!Next
<1>16. CASE \E k \in Keys, v \in Values, replace \in BOOLEAN : PutKnown(k, v, replace)
  BY <1>10, <1>16 DEF Map!Next
<1>17. CASE \E t \in Threads : IterateStart(t) \/ IterateStep(t) \/ IterateEnd(t)
  BY <1>11, <1>12, <1>17 DEF Map!Next
<1> QED
  BY <1>1, <1>4, <1>5, <1>13, <1>14, <1>15, <1>16, <1>17 DEF Next

\* To its callers the table is a map, whatever the hash function: each answer of
\* ht_put, ht_get, ht_remove, ht_size and ht_iterate is the map's
\* (hash_table.h).
THEOREM TableIsAMap == Spec => ImplementsMap
<1>1. Init => Map!Init
  <2> SUFFICES ASSUME Init PROVE Map!Init
    OBVIOUS
  <2>1. Capacity = 0 /\ Nodes = {}
    <3>1. Layout(buckets, 0)
      BY NoLayout DEF Init
    <3> QED
      BY <3>1, LaidOutNodes, NoLayout DEF Init
  <2> QED
    BY <2>1, MapOfNodes, NoEntries DEF Init, Map!Init, Map!Nothing
<1>2. HashInv /\ HashInv' /\ [Next]_vars => [Map!Next]_(Map!vars)
  BY StepRefines
<1> QED
  BY <1>1, <1>2, HashInvHolds, PTL DEF Spec, ImplementsMap, Map!Spec
=============================================================================
