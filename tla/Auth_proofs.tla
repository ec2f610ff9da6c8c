----------------------------- MODULE Auth_proofs -----------------------------
(* For any accounts, passwords, table sizes, lockout and session times, and  *)
(* any history of logins, restarts and failed saves: guessing is bounded,    *)
(* the store is what is in memory, live sessions keep their slots.  For any  *)
(* sizes and pieces: the digest of a password is that of its padded bytes.   *)
EXTENDS Auth, Sha256, SequenceTheorems, WellFoundedInduction, TLAPS

-----------------------------------------------------------------------------
(* Induction, from the order of the naturals being well founded.             *)

LEMMA LeastNatural ==
  ASSUME NEW S, S \subseteq Nat, S # {}
  PROVE  \E n \in S : \A m \in S : n <= m
<1> DEFINE R == {p \in Nat \X Nat : p[1] < p[2]}
<1>1. R = OpToRel(<, Nat)
  BY Zenon DEF OpToRel
<1>2. IsWellFoundedOn(R, Nat)
  BY <1>1, NatLessThanWellFounded, Zenon
<1> HIDE DEF R
<1>3. PICK n \in S : \A m \in S : <<m, n>> \notin R
  BY <1>2, WFMin, Zenon
<1>4. \A m \in S : ~ (m < n)
  BY <1>3 DEF R
<1> QED
  BY <1>4

LEMMA EveryNatural ==
  ASSUME NEW S, 0 \in S, \A n \in Nat : n \in S => n + 1 \in S
  PROVE  Nat \subseteq S
<1> DEFINE missing == {n \in Nat : n \notin S}
<1>1. ASSUME missing # {} PROVE FALSE
  <2>1. PICK n \in missing : \A m \in missing : n <= m
    BY <1>1, LeastNatural
  <2>2. n # 0 /\ n - 1 \in Nat /\ n - 1 \notin missing
    BY <2>1
  <2> QED
    BY <2>1, <2>2
<1> QED
  BY <1>1

-----------------------------------------------------------------------------
(* The users in use of a table.  After n places, among holds those of the    *)
(* first n, in order: each comes from one of them, and each of them is in.   *)

OneName(us) ==
  \A i, j \in 1..Len(us) : i # j /\ us[i].in_use /\ us[j].in_use => us[i].name # us[j].name

IsAmong(found, us, n) ==
  /\ found \in Seq(UserType) /\ Len(found) <= n
  /\ \A k \in 1..Len(found) : \E i \in 1..n : us[i].in_use /\ found[k] = us[i]
  /\ \A i \in 1..n : us[i].in_use => \E k \in 1..Len(found) : found[k] = us[i]
  /\ OneName(found)
  /\ (\A i \in 1..n : us[i].in_use) => Len(found) = n /\ \A i \in 1..n : found[i] = us[i]

LEMMA AmongNext ==
  ASSUME NEW us \in Seq(UserType), OneName(us), NEW n \in 1..Len(us),
         NEW found, IsAmong(found, us, n - 1)
  PROVE  IsAmong(IF us[n].in_use THEN Append(found, us[n]) ELSE found, us, n)
<1>1. n - 1 \in Nat /\ us[n] \in UserType /\ \A i \in 1..(n-1) : i \in 1..n /\ i # n /\ i \in 1..Len(us)
  OBVIOUS
<1>2. \A i \in 1..n : i \in 1..(n-1) \/ i = n
  OBVIOUS
<1>3. CASE ~us[n].in_use
  <2>1. found \in Seq(UserType) /\ Len(found) <= n /\ OneName(found)
    BY <1>1 DEF IsAmong
  <2>2. \A k \in 1..Len(found) : \E i \in 1..n : us[i].in_use /\ found[k] = us[i]
    BY <1>1 DEF IsAmong
  <2>3. \A i \in 1..n : us[i].in_use => \E k \in 1..Len(found) : found[k] = us[i]
    BY <1>2, <1>3 DEF IsAmong
  <2>4. n \in 1..n /\ ~(\A i \in 1..n : us[i].in_use)
    BY <1>3
  <2>5. IsAmong(found, us, n)
    BY <2>1, <2>2, <2>3, <2>4, Zenon DEF IsAmong
  <2> QED
    BY <1>3, <2>5
<1>4. CASE us[n].in_use
  <2> DEFINE more == Append(found, us[n])
             l == Len(found)
  <2>1. /\ more \in Seq(UserType) /\ Len(more) = l + 1 /\ l \in Nat /\ l <= n - 1
        /\ more[l+1] = us[n] /\ \A k \in 1..l : more[k] = found[k]
    BY <1>1 DEF IsAmong
  <2>2. \A k \in 1..(l+1) : k \in 1..l \/ k = l + 1
    BY <2>1
  <2> HIDE DEF more, l
  <2>3. \A k \in 1..l : \E i \in 1..(n-1) : us[i].in_use /\ more[k] = us[i]
    BY <2>1 DEF IsAmong, l
  <2>4. \A k \in 1..(l+1) : \E i \in 1..n : us[i].in_use /\ more[k] = us[i]
    <3> TAKE k \in 1..(l+1)
    <3>1. CASE k \in 1..l
      BY <3>1, <2>3, <1>1
    <3>2. CASE k = l + 1
      BY <3>2, <2>1, <1>4
    <3> QED
      BY <3>1, <3>2, <2>2
  <2>5. \A i \in 1..n : us[i].in_use => \E k \in 1..(l+1) : more[k] = us[i]
    <3> TAKE i \in 1..n
    <3>1. CASE i \in 1..(n-1)
      <4>1. us[i].in_use => \E k \in 1..l : found[k] = us[i]
        BY <3>1 DEF IsAmong, l
      <4> QED
        BY <4>1, <2>1
    <3>2. CASE i = n
      BY <3>2, <2>1
    <3> QED
      BY <3>1, <3>2, <1>2
  <2>6. OneName(more)
    <3> SUFFICES ASSUME NEW j \in 1..(l+1), NEW k \in 1..(l+1), j # k, more[j].in_use, more[k].in_use
                 PROVE  more[j].name # more[k].name
      BY <2>1 DEF OneName
    <3>1. ASSUME NEW m \in 1..l PROVE more[m].name # us[n].name
      <4>1. PICK i \in 1..(n-1) : us[i].in_use /\ more[m] = us[i]
        BY <2>3, <3>1
      <4> QED
        BY <4>1, <1>1, <1>4 DEF OneName
    <3>2. CASE j \in 1..l /\ k \in 1..l
      <4>1. found[j].name # found[k].name
        <5>1. OneName(found)
          BY DEF IsAmong
        <5>2. found[j].in_use /\ found[k].in_use
          BY <3>2, <2>1
        <5> QED
          BY <5>1, <5>2, <3>2 DEF OneName, l
      <4> QED
        BY <4>1, <3>2, <2>1
    <3> QED
      BY <3>1, <3>2, <2>1, <2>2
  <2>7. ASSUME \A i \in 1..n : us[i].in_use
        PROVE  Len(more) = n /\ \A i \in 1..n : more[i] = us[i]
    <3>1. l = n - 1 /\ \A i \in 1..(n-1) : found[i] = us[i]
      BY <2>7, <1>1 DEF IsAmong, l
    <3> QED
      BY <3>1, <2>1, <1>2
  <2>8. Len(more) <= n
    BY <2>1
  <2>9. IsAmong(more, us, n)
    <3>1. /\ \A k \in 1..Len(more) : \E i \in 1..n : us[i].in_use /\ more[k] = us[i]
          /\ \A i \in 1..n : us[i].in_use => \E k \in 1..Len(more) : more[k] = us[i]
      BY <2>1, <2>4, <2>5, Zenon
    <3> QED
      BY <3>1, <2>1, <2>6, <2>7, <2>8, Zenon DEF IsAmong
  <2> QED
    BY <1>4, <2>9 DEF more
<1> QED
  BY <1>3, <1>4

LEMMA InUseIsAmong ==
  ASSUME NEW us \in Seq(UserType), OneName(us)
  PROVE  IsAmong(InUse(us), us, Len(us))
<1> DEFINE size == Len(us)
           Def(f, n) == IF n = 0 THEN <<>>
                        ELSE IF us[n].in_use THEN Append(f[n-1], us[n]) ELSE f[n-1]
           Fits(f, n) == f = [k \in 0..n |-> Def(f, k)]
           fit == {n \in Nat : \E f : Fits(f, n)}
           found == CHOOSE f : Fits(f, size)
<1>1. size \in Nat /\ InUse(us) = found[size]
  BY DEF InUse
<1>2. Nat \subseteq fit
  <2>1. 0 \in fit
    <3>1. \A k \in 0..0 : k = 0
      OBVIOUS
    <3>2. Fits([k \in 0..0 |-> <<>>], 0)
      BY <3>1
    <3> QED
      BY <3>2
  <2>2. ASSUME NEW n \in Nat, n \in fit
        PROVE  n + 1 \in fit
    <3>1. PICK f : Fits(f, n)
      BY <2>2
    <3> DEFINE g == [k \in 0..(n+1) |-> IF k <= n THEN f[k] ELSE Def(f, k)]
    <3>2. \A k \in 0..n : f[k] = Def(f, k)
      BY <3>1
    <3>3. \A k \in 0..(n+1) : g[k] = Def(g, k)
      <4> TAKE k \in 0..(n+1)
      <4>1. CASE k = 0
        BY <4>1, <3>2
      <4>2. CASE k # 0
        <5>1. k - 1 \in 0..(n+1) /\ k - 1 <= n /\ k - 1 \in 0..n
          BY <4>2
        <5>2. g[k-1] = f[k-1]
          BY <5>1
        <5>3. Def(g, k) = Def(f, k)
          BY <5>2
        <5>4. g[k] = Def(f, k)
          BY <3>2
        <5> QED
          BY <5>3, <5>4
      <4> QED
        BY <4>1, <4>2
    <3>4. g = [k \in 0..(n+1) |-> Def(g, k)]
      <4>1. g = [k \in 0..(n+1) |-> g[k]]
        OBVIOUS
      <4> HIDE DEF g, Def
      <4> QED
        BY <4>1, <3>3
    <3>5. n + 1 \in Nat /\ Fits(g, n + 1)
      BY <3>4
    <3> HIDE DEF g, Fits
    <3> QED
      BY <3>5
  <2> HIDE DEF fit
  <2> QED
    BY <2>1, <2>2, EveryNatural
<1>3. Fits(found, size)
  <2>1. \E f : Fits(f, size)
    BY <1>1, <1>2
  <2> HIDE DEF Fits
  <2> QED
    BY <2>1
<1>4. \A n \in 0..size : found[n] = Def(found, n)
  BY <1>3
<1> HIDE DEF found, fit, Fits
<1> DEFINE among == {n \in Nat : n <= size => IsAmong(found[n], us, n)}
<1>5. 0 \in among
  <2>1. found[0] = <<>> /\ Len(<<>>) = 0 /\ <<>> \in Seq(UserType) /\ 1..0 = {}
    BY <1>1, <1>4
  <2>2. OneName(<<>>)
    BY <2>1 DEF OneName
  <2>3. IsAmong(<<>>, us, 0)
    BY <2>1, <2>2 DEF IsAmong
  <2> QED
    BY <2>1, <2>3
<1>6. ASSUME NEW n \in Nat, n \in among
      PROVE  n + 1 \in among
  <2> SUFFICES ASSUME n + 1 <= size
               PROVE  IsAmong(found[n+1], us, n + 1)
    BY <1>6
  <2>1. n + 1 \in 1..Len(us) /\ n + 1 \in 0..size /\ (n + 1) - 1 = n /\ n <= size /\ n + 1 # 0
    BY <1>1
  <2>2. IsAmong(found[n], us, (n + 1) - 1)
    BY <1>6, <2>1
  <2>3. IsAmong(IF us[n+1].in_use THEN Append(found[n], us[n+1]) ELSE found[n], us, n + 1)
    BY <2>1, <2>2, AmongNext
  <2>4. found[n+1] = IF us[n+1].in_use THEN Append(found[n], us[n+1]) ELSE found[n]
    <3>1. found[n+1] = Def(found, n + 1)
      BY <1>4, <2>1
    <3> QED
      BY <3>1, <2>1
  <2> QED
    BY <2>3, <2>4
<1>7. Nat \subseteq among
  <2> HIDE DEF among
  <2> QED
    BY <1>5, <1>6, EveryNatural
<1> QED
  BY <1>1, <1>7

-----------------------------------------------------------------------------
(* Tables of users: what each change keeps.                                  *)

LEMMA Positive ==
  /\ MaxUsers \in Nat /\ MaxUsers >= 1 /\ MaxSessions \in Nat /\ MaxAttempts \in Nat
  /\ MaxAttempts >= 1 /\ Lockout \in Nat /\ Lockout >= 1 /\ SessionTime \in Nat
<1>1. \A n \in Nat \ {0} : n \in Nat /\ n >= 1
  OBVIOUS
<1>2. /\ MaxUsers \in Nat \ {0} /\ MaxSessions \in Nat \ {0} /\ MaxAttempts \in Nat \ {0}
      /\ Lockout \in Nat \ {0} /\ SessionTime \in Nat \ {0}
  BY AuthAssumption, Zenon DEF AuthAssumption
<1> QED
  BY <1>1, <1>2

Table(us) ==
  /\ us \in Seq(UserType) /\ Len(us) <= MaxUsers /\ OneName(us)
  /\ \A i \in 1..Len(us) : us[i].failed >= MaxAttempts => us[i].locked # 0

Kept(us) == Table(us) /\ \A i \in 1..Len(us) : us[i].in_use

\* What a table remembers of the misses; an administrator has none.
Guards(u, times) ==
  u.role # "ADMIN" =>
    IF u.failed < MaxAttempts THEN Len(times) <= u.failed
    ELSE \A k \in 1..Len(times) : times[k] + Lockout <= u.locked

Covers(us, missed) ==
  /\ \A i \in 1..Len(us) : us[i].in_use => Guards(us[i], missed[us[i].name])
  /\ \A n \in Names : missed[n] # <<>> => \E i \in 1..Len(us) : us[i].in_use /\ us[i].name = n

LEMMA InUseIsKept ==
  ASSUME NEW us, Table(us)
  PROVE  Kept(InUse(us))
<1>1. IsAmong(InUse(us), us, Len(us))
  BY InUseIsAmong DEF Table
<1> DEFINE found == InUse(us)
<1> HIDE DEF found
<1>2. IsAmong(found, us, Len(us))
  BY <1>1 DEF found
<1>3. found \in Seq(UserType) /\ Len(found) <= MaxUsers /\ OneName(found)
  BY <1>2, Positive DEF IsAmong, Table
<1>4. \A k \in 1..Len(found) : \E i \in 1..Len(us) : us[i].in_use /\ found[k] = us[i]
  BY <1>2 DEF IsAmong
<1>5. \A k \in 1..Len(found) : found[k].in_use /\ (found[k].failed >= MaxAttempts => found[k].locked # 0)
  BY <1>4 DEF Table
<1>6. Kept(found)
  BY <1>3, <1>5 DEF Kept, Table
<1> QED
  BY <1>6 DEF found

LEMMA KeptIsInUse ==
  ASSUME NEW us, Kept(us)
  PROVE  InUse(us) = us
<1>1. IsAmong(InUse(us), us, Len(us))
  BY InUseIsAmong DEF Table, Kept
<1> DEFINE found == InUse(us)
<1> HIDE DEF found
<1>2. IsAmong(found, us, Len(us)) /\ us \in Seq(UserType)
  BY <1>1 DEF found, Kept, Table
<1>3. found \in Seq(UserType) /\ Len(found) = Len(us) /\ \A i \in 1..Len(us) : found[i] = us[i]
  BY <1>2 DEF IsAmong, Kept
<1>4. found = us
  BY <1>2, <1>3
<1> QED
  BY <1>4 DEF found

LEMMA KeptIsLoaded ==
  ASSUME NEW us, Kept(us)
  PROVE  Loaded(us) = us
<1>1. us \in Seq(UserType) /\ Len(us) <= MaxUsers /\ Len(us) \in Nat
  BY DEF Kept, Table
<1>2. Min({Len(us), MaxUsers}) = Len(us)
  BY <1>1, Positive DEF Min
<1>3. SubSeq(us, 1, Len(us)) = us
  BY <1>1
<1> QED
  BY <1>2, <1>3 DEF Loaded

LEMMA InUseCovers ==
  ASSUME NEW us, Table(us), NEW missed, Covers(us, missed)
  PROVE  Covers(InUse(us), missed)
<1>1. IsAmong(InUse(us), us, Len(us))
  BY InUseIsAmong DEF Table
<1> DEFINE found == InUse(us)
<1> HIDE DEF found
<1>2. IsAmong(found, us, Len(us))
  BY <1>1 DEF found
<1>3. \A k \in 1..Len(found) : Guards(found[k], missed[found[k].name])
  BY <1>2 DEF IsAmong, Covers
<1>4. ASSUME NEW n \in Names, missed[n] # <<>>
      PROVE  \E k \in 1..Len(found) : found[k].in_use /\ found[k].name = n
  <2>1. PICK i \in 1..Len(us) : us[i].in_use /\ us[i].name = n
    BY <1>4 DEF Covers
  <2>2. PICK k \in 1..Len(found) : found[k] = us[i]
    BY <1>2, <2>1 DEF IsAmong
  <2> QED
    BY <2>1, <2>2
<1>5. Covers(found, missed)
  BY <1>3, <1>4 DEF Covers
<1> QED
  BY <1>5 DEF found

LEMMA AppendUser ==
  ASSUME NEW us, Table(us), Len(us) < MaxUsers, NEW u \in UserType, u.failed = 0,
         \A i \in 1..Len(us) : us[i].in_use => us[i].name # u.name,
         NEW new, new = Append(us, u)
  PROVE  /\ Table(new) /\ Len(new) = Len(us) + 1 /\ new[Len(us) + 1] = u
         /\ \A i \in 1..Len(us) : new[i] = us[i]
<1>1. us \in Seq(UserType) /\ Len(us) \in Nat
  BY DEF Table
<1>2. /\ new \in Seq(UserType) /\ Len(new) = Len(us) + 1 /\ new[Len(us) + 1] = u
      /\ \A i \in 1..Len(us) : new[i] = us[i]
  BY <1>1
<1>3. \A i \in 1..Len(new) : i \in 1..Len(us) \/ i = Len(us) + 1
  BY <1>1, <1>2
<1>4. OneName(new)
  <2> SUFFICES ASSUME NEW i \in 1..Len(new), NEW j \in 1..Len(new), i # j, new[i].in_use, new[j].in_use
               PROVE  new[i].name # new[j].name
    BY DEF OneName
  <2>1. CASE i \in 1..Len(us) /\ j \in 1..Len(us)
    BY <2>1, <1>2 DEF Table, OneName
  <2>2. CASE i \in 1..Len(us) /\ j = Len(us) + 1
    BY <2>2, <1>2
  <2>3. CASE i = Len(us) + 1 /\ j \in 1..Len(us)
    BY <2>3, <1>2
  <2> QED
    BY <2>1, <2>2, <2>3, <1>3
<1>5. Len(new) <= MaxUsers
  BY <1>1, <1>2, Positive
<1>6. \A i \in 1..Len(new) : new[i].failed >= MaxAttempts => new[i].locked # 0
  BY <1>2, <1>3, Positive DEF Table
<1> QED
  BY <1>2, <1>4, <1>5, <1>6 DEF Table

LEMMA NewUser ==
  ASSUME NEW name \in Names, NEW pw \in Passwords, NEW role \in Roles
  PROVE  /\ User(name, pw, role) \in UserType /\ User(name, pw, role).failed = 0
         /\ User(name, pw, role).name = name /\ User(name, pw, role).in_use
  BY DEF User, UserType

LEMMA SeededTable ==
  /\ Table(Seeded) /\ Covers(Seeded, NoMisses)
<1> DEFINE us == Seeded
<1>1. /\ Seeds \in Seq([name : Names, pw : Passwords, role : Roles]) /\ Len(Seeds) <= MaxUsers
      /\ \A i, j \in 1..Len(Seeds) : i # j => Seeds[i].name # Seeds[j].name
      /\ DOMAIN Seeds = 1..Len(Seeds) /\ Len(Seeds) \in Nat
  BY AuthAssumption DEF AuthAssumption
<1>2. us = [i \in 1..Len(Seeds) |-> User(Seeds[i].name, Seeds[i].pw, Seeds[i].role)]
  BY <1>1, Zenon DEF Seeded
<1>3. ASSUME NEW i \in 1..Len(Seeds)
      PROVE  us[i] \in UserType /\ us[i].failed = 0 /\ us[i].name = Seeds[i].name /\ us[i].in_use
  <2>1. Seeds[i] \in [name : Names, pw : Passwords, role : Roles]
    <3> DEFINE Seed == [name : Names, pw : Passwords, role : Roles]
    <3>1. Seeds \in Seq(Seed) /\ i \in 1..Len(Seeds)
      BY <1>1, <1>3
    <3> HIDE DEF Seed
    <3>2. Seeds[i] \in Seed
      BY <3>1
    <3> QED
      BY <3>2 DEF Seed
  <2>2. Seeds[i].name \in Names /\ Seeds[i].pw \in Passwords /\ Seeds[i].role \in Roles
    BY <2>1
  <2> HIDE DEF us
  <2>3. us[i] = User(Seeds[i].name, Seeds[i].pw, Seeds[i].role)
    BY <1>2, <1>3
  <2> QED
    BY <2>2, <2>3, NewUser
<1> HIDE DEF us
<1>4. us \in Seq(UserType) /\ Len(us) = Len(Seeds)
  BY <1>1, <1>2, <1>3
<1>5. Table(us)
  BY <1>1, <1>3, <1>4, Positive DEF Table, OneName
<1>6. Covers(us, NoMisses)
  <2>1. \A n \in Names : NoMisses[n] = <<>>
    BY DEF NoMisses
  <2>2. \A i \in 1..Len(us) : us[i].name \in Names
    <3>1. \A u \in UserType : u.name \in Names
      BY DEF UserType
    <3> QED
      BY <3>1, <1>3, <1>4
  <2>3. \A i \in 1..Len(us) : Guards(us[i], <<>>)
    BY <1>3, <1>4, Positive DEF Guards
  <2> QED
    BY <2>1, <2>2, <2>3 DEF Covers
<1> QED
  BY <1>5, <1>6 DEF us

\* A failed, a right, a changed password; a user no longer in use.
LEMMA EditedUser ==
  ASSUME NEW u \in UserType, NEW pw \in Passwords, now \in Nat, u.failed >= MaxAttempts => u.locked # 0
  PROVE  /\ Miss(u) \in UserType /\ Miss(u).name = u.name /\ Miss(u).in_use = u.in_use
         /\ Miss(u).failed = u.failed + 1
         /\ Miss(u).locked = IF u.failed + 1 >= MaxAttempts THEN now + Lockout ELSE u.locked
         /\ Miss(u).failed >= MaxAttempts => Miss(u).locked # 0
         /\ Cleared(u, pw) \in UserType /\ Cleared(u, pw).name = u.name
         /\ Cleared(u, pw).in_use = u.in_use /\ Cleared(u, pw).failed = 0
         /\ [u EXCEPT !.pw = pw] \in UserType /\ [u EXCEPT !.in_use = FALSE] \in UserType
<1>1. /\ u.failed \in Nat /\ u.locked \in Nat
  BY DEF UserType
<1>2. /\ Miss(u) \in UserType /\ Miss(u).name = u.name /\ Miss(u).in_use = u.in_use
      /\ Miss(u).failed = u.failed + 1
      /\ Miss(u).locked = IF u.failed + 1 >= MaxAttempts THEN now + Lockout ELSE u.locked
  <2> DEFINE lock == IF u.failed + 1 >= MaxAttempts THEN now + Lockout ELSE u.locked
  <2>1. lock \in Nat /\ u.failed + 1 \in Nat
    BY <1>1, Positive
  <2>2. Miss(u) = [u EXCEPT !.failed = u.failed + 1, !.locked = lock]
    BY DEF Miss
  <2> HIDE DEF lock
  <2>3. /\ Miss(u) \in UserType /\ Miss(u).name = u.name /\ Miss(u).in_use = u.in_use
        /\ Miss(u).failed = u.failed + 1 /\ Miss(u).locked = lock
    BY <2>1, <2>2 DEF UserType
  <2> QED
    BY <2>3 DEF lock
<1>3. Miss(u).failed >= MaxAttempts => Miss(u).locked # 0
  BY <1>1, <1>2, Positive
<1>4. DefaultPassword \in Passwords
  BY AuthAssumption, Zenon DEF AuthAssumption
<1>5. /\ Cleared(u, pw) \in UserType /\ Cleared(u, pw).name = u.name
      /\ Cleared(u, pw).in_use = u.in_use /\ Cleared(u, pw).failed = 0
  BY <1>1, <1>4 DEF Cleared, UserType
<1>6. [u EXCEPT !.pw = pw] \in UserType /\ [u EXCEPT !.in_use = FALSE] \in UserType
  BY DEF UserType
<1> QED
  BY <1>2, <1>3, <1>5, <1>6

-----------------------------------------------------------------------------
(* The tables and the store.                                                 *)

Changes == [name : Names, old : Passwords, new : Passwords]

TablesInv ==
  /\ Table(users)
  /\ sessions \in [1..MaxSessions -> SessionType \cup {None}]
  /\ store = None \/ Kept(store)
  /\ pending \in [Threads -> Changes \cup {None}]
  /\ now \in Nat /\ initialized \in BOOLEAN /\ unsaved \in BOOLEAN
  /\ StoreIsCurrent

LEMMA NoneIsNoSession == None \notin SessionType
  BY AuthAssumption, Zenon DEF AuthAssumption, SessionType

LEMMA Persisting ==
  ASSUME NEW us, Table(us), TablesInv, Persist(us)
  PROVE  /\ store' = None \/ Kept(store')
         /\ unsaved' \in BOOLEAN /\ (~unsaved' => store' = InUse(us))
<1>1. CASE Save(us)
  BY <1>1, InUseIsKept DEF Save
<1>2. CASE SaveFails
  BY <1>2 DEF SaveFails, TablesInv
<1> QED
  BY <1>1, <1>2 DEF Persist

LEMMA FoundUser ==
  ASSUME TablesInv, NEW name, NEW i \in Finds(name)
  PROVE  /\ i \in 1..Len(users) /\ users[i] \in UserType /\ users[i].in_use /\ users[i].name = name
         /\ users[i].failed >= MaxAttempts => users[i].locked # 0
         /\ users[i].name \in Names /\ users[i].role \in Roles /\ users[i].failed \in Nat
         /\ users[i].locked \in Nat
<1>1. i \in 1..Len(users) /\ users[i] \in UserType /\ users[i].in_use /\ users[i].name = name
  BY DEF Finds, TablesInv, Table
<1>2. users[i].failed >= MaxAttempts => users[i].locked # 0
  BY <1>1 DEF TablesInv, Table
<1>3. \A u \in UserType : u.name \in Names /\ u.role \in Roles /\ u.failed \in Nat /\ u.locked \in Nat
  BY DEF UserType
<1> QED
  BY <1>1, <1>2, <1>3

\* The record that each login and each change writes over the one it found.
Edits(u, pw) == {Miss(u), Cleared(u, pw), [u EXCEPT !.pw = pw], [u EXCEPT !.in_use = FALSE]}

Put(f, x, v) == [f EXCEPT ![x] = v]

LEMMA EditedTable ==
  ASSUME TablesInv, NEW name, NEW i \in Finds(name), NEW pw \in Passwords,
         NEW u \in Edits(users[i], pw),
         NEW new, new = Put(users, i, u)
  PROVE  /\ Table(new) /\ Len(new) = Len(users) /\ new[i] = u /\ u.name = name /\ i \in 1..Len(new)
         /\ \A j \in 1..Len(users) : j # i => new[j] = users[j]
<1>1. Table(users) /\ now \in Nat
  BY DEF TablesInv
<1> DEFINE v == users[i]
<1>2. /\ i \in 1..Len(users) /\ v \in UserType /\ v.in_use /\ v.name = name
      /\ v.failed >= MaxAttempts => v.locked # 0
  BY FoundUser
<1> HIDE DEF v
<1>3. /\ Miss(v) \in UserType /\ Miss(v).name = v.name /\ Miss(v).in_use = v.in_use
      /\ Miss(v).failed >= MaxAttempts => Miss(v).locked # 0
      /\ Cleared(v, pw) \in UserType /\ Cleared(v, pw).name = v.name
      /\ Cleared(v, pw).in_use = v.in_use /\ Cleared(v, pw).failed = 0
      /\ [v EXCEPT !.pw = pw] \in UserType /\ [v EXCEPT !.in_use = FALSE] \in UserType
  BY <1>1, <1>2, EditedUser
<1>4. u \in {Miss(v), Cleared(v, pw), [v EXCEPT !.pw = pw], [v EXCEPT !.in_use = FALSE]}
  BY DEF v, Edits
<1>5. /\ u \in UserType /\ u.name = v.name /\ (u.in_use => v.in_use)
      /\ u.failed >= MaxAttempts => u.locked # 0
  <2>1. CASE u = Miss(v)
    BY <2>1, <1>3
  <2>2. CASE u = Cleared(v, pw)
    BY <2>2, <1>3, Positive
  <2>3. CASE u = [v EXCEPT !.pw = pw]
    BY <2>3, <1>2, <1>3 DEF UserType
  <2>4. CASE u = [v EXCEPT !.in_use = FALSE]
    BY <2>4, <1>2, <1>3 DEF UserType
  <2> QED
    BY <1>4, <2>1, <2>2, <2>3, <2>4
<1>6. /\ Table(new) /\ Len(new) = Len(users) /\ new[i] = u
      /\ \A j \in 1..Len(users) : j # i => new[j] = users[j]
  <2>1. v = users[i]
    BY DEF v
  <2>2. /\ i \in 1..Len(users) /\ u \in UserType /\ u.name = users[i].name
        /\ u.in_use => users[i].in_use
        /\ u.failed >= MaxAttempts => u.locked # 0
        /\ new = [users EXCEPT ![i] = u]
    BY <1>2, <1>5, <2>1 DEF Put
  <2>3. Table(users) /\ users \in Seq(UserType)
    BY <1>1 DEF Table
  <2>4. new \in Seq(UserType) /\ Len(new) = Len(users) /\ new[i] = u
    BY <2>2, <2>3
  <2>5. \A j \in 1..Len(users) : j # i => new[j] = users[j]
    BY <2>2, <2>3
  <2>6. Table(new)
    <3>1. \A j \in 1..Len(users) : new[j].name = users[j].name /\ (new[j].in_use => users[j].in_use)
      BY <2>2, <2>4, <2>5
    <3>2. OneName(new)
      BY <2>3, <2>4, <3>1 DEF Table, OneName
    <3>3. \A j \in 1..Len(new) : new[j].failed >= MaxAttempts => new[j].locked # 0
      BY <2>2, <2>3, <2>4, <2>5 DEF Table
    <3> QED
      BY <2>3, <2>4, <3>2, <3>3 DEF Table
  <2> QED
    BY <2>4, <2>5, <2>6
<1> QED
  BY <1>2, <1>5, <1>6

\* The record that a login puts into a slot, and a longer expiry.
LEMMA SessionsKeepType ==
  ASSUME TablesInv, NEW s \in 1..MaxSessions
  PROVE  /\ \A name \in Names, role \in Roles :
              [sessions EXCEPT ![s] = [token |-> FreshToken(s), name |-> name, role |-> role,
                                       expires |-> now + SessionTime]]
                \in [1..MaxSessions -> SessionType \cup {None}]
         /\ sessions[s] # None => /\ Extended(s) \in [1..MaxSessions -> SessionType \cup {None}]
                                  /\ Extended(s)[s].token = sessions[s].token
                                  /\ Extended(s)[s] # None
         /\ [sessions EXCEPT ![s] = None] \in [1..MaxSessions -> SessionType \cup {None}]
         /\ sessions[s] # None => FreshToken(s) # sessions[s].token
<1>1. sessions \in [1..MaxSessions -> SessionType \cup {None}] /\ now + SessionTime \in Nat
  BY Positive DEF TablesInv
<1>2. FreshToken(s) \in 1..2 /\ (sessions[s] # None => FreshToken(s) # sessions[s].token)
  <2>1. CASE sessions[s] = None
    BY <2>1 DEF FreshToken
  <2>2. CASE sessions[s] # None
    <3>1. sessions[s] \in SessionType
      BY <1>1, <2>2
    <3>2. sessions[s].token \in 1..2
      BY <3>1 DEF SessionType
    <3> QED
      BY <2>2, <3>2 DEF FreshToken
  <2> QED
    BY <2>1, <2>2
<1>3. ASSUME NEW name \in Names, NEW role \in Roles
      PROVE  [sessions EXCEPT ![s] = [token |-> FreshToken(s), name |-> name, role |-> role,
                                      expires |-> now + SessionTime]]
               \in [1..MaxSessions -> SessionType \cup {None}]
  <2> DEFINE rec == [token |-> FreshToken(s), name |-> name, role |-> role,
                     expires |-> now + SessionTime]
  <2>1. rec \in SessionType
    BY <1>1, <1>2 DEF SessionType
  <2> HIDE DEF rec
  <2>2. [sessions EXCEPT ![s] = rec] \in [1..MaxSessions -> SessionType \cup {None}]
    BY <1>1, <2>1
  <2> QED
    BY <2>2 DEF rec
<1>4. ASSUME sessions[s] # None
      PROVE  /\ Extended(s) \in [1..MaxSessions -> SessionType \cup {None}]
             /\ Extended(s)[s].token = sessions[s].token /\ Extended(s)[s] # None
  <2> DEFINE rec == [sessions[s] EXCEPT !.expires = now + SessionTime]
  <2>1. sessions[s] \in SessionType
    BY <1>1, <1>4
  <2>2. rec \in SessionType /\ rec.token = sessions[s].token
    BY <1>1, <2>1 DEF SessionType
  <2>3. Extended(s) = [sessions EXCEPT ![s] = rec]
    BY DEF Extended
  <2> HIDE DEF rec
  <2> QED
    BY <1>1, <2>2, <2>3, NoneIsNoSession
<1>5. [sessions EXCEPT ![s] = None] \in [1..MaxSessions -> SessionType \cup {None}]
  BY <1>1
<1> QED
  BY <1>2, <1>3, <1>4, <1>5

LEMMA TablesInit == Init => TablesInv
<1> SUFFICES ASSUME Init PROVE TablesInv
  OBVIOUS
<1>1. users = <<>> /\ now = 1 /\ initialized = FALSE /\ unsaved = FALSE /\ store = None
  BY DEF Init
<1>2. Table(users)
  BY <1>1, Positive DEF Table, OneName
<1>3. sessions \in [1..MaxSessions -> SessionType \cup {None}]
  BY DEF Init, NoSessions
<1>4. pending \in [Threads -> Changes \cup {None}]
  BY DEF Init
<1> QED
  BY <1>1, <1>2, <1>3, <1>4 DEF TablesInv, StoreIsCurrent

\* The table changes and is saved, or would be.
LEMMA SavedChange ==
  ASSUME TablesInv, Table(users'), Persist(users'), now' = now, initialized' \in BOOLEAN,
         pending' \in [Threads -> Changes \cup {None}],
         sessions' \in [1..MaxSessions -> SessionType \cup {None}]
  PROVE  TablesInv'
<1>1. /\ store' = None \/ Kept(store')
      /\ unsaved' \in BOOLEAN /\ (~unsaved' => store' = InUse(users'))
  BY Persisting
<1> QED
  BY <1>1 DEF TablesInv, StoreIsCurrent

\* Neither the table nor the store change.
LEMMA OtherChange ==
  ASSUME TablesInv, users' = users, store' = store, unsaved' = unsaved, initialized' = initialized,
         now' \in Nat, pending' \in [Threads -> Changes \cup {None}],
         sessions' \in [1..MaxSessions -> SessionType \cup {None}]
  PROVE  TablesInv'
  BY DEF TablesInv, StoreIsCurrent, Table, Kept, InUse

LEMMA TablesStep ==
  ASSUME TablesInv, [Next]_vars
  PROVE  TablesInv'
<1>0. /\ Table(users) /\ sessions \in [1..MaxSessions -> SessionType \cup {None}]
      /\ pending \in [Threads -> Changes \cup {None}] /\ now \in Nat
      /\ initialized \in BOOLEAN /\ unsaved \in BOOLEAN
  BY DEF TablesInv
<1>a. NoSessions \in [1..MaxSessions -> SessionType \cup {None}]
  BY DEF NoSessions
<1>1. CASE AuthInit
  <2>1. now' = now /\ pending' = pending /\ sessions' \in [1..MaxSessions -> SessionType \cup {None}]
    BY <1>1, <1>a DEF AuthInit
  <2>2. CASE store # None /\ users' = Loaded(store) /\ unsaved' = FALSE /\ initialized' = TRUE /\ store' = store
    <3>1. Kept(store) /\ users' = store /\ InUse(users') = store'
      <4>1. Kept(store)
        BY <2>2 DEF TablesInv
      <4> QED
        BY <4>1, <2>2, KeptIsLoaded, KeptIsInUse
    <3>2. Table(users')
      BY <3>1 DEF Kept
    <3>3. store' = None \/ Kept(store')
      BY <3>1, <2>2
    <3> QED
      BY <1>0, <2>1, <2>2, <3>1, <3>2, <3>3 DEF TablesInv, StoreIsCurrent
  <2>3. CASE users' = Seeded /\ Persist(Seeded) /\ initialized' \in BOOLEAN
    <3>1. Table(users') /\ Persist(users')
      BY <2>3, SeededTable
    <3>2. pending' \in [Threads -> Changes \cup {None}]
      BY <1>0, <2>1
    <3> QED
      BY <2>1, <2>3, <3>1, <3>2, SavedChange
  <2> QED
    BY <1>1, <2>2, <2>3 DEF AuthInit, Persist
<1>2. CASE AuthShutdown
  <2>1. users' = users /\ sessions' = sessions /\ Persist(users') /\ now' = now /\ pending' = pending
        /\ initialized' = FALSE
    BY <1>2 DEF AuthShutdown, memory
  <2> QED
    BY <1>0, <2>1, SavedChange
<1>3. CASE Crash
  <2>1. users' = <<>> /\ Table(<<>>)
    BY <1>3, Positive DEF Crash, Table, OneName
  <2>2. pending' \in [Threads -> Changes \cup {None}] /\ sessions' \in [1..MaxSessions -> SessionType \cup {None}]
    BY <1>3, <1>a DEF Crash
  <2>3. store' = store /\ now' = now /\ unsaved' = unsaved /\ initialized' = FALSE
    BY <1>3 DEF Crash
  <2> QED
    BY <2>1, <2>2, <2>3 DEF TablesInv, StoreIsCurrent, Table, Kept
<1>4. CASE Tick
  BY <1>0, <1>4, OtherChange DEF Tick, memory
<1>5. ASSUME NEW name \in Names, NEW pw \in Passwords, NEW i \in Finds(name),
             LoginFails(i, pw) \/ LoginSucceeds(i, pw) \/ LoginFull(i, pw)
      PROVE  TablesInv'
  <2>1. users[i].name \in Names /\ users[i].role \in Roles /\ i \in 1..Len(users)
    BY <1>5, FoundUser
  <2>0. {Miss(users[i]), Cleared(users[i], pw)} \subseteq Edits(users[i], pw)
    BY DEF Edits
  <2>2. CASE LoginFails(i, pw)
    <3>1. users' = Put(users, i, Miss(users[i])) /\ Persist(users')
      BY <2>2 DEF LoginFails, Put
    <3>2. Table(users')
      BY <1>5, <2>0, <3>1, EditedTable
    <3> QED
      BY <1>0, <2>2, <3>1, <3>2, SavedChange DEF LoginFails
  <2>3. CASE LoginSucceeds(i, pw)
    <3>1. users' = Put(users, i, Cleared(users[i], pw)) /\ Persist(users')
      BY <2>3 DEF LoginSucceeds, Put
    <3>2. Table(users')
      BY <1>5, <2>0, <3>1, EditedTable
    <3>3. sessions' \in [1..MaxSessions -> SessionType \cup {None}]
      BY <2>1, <2>3, SessionsKeepType DEF LoginSucceeds
    <3> QED
      BY <1>0, <2>3, <3>1, <3>2, <3>3, SavedChange DEF LoginSucceeds
  <2>4. CASE LoginFull(i, pw)
    <3>1. users' = Put(users, i, Cleared(users[i], pw))
      BY <2>4 DEF LoginFull, Put
    <3>2. Table(users')
      BY <1>5, <2>0, <3>1, EditedTable
    <3>3. now' = now /\ pending' = pending /\ initialized' = initialized /\ sessions' = sessions
      BY <2>4 DEF LoginFull
    <3>4. CASE Persist(users')
      BY <1>0, <3>2, <3>3, <3>4, SavedChange
    <3>5. CASE unsaved' = TRUE /\ store' = store
      BY <1>0, <3>2, <3>3, <3>5 DEF TablesInv, StoreIsCurrent, Kept, Table
    <3> QED
      BY <2>4, <3>4, <3>5 DEF LoginFull
  <2> QED
    BY <1>5, <2>2, <2>3, <2>4
<1>6. ASSUME NEW s \in 1..MaxSessions, Logout(s) \/ Verify(s)
      PROVE  TablesInv'
  <2>1. sessions' \in [1..MaxSessions -> SessionType \cup {None}]
    BY <1>6, SessionsKeepType DEF Logout, Verify
  <2> QED
    BY <1>0, <1>6, <2>1, OtherChange DEF Logout, Verify
<1>7. ASSUME NEW name \in Managed, NEW pw \in Passwords, NEW role \in NewRoles, CreateUser(name, pw, role)
      PROVE  TablesInv'
  <2>1. name \in Names /\ role \in Roles
    BY AuthAssumption, Zenon DEF AuthAssumption
  <2> DEFINE u == User(name, pw, role)
  <2>2. u \in UserType /\ u.failed = 0 /\ u.name = name
    BY <2>1, NewUser
  <2>3. \A i \in 1..Len(users) : users[i].in_use => users[i].name # name
    BY <1>0, <1>7 DEF CreateUser, Finds, Table
  <2>4. users' = Append(users, u) /\ Len(users) < MaxUsers
    BY <1>7 DEF CreateUser
  <2> HIDE DEF u
  <2>5. Table(users')
    BY <1>0, <2>2, <2>3, <2>4, AppendUser
  <2> QED
    BY <1>0, <1>7, <2>5, SavedChange DEF CreateUser
<1>8. ASSUME NEW name \in Managed, DeleteUser(name)
      PROVE  TablesInv'
  <2>1. PICK i \in Finds(name) : users' = Put(users, i, [users[i] EXCEPT !.in_use = FALSE])
    BY <1>8 DEF DeleteUser, Put
  <2>2. Table(users')
    <3>1. DefaultPassword \in Passwords
      BY AuthAssumption, Zenon DEF AuthAssumption
    <3> QED
      BY <2>1, <3>1, EditedTable DEF Edits
  <2> QED
    BY <1>0, <1>8, <2>2, SavedChange DEF DeleteUser
<1>9. ASSUME NEW t \in Threads, NEW s \in 1..MaxSessions, NEW old \in Passwords, NEW new \in Passwords,
             ChangeBegin(t, s, old, new)
      PROVE  TablesInv'
  <2>1. sessions[s] # None
    BY <1>9 DEF ChangeBegin, Verified
  <2>2. sessions[s] \in SessionType
    BY <1>0, <2>1
  <2>3. sessions[s].name \in Names
    BY <2>2 DEF SessionType
  <2>4. pending' \in [Threads -> Changes \cup {None}]
    BY <1>0, <1>9, <2>3 DEF ChangeBegin, Changes
  <2>5. sessions' \in [1..MaxSessions -> SessionType \cup {None}]
    BY <1>9, <2>1, SessionsKeepType DEF ChangeBegin
  <2> QED
    BY <1>0, <1>9, <2>4, <2>5, OtherChange DEF ChangeBegin
<1>10. ASSUME NEW t \in Threads, ChangeEnd(t)
       PROVE  TablesInv'
  <2> DEFINE c == pending[t]
             hits == {i \in Finds(c.name) : Matches(users[i], c.old)}
  <2>1. c \in Changes
    BY <1>0, <1>10 DEF ChangeEnd
  <2>2. pending' \in [Threads -> Changes \cup {None}] /\ now' = now /\ sessions' = sessions
        /\ initialized' = initialized
    BY <1>0, <1>10 DEF ChangeEnd
  <2>3. CASE hits = {}
    <3>1. users' = users /\ store' = store /\ unsaved' = unsaved
      BY <1>10, <2>3 DEF ChangeEnd
    <3> QED
      BY <1>0, <2>2, <3>1, OtherChange
  <2>4. CASE hits # {}
    <3>1. Min(hits) \in Finds(c.name)
      <4>1. hits \subseteq Finds(c.name) /\ hits \subseteq 1..Len(users)
        BY <1>0 DEF Finds, Table
      <4> HIDE DEF hits
      <4>2. \E i \in hits : \A j \in hits : i <= j
        <5>1. hits \subseteq Nat
          BY <1>0, <4>1
        <5> QED
          BY <2>4, <5>1, LeastNatural
      <4>3. Min(hits) \in hits
        BY <4>2 DEF Min
      <4> QED
        BY <4>1, <4>3
    <3> DEFINE i == Min(hits)
    <3>2. users' = Put(users, i, [users[i] EXCEPT !.pw = c.new]) /\ Persist(users')
      BY <1>10, <2>4 DEF ChangeEnd, Put
    <3>3. c.new \in Passwords
      BY <2>1 DEF Changes
    <3> DEFINE pw == c.new
               name == c.name
    <3>4. i \in Finds(name) /\ pw \in Passwords /\ users' = Put(users, i, [users[i] EXCEPT !.pw = pw])
      BY <3>1, <3>2, <3>3
    <3> HIDE DEF c, i, pw, name
    <3>5. Table(users')
      <4>1. [users[i] EXCEPT !.pw = pw] \in Edits(users[i], pw)
        BY DEF Edits
      <4> QED
        BY <3>4, <4>1, EditedTable
    <3> QED
      BY <1>0, <2>2, <3>2, <3>5, SavedChange
  <2> QED
    BY <2>3, <2>4
<1>11. CASE UNCHANGED vars
  BY <1>0, <1>11, OtherChange DEF vars, memory
<1> QED
  BY <1>1, <1>2, <1>3, <1>4, <1>5, <1>6, <1>7, <1>8, <1>9, <1>10, <1>11 DEF Next

\* TypeOK: tables keep their types and sizes, no name is taken twice.
LEMMA TablesType == TablesInv => TypeOK
<1> SUFFICES ASSUME TablesInv PROVE TypeOK
  OBVIOUS
<1>1. users \in Seq(UserType) /\ DOMAIN users = 1..Len(users) /\ Len(users) <= MaxUsers /\ OneName(users)
  BY DEF TablesInv, Table
<1>2. ToSet(users) \subseteq UserType
  BY <1>1 DEF ToSet
<1>3. store # None => ToSet(store) \subseteq UserType
  <2>1. CASE store # None
    <3>1. store \in Seq(UserType)
      BY <2>1 DEF TablesInv, Kept, Table
    <3>2. ToSet(store) \subseteq UserType
      BY <3>1 DEF ToSet
    <3> QED
      BY <3>2
  <2> QED
    BY <2>1
<1>4. \A s \in 1..MaxSessions : sessions[s] \in SessionType \cup {None}
  BY DEF TablesInv
<1> QED
  BY <1>1, <1>2, <1>3, <1>4 DEF TypeOK, OneName

LEMMA TablesInvHolds == Spec => []TablesInv
<1>1. Init => TablesInv
  BY TablesInit
<1>2. TablesInv /\ [Next]_vars => TablesInv'
  BY TablesStep
<1> QED
  BY <1>1, <1>2, PTL DEF Spec

(* TypeOK: whatever the accounts are created, deleted, renewed or loaded     *)
(* with, the tables keep their sizes and no two users in use share a name.   *)
THEOREM TypeCorrect == Spec => []TypeOK
  BY TablesInvHolds, TablesType, PTL

(* StoreIsCurrent: the file is what is in memory, for every user in use,     *)
(* unless a save failed or a login found the session table full since: the   *)
(* tombstones that save_users_locked drops are all that they differ in.      *)
THEOREM StoreStaysCurrent == Spec => []StoreIsCurrent
<1>1. TablesInv => StoreIsCurrent
  BY DEF TablesInv
<1> QED
  BY <1>1, TablesInvHolds, PTL

-----------------------------------------------------------------------------
(* Sessions.                                                                 *)

LiveOut(s) ==
  sessions[s] # None =>
    LET same == sessions'[s] # None /\ sessions'[s].token = sessions[s].token
    IN  /\ sessions[s].expires >= now /\ ~same => Logout(s) \/ Crash \/ AuthInit
        /\ sessions[s].expires < now /\ same => sessions'[s] = sessions[s]

LEMMA SessionsStep ==
  ASSUME TablesInv, [Next]_vars, NEW s \in 1..MaxSessions
  PROVE  LiveOut(s)
<1> SUFFICES ASSUME sessions[s] # None PROVE LiveOut(s)
  BY DEF LiveOut
<1>0. /\ sessions \in [1..MaxSessions -> SessionType \cup {None}] /\ now \in Nat
      /\ sessions[s] \in SessionType /\ sessions[s].expires \in Nat
  <2>1. sessions \in [1..MaxSessions -> SessionType \cup {None}] /\ now \in Nat
    BY DEF TablesInv
  <2>2. sessions[s] \in SessionType
    BY <2>1
  <2> QED
    BY <2>1, <2>2 DEF SessionType
<1>1. CASE sessions' = sessions \/ Logout(s) \/ Crash \/ AuthInit
  <2>1. CASE sessions' = sessions
    BY <2>1 DEF LiveOut
  <2>2. CASE Logout(s)
    <3>1. sessions'[s] = None
      BY <2>2, <1>0 DEF Logout
    <3> QED
      BY <2>2, <3>1 DEF LiveOut
  <2>3. CASE Crash \/ AuthInit
    <3>1. sessions' = NoSessions
      BY <2>3 DEF Crash, AuthInit
    <3>2. sessions'[s] = None
      BY <3>1 DEF NoSessions
    <3> QED
      BY <2>3, <3>2 DEF LiveOut
  <2> QED
    BY <1>1, <2>1, <2>2, <2>3
<1>2. ASSUME NEW x \in 1..MaxSessions, x # s, NEW r, sessions' = [sessions EXCEPT ![x] = r]
      PROVE  LiveOut(s)
  <2>1. sessions'[s] = sessions[s]
    BY <1>0, <1>2
  <2> QED
    BY <2>1 DEF LiveOut
<1>3. ASSUME Verified(s), sessions' = Extended(s)
      PROVE  LiveOut(s)
  <2>1. sessions'[s] # None /\ sessions'[s].token = sessions[s].token
    BY <1>3, SessionsKeepType
  <2>2. ~ (sessions[s].expires < now)
    BY <1>0, <1>3 DEF Verified
  <2> QED
    BY <2>1, <2>2 DEF LiveOut
<1>4. ASSUME NEW x \in 1..MaxSessions, Logout(x) \/ Verify(x)
      PROVE  LiveOut(s)
  <2>1. CASE x = s /\ Logout(x)
    BY <1>1, <2>1
  <2>2. CASE x = s /\ Verify(x) /\ Verified(x)
    BY <1>3, <2>2 DEF Verify
  <2>3. CASE x = s /\ Verify(x) /\ ~Verified(x)
    <3>1. sessions'[s] = None
      BY <2>3, <1>0 DEF Verify
    <3>2. ~ (sessions[s].expires >= now)
      BY <2>3 DEF Verified
    <3> QED
      BY <3>1, <3>2 DEF LiveOut
  <2>4. CASE x # s
    <3>1. sessions' = [sessions EXCEPT ![x] = sessions'[x]]
      BY <1>4, <1>0 DEF Logout, Verify, Extended
    <3> QED
      BY <1>2, <2>4, <3>1
  <2> QED
    BY <1>4, <2>1, <2>2, <2>3, <2>4
<1>5. ASSUME NEW t \in Threads, NEW x \in 1..MaxSessions, NEW old, NEW new, ChangeBegin(t, x, old, new)
      PROVE  LiveOut(s)
  <2>1. Verified(x) /\ sessions' = Extended(x)
    BY <1>5 DEF ChangeBegin
  <2>2. CASE x = s
    BY <1>3, <2>1, <2>2
  <2>3. CASE x # s
    <3>1. sessions' = [sessions EXCEPT ![x] = sessions'[x]]
      BY <2>1, <1>0 DEF Extended
    <3> QED
      BY <1>2, <2>3, <3>1
  <2> QED
    BY <2>2, <2>3
<1>6. ASSUME NEW i, NEW pw, LoginSucceeds(i, pw)
      PROVE  LiveOut(s)
  <2>1. PICK x \in 1..MaxSessions :
          Reusable(x) /\ sessions' = [sessions EXCEPT ![x] =
            [token |-> FreshToken(x), name |-> users[i].name, role |-> users[i].role,
             expires |-> now + SessionTime]]
    BY <1>6 DEF LoginSucceeds
  <2>2. CASE x = s
    <3>1. sessions'[s].token = FreshToken(s) /\ sessions[s].expires < now
      BY <1>0, <2>1, <2>2 DEF Reusable
    <3>2. FreshToken(s) # sessions[s].token
      BY SessionsKeepType
    <3> QED
      BY <1>0, <3>1, <3>2 DEF LiveOut
  <2>3. CASE x # s
    BY <1>2, <2>1, <2>3
  <2> QED
    BY <2>2, <2>3
<1> QED
  <2>1. ASSUME NEW i, NEW pw, LoginFails(i, pw) \/ LoginFull(i, pw)
        PROVE  sessions' = sessions
    BY <2>1 DEF LoginFails, LoginFull
  <2>2. ASSUME NEW name, NEW pw, NEW role, CreateUser(name, pw, role) \/ DeleteUser(name)
        PROVE  sessions' = sessions
    BY <2>2 DEF CreateUser, DeleteUser
  <2>3. ASSUME NEW t \in Threads, ChangeEnd(t)
        PROVE  sessions' = sessions
    BY <2>3 DEF ChangeEnd
  <2>4. AuthShutdown \/ Tick \/ UNCHANGED vars => sessions' = sessions
    BY DEF AuthShutdown, Tick, vars, memory
  <2> QED
    BY <1>1, <1>4, <1>5, <1>6, <2>1, <2>2, <2>3, <2>4 DEF Next

(* SessionsLiveOut: a session that has not expired is ended by its own       *)
(* logout or with the process, never by a login in need of a slot, and one   *)
(* that has expired is never accepted or extended again.                     *)
THEOREM SessionsLive == Spec => SessionsLiveOut
<1>1. TablesInv /\ [Next]_vars => [\A s \in 1..MaxSessions : LiveOut(s)]_vars
  BY SessionsStep
<1> QED
  BY <1>1, TablesInvHolds, PTL DEF Spec, SessionsLiveOut, LiveOut

-----------------------------------------------------------------------------
(* Guessing.  A table covers the misses when every account that missed is in *)
(* it, and either counts its misses or is locked for long enough after them. *)

Spaced(times, t) ==
  /\ times \in Seq(Nat) /\ Len(times) <= MaxAttempts + 1
  /\ \A k \in 1..Len(times) : times[k] <= t
  /\ Len(times) > MaxAttempts => times[Len(times)] >= times[1] + Lockout

GuessInv ==
  /\ DOMAIN misses = Names /\ misses = [n \in Names |-> misses[n]]
  /\ \A n \in Names : Spaced(misses[n], now)
  /\ initialized \/ users # <<>> => Covers(users, misses)
  /\ ~unsaved /\ store # None => Covers(store, misses)

LEMMA NoMissIsSpaced ==
  ASSUME NEW t
  PROVE  Spaced(<<>>, t)
<1>1. <<>> \in Seq(Nat) /\ Len(<<>>) = 0 /\ 1..0 = {}
  OBVIOUS
<1> QED
  BY <1>1, Positive DEF Spaced

\* One more miss of an account that is not locked.
LEMMA MissIsGuarded ==
  ASSUME NEW u \in UserType, NEW times, Guards(u, times), Spaced(times, now), now \in Nat,
         ~Locked(u), u.role # "ADMIN", u.failed >= MaxAttempts => u.locked # 0,
         NEW later, later = Lately(Append(times, now))
  PROVE  Guards(Miss(u), later) /\ Spaced(later, now) /\ later # <<>>
<1> DEFINE l == Len(times)
           more == Append(times, now)
<1>1. /\ u.failed \in Nat /\ u.locked \in Nat /\ MaxAttempts \in Nat /\ MaxAttempts >= 1
      /\ Lockout \in Nat
  BY Positive DEF UserType
<1>2. times \in Seq(Nat) /\ l \in Nat /\ l <= MaxAttempts + 1 /\ \A k \in 1..l : times[k] \in Nat /\ times[k] <= now
  BY DEF Spaced
<1>3. /\ more \in Seq(Nat) /\ Len(more) = l + 1 /\ more[l+1] = now
      /\ \A k \in 1..l : more[k] = times[k]
  BY <1>2
<1>4. \A k \in 1..(l+1) : more[k] \in Nat /\ more[k] <= now
  <2>1. \A k \in 1..(l+1) : k \in 1..l \/ k = l + 1
    BY <1>2
  <2> QED
    BY <2>1, <1>2, <1>3
<1>5. later = IF l + 1 > MaxAttempts + 1 THEN Tail(more) ELSE more
  BY <1>3 DEF Lately
<1>6. ASSUME l >= MaxAttempts
      PROVE  \A k \in 1..l : times[k] + Lockout <= now
  <2>1. ~ (u.failed < MaxAttempts)
    BY <1>1, <1>2, <1>6 DEF Guards
  <2>2. now >= u.locked
    BY <1>1, <2>1 DEF Locked
  <2>3. \A k \in 1..l : times[k] + Lockout <= u.locked
    BY <2>1 DEF Guards
  <2> QED
    BY <1>1, <1>2, <2>2, <2>3
<1> HIDE DEF more
<1>7. /\ later \in Seq(Nat) /\ Len(later) <= MaxAttempts + 1 /\ Len(later) <= l + 1 /\ Len(later) >= 1
      /\ later[Len(later)] = now
      /\ \A k \in 1..Len(later) : later[k] <= now
      /\ Len(later) > MaxAttempts => l >= MaxAttempts /\ \E k \in 1..l : later[1] = times[k]
  <2>1. CASE l + 1 > MaxAttempts + 1
    <3>1. l = MaxAttempts + 1 /\ l >= 2 /\ later = Tail(more)
      BY <1>1, <1>2, <1>5, <2>1
    <3>2. /\ later \in Seq(Nat) /\ Len(later) = l /\ \A k \in 1..l : later[k] = more[k+1]
      BY <1>3, <3>1
    <3>3. later[1] = times[2] /\ later[l] = now /\ 2 \in 1..l /\ l \in 1..l /\ 1 \in 1..l
      BY <1>2, <1>3, <3>1, <3>2
    <3>4. \A k \in 1..l : later[k] <= now
      <4>1. \A k \in 1..l : k + 1 \in 1..(l+1)
        BY <1>2
      <4> QED
        BY <1>4, <3>2, <4>1
    <3> QED
      BY <1>1, <3>1, <3>2, <3>3, <3>4
  <2>2. CASE ~(l + 1 > MaxAttempts + 1)
    <3>1. later = more
      BY <1>5, <2>2
    <3>2. ASSUME l + 1 > MaxAttempts
          PROVE  l >= MaxAttempts /\ 1 \in 1..l /\ later[1] = times[1]
      <4>1. l >= MaxAttempts /\ 1 \in 1..l
        BY <1>1, <1>2, <3>2
      <4> QED
        BY <4>1, <3>1, <1>3
    <3> QED
      BY <1>1, <1>2, <1>3, <1>4, <2>2, <3>1, <3>2
  <2> QED
    BY <2>1, <2>2
<1>8. Len(later) > MaxAttempts => later[Len(later)] >= later[1] + Lockout
  <2> SUFFICES ASSUME Len(later) > MaxAttempts
               PROVE  now >= later[1] + Lockout
    BY <1>7
  <2>1. PICK k \in 1..l : later[1] = times[k]
    BY <1>7
  <2> QED
    BY <1>1, <1>2, <1>6, <1>7, <2>1
<1>9. Guards(Miss(u), later)
  <2>1. /\ Miss(u).failed = u.failed + 1
        /\ Miss(u).locked = IF u.failed + 1 >= MaxAttempts THEN now + Lockout ELSE u.locked
    <3>1. DefaultPassword \in Passwords
      BY AuthAssumption, Zenon DEF AuthAssumption
    <3> QED
      BY <3>1, EditedUser
  <2>2. CASE u.failed + 1 < MaxAttempts
    <3>1. Len(times) <= u.failed
      BY <1>1, <2>2 DEF Guards
    <3> QED
      BY <1>1, <1>2, <1>7, <2>1, <2>2, <3>1 DEF Guards
  <2>3. CASE ~(u.failed + 1 < MaxAttempts)
    <3>1. Miss(u).locked = now + Lockout
      BY <1>1, <2>1, <2>3
    <3>2. \A k \in 1..Len(later) : later[k] + Lockout <= now + Lockout
      <4>1. \A k \in 1..Len(later) : later[k] \in Nat /\ later[k] <= now
        BY <1>7
      <4> QED
        BY <4>1, <1>1
    <3> QED
      BY <2>1, <2>3, <3>1, <3>2 DEF Guards
  <2> QED
    BY <2>2, <2>3
<1>10. later # <<>>
  BY <1>7
<1> QED
  BY <1>7, <1>8, <1>9, <1>10 DEF Spaced

LEMMA CoversEdit ==
  ASSUME NEW us, Table(us), NEW missed, Covers(us, missed), NEW i \in 1..Len(us), us[i].in_use,
         NEW new, Len(new) = Len(us), new[i].name = us[i].name,
         \A j \in 1..Len(us) : j # i => new[j] = us[j],
         NEW since, \A n \in Names : n # us[i].name => since[n] = missed[n],
         new[i].in_use => Guards(new[i], since[us[i].name]),
         new[i].in_use \/ since[us[i].name] = <<>>
  PROVE  Covers(new, since)
<1>1. ASSUME NEW j \in 1..Len(us), new[j].in_use
      PROVE  Guards(new[j], since[new[j].name])
  <2>1. CASE j = i
    BY <1>1, <2>1
  <2>2. CASE j # i
    <3>1. new[j] = us[j] /\ us[j].in_use /\ us[j].name # us[i].name
      BY <1>1, <2>2 DEF Table, OneName
    <3>2. us[j] \in UserType /\ us[j].name \in Names
      <4>1. us[j] \in UserType
        BY DEF Table
      <4> QED
        BY <4>1 DEF UserType
    <3>3. Guards(us[j], missed[us[j].name])
      BY <3>1 DEF Covers
    <3> QED
      BY <3>1, <3>2, <3>3
  <2> QED
    BY <2>1, <2>2
<1>2. ASSUME NEW n \in Names, since[n] # <<>>
      PROVE  \E j \in 1..Len(us) : new[j].in_use /\ new[j].name = n
  <2>1. CASE n = us[i].name
    BY <1>2, <2>1
  <2>2. CASE n # us[i].name
    <3>1. PICK j \in 1..Len(us) : us[j].in_use /\ us[j].name = n
      BY <1>2, <2>2 DEF Covers
    <3>2. new[j] = us[j]
      BY <2>2, <3>1
    <3> QED
      BY <3>1, <3>2
  <2> QED
    BY <2>1, <2>2
<1> QED
  BY <1>1, <1>2 DEF Covers

Counted(missed, t) ==
  /\ DOMAIN missed = Names /\ missed = [n \in Names |-> missed[n]]
  /\ \A n \in Names : Spaced(missed[n], t)

LEMMA SavedMisses ==
  ASSUME TablesInv, Table(users'), Persist(users') \/ unsaved' = TRUE, Covers(users', misses'),
         Counted(misses', now')
  PROVE  GuessInv'
<1>1. ~unsaved' => store' = InUse(users')
  <2>1. CASE Persist(users')
    BY <2>1, Persisting
  <2> QED
    BY <2>1
<1>2. Covers(InUse(users'), misses')
  BY InUseCovers
<1>3. ~unsaved' /\ store' # None => Covers(store', misses')
  BY <1>1, <1>2
<1>4. initialized' \/ users' # <<>> => Covers(users', misses')
  OBVIOUS
<1>5. /\ DOMAIN misses' = Names /\ misses' = [n \in Names |-> misses'[n]]
      /\ \A n \in Names : Spaced(misses'[n], now')
  BY DEF Counted
<1> QED
  BY <1>3, <1>4, <1>5 DEF GuessInv

\* What happened to one account.
LEMMA CountedEdit ==
  ASSUME Counted(misses, now), NEW name \in Names, NEW times, Spaced(times, now),
         NEW since, since = Put(misses, name, times)
  PROVE  /\ Counted(since, now) /\ since[name] = times
         /\ \A n \in Names : n # name => since[n] = misses[n]
<1>1. /\ DOMAIN since = Names /\ since = [n \in Names |-> since[n]] /\ since[name] = times
      /\ \A n \in Names : n # name => since[n] = misses[n]
  BY DEF Counted, Put
<1>2. \A n \in Names : Spaced(since[n], now)
  BY <1>1 DEF Counted
<1> QED
  BY <1>1, <1>2 DEF Counted

LEMMA GuessInit == Init => GuessInv
<1> SUFFICES ASSUME Init PROVE GuessInv
  OBVIOUS
<1>1. misses = [n \in Names |-> <<>>] /\ initialized = FALSE /\ users = <<>> /\ store = None
  BY DEF Init, NoMisses
<1>2. \A n \in Names : Spaced(misses[n], now)
  BY <1>1, NoMissIsSpaced
<1> QED
  BY <1>1, <1>2 DEF GuessInv

\* A login, a password change or a deletion, once it is saved or known not to be.
LEMMA EditIsCovered ==
  ASSUME TablesInv, GuessInv, NEW name, NEW i \in Finds(name), NEW pw \in Passwords,
         NEW u \in Edits(users[i], pw),
         users' = Put(users, i, u),
         NEW times, Spaced(times, now), misses' = Put(misses, name, times),
         u.in_use => Guards(u, times), u.in_use \/ times = <<>>,
         Persist(users') \/ unsaved' = TRUE, now' = now
  PROVE  GuessInv'
<1>1. /\ i \in 1..Len(users) /\ users[i].in_use /\ users[i].name = name /\ name \in Names
  BY FoundUser
<1>2. /\ Table(users') /\ Len(users') = Len(users) /\ users'[i] = u /\ u.name = name
      /\ \A j \in 1..Len(users) : j # i => users'[j] = users[j]
  BY EditedTable
<1>3. users # <<>>
  BY <1>1
<1>4. Table(users) /\ Covers(users, misses) /\ Counted(misses, now)
  BY <1>3 DEF TablesInv, GuessInv, Counted
<1>5. /\ Counted(misses', now) /\ misses'[name] = times
      /\ \A n \in Names : n # name => misses'[n] = misses[n]
  BY <1>1, <1>4, CountedEdit
<1>6. Covers(users', misses')
  BY <1>1, <1>2, <1>4, <1>5, CoversEdit
<1> QED
  BY <1>2, <1>5, <1>6, SavedMisses

\* Neither the accounts nor the misses change.
LEMMA GuessKept ==
  ASSUME TablesInv, GuessInv, users' = users \/ (users' = <<>> /\ initialized' = FALSE),
         misses' = misses, store' = store, unsaved' = unsaved,
         initialized' = initialized \/ initialized' = FALSE, now' \in Nat, now' >= now
  PROVE  GuessInv'
<1>1. \A n \in Names : Spaced(misses'[n], now')
  <2> SUFFICES ASSUME NEW n \in Names PROVE Spaced(misses[n], now')
    OBVIOUS
  <2>1. Spaced(misses[n], now) /\ now \in Nat
    BY DEF GuessInv, TablesInv
  <2>2. misses[n] \in Seq(Nat)
    BY <2>1 DEF Spaced
  <2>3. \A k \in 1..Len(misses[n]) : misses[n][k] \in Nat /\ misses[n][k] <= now'
    BY <2>1, <2>2 DEF Spaced
  <2> QED
    BY <2>1, <2>3 DEF Spaced
<1>2. DOMAIN misses' = Names /\ misses' = [n \in Names |-> misses'[n]]
  BY DEF GuessInv
<1>3. initialized' \/ users' # <<>> => Covers(users', misses')
  BY DEF GuessInv
<1>4. ~unsaved' /\ store' # None => Covers(store', misses')
  BY DEF GuessInv
<1> QED
  BY <1>1, <1>2, <1>3, <1>4 DEF GuessInv

\* Nothing missed is covered by any table without failures.
LEMMA NoMissIsGuarded ==
  ASSUME NEW u, u.failed \in Nat
  PROVE  Guards(u, <<>>)
<1>1. Len(<<>>) = 0 /\ 1..0 = {}
  OBVIOUS
<1> QED
  BY <1>1 DEF Guards

LEMMA NothingMissed ==
  ASSUME NEW us, Table(us)
  PROVE  Covers(us, NoMisses) /\ \A t : Counted(NoMisses, t)
<1>1. \A n \in Names : NoMisses[n] = <<>>
  BY DEF NoMisses
<1>2. \A i \in 1..Len(us) : us[i].name \in Names /\ us[i].failed \in Nat
  <2>1. \A u \in UserType : u.name \in Names /\ u.failed \in Nat
    BY DEF UserType
  <2>2. \A i \in 1..Len(us) : us[i] \in UserType
    BY DEF Table
  <2> QED
    BY <2>1, <2>2
<1>3. \A i \in 1..Len(us) : Guards(us[i], <<>>)
  BY <1>2, NoMissIsGuarded
<1>4. \A t : Counted(NoMisses, t)
  BY <1>1, NoMissIsSpaced DEF Counted, NoMisses
<1> QED
  BY <1>1, <1>2, <1>3, <1>4 DEF Covers

LEMMA GuessAuthInit ==
  ASSUME TablesInv, GuessInv, AuthInit
  PROVE  GuessInv'
<1>1. CASE store # None /\ users' = Loaded(store) /\ store' = store
           /\ misses' = IF unsaved THEN NoMisses ELSE misses
  <2>1. Kept(store) /\ users' = store /\ Table(users')
    <3>1. Kept(store)
      BY <1>1 DEF TablesInv
    <3> QED
      BY <3>1, <1>1, KeptIsLoaded DEF Kept
  <2>2. Covers(users', misses') /\ Counted(misses', now)
    <3>1. CASE unsaved
      BY <1>1, <2>1, <3>1, NothingMissed
    <3>2. CASE ~unsaved
      BY <1>1, <2>1, <3>2 DEF GuessInv, Counted
    <3> QED
      BY <3>1, <3>2
  <2>3. now' = now
    BY DEF AuthInit
  <2> QED
    BY <1>1, <2>1, <2>2, <2>3 DEF GuessInv, Counted
<1>2. CASE users' = Seeded /\ Persist(Seeded) /\ misses' = NoMisses
  <2>1. Table(users') /\ Persist(users') /\ Covers(users', misses')
    BY <1>2, SeededTable
  <2>2. Counted(misses', now')
    BY <1>2, <2>1, NothingMissed
  <2> QED
    BY <2>1, <2>2, SavedMisses
<1> QED
  BY <1>1, <1>2 DEF AuthInit, Persist

LEMMA GuessLogin ==
  ASSUME TablesInv, GuessInv, NEW name \in Names, NEW pw \in Passwords, NEW i \in Finds(name),
         LoginFails(i, pw) \/ LoginSucceeds(i, pw) \/ LoginFull(i, pw)
  PROVE  GuessInv'
<1>1. /\ i \in 1..Len(users) /\ users[i] \in UserType /\ users[i].in_use /\ users[i].name = name
      /\ users[i].failed >= MaxAttempts => users[i].locked # 0
  BY FoundUser
<1>2. now \in Nat /\ Spaced(misses[name], now) /\ Guards(users[i], misses[name])
  <2>1. users # <<>>
    BY <1>1
  <2>2. Covers(users, misses)
    BY <2>1 DEF GuessInv
  <2> QED
    BY <1>1, <2>2 DEF GuessInv, TablesInv, Covers
<1>3. CASE LoginFails(i, pw)
  <2> DEFINE u == Miss(users[i])
             later == Lately(Append(misses[name], now))
  <2>1. /\ users' = Put(users, i, u) /\ misses' = Put(misses, name, later)
        /\ Persist(users') /\ now' = now /\ ~Locked(users[i]) /\ users[i].role # "ADMIN"
    <3>1. ~Matches(users[i], pw) /\ ~Locked(users[i]) /\ users[i].role # "ADMIN"
      BY <1>3 DEF LoginFails, Admitted
    <3> QED
      BY <1>1, <1>3, <3>1 DEF LoginFails, Judged, Put
  <2>2. u \in Edits(users[i], pw)
    BY DEF Edits
  <2>3. Guards(u, later) /\ Spaced(later, now)
    BY <1>1, <1>2, <2>1, MissIsGuarded
  <2>4. u.in_use
    BY <1>1, <1>2, EditedUser
  <2> HIDE DEF u, later
  <2> QED
    BY <2>1, <2>2, <2>3, <2>4, EditIsCovered
<1>4. CASE LoginSucceeds(i, pw) \/ LoginFull(i, pw)
  <2> DEFINE u == Cleared(users[i], pw)
             times == IF users[i].role = "ADMIN" THEN misses[name] ELSE <<>>
  <2>1. misses' = Put(misses, name, times)
    <3>1. misses' = Judged(users[i], pw) /\ Admitted(users[i], pw)
      BY <1>4 DEF LoginSucceeds, LoginFull
    <3>2. DOMAIN misses = Names /\ misses = [n \in Names |-> misses[n]]
      BY DEF GuessInv
    <3>3. CASE users[i].role = "ADMIN"
      BY <1>1, <3>1, <3>2, <3>3 DEF Judged, Put
    <3>4. CASE users[i].role # "ADMIN"
      <4>1. Matches(users[i], pw)
        BY <3>1, <3>4 DEF Admitted, Recovers
      <4> QED
        BY <1>1, <3>1, <3>4, <4>1 DEF Judged, Put
    <3> QED
      BY <3>3, <3>4
  <2>2. /\ users' = Put(users, i, u)
        /\ Persist(users') \/ unsaved' = TRUE
        /\ now' = now
    BY <1>1, <1>4 DEF LoginSucceeds, LoginFull, Put
  <2>3. u \in Edits(users[i], pw)
    BY DEF Edits
  <2>4. u.failed = 0 /\ u.role = users[i].role /\ u.in_use
    <3>1. u.failed = 0 /\ u.in_use
      BY <1>1, <1>2, EditedUser
    <3>2. u.role = users[i].role
      BY <1>1 DEF Cleared, UserType
    <3> QED
      BY <3>1, <3>2
  <2>5. Guards(u, times) /\ Spaced(times, now)
    <3>1. CASE users[i].role = "ADMIN"
      BY <1>2, <2>4, <3>1 DEF Guards
    <3>2. CASE users[i].role # "ADMIN"
      BY <2>4, <3>2, NoMissIsGuarded, NoMissIsSpaced
    <3> QED
      BY <3>1, <3>2
  <2> HIDE DEF u, times
  <2> QED
    BY <2>1, <2>2, <2>3, <2>4, <2>5, EditIsCovered
<1> QED
  BY <1>3, <1>4

LEMMA GuessAccount ==
  ASSUME TablesInv, GuessInv, NEW name \in Names, NEW pw \in Passwords, NEW role \in Roles,
         CreateUser(name, pw, role) \/ DeleteUser(name)
  PROVE  GuessInv'
<1>1. CASE CreateUser(name, pw, role)
  <2> DEFINE u == User(name, pw, role)
  <2>1. u \in UserType /\ u.failed = 0 /\ u.name = name
    BY NewUser
  <2>2. /\ users' = Append(users, u) /\ Len(users) < MaxUsers /\ Persist(users')
        /\ misses' = misses /\ now' = now /\ initialized /\ Finds(name) = {}
    BY <1>1 DEF CreateUser
  <2> HIDE DEF u
  <2>3. Table(users) /\ DOMAIN users = 1..Len(users) /\ Len(users) \in Nat
    BY DEF TablesInv, Table
  <2>4. \A i \in 1..Len(users) : users[i].in_use => users[i].name # name
    BY <2>2, <2>3 DEF Finds
  <2>5. /\ Table(users') /\ Len(users') = Len(users) + 1 /\ users'[Len(users) + 1] = u
        /\ \A i \in 1..Len(users) : users'[i] = users[i]
    <3>1. Table(users')
      BY <2>1, <2>2, <2>3, <2>4, AppendUser
    <3>2. users \in Seq(UserType)
      BY <2>3 DEF Table
    <3> QED
      BY <2>1, <2>2, <3>1, <3>2
  <2>6. Covers(users, misses) /\ Counted(misses, now)
    BY <2>2 DEF GuessInv, Counted
  <2>7. misses[name] = <<>>
    BY <2>4, <2>6 DEF Covers
  <2>8. Guards(u, misses[name])
    BY <2>1, <2>7, NoMissIsGuarded
  <2>9. Covers(users', misses)
    <3>1. \A i \in 1..Len(users') : i \in 1..Len(users) \/ i = Len(users) + 1
      BY <2>3, <2>5
    <3>2. \A i \in 1..Len(users') : users'[i].in_use => Guards(users'[i], misses[users'[i].name])
      BY <2>1, <2>5, <2>6, <2>8, <3>1 DEF Covers
    <3>3. \A i \in 1..Len(users) : i \in 1..Len(users')
      BY <2>3, <2>5
    <3>4. \A n \in Names : misses[n] # <<>> => \E i \in 1..Len(users') : users'[i].in_use /\ users'[i].name = n
      <4> SUFFICES ASSUME NEW n \in Names, misses[n] # <<>>
                   PROVE  \E i \in 1..Len(users') : users'[i].in_use /\ users'[i].name = n
        OBVIOUS
      <4>1. PICK i \in 1..Len(users) : users[i].in_use /\ users[i].name = n
        BY <2>6 DEF Covers
      <4> QED
        BY <4>1, <2>5, <3>3
    <3> QED
      BY <3>2, <3>4 DEF Covers
  <2> QED
    BY <2>2, <2>5, <2>6, <2>9, SavedMisses
<1>2. CASE DeleteUser(name)
  <2> DEFINE none == <<>>
  <2>1. PICK i \in Finds(name) :
          /\ users' = Put(users, i, [users[i] EXCEPT !.in_use = FALSE])
          /\ misses' = Put(misses, name, none) /\ Persist(users')
    BY <1>2 DEF DeleteUser, Put
  <2> DEFINE u == [users[i] EXCEPT !.in_use = FALSE]
  <2>2. u \in Edits(users[i], pw)
    BY DEF Edits
  <2>3. users[i] \in UserType
    BY FoundUser
  <2>4. ~u.in_use
    BY <2>3 DEF UserType
  <2>5. Spaced(none, now) /\ none = <<>>
    BY NoMissIsSpaced
  <2>6. users' = Put(users, i, u) /\ now' = now
    BY <1>2, <2>1 DEF DeleteUser
  <2> HIDE DEF u, none
  <2> QED
    BY <2>1, <2>2, <2>4, <2>5, <2>6, EditIsCovered
<1> QED
  BY <1>1, <1>2

LEMMA GuessChange ==
  ASSUME TablesInv, GuessInv, NEW t \in Threads, ChangeEnd(t)
  PROVE  GuessInv'
<1> DEFINE c == pending[t]
           hits == {i \in Finds(c.name) : Matches(users[i], c.old)}
<1>1. c.new \in Passwords
  <2>1. c \in Changes
    BY DEF ChangeEnd, TablesInv
  <2> QED
    BY <2>1 DEF Changes
<1>2. CASE hits = {}
  <2>1. users' = users /\ store' = store /\ unsaved' = unsaved /\ misses' = misses /\ now' = now
        /\ initialized' = initialized
    BY <1>2 DEF ChangeEnd
  <2>2. now \in Nat
    BY DEF TablesInv
  <2> QED
    BY <2>1, <2>2, GuessKept
<1>3. CASE hits # {}
  <2> DEFINE i == Min(hits)
             name == c.name
             pw == c.new
             u == [users[i] EXCEPT !.pw = pw]
             times == misses[name]
  <2>1. i \in Finds(name)
    <3>1. hits \subseteq Finds(name) /\ hits \subseteq Nat
      BY DEF Finds, TablesInv, Table
    <3> HIDE DEF hits
    <3>2. \E k \in hits : \A j \in hits : k <= j
      BY <1>3, <3>1, LeastNatural
    <3>3. i \in hits
      BY <3>2 DEF Min
    <3> QED
      BY <3>1, <3>3
  <2>2. users' = Put(users, i, u) /\ Persist(users') /\ misses' = misses /\ now' = now
    BY <1>3 DEF ChangeEnd, Put
  <2>3. /\ i \in 1..Len(users) /\ users[i] \in UserType /\ users[i].in_use /\ users[i].name = name
        /\ name \in Names
    <3> HIDE DEF i, name
    <3> QED
      BY <2>1, FoundUser
  <2>4. u.failed = users[i].failed /\ u.locked = users[i].locked /\ u.role = users[i].role /\ u.in_use
    BY <2>3 DEF UserType
  <2>5. Spaced(times, now) /\ Guards(users[i], times) /\ misses = [n \in Names |-> misses[n]]
    <3>1. users # <<>>
      BY <2>3
    <3>2. Covers(users, misses)
      BY <3>1 DEF GuessInv
    <3> HIDE DEF i, name
    <3> QED
      BY <2>3, <3>2 DEF GuessInv, Covers
  <2>6. u \in Edits(users[i], pw)
    BY DEF Edits
  <2>7. misses' = Put(misses, name, times)
    BY <2>2, <2>3, <2>5 DEF Put
  <2> HIDE DEF c, i, u, times, name, pw
  <2>8. Guards(u, times)
    BY <2>4, <2>5 DEF Guards
  <2>9. pw \in Passwords
    BY <1>1 DEF pw
  <2> QED
    BY <2>1, <2>2, <2>4, <2>5, <2>6, <2>7, <2>8, <2>9, EditIsCovered
<1> QED
  BY <1>2, <1>3

LEMMA GuessStep ==
  ASSUME TablesInv, GuessInv, [Next]_vars
  PROVE  GuessInv'
<1>0. now \in Nat /\ initialized \in BOOLEAN
  BY DEF TablesInv
<1>1. CASE AuthInit
  BY <1>1, GuessAuthInit
<1>2. CASE AuthShutdown
  <2>1. Persist(users') /\ users' = users /\ misses' = misses /\ now' = now
    BY <1>2 DEF AuthShutdown, memory
  <2>2. Table(users) /\ Covers(users, misses) /\ Counted(misses, now)
    BY <1>2 DEF AuthShutdown, TablesInv, GuessInv, Counted
  <2> QED
    BY <2>1, <2>2, SavedMisses
<1>3. CASE Crash
  <2>1. /\ users' = <<>> /\ initialized' = FALSE /\ misses' = misses /\ store' = store
        /\ unsaved' = unsaved /\ now' = now
    BY <1>3 DEF Crash
  <2>2. now' \in Nat /\ now' >= now
    BY <1>0, <2>1
  <2> QED
    BY <2>1, <2>2, GuessKept
<1>4. CASE Tick
  BY <1>0, <1>4, GuessKept DEF Tick, memory
<1>5. ASSUME NEW s, Logout(s) \/ Verify(s) \/ \E t, old, new : ChangeBegin(t, s, old, new)
      PROVE  GuessInv'
  <2>1. /\ users' = users /\ initialized' = initialized /\ misses' = misses /\ store' = store
        /\ unsaved' = unsaved /\ now' = now
    BY <1>5 DEF Logout, Verify, ChangeBegin
  <2>2. now' \in Nat /\ now' >= now
    BY <1>0, <2>1
  <2> QED
    BY <2>1, <2>2, GuessKept
<1>6. ASSUME NEW name \in Managed, NEW pw \in Passwords, NEW role \in NewRoles,
             CreateUser(name, pw, role) \/ DeleteUser(name)
      PROVE  GuessInv'
  <2>1. name \in Names /\ role \in Roles
    BY AuthAssumption, Zenon DEF AuthAssumption
  <2> QED
    BY <1>6, <2>1, GuessAccount
<1>7. ASSUME NEW name \in Managed, DeleteUser(name)
      PROVE  GuessInv'
  <2>1. name \in Names /\ DefaultPassword \in Passwords
    BY AuthAssumption, Zenon DEF AuthAssumption
  <2>2. "ADMIN" \in Roles
    BY DEF Roles
  <2> QED
    BY <1>7, <2>1, <2>2, GuessAccount
<1>8. CASE UNCHANGED vars
  BY <1>0, <1>8, GuessKept DEF vars, memory
<1> QED
  BY <1>1, <1>2, <1>3, <1>4, <1>5, <1>6, <1>7, <1>8, GuessLogin, GuessChange DEF Next

LEMMA GuessInvHolds == Spec => []GuessInv
<1>1. Init => GuessInv
  BY GuessInit
<1>2. TablesInv /\ GuessInv /\ [Next]_vars => GuessInv'
  BY GuessStep
<1> QED
  BY <1>1, <1>2, TablesInvHolds, PTL DEF Spec

(* GuessesAreBounded: whatever the number of attempts and the lockout, of    *)
(* any MAX_ATTEMPTS + 1 wrong passwords in a row to an account that is not   *)
(* an administrator's the last comes a lockout after the first, through      *)
(* restarts, deletions and changes.                                          *)
THEOREM GuessingIsBounded == Spec => []GuessesAreBounded
<1>1. TablesInv /\ GuessInv => GuessesAreBounded
  <2> SUFFICES ASSUME TablesInv, GuessInv,
                      NEW i \in 1..Len(users)
               PROVE  LET times == misses[users[i].name]
                      IN  Len(times) > MaxAttempts => times[Len(times)] >= times[1] + Lockout
    BY DEF GuessesAreBounded, TablesInv, Table, ToSet
  <2>1. users[i] \in UserType
    BY DEF TablesInv, Table
  <2>2. users[i].name \in Names
    BY <2>1 DEF UserType
  <2> QED
    BY <2>2 DEF GuessInv, Spaced
<1> QED
  BY <1>1, TablesInvHolds, GuessInvHolds, PTL

-----------------------------------------------------------------------------
(* Remainders.                                                               *)

LEMMA Remainder ==
  ASSUME NEW d \in Nat, d > 0, NEW q \in Int, NEW r \in 0..(d-1)
  PROVE  (d * q + r) % d = r
<1> DEFINE p == d * q
<1>1. p \in Int
  OBVIOUS
<1> QED
  OBVIOUS

LEMMA NearDiffer ==
  ASSUME NEW d \in Nat, d > 0, NEW a \in Nat, NEW b \in Nat, a < b, b < a + d
  PROVE  a % d # b % d
<1>1. PICK qa \in Int : a = d * qa + (a % d)
  BY a = d * (a \div d) + (a % d)
<1>2. PICK qb \in Int : b = d * qb + (b % d)
  BY b = d * (b \div d) + (b % d)
<1> SUFFICES ASSUME a % d = b % d
             PROVE  FALSE
  OBVIOUS
<1>3. b - a = d * (qb - qa)
  BY <1>1, <1>2
<1> DEFINE k == qb - qa
<1>4. k \in Int /\ b - a = d * k
  BY <1>3
<1> HIDE DEF k
<1>5. k <= 0 => d * k <= 0
  BY <1>4
<1>6. k >= 1 => d * k >= d
  BY <1>4
<1> QED
  BY <1>4, <1>5, <1>6

-----------------------------------------------------------------------------
(* Passwords are digested by sha256.c.  Sequences of blocks laid end to end. *)

IsLaid(f, seqs) ==
  /\ Len(seqs) > 0 => f[1] = seqs[1]
  /\ \A i \in 2..Len(seqs) : f[i] = f[i-1] \o seqs[i]

LEMMA LaidOut ==
  ASSUME NEW S, NEW seqs \in Seq(Seq(S)), Len(seqs) > 0
  PROVE  \E f : IsLaid(f, seqs) /\ FlattenSeq(seqs) = f[Len(seqs)]
<1> DEFINE size == Len(seqs)
           Def(f, i) == IF i = 1 THEN seqs[i] ELSE f[i-1] \o seqs[i]
           Fits(f, i) == f = [k \in 1..i |-> Def(f, k)]
           fit == {i \in Nat : \E f : Fits(f, i)}
           laid == CHOOSE f : Fits(f, size)
<1>1. size \in Nat /\ FlattenSeq(seqs) = laid[size]
  BY DEF FlattenSeq
<1>2. Nat \subseteq fit
  <2>1. 0 \in fit
    <3>1. \A k \in 1..0 : FALSE
      OBVIOUS
    <3>2. Fits([k \in 1..0 |-> 0], 0)
      BY <3>1
    <3> QED
      BY <3>2
  <2>2. ASSUME NEW n \in Nat, n \in fit
        PROVE  n + 1 \in fit
    <3>1. PICK f : Fits(f, n)
      BY <2>2
    <3> DEFINE g == [k \in 1..(n+1) |-> IF k <= n THEN f[k] ELSE Def(f, k)]
    <3>2. \A k \in 1..n : f[k] = Def(f, k)
      BY <3>1
    <3>3. \A k \in 1..(n+1) : g[k] = Def(g, k)
      <4> TAKE k \in 1..(n+1)
      <4>1. CASE k = 1
        <5>1. Def(g, k) = Def(f, k)
          BY <4>1
        <5>2. g[k] = Def(f, k)
          BY <3>2
        <5> QED
          BY <5>1, <5>2
      <4>2. CASE k # 1
        <5>1. k - 1 \in 1..(n+1) /\ k - 1 <= n /\ k - 1 \in 1..n
          BY <4>2
        <5>2. g[k-1] = f[k-1]
          BY <5>1
        <5>3. Def(g, k) = Def(f, k)
          BY <5>2
        <5>4. g[k] = Def(f, k)
          BY <3>2
        <5> QED
          BY <5>3, <5>4
      <4> QED
        BY <4>1, <4>2
    <3>4. g = [k \in 1..(n+1) |-> Def(g, k)]
      <4>1. g = [k \in 1..(n+1) |-> g[k]]
        OBVIOUS
      <4> HIDE DEF g, Def
      <4> QED
        BY <4>1, <3>3
    <3>5. n + 1 \in Nat
      OBVIOUS
    <3> HIDE DEF g, Def
    <3>6. Fits(g, n + 1)
      BY <3>4
    <3> HIDE DEF Fits
    <3> QED
      BY <3>5, <3>6
  <2> HIDE DEF fit
  <2> QED
    BY <2>1, <2>2, EveryNatural
<1>3. Fits(laid, size)
  <2>1. \E f : Fits(f, size)
    BY <1>1, <1>2
  <2> HIDE DEF Fits
  <2> QED
    BY <2>1
<1>4. \A n \in 1..size : laid[n] = Def(laid, n)
  BY <1>3
<1> HIDE DEF laid, fit, Fits
<1>5. laid[1] = seqs[1]
  BY <1>1, <1>4
<1>6. ASSUME NEW i \in 2..size
      PROVE  laid[i] = laid[i-1] \o seqs[i]
  <2>1. i \in 1..size /\ i # 1
    BY <1>1
  <2> QED
    BY <1>4, <2>1
<1> QED
  BY <1>1, <1>5, <1>6 DEF IsLaid

LEMMA OneMoreBlock ==
  ASSUME NEW S, NEW seqs \in Seq(Seq(S)), NEW b \in Seq(S)
  PROVE  FlattenSeq(Append(seqs, b)) = FlattenSeq(seqs) \o b
<1> DEFINE more == Append(seqs, b)
           size == Len(seqs)
<1>1. /\ more \in Seq(Seq(S)) /\ Len(more) = size + 1 /\ size \in Nat
      /\ (\A i \in 1..size : more[i] = seqs[i]) /\ more[size + 1] = b
  BY AppendProperties
<1> HIDE DEF more
<1>2. PICK g : IsLaid(g, more) /\ FlattenSeq(more) = g[size+1]
  <2>1. Len(more) > 0
    BY <1>1
  <2>2. \E g : IsLaid(g, more) /\ FlattenSeq(more) = g[Len(more)]
    BY <1>1, <2>1, LaidOut
  <2> QED
    BY <1>1, <2>2
<1>3. CASE size = 0
  <2>1. g[1] = b /\ FlattenSeq(seqs) = <<>>
    BY <1>1, <1>2, <1>3 DEF IsLaid, FlattenSeq
  <2> QED
    BY <1>2, <1>3, <2>1, ConcatEmptySeq DEF more
<1>4. CASE size # 0
  <2>1. size > 0
    BY <1>1, <1>4
  <2>2. PICK f : IsLaid(f, seqs) /\ FlattenSeq(seqs) = f[size]
    BY <2>1, LaidOut
  <2> DEFINE same == {n \in Nat : n < size => g[n+1] = f[n+1]}
  <2>3. 0 \in same
    BY <1>1, <1>2, <2>1, <2>2 DEF IsLaid
  <2>4. ASSUME NEW n \in Nat, n \in same
        PROVE  n + 1 \in same
    <3> SUFFICES ASSUME n + 1 < size PROVE g[(n+1)+1] = f[(n+1)+1]
      OBVIOUS
    <3> DEFINE i == (n + 1) + 1
    <3>1. i \in 2..size /\ i \in 2..Len(more) /\ i - 1 = n + 1 /\ g[n+1] = f[n+1] /\ i \in 1..size
      BY <1>1, <2>4
    <3> HIDE DEF i
    <3>2. g[i] = g[i-1] \o more[i] /\ f[i] = f[i-1] \o seqs[i]
      BY <1>2, <2>2, <3>1 DEF IsLaid
    <3>3. more[i] = seqs[i]
      BY <1>1, <3>1
    <3> QED
      BY <3>1, <3>2, <3>3 DEF i
  <2>5. Nat \subseteq same
    <3> HIDE DEF same
    <3> QED
      BY <2>3, <2>4, EveryNatural
  <2>6. g[size] = f[size]
    <3>1. size - 1 \in Nat /\ size - 1 < size /\ (size - 1) + 1 = size
      BY <1>1, <2>1
    <3> QED
      BY <2>5, <3>1
  <2>7. size + 1 \in 2..Len(more) /\ (size + 1) - 1 = size
    BY <1>1, <2>1
  <2>8. g[size+1] = g[size] \o b
    BY <1>1, <1>2, <2>7 DEF IsLaid
  <2> QED
    BY <1>2, <2>2, <2>6, <2>8 DEF more
<1> QED
  BY <1>3, <1>4

-----------------------------------------------------------------------------
(* Blocks.  What was given is the blocks transformed and then the buffer.    *)

Content == [is : {"data", "mark", "zero", "length"}, at : Nat]

Total(s) == FlattenSeq(s.blocks) \o s.buffer
Sound(s) ==
  /\ s.blocks \in Seq(Seq(Content)) /\ s.buffer \in Seq(Content) /\ Len(s.buffer) < BlockSize
  /\ FlattenSeq(s.blocks) \in Seq(Content)
  /\ \E q \in Nat : Len(FlattenSeq(s.blocks)) = BlockSize * q

LEMMA Regroup == \A s, t, u \in Seq(Content) : (s \o t) \o u = s \o (t \o u)
<1> TAKE s, t, u \in Seq(Content)
<1> QED
  BY ConcatAssociative

LEMMA TotalOf ==
  ASSUME NEW s, Sound(s)
  PROVE  Total(s) \in Seq(Content) /\ Len(s.buffer) = Len(Total(s)) % BlockSize
<1>1. BlockSize \in Nat /\ BlockSize > 0
  BY Sha256Assumption
<1>2. FlattenSeq(s.blocks) \in Seq(Content) /\ s.buffer \in Seq(Content) /\ Len(s.buffer) \in 0..(BlockSize - 1)
  BY <1>1 DEF Sound
<1>3. Total(s) \in Seq(Content) /\ Len(Total(s)) = Len(FlattenSeq(s.blocks)) + Len(s.buffer)
  BY <1>2, ConcatProperties DEF Total
<1>4. PICK q \in Nat : Len(FlattenSeq(s.blocks)) = BlockSize * q
  BY DEF Sound
<1>5. (BlockSize * q + Len(s.buffer)) % BlockSize = Len(s.buffer)
  <2> DEFINE r == Len(s.buffer)
  <2>1. q \in Int /\ r \in 0..(BlockSize - 1)
    BY <1>2
  <2> HIDE DEF r
  <2>2. (BlockSize * q + r) % BlockSize = r
    BY <1>1, <2>1, Remainder
  <2> QED
    BY <2>2 DEF r
<1> QED
  BY <1>3, <1>4, <1>5

LEMMA RoundAppends ==
  ASSUME NEW s, Sound(s), NEW data \in Seq(Content), s.i \in Nat, s.i < Len(data)
  PROVE  /\ Sound(Round(s, data)) /\ Round(s, data).i \in (s.i + 1)..Len(data)
         /\ Total(Round(s, data)) = Total(s) \o SubSeq(data, s.i + 1, Round(s, data).i)
<1> DEFINE at   == s.i
           full == Len(s.buffer)
           size == Len(data)
           room == BlockSize - full
           left == size - at
           take == IF room > left THEN left ELSE room
           part == SubSeq(data, at + 1, at + take)
           next == s.buffer \o part
           flat == FlattenSeq(s.blocks)
           r    == Round(s, data)
<1>1. /\ s.blocks \in Seq(Seq(Content)) /\ s.buffer \in Seq(Content) /\ flat \in Seq(Content)
      /\ full \in Nat /\ full < BlockSize /\ BlockSize \in Nat /\ size \in Nat /\ at \in Nat /\ at < size
  BY Sha256Assumption DEF Sound
<1>5. /\ r.i = at + take
      /\ r.buffer = IF Len(next) = BlockSize THEN <<>> ELSE next
      /\ r.blocks = IF Len(next) = BlockSize THEN Append(s.blocks, next) ELSE s.blocks
  BY DEF Round, Full
<1> HIDE DEF at, full, size, flat, r
<1>2. take \in Nat /\ take >= 1 /\ take <= size - at /\ take <= BlockSize - full
  BY <1>1
<1> HIDE DEF take, room, left
<1>9. at + take \in (at + 1)..size
  BY <1>1, <1>2
<1>3. part \in Seq(Content) /\ Len(part) = take
  <2>1. \A k \in (at + 1)..(at + take) : data[k] \in Content
    <3>1. \A k \in (at + 1)..(at + take) : k \in 1..size
      BY <1>1, <1>2
    <3> QED
      BY <3>1 DEF size
  <2> QED
    BY <1>1, <1>2, <2>1, SubSeqProperties
<1> HIDE DEF part
<1>4. next \in Seq(Content) /\ Len(next) = full + take
  BY <1>1, <1>3, ConcatProperties DEF full
<1>6. (flat \o s.buffer) \o part = flat \o next
  BY <1>1, <1>3, Regroup, Zenon DEF next
<1> HIDE DEF next
<1>7. CASE Len(next) = BlockSize
  <2>1. r.buffer = <<>> /\ r.blocks = Append(s.blocks, next)
    BY <1>5, <1>7
  <2>2. FlattenSeq(r.blocks) = flat \o next
    BY <1>1, <1>4, <2>1, OneMoreBlock DEF flat
  <2>3. flat \o next \in Seq(Content) /\ Len(flat \o next) = Len(flat) + BlockSize
    BY <1>1, <1>4, <1>7, ConcatProperties
  <2>4. PICK q \in Nat : Len(flat) = BlockSize * q
    BY DEF Sound, flat
  <2>5. q + 1 \in Nat /\ Len(flat \o next) = BlockSize * (q + 1)
    <3>1. BlockSize * (q + 1) = BlockSize * q + BlockSize
      BY <1>1
    <3> QED
      BY <2>3, <2>4, <3>1
  <2>6. r.blocks \in Seq(Seq(Content))
    BY <1>1, <1>4, <2>1, AppendProperties
  <2>7. r.buffer \in Seq(Content) /\ Len(r.buffer) < BlockSize
    BY <1>1, <2>1
  <2>8. Sound(r)
    BY <2>2, <2>3, <2>5, <2>6, <2>7 DEF Sound
  <2>9. Total(r) = flat \o next
    BY <2>1, <2>2, <2>3, ConcatEmptySeq DEF Total
  <2> QED
    BY <1>5, <1>6, <1>9, <2>8, <2>9 DEF Total, r, flat, part, at, size
<1>8. CASE Len(next) # BlockSize
  <2>1. r.buffer = next /\ r.blocks = s.blocks
    BY <1>5, <1>8
  <2>2. Len(next) < BlockSize
    BY <1>1, <1>2, <1>4, <1>8
  <2>3. Sound(r)
    BY <1>4, <2>1, <2>2 DEF Sound
  <2>4. Total(r) = flat \o next
    BY <2>1 DEF Total, flat
  <2> QED
    BY <1>5, <1>6, <1>9, <2>3, <2>4 DEF Total, r, flat, part, at, size
<1> QED
  BY <1>7, <1>8

LEMMA UpdateAppends ==
  ASSUME NEW s, Sound(s), NEW data \in Seq(Content)
  PROVE  Sound(Update(s, data)) /\ Total(Update(s, data)) = Total(s) \o data
<1> DEFINE size == Len(data)
           start == [i |-> 0, buffer |-> s.buffer, blocks |-> s.blocks]
           Def(g, k) == IF k = 0 THEN start ELSE IF g[k-1].i < size THEN Round(g[k-1], data) ELSE g[k-1]
           Fits(g, k) == g = [j \in 0..k |-> Def(g, j)]
           fit == {k \in Nat : \E g : Fits(g, k)}
           round == CHOOSE g : Fits(g, size)
<1>1. /\ size \in Nat /\ Update(s, data).buffer = round[size].buffer
      /\ Update(s, data).blocks = round[size].blocks
  BY DEF Update
<1> HIDE DEF start
<1>2. Nat \subseteq fit
  <2>1. 0 \in fit
    <3>1. \A k \in 0..0 : k = 0
      OBVIOUS
    <3>2. Fits([k \in 0..0 |-> start], 0)
      BY <3>1
    <3> QED
      BY <3>2
  <2>2. ASSUME NEW n \in Nat, n \in fit
        PROVE  n + 1 \in fit
    <3>1. PICK h : Fits(h, n)
      BY <2>2
    <3> DEFINE g == [k \in 0..(n+1) |-> IF k <= n THEN h[k] ELSE Def(h, k)]
    <3>2. \A k \in 0..n : h[k] = Def(h, k)
      BY <3>1
    <3>3. \A k \in 0..(n+1) : g[k] = Def(g, k)
      <4> TAKE k \in 0..(n+1)
      <4>1. CASE k = 0
        <5>1. g[k] = h[k] /\ k \in 0..n
          BY <4>1
        <5> QED
          BY <3>2, <4>1, <5>1
      <4>2. CASE k # 0
        <5>1. k - 1 \in 0..(n+1) /\ k - 1 <= n /\ k - 1 \in 0..n
          BY <4>2
        <5>2. g[k-1] = h[k-1]
          BY <5>1
        <5>3. Def(g, k) = Def(h, k)
          BY <5>2
        <5>4. g[k] = Def(h, k)
          BY <3>2
        <5> QED
          BY <5>3, <5>4
      <4> QED
        BY <4>1, <4>2
    <3>4. g = [k \in 0..(n+1) |-> Def(g, k)]
      <4>1. g = [k \in 0..(n+1) |-> g[k]]
        OBVIOUS
      <4> HIDE DEF g, Def
      <4> QED
        BY <4>1, <3>3
    <3>5. n + 1 \in Nat
      OBVIOUS
    <3> HIDE DEF g, Def
    <3>6. Fits(g, n + 1)
      BY <3>4
    <3> HIDE DEF Fits
    <3> QED
      BY <3>5, <3>6
  <2> HIDE DEF fit
  <2> QED
    BY <2>1, <2>2, EveryNatural
<1>3. Fits(round, size)
  <2>1. \E g : Fits(g, size)
    BY <1>1, <1>2
  <2> HIDE DEF Fits
  <2> QED
    BY <2>1
<1>4. \A n \in 0..size : round[n] = Def(round, n)
  BY <1>3
<1> HIDE DEF round, fit, Fits
<1> DEFINE Right(k) == /\ Sound(round[k]) /\ round[k].i \in 0..size /\ (round[k].i = size \/ round[k].i >= k)
                       /\ Total(round[k]) = Total(s) \o SubSeq(data, 1, round[k].i)
           right == {k \in Nat : k <= size => Right(k)}
<1>5. 0 \in right
  <2>1. 0 \in 0..size
    BY <1>1
  <2>2. round[0] = start
    BY <1>4, <2>1
  <2>3. Sound(start) /\ Total(start) = Total(s) /\ start.i = 0
    BY DEF Sound, Total, start
  <2>4. SubSeq(data, 1, 0) = <<>>
    BY SubSeqEmpty
  <2>5. Total(s) \o <<>> = Total(s)
    BY TotalOf, ConcatEmptySeq
  <2>6. Total(start) = Total(s) \o SubSeq(data, 1, start.i)
    BY <2>3, <2>4, <2>5
  <2>7. start.i \in 0..size /\ start.i >= 0
    BY <1>1, <2>3
  <2>8. Right(0)
    BY <2>2, <2>3, <2>6, <2>7
  <2> QED
    BY <2>8
<1>6. ASSUME NEW k \in Nat, k \in right
      PROVE  k + 1 \in right
  <2>0. k + 1 \in Nat
    OBVIOUS
  <2> HIDE DEF Right
  <2> SUFFICES ASSUME k + 1 <= size
               PROVE  Right(k + 1)
    BY <2>0
  <2> USE DEF Right
  <2> DEFINE old == round[k]
             new == round[k+1]
  <2>1. k + 1 \in 0..size /\ (k + 1) - 1 = k /\ k + 1 # 0 /\ Right(k)
    <3>1. k + 1 \in 0..size /\ (k + 1) - 1 = k /\ k + 1 # 0 /\ k <= size
      BY <1>1
    <3> HIDE DEF Right
    <3>2. Right(k)
      BY <1>6, <3>1
    <3> USE DEF Right
    <3> QED
      BY <3>1, <3>2
  <2>2. new = IF old.i < size THEN Round(old, data) ELSE old
    BY <1>4, <2>1
  <2>3. /\ Sound(old) /\ old.i \in 0..size /\ (old.i = size \/ old.i >= k)
        /\ Total(old) = Total(s) \o SubSeq(data, 1, old.i)
    BY <2>1
  <2> HIDE DEF old, new, Def, Right, right
  <2>4. CASE old.i < size
    <3>1. /\ Sound(new) /\ new.i \in (old.i + 1)..size
          /\ Total(new) = Total(old) \o SubSeq(data, old.i + 1, new.i)
      <4>1. new = Round(old, data) /\ old.i \in Nat /\ old.i < Len(data)
        BY <1>1, <2>2, <2>3, <2>4
      <4> QED
        BY <2>3, <4>1, RoundAppends
    <3>2. SubSeq(data, 1, old.i) \o SubSeq(data, old.i + 1, new.i) = SubSeq(data, 1, new.i)
      <4>1. 1 \in 1..(Len(data) + 1) /\ old.i \in (1-1)..Len(data) /\ new.i \in old.i..Len(data)
        BY <1>1, <2>3, <3>1
      <4> QED
        BY <4>1, ConcatAdjacentSubSeq
    <3>3. SubSeq(data, 1, old.i) \in Seq(Content) /\ SubSeq(data, old.i + 1, new.i) \in Seq(Content)
      <4>1. \A j \in 1..old.i : data[j] \in Content
        BY <1>1, <2>3
      <4>2. \A j \in (old.i + 1)..new.i : data[j] \in Content
        <5>1. \A j \in (old.i + 1)..new.i : j \in 1..Len(data)
          BY <1>1, <2>3, <3>1
        <5> QED
          BY <5>1
      <4> QED
        BY <1>1, <2>3, <3>1, <4>1, <4>2, SubSeqProperties
    <3>4. (Total(s) \o SubSeq(data, 1, old.i)) \o SubSeq(data, old.i + 1, new.i)
            = Total(s) \o (SubSeq(data, 1, old.i) \o SubSeq(data, old.i + 1, new.i))
      <4>1. Total(s) \in Seq(Content)
        BY TotalOf
      <4> QED
        BY <3>3, <4>1, Regroup, Zenon
    <3>5. Total(new) = Total(s) \o SubSeq(data, 1, new.i)
      BY <2>3, <3>1, <3>2, <3>4
    <3>6. new.i \in 0..size /\ (new.i = size \/ new.i >= k + 1)
      BY <1>1, <2>3, <2>4, <3>1
    <3> QED
      BY <3>1, <3>5, <3>6 DEF new, Right
  <2>5. CASE ~(old.i < size)
    <3>1. new = old /\ old.i = size
      BY <1>1, <2>2, <2>3, <2>5
    <3> QED
      BY <1>1, <2>1, <2>3, <3>1 DEF new, Right
  <2> QED
    BY <2>4, <2>5
<1>7. Nat \subseteq right
  <2> HIDE DEF right
  <2> QED
    BY <1>5, <1>6, EveryNatural
<1>8. Right(size)
  BY <1>1, <1>7
<1>9. round[size].i = size
  BY <1>1, <1>8
<1>10. SubSeq(data, 1, size) = data
  BY SubSeqFull
<1>11. Sound(round[size]) /\ Total(round[size]) = Total(s) \o data
  BY <1>8, <1>9, <1>10
<1> HIDE DEF Right, right
<1> QED
  BY <1>1, <1>11 DEF Sound, Total

-----------------------------------------------------------------------------
(* Padding: of the numbers of zeros that fill a block up to the length field *)
(* the least is found, and no other is less than a block.                    *)

Zeros(n) == [i \in 1..n |-> Zero]
Room == BlockSize - LengthSize

LEMMA OneMoreZero ==
  ASSUME NEW n \in Nat
  PROVE  Zeros(n) \in Seq(Content) /\ Len(Zeros(n)) = n /\ Zeros(n) \o <<Zero>> = Zeros(n + 1)
<1>1. Zero \in Content
  BY DEF Zero, Content
<1>2. Zeros(n) \in Seq(Content) /\ Len(Zeros(n)) = n
  BY <1>1 DEF Zeros
<1>3. Zeros(n + 1) \in Seq(Content) /\ Len(Zeros(n + 1)) = n + 1
  BY <1>1 DEF Zeros
<1>4. \A i \in 1..(n+1) : (Zeros(n) \o <<Zero>>)[i] = Zeros(n + 1)[i]
  BY <1>1, <1>2 DEF Zeros
<1>5. Zeros(n) \o <<Zero>> \in Seq(Content) /\ Len(Zeros(n) \o <<Zero>>) = n + 1
  BY <1>1, <1>2
<1>6. Zeros(n) \o <<Zero>> = Zeros(n + 1)
  BY <1>3, <1>4, <1>5, SeqEqual
<1> QED
  BY <1>2, <1>6

LEMMA LeastPadding ==
  ASSUME NEW n \in Nat
  PROVE  \E z \in 0..(BlockSize - 1) :
             (n + z) % BlockSize = Room /\ \A y \in Nat : (n + y) % BlockSize = Room => z <= y
<1>1. BlockSize \in Nat /\ BlockSize > 0 /\ Room \in 0..(BlockSize - 1)
  BY Sha256Assumption DEF Room
<1> DEFINE fits == {z \in Nat : (n + z) % BlockSize = Room}
           r == n % BlockSize
<1>2. r \in 0..(BlockSize - 1)
  BY <1>1
<1>3. PICK q \in Int : n = BlockSize * q + r
  BY <1>1, n = BlockSize * (n \div BlockSize) + r
<1> HIDE DEF r
<1>4. \E z \in 0..(BlockSize - 1) : z \in fits
  <2>1. CASE r <= Room
    <3>1. Room - r \in 0..(BlockSize - 1) /\ n + (Room - r) = BlockSize * q + Room
      BY <1>1, <1>2, <1>3, <2>1
    <3>2. (n + (Room - r)) % BlockSize = Room
      BY <1>1, <3>1, Remainder
    <3> QED
      BY <3>1, <3>2
  <2>2. CASE ~(r <= Room)
    <3> DEFINE z == (BlockSize + Room) - r
    <3>1. z \in 0..(BlockSize - 1)
      BY <1>1, <1>2, <2>2
    <3>2. BlockSize * (q + 1) = BlockSize * q + BlockSize /\ BlockSize * q \in Int
      BY <1>1
    <3>3. n + z = BlockSize * (q + 1) + Room /\ q + 1 \in Int
      BY <1>1, <1>2, <1>3, <3>2
    <3> HIDE DEF z
    <3>4. (n + z) % BlockSize = Room
      BY <1>1, <3>3, Remainder
    <3> QED
      BY <3>1, <3>4
  <2> QED
    BY <1>1, <1>2, <2>1, <2>2
<1>5. PICK z \in fits : \A y \in fits : z <= y
  BY <1>4, LeastNatural
<1>6. z \in 0..(BlockSize - 1)
  <2>1. PICK y \in 0..(BlockSize - 1) : y \in fits
    BY <1>4
  <2>2. z <= y /\ z \in Nat
    BY <1>5, <2>1
  <2> QED
    BY <1>1, <2>1, <2>2
<1> QED
  BY <1>5, <1>6

LEMMA PaddingFound ==
  ASSUME NEW n \in Nat, NEW z \in 0..(BlockSize - 1), (n + 1 + z) % BlockSize = Room
  PROVE  z = CHOOSE y \in 0..(BlockSize - 1) : (n + 1 + y + LengthSize) % BlockSize = 0
<1>1. BlockSize \in Nat /\ BlockSize > 0 /\ Room + LengthSize = BlockSize /\ LengthSize \in Nat /\ Room \in Nat
  BY Sha256Assumption DEF Room
<1> DEFINE m == n + 1 + z
           Filled(y) == (n + 1 + y + LengthSize) % BlockSize = 0
<1>2. m \in Nat
  BY <1>1
<1>3. PICK q \in Int : m = BlockSize * q + Room
  <2>1. m % BlockSize = Room
    OBVIOUS
  <2> HIDE DEF m
  <2>2. m \div BlockSize \in Int /\ m = BlockSize * (m \div BlockSize) + (m % BlockSize)
    BY <1>1, <1>2
  <2> QED
    BY <2>1, <2>2
<1>4. Filled(z)
  <2>1. BlockSize * (q + 1) = BlockSize * q + BlockSize /\ BlockSize * q \in Int
    BY <1>1
  <2>2. m + LengthSize = BlockSize * (q + 1) + 0 /\ q + 1 \in Int /\ 0 \in 0..(BlockSize - 1)
    BY <1>1, <1>3, <2>1
  <2>3. (BlockSize * (q + 1) + 0) % BlockSize = 0
    BY <1>1, <2>2, Remainder
  <2> QED
    BY <2>2, <2>3
<1>5. ASSUME NEW y \in 0..(BlockSize - 1), Filled(y)
      PROVE  y = z
  <2> DEFINE a == n + 1 + y + LengthSize
             b == n + 1 + z + LengthSize
  <2>1. a \in Nat /\ b \in Nat /\ a % BlockSize = b % BlockSize
    BY <1>1, <1>4, <1>5
  <2>2. a < b + BlockSize /\ b < a + BlockSize /\ (a = b => y = z)
    BY <1>1
  <2> HIDE DEF a, b
  <2>3. ~(a < b) /\ ~(b < a)
    BY <1>1, <2>1, <2>2, NearDiffer
  <2> QED
    BY <2>1, <2>2, <2>3
<1> HIDE DEF Filled
<1>6. z = CHOOSE y \in 0..(BlockSize - 1) : Filled(y)
  BY <1>4, <1>5
<1> QED
  BY <1>6 DEF Filled

LEMMA FillAppends ==
  ASSUME NEW s, Sound(s)
  PROVE  \E z \in 0..(BlockSize - 1) :
            /\ (Len(Total(s)) + z) % BlockSize = Room
            /\ Sound(Fill(s)) /\ Total(Fill(s)) = Total(s) \o Zeros(z)
<1> DEFINE size == BlockSize
           Def(g, k) == IF k = 0 THEN s
                        ELSE IF Len(g[k-1].buffer) = Room THEN g[k-1]
                        ELSE Update(g[k-1], <<Zero>>)
           Fits(g, k) == g = [j \in 0..k |-> Def(g, j)]
           fit == {k \in Nat : \E g : Fits(g, k)}
           filled == CHOOSE g : Fits(g, size)
<1>1. size \in Nat /\ Fill(s) = filled[size]
  BY Sha256Assumption DEF Fill, Room
<1>2. Nat \subseteq fit
  <2>1. 0 \in fit
    <3>1. \A k \in 0..0 : k = 0
      OBVIOUS
    <3>2. Fits([k \in 0..0 |-> s], 0)
      BY <3>1
    <3> QED
      BY <3>2
  <2>2. ASSUME NEW n \in Nat, n \in fit
        PROVE  n + 1 \in fit
    <3>1. PICK h : Fits(h, n)
      BY <2>2
    <3> DEFINE g == [k \in 0..(n+1) |-> IF k <= n THEN h[k] ELSE Def(h, k)]
    <3>2. \A k \in 0..n : h[k] = Def(h, k)
      BY <3>1
    <3>3. \A k \in 0..(n+1) : g[k] = Def(g, k)
      <4> TAKE k \in 0..(n+1)
      <4>1. CASE k = 0
        <5>1. g[k] = h[k] /\ k \in 0..n
          BY <4>1
        <5> QED
          BY <3>2, <4>1, <5>1
      <4>2. CASE k # 0
        <5>1. k - 1 \in 0..(n+1) /\ k - 1 <= n /\ k - 1 \in 0..n
          BY <4>2
        <5>2. g[k-1] = h[k-1]
          BY <5>1
        <5>3. Def(g, k) = Def(h, k)
          BY <5>2
        <5>4. g[k] = Def(h, k)
          BY <3>2
        <5> QED
          BY <5>3, <5>4
      <4> QED
        BY <4>1, <4>2
    <3>4. g = [k \in 0..(n+1) |-> Def(g, k)]
      <4>1. g = [k \in 0..(n+1) |-> g[k]]
        OBVIOUS
      <4> HIDE DEF g, Def
      <4> QED
        BY <4>1, <3>3
    <3>5. n + 1 \in Nat
      OBVIOUS
    <3> HIDE DEF g, Def
    <3>6. Fits(g, n + 1)
      BY <3>4
    <3> HIDE DEF Fits
    <3> QED
      BY <3>5, <3>6
  <2> HIDE DEF fit
  <2> QED
    BY <2>1, <2>2, EveryNatural
<1>3. Fits(filled, size)
  <2>1. \E g : Fits(g, size)
    BY <1>1, <1>2
  <2> HIDE DEF Fits
  <2> QED
    BY <2>1
<1>4. \A n \in 0..size : filled[n] = Def(filled, n)
  BY <1>3
<1> HIDE DEF filled, fit, Fits
<1> DEFINE n == Len(Total(s))
<1>5. n \in Nat
  BY TotalOf
<1> HIDE DEF n
<1>6. PICK z \in 0..(BlockSize - 1) :
         (n + z) % BlockSize = Room /\ \A y \in Nat : (n + y) % BlockSize = Room => z <= y
  BY <1>5, LeastPadding
<1> DEFINE Added(k) == IF k < z THEN k ELSE z
           Right(k) == Sound(filled[k]) /\ Total(filled[k]) = Total(s) \o Zeros(Added(k))
           right == {k \in Nat : k <= size => Right(k)}
<1>7. 0 \in right
  <2>1. 0 \in 0..size
    BY <1>1
  <2>2. filled[0] = s
    BY <1>4, <2>1
  <2>3. Added(0) = 0
    BY <1>6
  <2>4. Zeros(0) = <<>>
    BY DEF Zeros
  <2>5. Total(s) \o <<>> = Total(s)
    BY TotalOf, ConcatEmptySeq
  <2>6. Right(0)
    BY <2>2, <2>3, <2>4, <2>5
  <2> QED
    BY <2>6
<1>8. ASSUME NEW k \in Nat, k \in right
      PROVE  k + 1 \in right
  <2> SUFFICES ASSUME k + 1 <= size
               PROVE  Right(k + 1)
    OBVIOUS
  <2> DEFINE old == filled[k]
             new == filled[k+1]
             m   == Added(k)
  <2>1. k + 1 \in 0..size /\ (k + 1) - 1 = k /\ k + 1 # 0 /\ Right(k)
    BY <1>1, <1>8
  <2>2. new = IF Len(old.buffer) = Room THEN old ELSE Update(old, <<Zero>>)
    BY <1>4, <2>1
  <2>3. Sound(old) /\ Total(old) = Total(s) \o Zeros(m)
    BY <2>1
  <2>4. m \in Nat /\ m <= z /\ (k < z => m = k /\ Added(k + 1) = m + 1) /\ (~(k < z) => m = z /\ Added(k + 1) = z)
    BY <1>6
  <2> HIDE DEF old, new, m, Def, Right, right
  <2>5. Zeros(m) \in Seq(Content) /\ Len(Zeros(m)) = m /\ Zeros(m) \o <<Zero>> = Zeros(m + 1) /\ <<Zero>> \in Seq(Content)
    <3>1. Zeros(m) \in Seq(Content) /\ Len(Zeros(m)) = m /\ Zeros(m) \o <<Zero>> = Zeros(m + 1)
      BY <2>4, OneMoreZero
    <3>2. Zero \in Content
      BY DEF Zero, Content
    <3> QED
      BY <3>1, <3>2
  <2>6. Total(s) \in Seq(Content)
    BY TotalOf
  <2>7. Len(Total(old)) = n + m
    BY <2>3, <2>5, <2>6, ConcatProperties DEF n
  <2>8. Len(old.buffer) = (n + m) % BlockSize
    BY <2>3, <2>7, TotalOf
  <2>9. CASE k < z
    <3>1. ~(z <= m)
      BY <1>6, <2>4, <2>9
    <3>2. Len(old.buffer) # Room
      BY <1>6, <2>4, <2>8, <3>1
    <3>3. Sound(new) /\ Total(new) = (Total(s) \o Zeros(m)) \o <<Zero>>
      BY <2>2, <2>3, <2>5, <3>2, UpdateAppends
    <3>4. (Total(s) \o Zeros(m)) \o <<Zero>> = Total(s) \o (Zeros(m) \o <<Zero>>)
      BY <2>5, <2>6, Regroup, Zenon
    <3> QED
      BY <2>4, <2>5, <2>9, <3>3, <3>4 DEF Right, new
  <2>10. CASE ~(k < z)
    <3>1. Len(old.buffer) = Room
      BY <1>6, <2>4, <2>8, <2>10
    <3> QED
      BY <2>2, <2>3, <2>4, <2>10, <3>1 DEF Right, new
  <2> QED
    BY <2>9, <2>10
<1>9. Nat \subseteq right
  <2> HIDE DEF right
  <2> QED
    BY <1>7, <1>8, EveryNatural
<1>10. Right(size) /\ Added(size) = z
  BY <1>1, <1>6, <1>9
<1> QED
  BY <1>1, <1>6, <1>10 DEF n

-----------------------------------------------------------------------------
(* The digest: until it is finished, all that was given is in the blocks and *)
(* the buffer, and the length is right.                                      *)

HashInv ==
  /\ message \in Nat /\ finished \in BOOLEAN
  /\ ~finished => /\ Sound([buffer |-> buffer, blocks |-> blocks]) /\ bitlen = message
                  /\ FlattenSeq(blocks) \o buffer = Bytes(0, message)
  /\ finished => FlattenSeq(blocks) \o buffer = Padded(message)

LEMMA MoreBytes ==
  ASSUME NEW m \in Nat, NEW n \in Nat
  PROVE  Bytes(m, n) \in Seq(Content) /\ Len(Bytes(m, n)) = n /\ Bytes(0, m) \o Bytes(m, n) = Bytes(0, m + n)
<1>1. \A i \in Nat : Byte(i) \in Content
  BY DEF Byte, Content
<1>2. \A a \in Nat, b \in Nat : Bytes(a, b) \in Seq(Content) /\ Len(Bytes(a, b)) = b
  BY <1>1 DEF Bytes
<1> DEFINE both == Bytes(0, m) \o Bytes(m, n)
<1>3. both \in Seq(Content) /\ Len(both) = m + n
  <2>1. /\ Bytes(0, m) \in Seq(Content) /\ Len(Bytes(0, m)) = m
        /\ Bytes(m, n) \in Seq(Content) /\ Len(Bytes(m, n)) = n
    BY <1>2
  <2> QED
    BY <2>1, ConcatProperties
<1>4. ASSUME NEW i \in 1..(m + n)
      PROVE  both[i] = Bytes(0, m + n)[i]
  <2>1. both[i] = IF i <= m THEN Bytes(0, m)[i] ELSE Bytes(m, n)[i - m]
    <3> DEFINE a == Bytes(0, m)
               b == Bytes(m, n)
    <3>1. a \in Seq(Content) /\ b \in Seq(Content) /\ Len(a) = m /\ Len(b) = n
      BY <1>2
    <3> HIDE DEF a, b
    <3>2. (a \o b)[i] = IF i <= m THEN a[i] ELSE b[i - m]
      BY <3>1, ConcatProperties
    <3> QED
      BY <3>2 DEF a, b
  <2>2. CASE i <= m
    BY <2>1, <2>2 DEF Bytes
  <2>3. CASE ~(i <= m)
    <3>1. i - m \in 1..n /\ m + (i - m) = 0 + i
      BY <2>3
    <3> QED
      BY <2>1, <2>3, <3>1 DEF Bytes
  <2> QED
    BY <2>2, <2>3
<1>5. Bytes(0, m + n) \in Seq(Content) /\ Len(Bytes(0, m + n)) = m + n
  BY <1>2
<1> HIDE DEF both
<1>6. both = Bytes(0, m + n)
  BY <1>3, <1>4, <1>5, SeqEqual
<1> QED
  BY <1>2, <1>6 DEF both

LEMMA PieceKeeps ==
  ASSUME HashInv, NEW n \in Pieces, Piece(n)
  PROVE  HashInv'
<1> DEFINE s == [buffer |-> buffer, blocks |-> blocks]
           data == Bytes(message, n)
           t == Update(s, data)
<1>1. /\ ~finished /\ Sound(s) /\ bitlen = message /\ Total(s) = Bytes(0, message)
      /\ message \in Nat /\ n \in Nat
  BY Sha256Assumption DEF HashInv, Piece, Total
<1>2. /\ data \in Seq(Content)
      /\ Bytes(0, message) \o data = Bytes(0, message + n)
  BY <1>1, MoreBytes
<1>3. Sound(t) /\ Total(t) = Total(s) \o data
  BY <1>1, <1>2, UpdateAppends
<1>4. /\ buffer' = t.buffer /\ blocks' = t.blocks /\ message' = message + n /\ bitlen' = bitlen + n
      /\ finished' = finished
  BY DEF Piece
<1> HIDE DEF s, data, t
<1>5. Sound([buffer |-> buffer', blocks |-> blocks'])
  BY <1>3, <1>4 DEF Sound
<1>6. FlattenSeq(blocks') \o buffer' = Bytes(0, message')
  BY <1>1, <1>2, <1>3, <1>4 DEF Total
<1> QED
  BY <1>1, <1>4, <1>5, <1>6 DEF HashInv

LEMMA FinalKeeps ==
  ASSUME HashInv, Final
  PROVE  HashInv'
<1> DEFINE s == [buffer |-> buffer, blocks |-> blocks]
           t == Update(s, <<Mark>>)
           u == Fill(t)
           field == LengthField(bitlen)
           text == Bytes(0, message)
<1>1. /\ ~finished /\ Sound(s) /\ bitlen = message /\ Total(s) = text /\ message \in Nat
  BY DEF HashInv, Final, Total
<1>2. text \in Seq(Content) /\ Len(text) = message
  BY <1>1, MoreBytes
<1>3. <<Mark>> \in Seq(Content) /\ Len(<<Mark>>) = 1
  BY DEF Mark, Content
<1>4. Sound(t) /\ Total(t) = text \o <<Mark>>
  BY <1>1, <1>3, UpdateAppends
<1>5. /\ blocks' = Append(u.blocks, u.buffer \o field)
      /\ buffer' = <<>> /\ finished' = TRUE /\ message' = message
  BY DEF Final
<1>6. field \in Seq(Content)
  <2>1. [is |-> "length", at |-> bitlen] \in Content /\ LengthSize \in Nat
    BY <1>1, Sha256Assumption DEF Content
  <2> QED
    BY <2>1 DEF LengthField
<1> HIDE DEF s, t, u, field, text
<1>7. PICK z \in 0..(BlockSize - 1) :
         /\ (Len(Total(t)) + z) % BlockSize = Room
         /\ Sound(u) /\ Total(u) = Total(t) \o Zeros(z)
  BY <1>4, FillAppends DEF u
<1>8. Len(Total(t)) = message + 1
  BY <1>2, <1>3, <1>4, ConcatProperties
<1>9. z = CHOOSE y \in 0..(BlockSize - 1) : (message + 1 + y + LengthSize) % BlockSize = 0
  BY <1>1, <1>7, <1>8, PaddingFound
<1>10. Padded(message) = ((text \o <<Mark>>) \o Zeros(z)) \o field
  BY <1>1, <1>9 DEF Padded, Zeros, text, field
<1>11. u.blocks \in Seq(Seq(Content)) /\ u.buffer \in Seq(Content) /\ FlattenSeq(u.blocks) \in Seq(Content)
  BY <1>7 DEF Sound
<1>12. u.buffer \o field \in Seq(Content)
  BY <1>6, <1>11, ConcatProperties
<1>13. FlattenSeq(blocks') = FlattenSeq(u.blocks) \o (u.buffer \o field)
  BY <1>5, <1>11, <1>12, OneMoreBlock
<1>14. (FlattenSeq(u.blocks) \o u.buffer) \o field = FlattenSeq(u.blocks) \o (u.buffer \o field)
  BY <1>6, <1>11, Regroup, Zenon
<1>15. FlattenSeq(blocks') = Padded(message)
  BY <1>4, <1>7, <1>10, <1>13, <1>14 DEF Total
<1>16. FlattenSeq(blocks') \o <<>> = FlattenSeq(blocks')
  <2>1. FlattenSeq(u.blocks) \o (u.buffer \o field) \in Seq(Content)
    BY <1>11, <1>12, ConcatProperties
  <2> QED
    BY <1>13, <2>1, ConcatEmptySeq
<1> QED
  BY <1>1, <1>5, <1>15, <1>16 DEF HashInv

\* However a message is cut into pieces, and whatever the sizes of blocks and
\* of the length field, sm_sha256_update and sm_sha256_final hand the transform
\* the bytes of the message in order, and in the end those of its padding.
THEOREM MessageIsDigested == HashSpec => []BlocksAreTheMessage
<1>1. HashInit => HashInv
  <2> SUFFICES ASSUME HashInit PROVE HashInv
    OBVIOUS
  <2>1. message = 0 /\ buffer = <<>> /\ bitlen = 0 /\ blocks = <<>> /\ finished = FALSE
    BY DEF HashInit
  <2>2. FlattenSeq(<<>>) = <<>>
    BY DEF FlattenSeq
  <2>3. <<>> \in Seq(Content) /\ <<>> \in Seq(Seq(Content)) /\ Len(<<>>) = 0
    OBVIOUS
  <2>4. Len(<<>>) = BlockSize * 0 /\ 0 \in Nat /\ 0 < BlockSize
    BY <2>3, Sha256Assumption
  <2>5. Sound([buffer |-> buffer, blocks |-> blocks])
    BY <2>1, <2>2, <2>3, <2>4 DEF Sound
  <2>6. Bytes(0, 0) = <<>>
    BY DEF Bytes
  <2>7. FlattenSeq(blocks) \o buffer = Bytes(0, message)
    BY <2>1, <2>2, <2>3, <2>6, ConcatEmptySeq
  <2> QED
    BY <2>1, <2>5, <2>7 DEF HashInv
<1>2. HashInv /\ [HashNext]_hash => HashInv'
  <2> SUFFICES ASSUME HashInv, [HashNext]_hash
               PROVE  HashInv'
    OBVIOUS
  <2>1. CASE UNCHANGED hash
    BY <2>1 DEF hash, HashInv
  <2> QED
    BY <2>1, PieceKeeps, FinalKeeps DEF HashNext
<1>3. HashInv => BlocksAreTheMessage
  BY DEF HashInv, BlocksAreTheMessage
<1> QED
  BY <1>1, <1>2, <1>3, PTL DEF HashSpec
=============================================================================
