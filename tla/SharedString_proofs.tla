-------------------------- MODULE SharedString_proofs --------------------------
(* Reference counts are exact, nothing freed is reachable, a text is stored  *)
(* once and walks count the table, for any number of threads, objects, texts *)
(* and slots.                                                                *)
EXTENDS SharedString, FiniteSetTheorems, TLAPS

Busy == {"put", "unlink", "free"}

(* The mutex: exactly the thread entering or removing an entry holds it.     *)
LockInv == \A t \in Threads : pc[t] \in {"put", "unlink"} <=> holder = t

(* The object a thread works on is its own: alive, no other thread's, and    *)
(* out of reach once it is about to be freed.                                *)
OwnInv ==
  /\ \A t \in Threads : pc[t] \in Busy => obj[t] \in live
  /\ \A t, u \in Threads : pc[t] \in Busy /\ pc[u] \in Busy /\ obj[t] = obj[u] => t = u
  /\ \A t \in Threads : pc[t] = "put" =>
       /\ refcount[obj[t]] = 1
       /\ obj[t] \notin table /\ Entry(text[obj[t]]) = {}
       /\ slot[dst[t]] = None
  /\ \A t \in Threads : pc[t] \in {"unlink", "free"} => refcount[obj[t]] = 0
  /\ \A t \in Threads : pc[t] = "free" => obj[t] \notin table

SlotInv == \A s \in Slots : slot[s] # None => slot[s] \in live

TableInv ==
  /\ table \subseteq live /\ IsFiniteSet(table)
  /\ ~initialized => table = {}
  /\ \A g, h \in table : text[g] = text[h] => g = h

WalkInv ==
  \A t \in Threads : pc[t] = "walk" =>
    todo[t] \subseteq table /\ distinct[t] + Cardinality(todo[t]) = Cardinality(table)

(* What is referenced is in the table or on its way into it, and what loses  *)
(* its last reference leaves the table only when it is removed.              *)
KnownInv ==
  ~orphaned =>
    /\ \A h \in live : refcount[h] > 0 => h \in table \/ \E t \in Threads : pc[t] = "put" /\ obj[t] = h
    /\ \A t \in Threads : pc[t] = "unlink" => obj[t] \in table

Inv ==
  TypeOK /\ LockInv /\ OwnInv /\ SlotInv /\ CountsAreReferences /\ TableInv /\ WalkInv /\ KnownInv

-----------------------------------------------------------------------------
(* Counting references.                                                      *)

LEMMA HoldersFinite ==
  ASSUME NEW h
  PROVE  IsFiniteSet(Holders(h)) /\ Cardinality(Holders(h)) \in Nat
<1>1. Holders(h) \in SUBSET Slots /\ IsFiniteSet(Slots)
  BY RefsFit DEF Holders
<1> QED
  BY <1>1, FS_Subset, FS_CardinalityType

(* A reference put into an empty slot is one more, and there is room for it. *)
LEMMA AddHolder ==
  ASSUME TypeOK, NEW s \in Slots, slot[s] = None, NEW h \in Objects,
         slot' = [slot EXCEPT ![s] = h]
  PROVE  /\ Cardinality(Holders(h)') = Cardinality(Holders(h)) + 1
         /\ Cardinality(Holders(h)) + 1 < RefLimit
         /\ \A g \in Objects \ {h} : Holders(g)' = Holders(g)
<1>1. s \notin Holders(h)
  BY NoneAssumption DEF Holders
<1>2. Holders(h)' = Holders(h) \cup {s}
  BY DEF Holders, TypeOK
<1>3. Cardinality(Holders(h)') = Cardinality(Holders(h)) + 1
  BY <1>1, <1>2, HoldersFinite, FS_AddElement
<1>4. Cardinality(Holders(h)') <= Cardinality(Slots)
  <2>1. Holders(h)' \in SUBSET Slots
    BY <1>2 DEF Holders
  <2> QED
    BY <2>1, RefsFit, FS_Subset
<1>5. Cardinality(Slots) \in Nat
  BY RefsFit, FS_CardinalityType
<1>6. \A g \in Objects \ {h} : Holders(g)' = Holders(g)
  BY NoneAssumption DEF Holders, TypeOK
<1> QED
  BY <1>3, <1>4, <1>5, <1>6, HoldersFinite, RefsFit

(* A reference taken out of a slot is one less.                              *)
LEMMA DropHolder ==
  ASSUME TypeOK, NEW s \in Slots, slot[s] # None,
         slot' = [slot EXCEPT ![s] = None]
  PROVE  /\ Cardinality(Holders(slot[s])) > 0
         /\ Cardinality({u \in Slots : slot'[u] = slot[s]}) = Cardinality(Holders(slot[s])) - 1
         /\ \A g \in Objects \ {slot[s]} : Holders(g)' = Holders(g)
<1> DEFINE h == slot[s]
           R == {u \in Slots : slot'[u] = h}
<1>1. s \in Holders(h)
  BY DEF Holders
<1>2. R = Holders(h) \ {s}
  BY NoneAssumption DEF Holders, TypeOK
<1>3. Cardinality(R) = Cardinality(Holders(h)) - 1
  BY <1>1, <1>2, HoldersFinite, FS_RemoveElement
<1>4. Cardinality(Holders(h)) # 0
  BY <1>1, HoldersFinite, FS_EmptySet
<1>5. \A g \in Objects \ {h} : Holders(g)' = Holders(g)
  BY NoneAssumption DEF Holders, TypeOK
<1>6. Cardinality(Holders(h)) \in Nat
  BY HoldersFinite
<1> HIDE DEF R, h
<1>7. Cardinality(Holders(h)) > 0
  BY <1>4, <1>6
<1> QED
  BY <1>3, <1>5, <1>7 DEF R, h

LEMMA NothingPromised ==
  ASSUME LockInv, holder = None
  PROVE  \A t \in Threads : pc[t] \notin {"put", "unlink"}
  BY NoneAssumption DEF LockInv

LEMMA CardPromised ==
  /\ Cardinality({}) = 0
  /\ \A t : Cardinality({t}) = 1
  BY FS_EmptySet, FS_Singleton

(* A count of zero means that no slot holds the object.                      *)
LEMMA ZeroMeansNone ==
  ASSUME TypeOK, LockInv, CountsAreReferences, NEW h \in live,
         refcount[h] = Cardinality(Promised(h))
  PROVE  Holders(h) = {}
<1>1. Cardinality(Promised(h)) \in Nat
  BY DEF TypeOK
<1>2. Cardinality(Holders(h)) = 0
  BY <1>1, HoldersFinite DEF CountsAreReferences
<1> QED
  BY <1>2, HoldersFinite, FS_EmptySet

-----------------------------------------------------------------------------
LEMMA InvInit == Init => Inv
<1> SUFFICES ASSUME Init PROVE Inv
  OBVIOUS
<1>1. TypeOK
  <2>1. 0 \in 0..(RefLimit - 1)
    BY RefsFit
  <2> QED
    BY <2>1 DEF Init, TypeOK, Pcs
<1>2. LockInv /\ OwnInv /\ SlotInv /\ WalkInv /\ KnownInv /\ CountsAreReferences
  BY NoneAssumption DEF Init, LockInv, OwnInv, Busy, SlotInv, WalkInv, KnownInv, CountsAreReferences
<1>3. TableInv
  BY FS_EmptySet DEF Init, TableInv
<1> QED
  BY <1>1, <1>2, <1>3 DEF Inv

(* Starting the pool touches the table alone; ending it too, and no walk is  *)
(* in the table then.  A call caught between its steps keeps what it owns.   *)
LEMMA InvPool ==
  ASSUME Inv, PoolInit \/ PoolShutdown
  PROVE  Inv'
<1> USE DEF Inv
<1>1. /\ table' = {}
      /\ UNCHANGED <<live, text, refcount, slot, holder, pc, obj, dst, todo, distinct>>
  BY DEF PoolInit, PoolShutdown, memory, walk
<1>2. TypeOK'
  <2>1. initialized' \in BOOLEAN /\ orphaned' \in BOOLEAN /\ stale' \subseteq Threads
    BY DEF TypeOK, PoolInit, PoolShutdown
  <2> QED
    BY <1>1, <2>1 DEF TypeOK
<1>3. LockInv' /\ SlotInv'
  BY <1>1 DEF LockInv, SlotInv
<1>4. OwnInv'
  BY <1>1 DEF OwnInv, Busy, Entry
<1>5. WalkInv'
  <2>1. \A t \in Threads : pc[t] # "walk"
    BY DEF PoolInit, PoolShutdown, Quiet, Walkers
  <2> QED
    BY <1>1, <2>1 DEF WalkInv
<1>6. CountsAreReferences'
  BY <1>1 DEF CountsAreReferences, Holders, Promised
<1>7. TableInv'
  BY <1>1, FS_EmptySet DEF TableInv
<1>8. KnownInv'
  BY <1>1 DEF KnownInv, TableInv, PoolInit, PoolShutdown
<1> QED
  BY <1>2, <1>3, <1>4, <1>5, <1>6, <1>7, <1>8

(* After a use of a freed table a new process begins.                        *)
LEMMA InvUseDestroyed ==
  ASSUME NEW t \in Threads, UseDestroyed(t)
  PROVE  Inv'
<1>1. TypeOK'
  <2>1. 0 \in 0..(RefLimit - 1)
    BY RefsFit
  <2> QED
    BY <2>1 DEF UseDestroyed, TypeOK, Pcs
<1>2. LockInv' /\ OwnInv' /\ SlotInv' /\ WalkInv' /\ KnownInv' /\ CountsAreReferences'
  BY NoneAssumption
     DEF UseDestroyed, LockInv, OwnInv, Busy, SlotInv, WalkInv, KnownInv, CountsAreReferences
<1>3. TableInv'
  BY FS_EmptySet DEF UseDestroyed, TableInv
<1> QED
  BY <1>1, <1>2, <1>3 DEF Inv

(* Entering a call of the pool, or leaving it with nothing done.             *)
LEMMA InvEnterOrFail ==
  ASSUME Inv, NEW t \in Threads, Begin(t) \/ CallFails(t)
  PROVE  Inv'
<1> USE DEF Inv
<1>1. /\ pc[t] \in {"idle", "enter"} /\ pc' \in {[pc EXCEPT ![t] = "enter"], [pc EXCEPT ![t] = "idle"]}
      /\ UNCHANGED <<initialized, table, live, text, refcount, slot, holder, obj, dst,
                     todo, distinct, stale, orphaned>>
  BY DEF Begin, CallFails, Goto, memory, walk
<1>2. \A u \in Threads : pc'[u] = pc[u] \/ (pc[u] \in {"idle", "enter"} /\ pc'[u] \in {"idle", "enter"})
  BY <1>1 DEF TypeOK
<1>3. TypeOK'
  BY <1>1, <1>2 DEF TypeOK, Pcs
<1>4. LockInv' /\ WalkInv' /\ KnownInv'
  BY <1>1, <1>2 DEF LockInv, WalkInv, KnownInv
<1>5. OwnInv'
  BY <1>1, <1>2 DEF OwnInv, Busy, Entry
<1>6. SlotInv' /\ TableInv'
  BY <1>1 DEF SlotInv, TableInv
<1>7. CountsAreReferences'
  <2>1. \A g : Holders(g)' = Holders(g) /\ Promised(g)' = Promised(g)
    BY <1>1, <1>2 DEF Holders, Promised
  <2> QED
    BY <1>1, <2>1 DEF CountsAreReferences
<1> QED
  BY <1>3, <1>4, <1>5, <1>6, <1>7

(* One more reference to an object that is not being freed: what a hit of    *)
(* sstr_intern and sstr_retain have in common.                               *)
LEMMA OneMoreReference ==
  ASSUME Inv, NEW t \in Threads, holder = None, NEW s \in Slots, slot[s] = None, NEW h \in live,
         h \in table \/ refcount[h] > 0,
         refcount' = [refcount EXCEPT ![h] = (@ + 1) % RefLimit],
         slot' = [slot EXCEPT ![s] = h],
         pc[t] \in {"idle", "enter"}, pc' = [pc EXCEPT ![t] = "idle"],
         UNCHANGED <<initialized, table, live, text, holder, obj, dst, walk, stale, orphaned>>
  PROVE  Inv'
<1> USE DEF Inv
<1>1. \A u \in Threads : pc[u] \notin {"put", "unlink"}
  BY NothingPromised
<1>2. h \in Objects /\ \A g \in Objects : Promised(g) = {} /\ Promised(g)' = {}
  BY <1>1 DEF Promised, TypeOK
<1>3. \A g \in live : refcount[g] = Cardinality(Holders(g))
  <2> TAKE g \in live
  <2>1. Cardinality(Promised(g)) = 0 /\ Cardinality(Holders(g)) \in Nat
    BY <1>2, CardPromised, HoldersFinite DEF TypeOK
  <2> QED
    BY <2>1 DEF CountsAreReferences
<1>4. refcount[h] \in Nat /\ refcount[h] + 1 < RefLimit
  BY <1>2, <1>3, AddHolder, HoldersFinite
<1>5. (refcount[h] + 1) % RefLimit = refcount[h] + 1
  BY <1>4, RefsFit
<1>6. refcount' = [refcount EXCEPT ![h] = refcount[h] + 1]
  BY <1>5
<1>7. \A u \in Threads : pc[u] = "free" => obj[u] # h
  BY DEF OwnInv
<1>8. TypeOK'
  <2>1. refcount' \in [Objects -> 0..(RefLimit - 1)]
    BY <1>2, <1>4, <1>6, RefsFit DEF TypeOK
  <2>2. slot' \in [Slots -> Objects \cup {None}]
    BY <1>2 DEF TypeOK
  <2>3. pc' \in [Threads -> Pcs]
        /\ \A u \in Threads : pc'[u] \in {"put", "unlink", "free"} => pc[u] = pc'[u]
    BY DEF TypeOK, Pcs
  <2> QED
    BY <2>1, <2>2, <2>3 DEF TypeOK, walk
<1>9. LockInv' /\ WalkInv' /\ TableInv'
  BY NoneAssumption DEF LockInv, WalkInv, TableInv, TypeOK, walk
<1>10. OwnInv'
  BY <1>1, <1>6, <1>7 DEF OwnInv, Busy, TypeOK
<1>11. SlotInv'
  BY DEF SlotInv, TypeOK
<1>12. CountsAreReferences'
  <2>1. Cardinality(Holders(h)') = Cardinality(Holders(h)) + 1
    BY <1>2, AddHolder
  <2>2. \A g \in Objects \ {h} : Holders(g)' = Holders(g)
    BY <1>2, AddHolder
  <2>3. refcount'[h] = Cardinality(Holders(h)')
    BY <2>1, <1>2, <1>3, <1>6 DEF TypeOK
  <2>4. \A g \in live \ {h} : refcount'[g] = Cardinality(Holders(g)')
    BY <2>2, <1>2, <1>3, <1>6 DEF TypeOK
  <2>5. \A g \in live : refcount'[g] = Cardinality(Holders(g)') /\ Cardinality(Promised(g)') = 0
                        /\ Cardinality(Holders(g)') \in Nat
    <3> SUFFICES ASSUME NEW g \in live PROVE refcount'[g] = Cardinality(Holders(g)')
                        /\ Cardinality(Promised(g)') = 0 /\ Cardinality(Holders(g)') \in Nat
      OBVIOUS
    <3>1. refcount'[g] = Cardinality(Holders(g)')
      BY <2>3, <2>4
    <3>2. g \in Objects
      BY DEF TypeOK
    <3>3. refcount'[g] \in Nat
      BY <3>2, <1>8 DEF TypeOK
    <3> QED
      BY <3>1, <3>2, <3>3, <1>2, CardPromised
  <2> QED
    BY <2>5 DEF CountsAreReferences
<1>13. KnownInv'
  BY <1>1, <1>3, <1>6 DEF KnownInv, TypeOK
<1> QED
  BY <1>8, <1>9, <1>10, <1>11, <1>12, <1>13

LEMMA InvInternHit ==
  ASSUME Inv, NEW t \in Threads, NEW x \in Texts, NEW s \in Slots, InternHit(t, x, s)
  PROVE  Inv'
<1>1. PICK h \in Entry(x) :
        refcount' = [refcount EXCEPT ![h] = (@ + 1) % RefLimit] /\ slot' = [slot EXCEPT ![s] = h]
  BY DEF InternHit
<1>2. h \in table /\ h \in live
  BY DEF Entry, Inv, TableInv
<1> QED
  BY <1>1, <1>2, OneMoreReference DEF InternHit, Finds, Goto

LEMMA InvRetain ==
  ASSUME Inv, NEW t \in Threads, NEW s \in Slots, NEW d \in Slots, Retain(t, s, d)
  PROVE  Inv'
<1>1. slot[s] \in live
  BY DEF Retain, Inv, SlotInv
<1>2. refcount[slot[s]] > 0
  <2>1. s \in Holders(slot[s])
    BY DEF Holders
  <2>2. Cardinality(Holders(slot[s])) # 0 /\ Cardinality(Holders(slot[s])) \in Nat
    BY <2>1, HoldersFinite, FS_EmptySet
  <2>3. Promised(slot[s]) = {}
    BY NothingPromised DEF Inv, Retain, Enter, Promised
  <2> QED
    BY <2>2, <2>3, <1>1, CardPromised DEF Inv, CountsAreReferences
<1> QED
  <2>1. pc' = [pc EXCEPT ![t] = "idle"]
    BY DEF Retain, Enter, Inv, TypeOK
  <2> QED
    BY <1>1, <1>2, <2>1, OneMoreReference DEF Retain, Enter

(* A new object: no slot holds it yet, its first reference is promised.      *)
LEMMA InvInternNew ==
  ASSUME Inv, NEW t \in Threads, NEW x \in Texts, NEW s \in Slots, InternNew(t, x, s)
  PROVE  Inv'
<1> USE DEF Inv
<1>1. PICK h \in Objects \ live :
        /\ live' = live \cup {h}
        /\ text' = [text EXCEPT ![h] = x]
        /\ refcount' = [refcount EXCEPT ![h] = 1]
        /\ obj' = [obj EXCEPT ![t] = h]
  BY DEF InternNew
<1>2. /\ initialized /\ Entry(x) = {} /\ holder = None /\ pc[t] = "enter"
      /\ holder' = t /\ pc' = [pc EXCEPT ![t] = "put"] /\ dst' = [dst EXCEPT ![t] = s]
      /\ UNCHANGED <<initialized, table, slot, todo, distinct, stale, orphaned>>
  BY DEF InternNew, Finds, Goto, walk
<1>3. \A u \in Threads : pc[u] \notin {"put", "unlink"}
  BY <1>2, NothingPromised
<1>4. h \notin table
  BY DEF TableInv
<1>5. TypeOK'
  <2>1. refcount' \in [Objects -> 0..(RefLimit - 1)]
    <3>1. 1 \in 0..(RefLimit - 1)
      BY RefsFit
    <3> QED
      BY <1>1, <3>1 DEF TypeOK
  <2>2. pc' \in [Threads -> Pcs] /\ obj' \in [Threads -> Objects \cup {None}]
        /\ dst' \in [Threads -> Slots \cup {None}] /\ text' \in [Objects -> Texts \cup {None}]
    BY <1>1, <1>2 DEF TypeOK, Pcs
  <2>3. \A u \in Threads : (pc'[u] \in {"put", "unlink", "free"} => obj'[u] \in Objects)
                          /\ (pc'[u] = "put" => dst'[u] \in Slots)
    BY <1>1, <1>2 DEF TypeOK
  <2> QED
    BY <1>1, <1>2, <2>1, <2>2, <2>3 DEF TypeOK
<1>6. LockInv'
  BY <1>2, <1>3 DEF LockInv, TypeOK
<1>7. OwnInv'
  <2>1. \A u \in Threads : pc'[u] \in Busy => u = t \/ (pc[u] = "free" /\ obj'[u] = obj[u] /\ obj[u] # h)
    BY <1>1, <1>2, <1>3 DEF OwnInv, Busy, TypeOK
  <2>2. obj'[t] = h /\ refcount'[h] = 1 /\ text'[h] = x /\ pc'[t] = "put"
    BY <1>1, <1>2 DEF TypeOK
  <2>3. Entry(x)' = {}
    BY <1>1, <1>2, <1>4 DEF Entry, TableInv, TypeOK
  <2>4. \A u \in Threads : pc[u] = "free" => refcount'[obj[u]] = 0
    BY <1>1, <2>1 DEF OwnInv, Busy, TypeOK
  <2>5. \A u \in Threads : pc'[u] = "put" => u = t
    BY <1>2, <1>3 DEF TypeOK
  <2>6. \A u \in Threads : pc'[u] \in {"unlink", "free"} => u # t /\ pc[u] = "free" /\ obj'[u] = obj[u]
    <3> SUFFICES ASSUME NEW u \in Threads, pc'[u] \in {"unlink", "free"}
                 PROVE  u # t /\ pc[u] = "free" /\ obj'[u] = obj[u]
      OBVIOUS
    <3>1. u # t
      BY <2>2
    <3> QED
      BY <2>1, <3>1 DEF Busy
  <2>7. (\A u \in Threads : pc[u] \in Busy => obj[u] \in live)
    BY DEF OwnInv
  <2>8. \A u, v \in Threads : pc'[u] \in Busy /\ pc'[v] \in Busy /\ obj'[u] = obj'[v] => u = v
    BY <2>1, <2>2 DEF OwnInv, Busy
  <2>9. \A u \in Threads : pc'[u] \in Busy => obj'[u] \in live'
    BY <1>1, <2>1, <2>2, <2>7 DEF Busy
  <2>10. \A u \in Threads : pc'[u] = "free" => obj'[u] \notin table'
    BY <1>2, <2>6 DEF OwnInv
  <2>11. dst'[t] = s /\ slot'[s] = None
    BY <1>2 DEF InternNew, TypeOK
  <2>12. \A u \in Threads : pc'[u] = "put" =>
           /\ refcount'[obj'[u]] = 1
           /\ obj'[u] \notin table' /\ Entry(text[obj[u]])' = {}
           /\ slot'[dst'[u]] = None
    BY <1>2, <1>4, <2>2, <2>3, <2>5, <2>11 DEF Entry
  <2> QED
    BY <2>4, <2>6, <2>8, <2>9, <2>10, <2>12 DEF OwnInv
<1>8. SlotInv' /\ WalkInv'
  BY <1>1, <1>2 DEF SlotInv, WalkInv, TypeOK
<1>9. CountsAreReferences'
  <2>1. \A g \in Objects : Holders(g)' = Holders(g)
    BY <1>2 DEF Holders
  <2>2. Holders(h) = {}
    BY NoneAssumption DEF Holders, SlotInv
  <2>3. Promised(h)' = {t}
    BY <1>1, <1>2, <1>3 DEF Promised, TypeOK
  <2>4. \A g \in live : Promised(g)' = {} /\ Promised(g) = {}
    BY <1>1, <1>2, <1>3 DEF Promised, TypeOK
  <2>5. refcount'[h] = Cardinality(Holders(h)') + Cardinality(Promised(h)')
    <3>1. Holders(h)' = {} /\ refcount'[h] = 1
      BY <1>1, <2>1, <2>2 DEF TypeOK
    <3>2. Cardinality(Holders(h)') = 0 /\ Cardinality(Promised(h)') = 1
      BY <3>1, <2>3, CardPromised
    <3> QED
      BY <3>1, <3>2
  <2>6. \A g \in live : refcount'[g] = Cardinality(Holders(g)') + Cardinality(Promised(g)')
    <3> TAKE g \in live
    <3>1. refcount'[g] = refcount[g] /\ g \in Objects
      BY <1>1 DEF TypeOK
    <3>2. Holders(g)' = Holders(g) /\ Promised(g)' = Promised(g)
      BY <2>1, <2>4, <3>1
    <3> QED
      BY <3>1, <3>2 DEF CountsAreReferences
  <2> QED
    BY <1>1, <2>5, <2>6 DEF CountsAreReferences
<1>10. TableInv'
  BY <1>1, <1>2, <1>4 DEF TableInv, TypeOK
<1>11. KnownInv'
  BY <1>1, <1>2, <1>3 DEF KnownInv, TypeOK
<1> QED
  BY <1>5, <1>6, <1>7, <1>8, <1>9, <1>10, <1>11

(* The promised reference becomes a slot's, and the object is in the table.  *)
LEMMA InvInternPut ==
  ASSUME Inv, NEW t \in Threads, InternPut(t)
  PROVE  Inv'
<1> USE DEF Inv
<1> DEFINE h == obj[t]
           s == dst[t]
<1>1. /\ pc[t] = "put" /\ initialized /\ Walkers = {} /\ Entry(text[h]) = {}
      /\ table' = table \cup {h} /\ slot' = [slot EXCEPT ![s] = h]
      /\ holder' = None /\ pc' = [pc EXCEPT ![t] = "idle"]
      /\ obj' = [obj EXCEPT ![t] = None] /\ dst' = [dst EXCEPT ![t] = None]
      /\ UNCHANGED <<initialized, live, text, refcount, todo, distinct, stale, orphaned>>
  BY DEF InternPut, Returns, Goto, memory, walk
<1>2. s \in Slots /\ h \in Objects /\ h \in live /\ h \notin table /\ refcount[h] = 1
      /\ slot[s] = None
  BY <1>1 DEF OwnInv, Busy, TypeOK
<1>3. \A u \in Threads \ {t} : pc[u] \notin {"put", "unlink", "walk"}
  BY <1>1 DEF LockInv, Walkers
<1>4. Promised(h) = {t} /\ \A g \in Objects \ {h} : Promised(g) = {}
  BY <1>1, <1>3 DEF Promised
<1>5. \A g \in Objects : Promised(g)' = {}
  BY <1>1, <1>3 DEF Promised, TypeOK
<1>6. Cardinality(Holders(h)) = 0 /\ Holders(h) = {}
  BY <1>2, <1>4, CardPromised, ZeroMeansNone
<1>7. TypeOK'
  BY <1>1, <1>2 DEF TypeOK, Pcs
<1>8. LockInv'
  BY <1>1, <1>3, NoneAssumption DEF LockInv, TypeOK
<1>9. OwnInv'
  BY <1>1, <1>3 DEF OwnInv, Busy, TypeOK
<1>10. SlotInv'
  BY <1>1, <1>2 DEF SlotInv, TypeOK
<1>11. CountsAreReferences'
  <2> SUFFICES ASSUME NEW g \in live
               PROVE  refcount[g] = Cardinality(Holders(g)') + Cardinality(Promised(g)')
    BY <1>1 DEF CountsAreReferences
  <2>1. g \in Objects
    BY DEF TypeOK
  <2>2. CASE g = h
    <3>1. Holders(g)' = {s} /\ Promised(g)' = {}
      BY <1>1, <1>2, <1>5, <1>6, <2>1, <2>2 DEF Holders, TypeOK
    <3>2. Cardinality(Holders(g)') = 1 /\ Cardinality(Promised(g)') = 0
      BY <3>1, CardPromised
    <3> QED
      BY <3>2, <2>2, <1>2
  <2>3. CASE g # h
    <3>1. Holders(g)' = Holders(g) /\ Promised(g)' = Promised(g)
      BY <1>1, <1>2, <1>4, <1>5, <2>1, <2>3, AddHolder
    <3> QED
      BY <3>1 DEF CountsAreReferences
  <2> QED
    BY <2>2, <2>3
<1>12. TableInv'
  <2>1. IsFiniteSet(table')
    BY <1>1, FS_AddElement DEF TableInv
  <2>2. \A g \in table : text[g] # text[h]
    BY <1>1 DEF Entry
  <2> QED
    BY <1>1, <1>2, <2>1, <2>2 DEF TableInv
<1>13. WalkInv'
  BY <1>1, <1>3 DEF WalkInv, TypeOK
<1>14. KnownInv'
  BY <1>1, <1>3 DEF KnownInv, TypeOK
<1> QED
  BY <1>7, <1>8, <1>9, <1>10, <1>11, <1>12, <1>13, <1>14

(* No memory for the entry: the object, which only this thread knows, goes.  *)
LEMMA InvPutFails ==
  ASSUME Inv, NEW t \in Threads, InternPutFails(t)
  PROVE  Inv'
<1> USE DEF Inv
<1> DEFINE h == obj[t]
<1>1. /\ pc[t] = "put" /\ Walkers = {}
      /\ live' = live \ {h}
      /\ holder' = None /\ pc' = [pc EXCEPT ![t] = "idle"]
      /\ obj' = [obj EXCEPT ![t] = None] /\ dst' = [dst EXCEPT ![t] = None]
      /\ UNCHANGED <<initialized, table, text, refcount, slot, todo, distinct, stale, orphaned>>
  BY DEF InternPutFails, Returns, Goto, walk
<1>2. h \in Objects /\ h \in live /\ h \notin table /\ refcount[h] = 1
  BY <1>1 DEF OwnInv, Busy, TypeOK
<1>3. \A u \in Threads \ {t} : pc[u] \notin {"put", "unlink", "walk"}
  BY <1>1 DEF LockInv, Walkers
<1>4. Promised(h) = {t} /\ \A g \in Objects \ {h} : Promised(g) = {} /\ Promised(g)' = {}
  BY <1>1, <1>3 DEF Promised, TypeOK
<1>5. Holders(h) = {}
  BY <1>2, <1>4, CardPromised, ZeroMeansNone
<1>6. TypeOK'
  BY <1>1 DEF TypeOK, Pcs
<1>7. LockInv'
  BY <1>1, <1>3, NoneAssumption DEF LockInv, TypeOK
<1>8. OwnInv'
  BY <1>1, <1>3 DEF OwnInv, Busy, TypeOK
<1>9. SlotInv'
  BY <1>1, <1>5 DEF SlotInv, Holders
<1>10. CountsAreReferences'
  <2> SUFFICES ASSUME NEW g \in live \ {h}
               PROVE  refcount[g] = Cardinality(Holders(g)') + Cardinality(Promised(g)')
    BY <1>1 DEF CountsAreReferences
  <2>1. g \in Objects
    BY DEF TypeOK
  <2>2. Holders(g)' = Holders(g) /\ Promised(g)' = Promised(g)
    BY <1>1, <1>4, <2>1 DEF Holders
  <2> QED
    BY <2>2 DEF CountsAreReferences
<1>11. TableInv' /\ WalkInv'
  BY <1>1, <1>2, <1>3 DEF TableInv, WalkInv, TypeOK
<1>12. KnownInv'
  BY <1>1, <1>3 DEF KnownInv, TypeOK
<1> QED
  BY <1>6, <1>7, <1>8, <1>9, <1>10, <1>11, <1>12

(* One reference less; the thread that drops the last one owns the object.   *)
LEMMA InvRelease ==
  ASSUME Inv, NEW t \in Threads, NEW s \in Slots, Release(t, s)
  PROVE  Inv'
<1> USE DEF Inv
<1> DEFINE h == slot[s]
<1>1. /\ pc[t] = "idle" /\ holder = None /\ h # None
      /\ refcount' = [refcount EXCEPT ![h] = IF refcount[h] = 0 THEN 0 ELSE refcount[h] - 1]
      /\ slot' = [slot EXCEPT ![s] = None]
      /\ UNCHANGED <<initialized, table, live, text, dst, todo, distinct, stale, orphaned>>
  BY DEF Release, Enter, walk
<1>2. /\ refcount[h] = 1 => holder' = t /\ pc' = [pc EXCEPT ![t] = "unlink"] /\ obj' = [obj EXCEPT ![t] = h]
      /\ refcount[h] # 1 => UNCHANGED <<holder, pc, obj>>
  BY DEF Release, Goto
<1>3. \A u \in Threads : pc[u] \notin {"put", "unlink"}
  BY <1>1, NothingPromised
<1>4. h \in live /\ h \in Objects
  BY <1>1 DEF SlotInv, TypeOK
<1>5. \A g \in Objects : Promised(g) = {} /\ Promised(g)' = {}
  BY <1>1, <1>2, <1>3 DEF Promised, TypeOK
<1>6. \A g \in live : refcount[g] = Cardinality(Holders(g))
  <2> TAKE g \in live
  <2>1. Cardinality(Promised(g)) = 0 /\ Cardinality(Holders(g)) \in Nat
    BY <1>5, CardPromised, HoldersFinite DEF TypeOK
  <2> QED
    BY <2>1 DEF CountsAreReferences
<1>7. refcount[h] \in Nat /\ refcount[h] > 0
  BY <1>1, <1>4, <1>6, DropHolder, HoldersFinite
<1>8. refcount' = [refcount EXCEPT ![h] = refcount[h] - 1]
  <2>1. (IF refcount[h] = 0 THEN 0 ELSE refcount[h] - 1) = refcount[h] - 1
    BY <1>7
  <2> HIDE DEF h
  <2> QED
    BY <1>1, <2>1
<1>9. \A u \in Threads : pc[u] = "free" => obj[u] # h
  BY <1>7 DEF OwnInv
<1>10. TypeOK'
  <2>1. refcount' \in [Objects -> 0..(RefLimit - 1)]
    BY <1>4, <1>7, <1>8, RefsFit DEF TypeOK
  <2>2. slot' \in [Slots -> Objects \cup {None}]
    BY <1>1 DEF TypeOK
  <2>3. /\ holder' \in Threads \cup {None} /\ pc' \in [Threads -> Pcs]
        /\ obj' \in [Threads -> Objects \cup {None}]
    BY <1>2, <1>4 DEF TypeOK, Pcs
  <2>4. \A u \in Threads : (pc'[u] \in {"put", "unlink", "free"} => obj'[u] \in Objects)
                          /\ (pc'[u] = "put" => dst'[u] \in Slots)
    BY <1>1, <1>2, <1>4 DEF TypeOK
  <2> QED
    BY <1>1, <2>1, <2>2, <2>3, <2>4 DEF TypeOK
<1>11. LockInv'
  BY <1>1, <1>2, <1>3, NoneAssumption DEF LockInv, TypeOK
<1>12. OwnInv'
  <2>1. \A u \in Threads : pc'[u] \in Busy =>
          \/ u = t /\ refcount[h] = 1 /\ pc'[u] = "unlink" /\ obj'[u] = h
          \/ pc[u] = "free" /\ pc'[u] = "free" /\ obj'[u] = obj[u] /\ obj[u] # h
    BY <1>1, <1>2, <1>3, <1>9 DEF Busy, TypeOK
  <2>2. refcount[h] = 1 => refcount'[h] = 0
    BY <1>4, <1>8 DEF TypeOK
  <2>3. \A u \in Threads : pc[u] = "free" => refcount'[obj[u]] = 0
    BY <1>8, <1>9 DEF OwnInv, TypeOK
  <2>4. \A u, v \in Threads : pc'[u] \in Busy /\ pc'[v] \in Busy /\ obj'[u] = obj'[v] => u = v
    BY <2>1 DEF OwnInv, Busy
  <2>5. \A u \in Threads : pc'[u] \in Busy => obj'[u] \in live'
    BY <1>1, <1>4, <2>1 DEF OwnInv, Busy
  <2>6. \A u \in Threads : pc'[u] # "put"
    BY <1>1, <1>2, <1>3 DEF TypeOK
  <2>7. \A u \in Threads : pc'[u] \in {"unlink", "free"} => refcount'[obj'[u]] = 0
    BY <2>1, <2>2, <2>3 DEF Busy
  <2>8. \A u \in Threads : pc'[u] = "free" => obj'[u] \notin table'
    BY <1>1, <2>1 DEF OwnInv, Busy
  <2> QED
    BY <2>4, <2>5, <2>6, <2>7, <2>8 DEF OwnInv
<1>13. SlotInv'
  BY <1>1 DEF SlotInv, TypeOK
<1>14. CountsAreReferences'
  <2>1. Cardinality({u \in Slots : slot'[u] = h}) = Cardinality(Holders(h)) - 1
    BY <1>1, DropHolder
  <2>2. refcount'[h] = Cardinality({u \in Slots : slot'[u] = h})
    BY <2>1, <1>4, <1>6, <1>8 DEF TypeOK
  <2>3. \A g \in Objects \ {h} : Holders(g)' = Holders(g)
    BY <1>1, DropHolder
  <2> SUFFICES ASSUME NEW g \in live
               PROVE  refcount'[g] = Cardinality(Holders(g)') + Cardinality(Promised(g)')
    BY <1>1 DEF CountsAreReferences
  <2>4. g \in Objects
    BY DEF TypeOK
  <2>5. refcount'[g] = Cardinality(Holders(g)')
    <3>1. CASE g = h
      BY <3>1, <2>2 DEF Holders
    <3>2. CASE g # h
      BY <3>2, <2>3, <2>4, <1>6, <1>8 DEF TypeOK
    <3> QED
      BY <3>1, <3>2
  <2>6. refcount'[g] \in Nat
    BY <2>4, <1>10 DEF TypeOK
  <2>7. Cardinality(Promised(g)') = 0
    BY <2>4, <1>5, CardPromised
  <2> QED
    BY <2>5, <2>6, <2>7
<1>15. TableInv' /\ WalkInv'
  BY <1>1, <1>2 DEF TableInv, WalkInv, TypeOK
<1>16. KnownInv'
  <2>1. ~orphaned => \A g \in live : refcount[g] > 0 => g \in table
    BY <1>3 DEF KnownInv
  <2>2. \A g \in live : refcount'[g] > 0 => refcount[g] > 0
    BY <1>4, <1>7, <1>8 DEF TypeOK
  <2>3. \A u \in Threads : pc'[u] = "unlink" => obj'[u] = h
    BY <1>2, <1>3 DEF TypeOK
  <2> QED
    BY <1>1, <1>4, <1>7, <2>1, <2>2, <2>3 DEF KnownInv
<1> QED
  BY <1>10, <1>11, <1>12, <1>13, <1>14, <1>15, <1>16

(* The entry with the object's text leaves the table while nobody walks it.  *)
LEMMA InvUnlink ==
  ASSUME Inv, NEW t \in Threads, ReleaseUnlink(t)
  PROVE  Inv'
<1> USE DEF Inv
<1> DEFINE h == obj[t]
<1>1. /\ pc[t] = "unlink" /\ Walkers = {}
      /\ table' = table \ Entry(text[h])
      /\ holder' = None /\ pc' = [pc EXCEPT ![t] = "free"]
      /\ UNCHANGED <<initialized, live, text, refcount, slot, obj, dst, todo, distinct, stale, orphaned>>
  BY DEF ReleaseUnlink, Goto, memory, walk
<1>2. h \in Objects /\ h \in live /\ refcount[h] = 0
  BY <1>1 DEF OwnInv, Busy, TypeOK
<1>3. \A u \in Threads \ {t} : pc[u] \notin {"put", "unlink", "walk"}
  BY <1>1 DEF LockInv, Walkers
<1>4. table' \subseteq table /\ h \notin table'
  BY <1>1 DEF Entry
<1>5. TypeOK'
  BY <1>1, <1>4 DEF TypeOK, Pcs
<1>6. LockInv'
  BY <1>1, <1>3, NoneAssumption DEF LockInv, TypeOK
<1>7. OwnInv'
  BY <1>1, <1>2, <1>3, <1>4 DEF OwnInv, Busy, TypeOK
<1>8. SlotInv' /\ WalkInv'
  BY <1>1, <1>3 DEF SlotInv, WalkInv, TypeOK
<1>9. CountsAreReferences'
  <2>1. \A g : Holders(g)' = Holders(g) /\ Promised(g)' = Promised(g)
    BY <1>1 DEF Holders, Promised, TypeOK
  <2> QED
    BY <1>1, <2>1 DEF CountsAreReferences
<1>10. TableInv'
  <2>1. IsFiniteSet(table')
    BY <1>4, FS_Subset DEF TableInv
  <2> QED
    BY <1>1, <1>4, <2>1 DEF TableInv
<1>11. KnownInv'
  <2>1. ~orphaned => table' = table \ {h}
    BY <1>1 DEF KnownInv, TableInv, Entry
  <2> QED
    BY <1>1, <1>2, <1>3, <2>1 DEF KnownInv, TypeOK
<1> QED
  BY <1>5, <1>6, <1>7, <1>8, <1>9, <1>10, <1>11

(* The object goes: its count of 0 says that no slot holds it.               *)
LEMMA InvFree ==
  ASSUME Inv, NEW t \in Threads, ReleaseFree(t)
  PROVE  Inv'
<1> USE DEF Inv
<1> DEFINE h == obj[t]
<1>1. /\ pc[t] = "free" /\ live' = live \ {h}
      /\ pc' = [pc EXCEPT ![t] = "idle"]
      /\ obj' = [obj EXCEPT ![t] = None] /\ dst' = [dst EXCEPT ![t] = None]
      /\ UNCHANGED <<initialized, table, text, refcount, slot, holder, todo, distinct, stale, orphaned>>
  BY DEF ReleaseFree, Returns, Goto, walk
<1>2. h \in Objects /\ h \in live /\ h \notin table /\ refcount[h] = 0
  BY <1>1 DEF OwnInv, Busy, TypeOK
<1>3. \A u \in Threads \ {t} : pc[u] \in Busy => obj[u] # h
  BY <1>1 DEF OwnInv, Busy
<1>4. Holders(h) = {}
  <2>1. Promised(h) = {}
    BY <1>1, <1>3 DEF Promised, Busy
  <2> QED
    BY <1>2, <2>1, CardPromised, ZeroMeansNone
<1>5. TypeOK'
  BY <1>1 DEF TypeOK, Pcs
<1>6. LockInv'
  BY <1>1 DEF LockInv, TypeOK
<1>7. OwnInv'
  BY <1>1, <1>3 DEF OwnInv, Busy, TypeOK, Entry
<1>8. SlotInv'
  BY <1>1, <1>4 DEF SlotInv, Holders
<1>9. WalkInv' /\ TableInv'
  BY <1>1, <1>2 DEF WalkInv, TableInv, TypeOK
<1>10. CountsAreReferences'
  <2>1. \A g : Holders(g)' = Holders(g) /\ Promised(g)' = Promised(g)
    BY <1>1 DEF Holders, Promised, TypeOK
  <2> QED
    BY <1>1, <2>1 DEF CountsAreReferences
<1>11. KnownInv'
  BY <1>1 DEF KnownInv, TypeOK
<1> QED
  BY <1>5, <1>6, <1>7, <1>8, <1>9, <1>10, <1>11

(* A walk reads the table, which nobody changes meanwhile.                   *)
LEMMA InvWalk ==
  ASSUME Inv, NEW t \in Threads, WalkStart(t) \/ WalkVisit(t) \/ WalkEnd(t)
  PROVE  Inv'
<1> USE DEF Inv
<1>1. /\ pc[t] \in {"idle", "enter", "walk"} /\ pc' \in {pc, [pc EXCEPT ![t] = "walk"], [pc EXCEPT ![t] = "idle"]}
      /\ UNCHANGED <<initialized, table, live, text, refcount, slot, holder, obj, dst, stale, orphaned>>
  BY DEF WalkStart, WalkVisit, WalkEnd, Finds, Goto, memory, walk
<1>2. \A u \in Threads : (pc'[u] \in Busy <=> pc[u] \in Busy) /\ (pc[u] \in Busy => pc'[u] = pc[u])
  BY <1>1 DEF Busy, TypeOK
<1>3. TypeOK' /\ WalkInv'
  <2>1. CASE WalkStart(t)
    <3>1. Cardinality(table) \in Nat /\ 0 + Cardinality(table) = Cardinality(table)
      BY FS_CardinalityType DEF TableInv
    <3> QED
      BY <2>1, <3>1 DEF WalkStart, Finds, Goto, memory, TypeOK, Pcs, WalkInv
  <2>2. CASE WalkVisit(t)
    <3>1. PICK h \in todo[t] : todo' = [todo EXCEPT ![t] = @ \ {h}]
      BY <2>2 DEF WalkVisit
    <3>2. pc[t] = "walk" /\ distinct' = [distinct EXCEPT ![t] = @ + 1] /\ pc' = pc
      BY <2>2 DEF WalkVisit
    <3>3. IsFiniteSet(todo[t]) /\ todo[t] \subseteq table
      BY <3>2, FS_Subset DEF WalkInv, TableInv
    <3>4. /\ Cardinality(todo[t] \ {h}) = Cardinality(todo[t]) - 1
          /\ Cardinality(todo[t]) \in Nat /\ distinct[t] \in Nat
      <4>1. Cardinality(todo[t] \ {h}) = Cardinality(todo[t]) - 1
        BY <3>1, <3>3, FS_RemoveElement
      <4>2. Cardinality(todo[t]) \in Nat
        BY <3>3, FS_CardinalityType
      <4>3. distinct[t] \in Nat
        BY DEF TypeOK
      <4> QED
        BY <4>1, <4>2, <4>3
    <3>5. TypeOK'
      BY <1>1, <3>1, <3>2 DEF TypeOK
    <3>6. distinct[t] + Cardinality(todo[t]) = Cardinality(table)
      BY <3>2 DEF WalkInv
    <3>7. (distinct[t] + 1) + Cardinality(todo[t] \ {h}) = Cardinality(table)
      BY <3>4, <3>6
    <3>8. todo'[t] = todo[t] \ {h} /\ distinct'[t] = distinct[t] + 1
      BY <3>1, <3>2 DEF TypeOK
    <3>9. \A u \in Threads \ {t} : todo'[u] = todo[u] /\ distinct'[u] = distinct[u]
      BY <3>1, <3>2 DEF TypeOK
    <3>10. WalkInv'
      BY <1>1, <3>2, <3>3, <3>7, <3>8, <3>9 DEF WalkInv
    <3> QED
      BY <3>5, <3>10
  <2>3. CASE WalkEnd(t)
    BY <2>3 DEF WalkEnd, Goto, memory, walk, TypeOK, Pcs, WalkInv
  <2> QED
    BY <2>1, <2>2, <2>3
<1>4. LockInv'
  BY <1>1, <1>2 DEF LockInv, Busy
<1>5. OwnInv'
  BY <1>1, <1>2 DEF OwnInv, Busy, Entry
<1>6. SlotInv' /\ TableInv'
  BY <1>1 DEF SlotInv, TableInv
<1>7. CountsAreReferences'
  <2>1. \A g : Holders(g)' = Holders(g) /\ Promised(g)' = Promised(g)
    BY <1>1, <1>2 DEF Holders, Promised, Busy
  <2> QED
    BY <1>1, <2>1 DEF CountsAreReferences
<1>8. KnownInv'
  BY <1>1, <1>2 DEF KnownInv, Busy
<1> QED
  BY <1>3, <1>4, <1>5, <1>6, <1>7, <1>8

LEMMA InvNext ==
  ASSUME Inv, [Next]_vars
  PROVE  Inv'
<1>1. CASE UNCHANGED vars
  <2>1. UNCHANGED <<initialized, table, live, text, refcount, slot, holder, pc, obj, dst,
                    todo, distinct, stale, orphaned>>
    BY <1>1 DEF vars
  <2>2. TypeOK' /\ LockInv' /\ SlotInv' /\ TableInv' /\ WalkInv' /\ KnownInv'
    BY <2>1 DEF Inv, TypeOK, LockInv, SlotInv, TableInv, WalkInv, KnownInv
  <2>3. OwnInv' /\ CountsAreReferences'
    BY <2>1 DEF Inv, OwnInv, Entry, CountsAreReferences, Holders, Promised
  <2> QED
    BY <2>2, <2>3 DEF Inv
<1>2. CASE PoolInit \/ PoolShutdown
  BY <1>2, InvPool
<1>3. ASSUME NEW t \in Threads, Call(t)
      PROVE  Inv'
  BY <1>3, InvInternHit, InvInternNew, InvRetain, InvRelease, InvWalk, InvEnterOrFail DEF Call
<1>4. ASSUME NEW t \in Threads, Continue(t)
      PROVE  Inv'
  BY <1>4, InvInternPut, InvPutFails, InvUnlink, InvFree, InvWalk, InvUseDestroyed DEF Continue
<1> QED
  BY <1>1, <1>2, <1>3, <1>4 DEF Next

-----------------------------------------------------------------------------
(* Every reachable state satisfies the inductive invariant.                  *)
THEOREM Invariance == Spec => []Inv
<1> QED
  BY InvInit, InvNext, PTL DEF Spec

(* The type invariant of shared_string.c's pool.                             *)
THEOREM TypeCorrect == Spec => []TypeOK
<1>1. Inv => TypeOK
  BY DEF Inv
<1> QED
  BY <1>1, Invariance, PTL

(* sstr_intern, sstr_retain and sstr_release keep the count of every object  *)
(* equal to the number of references to it.                                  *)
THEOREM CountsExact == Spec => []CountsAreReferences
<1>1. Inv => CountsAreReferences
  BY DEF Inv
<1> QED
  BY <1>1, Invariance, PTL

(* No reference, table entry, walk or second thread leads to freed memory    *)
(* (sstr_release frees outside the mutex).                                   *)
THEOREM MemorySafe == Spec => []NoDangling
<1>1. Inv => NoDangling
  <2> SUFFICES ASSUME Inv PROVE NoDangling
    OBVIOUS
  <2>1. \A t \in Threads : pc[t] = "walk" => todo[t] \subseteq live
    BY DEF Inv, WalkInv, TableInv
  <2>2. \A t \in Threads : pc[t] \in {"unlink", "free"} =>
          obj[t] \in live /\ \A u \in Threads \ {t} : pc[u] \in {"unlink", "free"} => obj[u] # obj[t]
    BY DEF Inv, OwnInv, Busy
  <2> QED
    BY <2>1, <2>2 DEF Inv, SlotInv, TableInv, NoDangling
<1> QED
  BY <1>1, Invariance, PTL

(* Two objects in use never have the same text, unless the pool was shut     *)
(* down over strings in use.                                                 *)
THEOREM StoredOnce == Spec => []OneObjectPerText
<1>1. Inv => OneObjectPerText
  <2> SUFFICES ASSUME Inv, ~orphaned,
                      NEW g \in live, NEW h \in live,
                      text[g] = text[h], refcount[g] > 0, refcount[h] > 0
               PROVE  g = h
    BY DEF OneObjectPerText
  <2>1. \A o \in {g, h} : o \in table \/ \E t \in Threads : pc[t] = "put" /\ obj[t] = o
    BY DEF Inv, KnownInv
  <2>2. \A t, u \in Threads : pc[t] = "put" /\ pc[u] = "put" => t = u
    BY DEF Inv, LockInv
  <2>3. \A t \in Threads : pc[t] = "put" => \A o \in table : text[o] # text[obj[t]]
    BY DEF Inv, OwnInv, Entry
  <2>4. g \in table /\ h \in table => g = h
    BY DEF Inv, TableInv
  <2> QED
    BY <2>1, <2>2, <2>3, <2>4
<1> QED
  BY <1>1, Invariance, PTL

(* A statistics walk counts exactly the strings in the table when it ends.   *)
THEOREM WalksExact == Spec => []WalkCountsTable
<1>1. Inv => WalkCountsTable
  BY DEF Inv, WalkInv, WalkCountsTable
<1> QED
  BY <1>1, Invariance, PTL
=============================================================================
