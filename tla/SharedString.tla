----------------------------- MODULE SharedString -----------------------------
(* The pool of interned, reference-counted strings of shared_string.c: one   *)
(* mutex around every count, a hash table from text to object with a         *)
(* read-write lock of its own, objects that are freed after the mutex is     *)
(* given back, a statistics walk that takes only the table's lock, and a     *)
(* shutdown that takes no lock and may come beside running calls.            *)
EXTENDS Integers, FiniteSets

CONSTANTS
  Threads,     \* callers
  Objects,     \* memory for sm_shared_string_t and its characters
  Texts,       \* strings of 1 to 255 bytes
  Slots,       \* places that can hold a reference: fields of records, of copies
  RefLimit,    \* refcount is a uint32_t: it wraps at 2^32
  None

ASSUME NoneAssumption == None \notin Threads \cup Objects \cup Texts

\* Bound: fewer places for references than a count can tell apart.
ASSUME RefsFit ==
  /\ IsFiniteSet(Slots)
  /\ RefLimit \in Nat /\ RefLimit > 1
  /\ Cardinality(Slots) < RefLimit

VARIABLES
  initialized,      \* g_initialized
  table,            \* g_pool: the objects it leads to, by their text
  live,             \* the objects allocated and not freed
  text, refcount,   \* what is in an object
  slot,             \* the reference in each slot
  holder,           \* g_intern_lock
  pc, obj, dst,     \* a thread's point in its call, its object, where its result goes
  todo, distinct,   \* a statistics walk: entries to visit, entries counted
  stale,            \* the threads that are about to use a table freed since they read g_pool
  orphaned          \* history: the pool was once shut down with references left

memory == <<live, text, refcount>>
walk   == <<todo, distinct>>
vars   == <<initialized, table, live, text, refcount, slot, holder, pc, obj, dst,
            todo, distinct, stale, orphaned>>

-------------------------------------------------------------------------------
\* ht_get, ht_remove and ht_put find an entry by its text.
Entry(x) == {h \in table : text[h] = x}

\* Threads inside ht_iterate hold the table's lock shared; ht_put and ht_remove
\* wait for them.
Walkers == {t \in Threads : pc[t] = "walk"}

Init ==
  /\ initialized = FALSE /\ orphaned = FALSE /\ stale = {}
  /\ table = {} /\ live = {}
  /\ text = [h \in Objects |-> None] /\ refcount = [h \in Objects |-> 0]
  /\ slot = [s \in Slots |-> None]
  /\ holder = None
  /\ pc = [t \in Threads |-> "idle"]
  /\ obj = [t \in Threads |-> None] /\ dst = [t \in Threads |-> None]
  /\ todo = [t \in Threads |-> {}] /\ distinct = [t \in Threads |-> 0]

Goto(t, label) == pc' = [pc EXCEPT ![t] = label]
Returns(t) ==
  Goto(t, "idle") /\ obj' = [obj EXCEPT ![t] = None] /\ dst' = [dst EXCEPT ![t] = None]

\* A call that only needs the mutex starts: nobody holds it.
Enter(t) == pc[t] = "idle" /\ holder = None

\* A call that has seen g_initialized set comes to a table that is still there.
Finds(t) == pc[t] = "enter" /\ initialized /\ t \notin stale

-------------------------------------------------------------------------------
\* sstr_pool_init and sstr_pool_shutdown take no lock.  The programs call the
\* first before they start a thread.
Quiet == \A t \in Threads : pc[t] = "idle"

PoolInit ==
  /\ Quiet
  /\ ~initialized
  /\ initialized' = TRUE /\ table' = {}
  /\ UNCHANGED <<memory, slot, holder, pc, obj, dst, walk, stale, orphaned>>

\* Slip: the table is freed without its lock.
ShutdownDuringWalk ==
  /\ initialized
  /\ initialized' = FALSE /\ table' = {}
  /\ orphaned' = (orphaned \/ table # {})
  /\ UNCHANGED <<memory, slot, holder, pc, obj, dst, walk, stale>>

\* The server calls the second while its threads go on (server.c:358-362).
\* ht_destroy waits for the walks that are in the table; any other call inside
\* the pool has read g_pool before, or reads it after it was set to NULL.
\* Strings still referenced keep their memory and lose their entry.
PoolShutdown ==
  /\ initialized
  /\ Walkers = {}
  /\ initialized' = FALSE /\ table' = {}
  /\ orphaned' = (orphaned \/ table # {})
  /\ \E S \in SUBSET {t \in Threads : pc[t] \in {"enter", "put", "unlink"}} :
       stale' = stale \cup S
  /\ UNCHANGED <<memory, slot, holder, pc, obj, dst, walk>>

\* A call that goes on with the table it read, which is freed: anything may
\* happen.  The process ends here, and a new one begins.
UseDestroyed(t) ==
  /\ t \in stale
  /\ initialized' = FALSE /\ orphaned' = FALSE /\ stale' = {}
  /\ table' = {} /\ live' = {}
  /\ text' = [h \in Objects |-> None] /\ refcount' = [h \in Objects |-> 0]
  /\ slot' = [s \in Slots |-> None]
  /\ holder' = None
  /\ pc' = [u \in Threads |-> "idle"]
  /\ obj' = [u \in Threads |-> None] /\ dst' = [u \in Threads |-> None]
  /\ todo' = [u \in Threads |-> {}] /\ distinct' = [u \in Threads |-> 0]

-------------------------------------------------------------------------------
\* sstr_intern and sstr_pool_get_stats read g_initialized without a lock.
Begin(t) ==
  /\ pc[t] = "idle" /\ initialized
  /\ Goto(t, "enter")
  /\ UNCHANGED <<initialized, table, memory, slot, holder, obj, dst, walk, stale, orphaned>>

\* The text is too long, there is no memory, or the table is gone (g_pool is
\* NULL): the call fails and leaves everything alone.
CallFails(t) ==
  /\ pc[t] = "enter" /\ t \notin stale
  /\ Goto(t, "idle")
  /\ UNCHANGED <<initialized, table, memory, slot, holder, obj, dst, walk, stale, orphaned>>

\* sstr_intern: a text the table knows gets one more reference,
InternHit(t, x, s) ==
  /\ Finds(t) /\ holder = None
  /\ slot[s] = None
  /\ \E h \in Entry(x) :
       /\ refcount' = [refcount EXCEPT ![h] = (@ + 1) % RefLimit]
       /\ slot' = [slot EXCEPT ![s] = h]
  /\ Goto(t, "idle")
  /\ UNCHANGED <<initialized, table, live, text, holder, obj, dst, walk, stale, orphaned>>

\* Slip: the new object is not remembered.
InternNewLosesObject(t, x, s) ==
  /\ Finds(t) /\ holder = None
  /\ slot[s] = None
  /\ Entry(x) = {}
  /\ \E h \in Objects \ live :
       /\ live' = live \cup {h}
       /\ text' = [text EXCEPT ![h] = x]
       /\ refcount' = [refcount EXCEPT ![h] = 1]
  /\ dst' = [dst EXCEPT ![t] = s]
  /\ holder' = t
  /\ Goto(t, "put")
  /\ UNCHANGED <<initialized, table, slot, obj, walk, stale, orphaned>>

\* a text it does not know a new object,
InternNew(t, x, s) ==
  /\ Finds(t) /\ holder = None
  /\ slot[s] = None
  /\ Entry(x) = {}
  /\ \E h \in Objects \ live :
       /\ live' = live \cup {h}
       /\ text' = [text EXCEPT ![h] = x]
       /\ refcount' = [refcount EXCEPT ![h] = 1]
       /\ obj' = [obj EXCEPT ![t] = h]
  /\ dst' = [dst EXCEPT ![t] = s]
  /\ holder' = t
  /\ Goto(t, "put")
  /\ UNCHANGED <<initialized, table, slot, walk, stale, orphaned>>

\* Slip: the result of ht_put is ignored.
InternPutUnchecked(t) ==
  /\ pc[t] = "put" /\ t \notin stale
  /\ Walkers = {}
  /\ slot' = [slot EXCEPT ![dst[t]] = obj[t]]
  /\ holder' = None
  /\ Returns(t)
  /\ UNCHANGED <<initialized, table, memory, walk, stale, orphaned>>

\* which is entered in the table and given to the caller,
InternPut(t) ==
  /\ pc[t] = "put" /\ t \notin stale
  /\ initialized /\ Walkers = {} /\ Entry(text[obj[t]]) = {}
  /\ table' = table \cup {obj[t]}
  /\ slot' = [slot EXCEPT ![dst[t]] = obj[t]]
  /\ holder' = None
  /\ Returns(t)
  /\ UNCHANGED <<initialized, memory, walk, stale, orphaned>>

\* or, when the table has no memory for a node or is gone, freed again.
InternPutFails(t) ==
  /\ pc[t] = "put" /\ t \notin stale
  /\ Walkers = {}
  /\ live' = live \ {obj[t]}
  /\ holder' = None
  /\ Returns(t)
  /\ UNCHANGED <<initialized, table, text, refcount, slot, walk, stale, orphaned>>

\* Slip: the pointer is copied and the count is not touched.
RetainCopiesPointer(t, s, d) ==
  /\ Enter(t)
  /\ slot[s] # None /\ slot[d] = None
  /\ slot' = [slot EXCEPT ![d] = slot[s]]
  /\ UNCHANGED <<initialized, table, memory, holder, pc, obj, dst, walk, stale, orphaned>>

\* sstr_retain: one more reference to what the caller already holds in s.
Retain(t, s, d) ==
  /\ Enter(t)
  /\ slot[s] # None /\ slot[d] = None
  /\ refcount' = [refcount EXCEPT ![slot[s]] = (@ + 1) % RefLimit]
  /\ slot' = [slot EXCEPT ![d] = slot[s]]
  /\ UNCHANGED <<initialized, table, live, text, holder, pc, obj, dst, walk, stale, orphaned>>

-------------------------------------------------------------------------------
\* Slip: the count is taken down under the mutex, the rest is done without it.
ReleaseDropsLock(t, s) ==
  LET h == slot[s] IN
  /\ Enter(t)
  /\ h # None
  /\ refcount' = [refcount EXCEPT ![h] = IF @ = 0 THEN 0 ELSE @ - 1]
  /\ slot' = [slot EXCEPT ![s] = None]
  /\ IF refcount[h] = 1
     THEN Goto(t, "unlink") /\ obj' = [obj EXCEPT ![t] = h]
     ELSE UNCHANGED <<pc, obj>>
  /\ UNCHANGED <<initialized, table, live, text, holder, dst, walk, stale, orphaned>>

\* Slip: the object is freed one release too late.
ReleaseKeepsLast(t, s) ==
  LET h == slot[s] IN
  /\ Enter(t)
  /\ h # None
  /\ refcount' = [refcount EXCEPT ![h] = IF @ = 0 THEN 0 ELSE @ - 1]
  /\ slot' = [slot EXCEPT ![s] = None]
  /\ IF refcount[h] = 0
     THEN holder' = t /\ Goto(t, "unlink") /\ obj' = [obj EXCEPT ![t] = h]
     ELSE UNCHANGED <<holder, pc, obj>>
  /\ UNCHANGED <<initialized, table, live, text, dst, walk, stale, orphaned>>

\* sstr_release: take the count down (a count of 0 is put back and reported);
\* the last reference keeps the mutex,
Release(t, s) ==
  LET h == slot[s] IN
  /\ Enter(t)
  /\ h # None
  /\ refcount' = [refcount EXCEPT ![h] = IF @ = 0 THEN 0 ELSE @ - 1]
  /\ slot' = [slot EXCEPT ![s] = None]
  /\ IF refcount[h] = 1
     THEN holder' = t /\ Goto(t, "unlink") /\ obj' = [obj EXCEPT ![t] = h]
     ELSE UNCHANGED <<holder, pc, obj>>
  /\ UNCHANGED <<initialized, table, live, text, dst, walk, stale, orphaned>>

\* Slip: the removal does not wait for a walk.
ReleaseUnlinkDuringWalk(t) ==
  /\ pc[t] = "unlink" /\ t \notin stale
  /\ table' = table \ Entry(text[obj[t]])
  /\ holder' = None
  /\ Goto(t, "free")
  /\ UNCHANGED <<initialized, memory, slot, obj, dst, walk, stale, orphaned>>

\* removes the entry with the object's text, if there is one,
ReleaseUnlink(t) ==
  /\ pc[t] = "unlink" /\ t \notin stale
  /\ Walkers = {}
  /\ table' = table \ Entry(text[obj[t]])
  /\ holder' = None
  /\ Goto(t, "free")
  /\ UNCHANGED <<initialized, memory, slot, obj, dst, walk, stale, orphaned>>

\* and frees the object after the mutex is given back.
ReleaseFree(t) ==
  /\ pc[t] = "free"
  /\ live' = live \ {obj[t]}
  /\ Returns(t)
  /\ UNCHANGED <<initialized, table, text, refcount, slot, holder, walk, stale, orphaned>>

-------------------------------------------------------------------------------
\* sstr_pool_get_stats walks the table without the mutex.
WalkStart(t) ==
  /\ Finds(t)
  /\ todo' = [todo EXCEPT ![t] = table] /\ distinct' = [distinct EXCEPT ![t] = 0]
  /\ Goto(t, "walk")
  /\ UNCHANGED <<initialized, table, memory, slot, holder, obj, dst, stale, orphaned>>

WalkVisit(t) ==
  /\ pc[t] = "walk"
  /\ \E h \in todo[t] : todo' = [todo EXCEPT ![t] = @ \ {h}]
  /\ distinct' = [distinct EXCEPT ![t] = @ + 1]
  /\ UNCHANGED <<initialized, table, memory, slot, holder, pc, obj, dst, stale, orphaned>>

WalkEnd(t) ==
  /\ pc[t] = "walk"
  /\ todo[t] = {}
  /\ Goto(t, "idle") /\ distinct' = [distinct EXCEPT ![t] = 0]
  /\ UNCHANGED <<initialized, table, memory, slot, holder, obj, dst, todo, stale, orphaned>>

-------------------------------------------------------------------------------
Call(t) ==
  \/ Begin(t) \/ CallFails(t)
  \/ \E x \in Texts, s \in Slots : InternHit(t, x, s) \/ InternNew(t, x, s)
  \/ \E s, d \in Slots : Retain(t, s, d)
  \/ \E s \in Slots : Release(t, s)
  \/ WalkStart(t)

Continue(t) ==
  \/ InternPut(t) \/ InternPutFails(t)
  \/ ReleaseUnlink(t) \/ ReleaseFree(t)
  \/ WalkVisit(t) \/ WalkEnd(t)
  \/ UseDestroyed(t)

Next == PoolInit \/ PoolShutdown \/ \E t \in Threads : Call(t) \/ Continue(t)

Spec == Init /\ [][Next]_vars

\* A call that has changed something goes on, and so does a walk.  Put and unlink wait for the table's lock; a
\* waiting writer gets it if the last reader leaves again and again, hence
\* strong fairness.
Fairness == \A t \in Threads : SF_vars(Continue(t))

-------------------------------------------------------------------------------
\* Properties.

Pcs == {"idle", "enter", "put", "unlink", "free", "walk"}

TypeOK ==
  /\ initialized \in BOOLEAN /\ orphaned \in BOOLEAN
  /\ table \subseteq Objects /\ live \subseteq Objects
  /\ text \in [Objects -> Texts \cup {None}]
  /\ refcount \in [Objects -> 0..(RefLimit - 1)]
  /\ slot \in [Slots -> Objects \cup {None}]
  /\ holder \in Threads \cup {None}
  /\ pc \in [Threads -> Pcs]
  /\ obj \in [Threads -> Objects \cup {None}]
  /\ dst \in [Threads -> Slots \cup {None}]
  /\ todo \in [Threads -> SUBSET Objects]
  /\ distinct \in [Threads -> Nat]
  /\ stale \subseteq Threads
  /\ \A t \in Threads : pc[t] \in {"put", "unlink", "free"} => obj[t] \in Objects
  /\ \A t \in Threads : pc[t] = "put" => dst[t] \in Slots

\* The references to h: the slots that hold it, and the one an intern is about
\* to give to its caller.
Holders(h) == {s \in Slots : slot[s] = h}
Promised(h) == {t \in Threads : pc[t] = "put" /\ obj[t] = h}

\* The count of every object is the number of references to it (sstr_intern,
\* sstr_retain, sstr_release: every caller owns what it was given).
CountsAreReferences ==
  \A h \in live : refcount[h] = Cardinality(Holders(h)) + Cardinality(Promised(h))

\* Nobody is ever led to a freed object: not by a reference, not by the table, not
\* by a walk of the table, and no object is freed by two threads
\* (shared_string.c:142-147, "no window"), also when the pool is shut down beside
\* their calls.
NoDangling ==
  /\ \A s \in Slots : slot[s] # None => slot[s] \in live
  /\ table \subseteq live
  /\ \A t \in Threads : pc[t] = "walk" => todo[t] \subseteq live
  /\ \A t \in Threads : pc[t] \in {"unlink", "free"} =>
       obj[t] \in live /\ \A u \in Threads \ {t} : pc[u] \in {"unlink", "free"} => obj[u] # obj[t]

\* Each distinct string is stored once (shared_string.h:5-8): two objects with
\* the same text are never referenced at the same time, as long as the pool was
\* not shut down over strings in use.
OneObjectPerText ==
  ~orphaned =>
    \A g, h \in live : text[g] = text[h] /\ refcount[g] > 0 /\ refcount[h] > 0 => g = h

\* When a statistics walk ends, the number of strings it counted is the number
\* in the pool at that moment, although strings are interned and released meanwhile.
WalkCountsTable ==
  \A t \in Threads : pc[t] = "walk" => distinct[t] + Cardinality(todo[t]) = Cardinality(table)

\* The table is there as long as a call uses it: strings "may be
\* interned/retained/released concurrently from any number of threads"
\* (shared_string.h:10-14).  The server's shutdown breaks it.
TableOutlivesCalls == stale = {}

\* A string nobody refers to any more is freed.
UnusedIsFreed ==
  \A h \in Objects :
    (h \in live /\ Holders(h) = {} /\ Promised(h) = {}) ~> (h \notin live)
=============================================================================
