----------------------------- MODULE SubscriberDB -----------------------------
(* The thread-safe subscriber database of subscriber.c: three hash-table     *)
(* indexes over blocks of a memory pool, interned strings held by the        *)
(* records and by the snapshots given to callers, and one read-write lock    *)
(* over all of it.  Any number of threads call the API; a step is one call   *)
(* that subdb_* makes into the hash tables, the pool or the string pool,     *)
(* each of which is atomic under that component's own lock.                  *)
EXTENDS Integers, FiniteSets

CONSTANTS
  Threads,          \* callers of the API
  Blocks,           \* memory the pool can ever hand out
  Imsis, Msisdns,   \* the keys sub_validate_imsi / sub_validate_msisdn accept
  Texts,            \* the strings sub_validate_name accepts
  Statuses,         \* sm_sub_status_t
  AddRequests,      \* the arguments callers pass to subdb_add,
  UpdateRequests,   \*   to subdb_update (None where the pointer is NULL)
  ListRequests,     \*   and to the filtered searches
  MaxId,            \* bound: no add is called once this id is given out
  None

ASSUME ConstantsAssumption ==
  /\ None \notin Threads \cup Blocks \cup Imsis \cup Msisdns \cup Texts \cup Statuses
  /\ MaxId \in Nat

\* A record's interned strings: 1 is name, 2 is region, 3 is plan.
Fields == 1..3
Region == 2
Plan == 3

ASSUME RequestsAssumption ==
  /\ \A r \in AddRequests : r.status \in Statuses
  /\ \A r \in UpdateRequests : r.status \in Statuses \cup {None}

VARIABLES
  writer, readers,              \* db->lock: its exclusive holder, its shared ones
  by_id, by_imsi, by_msisdn,    \* the blocks each table indexes, by the key they hold
  used,                         \* the blocks the pool has handed out
  record,                       \* what is in each block
  next_id,                      \* db->next_id
  refs,                         \* the reference count of each interned string
  pc, req, cur, fld, res,       \* a thread's point in its call, arguments, s, field, status
  todo, snaps,                  \* what a search has yet to visit, and its copies
  view, issued                  \* history: content and last id when the write lock was last free

index  == <<by_id, by_imsi, by_msisdn>>
locals == <<req, cur, fld, res, todo, snaps>>
vars   == <<writer, readers, by_id, by_imsi, by_msisdn, used, record, next_id, refs,
            pc, req, cur, fld, res, todo, snaps, view, issued>>

-------------------------------------------------------------------------------
\* sm_subscriber_t without its two timestamps.  A key in an index is a pointer
\* into the record, so an index is the set of blocks it leads to.
NoTexts == [f \in Fields |-> None]
Blank   == [id |-> 0, imsi |-> None, msisdn |-> None, text |-> NoTexts, status |-> None]

WithText(r, f, x) == [r EXCEPT !.text = [r.text EXCEPT ![f] = x]]

\* How many of the strings of a record are x.
Holds(text, x) == Cardinality({f \in Fields : text[f] = x})

\* make_snapshot and free_subscriber_locked take or drop a reference per field;
\* a NULL string (None) is skipped.
Retained(text) == [x \in Texts |-> refs[x] + Holds(text, x)]
Released(text) == [x \in Texts |-> refs[x] - Holds(text, x)]

\* ht_get, by the key the record holds.
WithId(tbl, i)     == {b \in tbl : record[b].id = i}
WithImsi(tbl, i)   == {b \in tbl : record[b].imsi = i}
WithMsisdn(tbl, m) == {b \in tbl : record[b].msisdn = m}

\* ht_put without replacement: refused when the key is there; malloc may fail.
PutResults(twins) == IF twins # {} THEN {"DUPLICATE"} ELSE {"OK", "ALLOC_FAILED"}

\* sstr_intern: a hit allocates nothing, so only a new string can fail.
InternResults(x) == IF refs[x] > 0 THEN {"OK"} ELSE {"OK", "ALLOC_FAILED"}

\* subdb_count: ht_size of by_id, read without db->lock at any moment.
Count == Cardinality(by_id)

Content == {record[b] : b \in by_id}

ValidAdd(r) ==
  r.imsi \in Imsis /\ r.msisdn \in Msisdns /\ \A f \in Fields : r.text[f] \in Texts
ValidUpdate(r) == \A f \in Fields : r.text[f] \in Texts \cup {None}

-------------------------------------------------------------------------------
Init ==
  /\ writer = None /\ readers = {}
  /\ by_id = {} /\ by_imsi = {} /\ by_msisdn = {}
  /\ used = {} /\ record = [b \in Blocks |-> Blank]
  /\ next_id = 1
  /\ refs = [x \in Texts |-> 0]
  /\ pc = [t \in Threads |-> "idle"]
  /\ req = [t \in Threads |-> None]
  /\ cur = [t \in Threads |-> None]
  /\ fld = [t \in Threads |-> 1]
  /\ res = [t \in Threads |-> "OK"]
  /\ todo = [t \in Threads |-> {}]
  /\ snaps = [t \in Threads |-> {}]
  /\ view = {} /\ issued = 0

Goto(t, label) == pc' = [pc EXCEPT ![t] = label]
Status(t, st)  == res' = [res EXCEPT ![t] = st]

-------------------------------------------------------------------------------
\* Calls.  A call whose arguments fail validation returns at once; the others
\* wait for the lock, exclusively (add, delete, update) or shared (searches).
Reject(t) ==
  /\ pc[t] = "idle"
  /\ \/ \E r \in AddRequests : ~ValidAdd(r)
     \/ \E r \in UpdateRequests : ~ValidUpdate(r)
  /\ Status(t, "INVALID_ARG")
  /\ UNCHANGED <<writer, readers, index, used, record, next_id, refs,
                 pc, req, cur, fld, todo, snaps, view, issued>>

Call(t, r, label) ==
  /\ pc[t] = "idle"
  /\ Goto(t, label)
  /\ req' = [req EXCEPT ![t] = r]
  /\ Status(t, "OK")
  /\ UNCHANGED <<writer, readers, index, used, record, next_id, refs,
                 cur, fld, todo, snaps, view, issued>>

\* MaxId bounds the ids: the adds under way may each take one more.
AddsUnderWay ==
  Cardinality({t \in Threads : pc[t] # "idle" /\ req[t].op = "add"})

CallAdd(t) ==
  /\ next_id + AddsUnderWay <= MaxId
  /\ \E r \in {x \in AddRequests : ValidAdd(x)} :
       Call(t, [op |-> "add", imsi |-> r.imsi, msisdn |-> r.msisdn,
                text |-> [f \in Fields |-> r.text[f]], status |-> r.status], "wait_w")

CallDelete(t) == \E i \in 1..MaxId : Call(t, [op |-> "delete", id |-> i], "wait_w")

CallUpdate(t) ==
  \E i \in 1..MaxId, r \in {x \in UpdateRequests : ValidUpdate(x)} :
    Call(t, [op |-> "update", id |-> i,
             text |-> [f \in Fields |-> r.text[f]], status |-> r.status], "wait_w")

CallSearch(t) ==
  \/ \E i \in 1..MaxId : Call(t, [op |-> "by_id", key |-> i], "wait_r")
  \/ \E i \in Imsis    : Call(t, [op |-> "by_imsi", key |-> i], "wait_r")
  \/ \E m \in Msisdns  : Call(t, [op |-> "by_msisdn", key |-> m], "wait_r")

CallList(t) ==
  \E r \in ListRequests : Call(t, [op |-> "list", by |-> r.by, want |-> r.want], "wait_r")

-------------------------------------------------------------------------------
\* Slip: the exclusive lock does not exclude another writer.
LockWriteShared(t) ==
  /\ pc[t] = "wait_w"
  /\ readers = {}
  /\ writer' = t
  /\ Goto(t, req[t].op)
  /\ UNCHANGED <<readers, index, used, record, next_id, refs, locals, view, issued>>

\* sm_rwlock_wrlock and sm_rwlock_unlock of a writer, and the point each
\* operation goes to from there.
LockWrite(t) ==
  /\ pc[t] = "wait_w"
  /\ writer = None /\ readers = {}
  /\ writer' = t
  /\ Goto(t, req[t].op)
  /\ UNCHANGED <<readers, index, used, record, next_id, refs, locals, view, issued>>

UnlockWrite(t) ==
  /\ pc[t] = "unlock_w"
  /\ writer' = None
  /\ Goto(t, "idle")
  /\ req' = [req EXCEPT ![t] = None]
  /\ cur' = [cur EXCEPT ![t] = None]
  /\ fld' = [fld EXCEPT ![t] = 1]
  /\ view' = Content /\ issued' = next_id - 1
  /\ UNCHANGED <<readers, index, used, record, next_id, refs, res, todo, snaps>>

-------------------------------------------------------------------------------
\* Slip: the MSISDN is not looked up, so the last insert finds the duplicate.
AddCheckImsiOnly(t) ==
  /\ pc[t] = "add"
  /\ IF WithImsi(by_imsi, req[t].imsi) # {}
     THEN Status(t, "DUPLICATE") /\ Goto(t, "unlock_w")
     ELSE UNCHANGED res /\ Goto(t, "alloc")
  /\ UNCHANGED <<writer, readers, index, used, record, next_id, refs,
                 req, cur, fld, todo, snaps, view, issued>>

\* Slip: the early return forgets the unlock.
AddCheckKeepsLock(t) ==
  /\ pc[t] = "add"
  /\ IF WithImsi(by_imsi, req[t].imsi) # {} \/ WithMsisdn(by_msisdn, req[t].msisdn) # {}
     THEN Status(t, "DUPLICATE") /\ Goto(t, "idle")
     ELSE UNCHANGED res /\ Goto(t, "alloc")
  /\ UNCHANGED <<writer, readers, index, used, record, next_id, refs,
                 req, cur, fld, todo, snaps, view, issued>>

\* subdb_add under the write lock: refuse a key already registered,
AddCheck(t) ==
  /\ pc[t] = "add"
  /\ IF WithImsi(by_imsi, req[t].imsi) # {} \/ WithMsisdn(by_msisdn, req[t].msisdn) # {}
     THEN Status(t, "DUPLICATE") /\ Goto(t, "unlock_w")
     ELSE UNCHANGED res /\ Goto(t, "alloc")
  /\ UNCHANGED <<writer, readers, index, used, record, next_id, refs,
                 req, cur, fld, todo, snaps, view, issued>>

\* take a zeroed block and copy the keys into it,
AddAlloc(t) ==
  /\ pc[t] = "alloc"
  /\ \E b \in Blocks \ used :
       /\ used' = used \cup {b}
       /\ record' = [record EXCEPT ![b] =
            [Blank EXCEPT !.imsi = req[t].imsi, !.msisdn = req[t].msisdn]]
       /\ cur' = [cur EXCEPT ![t] = b]
  /\ Goto(t, "intern")
  /\ UNCHANGED <<writer, readers, index, next_id, refs,
                 req, fld, res, todo, snaps, view, issued>>

\* (the free list is empty and the pool cannot grow)
AddAllocFails(t) ==
  /\ pc[t] = "alloc"
  /\ Status(t, "ALLOC_FAILED")
  /\ Goto(t, "unlock_w")
  /\ UNCHANGED <<writer, readers, index, used, record, next_id, refs,
                 req, cur, fld, todo, snaps, view, issued>>

\* intern name, region and plan, in that order, giving the block back if one fails,
AddIntern(t) ==
  LET b == cur[t]
      x == req[t].text[fld[t]]
  IN
  /\ pc[t] = "intern"
  /\ \E st \in InternResults(x) :
       IF st = "OK"
       THEN /\ refs' = [refs EXCEPT ![x] = @ + 1]
            /\ record' = [record EXCEPT ![b] = WithText(@, fld[t], x)]
            /\ IF fld[t] = Plan
               THEN Goto(t, "assign_id") /\ UNCHANGED fld
               ELSE fld' = [fld EXCEPT ![t] = @ + 1] /\ UNCHANGED pc
            /\ UNCHANGED res
       ELSE Status(t, st) /\ Goto(t, "free") /\ UNCHANGED <<refs, record, fld>>
  /\ UNCHANGED <<writer, readers, index, used, next_id, req, cur, todo, snaps, view, issued>>

\* Slip: the id is taken from the size of the table, which deletes shrink.
AddAssignIdFromCount(t) ==
  /\ pc[t] = "assign_id"
  /\ record' = [record EXCEPT ![cur[t]] = [@ EXCEPT !.id = Count + 1, !.status = req[t].status]]
  /\ next_id' = next_id + 1
  /\ Goto(t, "put_id")
  /\ UNCHANGED <<writer, readers, index, used, refs, locals, view, issued>>

\* take the next id, which a later failure does not give back,
AddAssignId(t) ==
  /\ pc[t] = "assign_id"
  /\ record' = [record EXCEPT ![cur[t]] = [@ EXCEPT !.id = next_id, !.status = req[t].status]]
  /\ next_id' = next_id + 1
  /\ Goto(t, "put_id")
  /\ UNCHANGED <<writer, readers, index, used, refs, locals, view, issued>>

\* and insert into the three tables; the first insert that fails sends the
\* call to the removals that roll it back.
AddPutId(t) ==
  /\ pc[t] = "put_id"
  /\ \E st \in PutResults(WithId(by_id, record[cur[t]].id)) :
       /\ Status(t, st)
       /\ IF st = "OK" THEN by_id' = by_id \cup {cur[t]} /\ Goto(t, "put_imsi")
                       ELSE UNCHANGED by_id /\ Goto(t, "remove_id")
  /\ UNCHANGED <<writer, readers, by_imsi, by_msisdn, used, record, next_id, refs,
                 req, cur, fld, todo, snaps, view, issued>>

AddPutImsi(t) ==
  /\ pc[t] = "put_imsi"
  /\ \E st \in PutResults(WithImsi(by_imsi, record[cur[t]].imsi)) :
       /\ Status(t, st)
       /\ IF st = "OK" THEN by_imsi' = by_imsi \cup {cur[t]} /\ Goto(t, "put_msisdn")
                       ELSE UNCHANGED by_imsi /\ Goto(t, "remove_id")
  /\ UNCHANGED <<writer, readers, by_id, by_msisdn, used, record, next_id, refs,
                 req, cur, fld, todo, snaps, view, issued>>

\* Slip: the last insert's failure is reported but not rolled back.
AddPutMsisdnNoRollback(t) ==
  /\ pc[t] = "put_msisdn"
  /\ \E st \in PutResults(WithMsisdn(by_msisdn, record[cur[t]].msisdn)) :
       /\ Status(t, st)
       /\ by_msisdn' = IF st = "OK" THEN by_msisdn \cup {cur[t]} ELSE by_msisdn
  /\ Goto(t, "unlock_w")
  /\ UNCHANGED <<writer, readers, by_id, by_imsi, used, record, next_id, refs,
                 req, cur, fld, todo, snaps, view, issued>>

AddPutMsisdn(t) ==
  /\ pc[t] = "put_msisdn"
  /\ \E st \in PutResults(WithMsisdn(by_msisdn, record[cur[t]].msisdn)) :
       /\ Status(t, st)
       /\ IF st = "OK" THEN by_msisdn' = by_msisdn \cup {cur[t]} /\ Goto(t, "unlock_w")
                       ELSE UNCHANGED by_msisdn /\ Goto(t, "remove_id")
  /\ UNCHANGED <<writer, readers, by_id, by_imsi, used, record, next_id, refs,
                 req, cur, fld, todo, snaps, view, issued>>

-------------------------------------------------------------------------------
\* subdb_delete finds the record by id and unindexes it.
DeleteFind(t) ==
  /\ pc[t] = "delete"
  /\ LET found == WithId(by_id, req[t].id) IN
     IF found = {}
     THEN Status(t, "NOT_FOUND") /\ Goto(t, "unlock_w") /\ UNCHANGED cur
     ELSE /\ \E b \in found : cur' = [cur EXCEPT ![t] = b]
          /\ Goto(t, "remove_id")
          /\ UNCHANGED res
  /\ UNCHANGED <<writer, readers, index, used, record, next_id, refs,
                 req, fld, todo, snaps, view, issued>>

\* The three ht_remove of a delete or of a rolled back add: each takes out
\* whatever is indexed under the record's key, if anything.
RemoveId(t) ==
  /\ pc[t] = "remove_id"
  /\ by_id' = by_id \ WithId(by_id, record[cur[t]].id)
  /\ Goto(t, "remove_imsi")
  /\ UNCHANGED <<writer, readers, by_imsi, by_msisdn, used, record, next_id, refs,
                 locals, view, issued>>

RemoveImsi(t) ==
  /\ pc[t] = "remove_imsi"
  /\ by_imsi' = by_imsi \ WithImsi(by_imsi, record[cur[t]].imsi)
  /\ Goto(t, "remove_msisdn")
  /\ UNCHANGED <<writer, readers, by_id, by_msisdn, used, record, next_id, refs,
                 locals, view, issued>>

\* Slip: one of the three removals is missing.
RemoveMsisdnForgotten(t) ==
  /\ pc[t] = "remove_msisdn"
  /\ Goto(t, "free")
  /\ UNCHANGED <<writer, readers, index, used, record, next_id, refs, locals, view, issued>>

RemoveMsisdn(t) ==
  /\ pc[t] = "remove_msisdn"
  /\ by_msisdn' = by_msisdn \ WithMsisdn(by_msisdn, record[cur[t]].msisdn)
  /\ Goto(t, "free")
  /\ UNCHANGED <<writer, readers, by_id, by_imsi, used, record, next_id, refs,
                 locals, view, issued>>

\* free_subscriber_locked, and the same four calls where interning failed.
FreeSubscriberLocked(t) ==
  /\ pc[t] = "free"
  /\ refs' = Released(record[cur[t]].text)
  /\ used' = used \ {cur[t]}
  /\ record' = [record EXCEPT ![cur[t]] = Blank]
  /\ Goto(t, "unlock_w")
  /\ UNCHANGED <<writer, readers, index, next_id, locals, view, issued>>

-------------------------------------------------------------------------------
\* subdb_update finds the record, then per field interns the new string; when
\* that fails the field silently keeps its old value.
UpdateFind(t) ==
  /\ pc[t] = "update"
  /\ LET found == WithId(by_id, req[t].id) IN
     IF found = {}
     THEN Status(t, "NOT_FOUND") /\ Goto(t, "unlock_w") /\ UNCHANGED cur
     ELSE /\ \E b \in found : cur' = [cur EXCEPT ![t] = b]
          /\ Goto(t, "update_field")
          /\ UNCHANGED res
  /\ UNCHANGED <<writer, readers, index, used, record, next_id, refs,
                 req, fld, todo, snaps, view, issued>>

\* Slip: one field too many.
NextFieldPastPlan(t) ==
  IF fld[t] > Plan
  THEN Goto(t, "update_status") /\ UNCHANGED fld
  ELSE Goto(t, "update_field") /\ fld' = [fld EXCEPT ![t] = @ + 1]

NextField(t) ==
  IF fld[t] = Plan
  THEN Goto(t, "update_status") /\ UNCHANGED fld
  ELSE Goto(t, "update_field") /\ fld' = [fld EXCEPT ![t] = @ + 1]

UpdateIntern(t) ==
  LET x == req[t].text[fld[t]] IN
  /\ pc[t] = "update_field"
  /\ x # None
  /\ \E st \in InternResults(x) :
       IF st = "OK"
       THEN refs' = [refs EXCEPT ![x] = @ + 1] /\ Goto(t, "update_swap") /\ UNCHANGED fld
       ELSE UNCHANGED refs /\ NextField(t)
  /\ UNCHANGED <<writer, readers, index, used, record, next_id,
                 req, cur, res, todo, snaps, view, issued>>

UpdateSkip(t) ==
  /\ pc[t] = "update_field"
  /\ req[t].text[fld[t]] = None
  /\ NextField(t)
  /\ UNCHANGED <<writer, readers, index, used, record, next_id, refs,
                 req, cur, res, todo, snaps, view, issued>>

\* Slip: the old string is not released.
UpdateSwapKeepsOld(t) ==
  /\ pc[t] = "update_swap"
  /\ record' = [record EXCEPT ![cur[t]] = WithText(@, fld[t], req[t].text[fld[t]])]
  /\ NextField(t)
  /\ UNCHANGED <<writer, readers, index, used, next_id, refs,
                 req, cur, res, todo, snaps, view, issued>>

\* The old string is released and the pointer replaced.
UpdateSwap(t) ==
  LET old == record[cur[t]].text[fld[t]] IN
  /\ pc[t] = "update_swap"
  /\ refs' = [refs EXCEPT ![old] = @ - 1]
  /\ record' = [record EXCEPT ![cur[t]] = WithText(@, fld[t], req[t].text[fld[t]])]
  /\ NextField(t)
  /\ UNCHANGED <<writer, readers, index, used, next_id,
                 req, cur, res, todo, snaps, view, issued>>

UpdateStatus(t) ==
  /\ pc[t] = "update_status"
  /\ record' = IF req[t].status = None THEN record
               ELSE [record EXCEPT ![cur[t]] = [@ EXCEPT !.status = req[t].status]]
  /\ Goto(t, "unlock_w")
  /\ UNCHANGED <<writer, readers, index, used, next_id, refs, locals, view, issued>>

-------------------------------------------------------------------------------
\* Slip: a search does not wait for the writer.
LockReadIgnoresWriter(t) ==
  /\ pc[t] = "wait_r"
  /\ readers' = readers \cup {t}
  /\ Goto(t, req[t].op)
  /\ UNCHANGED <<writer, index, used, record, next_id, refs, locals, view, issued>>

\* The searches, under the shared lock.
LockRead(t) ==
  /\ pc[t] = "wait_r"
  /\ writer = None
  /\ readers' = readers \cup {t}
  /\ Goto(t, req[t].op)
  /\ UNCHANGED <<writer, index, used, record, next_id, refs, locals, view, issued>>

\* make_snapshot: a copy of the record that holds its own string references.
Snapshot(t, b) ==
  /\ snaps' = [snaps EXCEPT ![t] = @ \cup {record[b]}]
  /\ refs' = Retained(record[b].text)

\* subdb_search_by_id, _by_imsi and _by_msisdn.
SearchOne(t) ==
  LET found == CASE pc[t] = "by_id"     -> WithId(by_id, req[t].key)
                 [] pc[t] = "by_imsi"   -> WithImsi(by_imsi, req[t].key)
                 [] pc[t] = "by_msisdn" -> WithMsisdn(by_msisdn, req[t].key)
  IN
  /\ pc[t] \in {"by_id", "by_imsi", "by_msisdn"}
  /\ IF found = {}
     THEN Status(t, "NOT_FOUND") /\ UNCHANGED <<snaps, refs>>
     ELSE \/ \E b \in found : Snapshot(t, b) /\ UNCHANGED res
          \/ Status(t, "ALLOC_FAILED") /\ UNCHANGED <<snaps, refs>>
  /\ Goto(t, "unlock_r")
  /\ UNCHANGED <<writer, readers, index, used, record, next_id,
                 req, cur, fld, todo, view, issued>>

\* subdb_list_all and the three filtered searches walk by_id in table order,
\* which is any order; the callback copies each record that matches.
Match(r, s) ==
  CASE r.by = "all"    -> TRUE
    [] r.by = "region" -> s.text[Region] = r.want
    [] r.by = "plan"   -> s.text[Plan] = r.want
    [] r.by = "status" -> s.status = r.want

ListStart(t) ==
  /\ pc[t] = "list"
  /\ todo' = [todo EXCEPT ![t] = by_id]
  /\ Goto(t, "visit")
  /\ UNCHANGED <<writer, readers, index, used, record, next_id, refs,
                 req, cur, fld, res, snaps, view, issued>>

ListVisit(t) ==
  /\ pc[t] = "visit"
  /\ \E b \in todo[t] :
       /\ todo' = [todo EXCEPT ![t] = @ \ {b}]
       /\ IF Match(req[t], record[b])
          THEN Snapshot(t, b)
          ELSE UNCHANGED <<snaps, refs>>
  /\ UNCHANGED <<writer, readers, index, used, record, next_id,
                 pc, req, cur, fld, res, view, issued>>

\* (the result array cannot grow, or the copy cannot be allocated)
ListAllocFails(t) ==
  /\ pc[t] = "visit"
  /\ \E b \in todo[t] : Match(req[t], record[b])
  /\ todo' = [todo EXCEPT ![t] = {}]
  /\ Status(t, "ALLOC_FAILED")
  /\ Goto(t, "unlock_r")
  /\ UNCHANGED <<writer, readers, index, used, record, next_id, refs,
                 req, cur, fld, snaps, view, issued>>

ListEnd(t) ==
  /\ pc[t] = "visit"
  /\ todo[t] = {}
  /\ Goto(t, "unlock_r")
  /\ UNCHANGED <<writer, readers, index, used, record, next_id, refs, locals, view, issued>>

UnlockRead(t) ==
  /\ pc[t] = "unlock_r"
  /\ readers' = readers \ {t}
  /\ Goto(t, "results")
  /\ UNCHANGED <<writer, index, used, record, next_id, refs, locals, view, issued>>

\* subdb_free_one and subdb_free_results, by the caller when it is done with the
\* copies or by a failed list on those it had made, with no database lock held.
FreeResult(t) ==
  /\ pc[t] = "results"
  /\ \E s \in snaps[t] :
       /\ refs' = Released(s.text)
       /\ snaps' = [snaps EXCEPT ![t] = @ \ {s}]
  /\ UNCHANGED <<writer, readers, index, used, record, next_id,
                 pc, req, cur, fld, res, todo, view, issued>>

SearchDone(t) ==
  /\ pc[t] = "results"
  /\ snaps[t] = {}
  /\ Goto(t, "idle")
  /\ req' = [req EXCEPT ![t] = None]
  /\ UNCHANGED <<writer, readers, index, used, record, next_id, refs,
                 cur, fld, res, todo, snaps, view, issued>>

-------------------------------------------------------------------------------
CallAny(t) ==
  Reject(t) \/ CallAdd(t) \/ CallDelete(t) \/ CallUpdate(t) \/ CallSearch(t) \/ CallList(t)

\* What a thread does between getting the lock and giving it back.
WriterStep(t) ==
  \/ AddCheck(t) \/ AddAlloc(t) \/ AddAllocFails(t) \/ AddIntern(t) \/ AddAssignId(t)
  \/ AddPutId(t) \/ AddPutImsi(t) \/ AddPutMsisdn(t)
  \/ DeleteFind(t) \/ RemoveId(t) \/ RemoveImsi(t) \/ RemoveMsisdn(t)
  \/ FreeSubscriberLocked(t)
  \/ UpdateFind(t) \/ UpdateIntern(t) \/ UpdateSkip(t) \/ UpdateSwap(t) \/ UpdateStatus(t)
  \/ UnlockWrite(t)

ReaderStep(t) ==
  \/ SearchOne(t) \/ ListStart(t) \/ ListVisit(t) \/ ListAllocFails(t) \/ ListEnd(t)
  \/ UnlockRead(t)

Next ==
  \E t \in Threads :
    \/ CallAny(t)
    \/ LockWrite(t) \/ WriterStep(t)
    \/ LockRead(t) \/ ReaderStep(t)
    \/ FreeResult(t) \/ SearchDone(t)

Spec == Init /\ [][Next]_vars

\* A thread inside the lock keeps running: nothing there blocks.  Getting the
\* lock is not fair (a pthread read-write lock promises waiting writers nothing)
\* and callers need not call or free results.
Fairness == \A t \in Threads : WF_vars(WriterStep(t) \/ ReaderStep(t))

-------------------------------------------------------------------------------
\* Properties.

Texting == [Fields -> Texts \cup {None}]
Record ==
  [id : Nat, imsi : Imsis \cup {None}, msisdn : Msisdns \cup {None},
   text : Texting, status : Statuses \cup {None}]

AddArgs ==
  [op : {"add"}, imsi : Imsis, msisdn : Msisdns, text : [Fields -> Texts], status : Statuses]
DeleteArgs == [op : {"delete"}, id : Nat]
UpdateArgs ==
  [op : {"update"}, id : Nat, text : Texting, status : Statuses \cup {None}]
ReadArgs ==
  [op : {"by_id"}, key : Nat] \cup [op : {"by_imsi"}, key : Imsis]
    \cup [op : {"by_msisdn"}, key : Msisdns]
    \cup {[op |-> "list", by |-> r.by, want |-> r.want] : r \in ListRequests}
Request == AddArgs \cup DeleteArgs \cup UpdateArgs \cup ReadArgs \cup {None}

AddPcs == {"add", "alloc", "intern", "assign_id", "put_id", "put_imsi", "put_msisdn"}
UpdatePcs == {"update", "update_field", "update_swap", "update_status"}
RemovePcs == {"remove_id", "remove_imsi", "remove_msisdn", "free"}
WritePcs == AddPcs \cup UpdatePcs \cup RemovePcs \cup {"delete", "unlock_w"}
\* Where a writer works on the record cur.
RecordPcs ==
  (AddPcs \ {"add", "alloc"}) \cup (UpdatePcs \ {"update"}) \cup RemovePcs
ReadPcs == {"by_id", "by_imsi", "by_msisdn", "list", "visit", "unlock_r"}
Pcs == {"idle", "wait_w", "wait_r", "results"} \cup WritePcs \cup ReadPcs
Results == {"OK", "INVALID_ARG", "DUPLICATE", "NOT_FOUND", "ALLOC_FAILED"}

\* The arguments a thread carries fit the operation it is in, and it has a
\* record where it works on one.
ArgsOK ==
  \A t \in Threads :
    /\ pc[t] = "wait_w" => req[t] \in AddArgs \cup DeleteArgs \cup UpdateArgs
    /\ pc[t] \in AddPcs => req[t] \in AddArgs
    /\ pc[t] \in UpdatePcs => req[t] \in UpdateArgs
    /\ pc[t] = "delete" => req[t] \in DeleteArgs
    /\ pc[t] = "wait_r" => req[t] \in ReadArgs
    /\ pc[t] \in RecordPcs => cur[t] \in Blocks

StateOK ==
  /\ writer \in Threads \cup {None} /\ readers \subseteq Threads
  /\ by_id \subseteq Blocks /\ by_imsi \subseteq Blocks /\ by_msisdn \subseteq Blocks
  /\ used \subseteq Blocks
  /\ record \in [Blocks -> Record]
  /\ next_id \in Nat \ {0} /\ issued \in Nat
  /\ refs \in [Texts -> Int]
  /\ pc \in [Threads -> Pcs] /\ req \in [Threads -> Request]
  /\ cur \in [Threads -> Blocks \cup {None}]
  /\ fld \in [Threads -> Fields]
  /\ res \in [Threads -> Results]
  /\ todo \in [Threads -> SUBSET Blocks]
  /\ snaps \in [Threads -> SUBSET Record]
  /\ view \subseteq Record

\* Every variable keeps its type, and a thread's arguments are its operation's.
TypeOK == StateOK /\ ArgsOK

\* While no add, delete or update runs, the three tables index exactly the same
\* blocks, and those are exactly the blocks the pool has handed out: a failed
\* insert is rolled back everywhere and no block leaks (subscriber.h:15-18).
IndexesAgree ==
  writer = None => by_id = by_imsi /\ by_imsi = by_msisdn /\ by_msisdn = used

\* At every moment, also half way through an add or a delete, no table leads to
\* a block that was given back to the pool, and two records in a table never
\* share the table's key.
IndexesSafe ==
  /\ by_id \cup by_imsi \cup by_msisdn \subseteq used
  /\ \A b, c \in by_id : record[b].id = record[c].id => b = c
  /\ \A b, c \in by_imsi : record[b].imsi = record[c].imsi => b = c
  /\ \A b, c \in by_msisdn : record[b].msisdn = record[c].msisdn => b = c

\* The reference count of each string is the number of fields that hold it: of
\* live records, of snapshots still in callers' hands, and of an update between
\* interning and the swap.  Failed adds, failed lists and skipped update fields
\* neither leak a reference nor drop one twice.
Holders(x) ==
  Cardinality({h \in used \X Fields : record[h[1]].text[h[2]] = x})
  + Cardinality({h \in Threads \X (UNION {snaps[t] : t \in Threads}) \X Fields :
                   h[2] \in snaps[h[1]] /\ h[2].text[h[3]] = x})
  + Cardinality({t \in Threads : pc[t] = "update_swap" /\ req[t].text[fld[t]] = x})

RefsMatchHolders == \A x \in Texts : refs[x] = Holders(x)

\* A list that succeeded returns exactly the subscribers that match among those
\* committed before it took the lock, none of them half added or half updated.
ListsAreConsistent ==
  \A t \in readers :
    pc[t] = "unlock_r" /\ req[t].op = "list" /\ res[t] = "OK"
      => snaps[t] = {s \in view : Match(req[t], s)}

\* subdb_count takes no database lock.  Whenever it is called it is wrong by at
\* most the one record being added or deleted, and exact when there is none.
CountOffByAtMostOne ==
  /\ Count <= Cardinality(view) + 1
  /\ Cardinality(view) <= Count + 1
  /\ writer = None => Count = Cardinality(view)

\* What the update r may make of the subscriber s: its identifiers and whatever r
\* does not ask for stay, its status is the one asked for, and so is each string,
\* except that one nobody else holds may fail to be interned: then the field
\* silently keeps its old string.
IsUpdate(r, s, n, others) ==
  /\ n.id = s.id /\ n.imsi = s.imsi /\ n.msisdn = s.msisdn
  /\ n.status = IF r.status = None THEN s.status ELSE r.status
  /\ \A f \in Fields :
       IF r.text[f] = None
       THEN n.text[f] = s.text[f]
       ELSE \/ n.text[f] = r.text[f]
            \/ n.text[f] = s.text[f] /\ ~\E o \in others, g \in Fields : o.text[g] = r.text[f]

GivesBack(t) == writer = t /\ writer' = None

\* When a writer gives the lock back, what it is about to return is true as far
\* as the code makes it so: after an error nothing a reader can see has changed;
\* after OK exactly the record it was asked to add is there, or the one it was
\* asked to delete is gone, or the one it was asked to update is replaced by an
\* update of it, whole but for strings that could not be interned.
ResultsMatchEffects ==
  [][\A t \in Threads :
       GivesBack(t) =>
         /\ res[t] # "OK" => view' = view
         /\ res[t] = "OK" /\ req[t].op = "add" =>
              \E s \in view' \ view :
                /\ view' = view \cup {s}
                /\ s.imsi = req[t].imsi /\ s.msisdn = req[t].msisdn
                /\ s.text = req[t].text /\ s.status = req[t].status
         /\ res[t] = "OK" /\ req[t].op = "delete" =>
              \E s \in view : s.id = req[t].id /\ view' = view \ {s}
         /\ res[t] = "OK" /\ req[t].op = "update" =>
              \E s \in view, n \in view' :
                /\ s.id = req[t].id /\ view' = (view \ {s}) \cup {n}
                /\ IsUpdate(req[t], s, n, view \ {s})]_vars

\* What subdb_update says of itself (subscriber.h:89-93, "Update mutable fields";
\* only a NULL field is left unchanged): after OK the subscriber has every string
\* it was asked to have.  The code does not keep it: see UpdateIntern.
UpdatesAreWhole ==
  [][\A t \in Threads :
       GivesBack(t) /\ res[t] = "OK" /\ req[t].op = "update" =>
         \E n \in view' :
           /\ n.id = req[t].id
           /\ \A f \in Fields : req[t].text[f] # None => n.text[f] = req[t].text[f]]_vars

\* The database is a set of subscribers that changes one at a time.
Abstract == INSTANCE SubscriberMap WITH subs <- view
ImplementsMap == Abstract!AbsSpec

\* A thread that got the lock gives it back.
LockIsReturned ==
  \A t \in Threads : (writer = t \/ t \in readers) ~> (writer # t /\ t \notin readers)
=============================================================================
