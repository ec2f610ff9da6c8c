# A verification of the telecom subscriber management system

TLA+ modules for the C program under `src/`, the TLC runs that check them on
small instances, and theorems about them checked by TLAPS. Line references are
to the files under `src/`; the sources are `src/src/*.c` and `src/include/*.h`
(`src/subscriber_mgmt_multithreaded_fixed/` holds a second, byte-identical copy).

## 1. The system

A library of four shared components, two programs on top of it, and tests.

| component | state it keeps | operations | guarded by |
|---|---|---|---|
| hash table (`hash_table.c`) | buckets of nodes, capacity, count | create, put, get, remove, size, iterate, destroy | one read-write lock per table |
| memory pool (`memory_pool.c`) | slabs, free list, counters | create, alloc, free, stats, destroy | one mutex per pool |
| shared strings (`shared_string.c`) | a global hash table of reference-counted strings | init, intern, retain, release, stats, shutdown | one global mutex |
| subscriber database (`subscriber.c`) | three hash tables (by id, IMSI, MSISDN) over blocks of a pool, the next id | add, delete, update, search by key, filtered lists, count, sort, save, load, backup, restore | one read-write lock |
| authentication (`auth.c`) | 256 user slots, 128 session slots, the credential file | login, logout, verify, authorize, create/delete user, change password, init, shutdown | one global mutex |
| server (`server.c`) | at most 10 client threads counted by a semaphore, one token per connection | LOGIN, LOGOUT, ADD, SEARCH, DELETE, LIST, QUIT, shutdown | none of its own |
| command line (`main.c`) | the session of the one operator | a menu over the same API | single-threaded |
| logger (`logger.c`) | the open log file and its size | init, log, rotate, shutdown | one global mutex |
| SHA-256 (`sha256.c`) | none | digest | - |

How they interact. The server starts one thread per connection; each command is
one `auth_authorize` followed by one `subdb_*` call. `subdb_*` takes the
database lock and calls the hash tables, the pool and the string pool, each of
which takes its own lock for the length of one call; the locks nest in that order
only (database, then table, pool or string pool; string pool, then its table),
and the logger's lock is innermost. Reads return *snapshots*: heap copies of a
record holding their own references on the interned strings, which outlive the
lock and the record. Callbacks run under a table's read lock (`ht_iterate`).

What is hard about it, by component, and the properties that make it right:

- **Subscriber database.** An add is nine calls into three other components,
  any of which may fail, and is rolled back by hand; an update replaces three
  reference-counted strings one by one; lists copy record after record; the
  count is read without the lock. Right means: three indexes over the same
  records, unique keys, no block leaked or freed while indexed, exact reference
  counts, lists that are a moment of the database, results that tell no more
  than was done.
- **Shared strings.** The last release unlinks under the lock and frees after
  it, while the same text may be interned anew. Right means: one live object per
  text, a count equal to the references held, no use of a freed object.
- **Memory pool.** Growth under the lock, zeroing after it. Right means: a
  block has one owner, the counters add up, memory handed out is zeroed.
- **Hash table.** Chains relinked by a resize that may fail. Right means: it is
  a map, whatever collides and whenever it grows.
- **Persistence.** Write a temporary file, remove the old one, rename. Right
  means: a crash or a failure leaves the old or the new file, and what was saved
  is what is loaded.
- **Authentication.** Counters and clocks: five failures, 300 s lockout, 1800 s
  sliding sessions, full tables, a store rewritten by every login. Right means:
  a lockout lasts, a live session is never reused, disk follows memory.
- **Server.** Ten threads at most, check-then-act per command, shutdown while
  clients run.

`PROJECT.json` lists the hazards at their lines with the properties that cover
them, or a note saying why none does.

## 2. Plan

In the order in which they matter, and done: `SubscriberMap`, `SubscriberDB`,
`SharedString` (with proofs); `MemoryPool`, `KeyValueMap` and `HashTable`, which
justify what `SubscriberDB` assumes of blocks and indexes; `Persistence` under
the two programs that save, `CommandLine` and `Server` (with proofs), gated by
`AccessControl`; `Auth`; `Logger`; the pure algorithms `Sorting` and `Sha256`.

How they fit together. `CommandLine` and `Server` extend `Persistence` and
`AccessControl` and take of the database and of the sessions what the component
modules establish: operations on a set without clashing keys (`SubscriberMap`,
which `SubscriberDB` implements) and sessions that end by logout or by expiry
(`Auth!SessionsLiveOut`). `HashTable` implements `KeyValueMap`.

Every safety property that a passing run checks is proved for all values of the
constants, and both refinements. What only TLC shows is liveness (section 5) and
the violations: six claims of comments and headers that the code does not keep.

A run may hold components that share no state: its MC module lets one of them
move while the others are in their initial states, so that it has the states of
each and not their product, and every property is checked on all of them.

## 3. The modules

### SubscriberMap - what callers are promised

`subs` is the set of subscribers, `issued` the last id given out. A step adds
one subscriber with a fresh id and no key in common with another (`AbsAdd`),
removes one (`AbsDelete`), changes one without touching its keys (`AbsUpdate`),
or burns an id (`AbsBurn`: an add that failed at the inserts). There is no step
that changes two subscribers or half of one.

### SubscriberDB - `subscriber.c:101-698`

State. `by_id`, `by_imsi`, `by_msisdn` are sets of blocks: the tables' keys are
pointers into the record, so what a table maps a key to is the block whose
record holds that key, and a lookup (`WithId`, ...) reads the record. `used` is
what the pool has handed out, `record` the contents of the blocks, `refs` the
reference count of each string, `writer` and `readers` the read-write lock,
`next_id` the counter. Per thread: `pc`, the arguments `req`, the record `cur`
it works on, the field `fld` it has got to, the status `res` it will return,
`todo` and `snaps` of a list. `view` and `issued` are history variables: the
content and the last id at the moment the write lock was last given back.

Steps. One action is one call that `subdb_*` makes into another component, since
each of those is atomic under its own lock, and what other threads can see
between two calls is exactly what is modelled between two actions.

| code | actions |
|---|---|
| validation, `SM_ERR_INVALID_ARG` | `Reject`; `CallAdd` ... `CallList` take valid arguments |
| `sm_rwlock_wrlock`, `rdlock`, `unlock` | `LockWrite`, `LockRead`, `UnlockWrite`, `UnlockRead` |
| `subdb_add` | `AddCheck`, `AddAlloc`, `AddAllocFails`, `AddIntern` (x3), `AddAssignId`, `AddPutId`, `AddPutImsi`, `AddPutMsisdn`, and on failure `RemoveId`, `RemoveImsi`, `RemoveMsisdn`, `FreeSubscriberLocked` |
| `subdb_delete` | `DeleteFind`, `RemoveId`, `RemoveImsi`, `RemoveMsisdn`, `FreeSubscriberLocked` |
| `subdb_update` | `UpdateFind`, per field `UpdateIntern` and `UpdateSwap` or `UpdateSkip`, `UpdateStatus` |
| `subdb_search_by_id/imsi/msisdn` | `SearchOne` |
| `subdb_list_all`, `subdb_search_by_region/plan/status` | `ListStart`, `ListVisit`, `ListAllocFails`, `ListEnd` |
| `subdb_free_one`, `subdb_free_results` | `FreeResult`, `SearchDone` |
| `subdb_count` | `Count`, at any moment |

Every allocation may fail: the pool's (`AddAllocFails`, also while blocks are
left), the string pool's for a string it does not hold (`InternResults`), the
hash tables' (`PutResults`), the snapshots' and result arrays'. The removals of
a rollback remove by key, as the code does. The locking calls themselves are
taken to succeed. Left out: NULL arguments, the timestamps, the text of the
strings (validity is membership in `Imsis`, `Msisdns`, `Texts`), `subdb_destroy`.

### MCSubscriberDB

Two threads, two blocks, two IMSIs, two MSISDNs, two texts and an invalid one.
The add requests share an IMSI, an MSISDN, both or neither; one update changes
two fields and skips one, the other is invalid; lists by all four filters. The
sorts of the same file run beside the empty database (`Sorts`), each array being
dropped again, so that deadlock is still checked.

### SharedString - `shared_string.c`

State. `live` is the memory allocated for string objects, `text` and `refcount`
what is in it, `table` the objects that `g_pool` leads to (an entry is found by
its text: `Entry`), `holder` the mutex `g_intern_lock`. `slot` is everything
outside the pool that can hold a reference: fields of records and of snapshots,
a caller's variable. `todo` and `distinct` belong to a statistics walk, which
holds the table's read lock (`Walkers`) and not the mutex. `stale` are the calls
that have read `g_pool` and whose table has been freed since. `orphaned` is a
history variable: the pool was once shut down over strings in use.

| code | actions |
|---|---|
| `sstr_pool_init` | `PoolInit`, while no call is under way: both programs call it before they start a thread |
| `sstr_pool_shutdown` | `PoolShutdown`, at any moment: it takes no mutex, and the server calls it while client threads run (`server.c:358-362`). `ht_destroy` waits for walks; a call between reading `g_pool` and using it becomes `stale` or not, as it read the pointer before or after; `UseDestroyed` is a stale call going on, where anything may happen: the process ends and another begins |
| reading `g_initialized` without a lock | `Begin`; `CallFails` when the text is too long, there is no memory, or `g_pool` is NULL by then |
| `sstr_intern` | `InternHit`; or `InternNew`, then `InternPut` or `InternPutFails` |
| `sstr_retain` | `Retain` |
| `sstr_release` | `Release`; for the last reference also `ReleaseUnlink` (under the mutex) and `ReleaseFree` (after it) |
| `sstr_pool_get_stats` | `WalkStart`, `WalkVisit`, `WalkEnd` |

What one mutex section does without waiting for the table's lock is one action.
A section that changes the table is two, because between them it waits for the
walks. Counts wrap at `RefLimit` as a `uint32_t` does; the assumption `RefsFit`
says that there are fewer places for references than that; with 2^32 of them a
count would wrap (`shared_string.c:75`), which nothing here excludes. Left out:
NULL arguments, the sums of references and of bytes in the statistics.

### MCSharedString

Two threads, two objects, two texts, three slots, counts below 4. The liveness of
the database is checked beside it (`DB`), with two adds that clash, one update
and one list.

### MemoryPool - `memory_pool.c`

State. `slabs` are those allocated; `mem` is the first word of every block,
which in a free block is the link to the next one and in a used block is the
caller's, so that the free list is not a variable: it is what following the
links from `free_list` finds. `taken` is a block a thread has taken off the list
and not zeroed yet; `owned` are the callers' blocks. The counters are the code's.

`CreatePool` and `DestroyPool` (with no call under way: `main.c` and the tests call
them first and last; of the server's shutdown beside running threads see
`Server`); `Alloc` from the list,
`AllocGrow` with a new slab, `AllocFails`, all under the mutex; `Zero` after it;
`Use`, a caller writing into its block; `Free`. Left out: the rounding of block
sizes and the overflow checks on them.

### KeyValueMap and HashTable - `hash_table.c`

`KeyValueMap` is what callers are promised: a map, an answer to each call, and
iterations that show entries of the map, none twice and all if not stopped.
`HashTable` has the buckets as sequences of nodes; `Create` with a hint rounded
to a prime (`NextPrime`, by trial division as in the code), `PutKnown`, `PutNew`
with the resize that may fail without harm, `PutFails`, `Get`, `RemoveKey`,
`Size`, and the iteration, which is a step per entry because it calls back
while it holds the lock shared. The hash function is a constant; the other calls
are atomic under the table's lock. A resize is described from the side of the new
array: `Walked` is what one of its buckets has after the code's walk over the old
chains in their order, each node pushed on the front (`Pushed`). `calloc` may have
memory for `MaxCapacity` buckets at most; where no prime is left below that
(`MayFit`), a table cannot be made and does not grow.

### AccessControl - `auth.h`, `auth_role_allows`

Roles, actions and which role may do which.

### Persistence - `subscriber.c:825-996`

State. `db`, the subscribers in memory; `disk` and `tmp`, each path and its
temporary file (absent, without header, or rows); the save under way: its path,
how far it is (`step`), the snapshot `listed`, the rows `todo`, `write_ok`.

| code | operators |
|---|---|
| `subdb_save_csv` | `SaveOpen`, `SaveHeader`, `SaveList`, `SaveRow`, `SaveFlush`, `SaveUnlink`, `SaveRename`; each may fail and end the save as the code does |
| `subdb_load_csv` | `LoadFile`: of the lines that are not junk those that clash with nothing before them, in an unknown order, less those for which memory is lacking |
| `subdb_backup`, `subdb_restore`, `subdb_destroy` | `BackupTo`, `RestoreFrom`, `DestroyDb` |
| the death of the process | `LoseMemory`: the temporary file keeps any part of the rows |

### CommandLine - `main.c`

`pc` is where `main()` or `run_menu()` is. `Start` resolves the path of the
database and sets up logger, strings and users; `CreateStep`, `CreateFails` are
`subdb_create`'s six acquisitions and its way back (one step: nothing else runs in
between and nothing is left of its order); then `Load`, the loop (`Menu`
verifies the session, the `Choose...` actions are the choices), and after it
`LeaveMenu`, the save, `Shutdown`. A menu action that asks questions is two
steps, one that authorizes (`BeginPrompts`, `BeginChangePassword`) and one that
acts on the answers (`AddSubscriber`, ..., `Nothing`), because between them the
session can expire (`Expire`); what only shows something is one (`ListOrReport`,
`ViewLogs`, `ViewStats`). `Signal` sets the flag at any time, `Crash` ends the
process at any time.

### Auth - `auth.c`

State. `users` is the user table up to `g_user_count`, deleted ones included,
`sessions` the slots, `store` the credential file, `now` the clock, `pending` a
thread between the two halves of `auth_change_password`. `unsaved` and `misses`
are history: whether a change is in memory only, and when the last wrong
passwords were compared for each account that is no administrator's (`Judged`),
as many as it takes to break the bound (`Lately`). One
action per function, split by its outcome (`LoginFails`,
`LoginSucceeds`, `LoginFull`; `ChangeBegin`, `ChangeEnd`); every one that the
code ends with `save_users_locked` saves, or fails to (`Persist`).

As the code has it: an administrator is let in with any password, and the
default one resets the account even when it is locked (`Recovers`, `Admitted`);
a store that cannot be opened is taken for a first run (`AuthInit`); slots of
deleted users are used again only after a restart; a deleted user's sessions
stay. A password stands for its salted hash, and a token is told apart from the
one its slot held before.

### Server - `server.c`

`pc` is the accept loop's place, `slots` the semaphore, `place`, `session` and
`doing` each connection's thread; `open` the session table, `overwritten` and
`late` are history. A command is `Authorize` and then the operation. `Signal` is
what `signal()` gives under `-std=c11`: no restart of calls, so that `accept`,
`sem_wait` and `recv` return, and a handler that is reset, so that the second
signal of a kind ends the process (`Crash`). The shutdown saves and frees beside
running threads (`ShutdownSave`, `Saving`, `Destroy`); a command that comes later
kills the process or finds nothing. The model is one life of the process: what a
restart does with the files is in `CommandLine`.

### Logger - `logger.c`

The file, its one backup and the rotation at `RotateMax` bytes, with opening,
renaming and writing that may fail; `Shown` is `action_view_logs`' ring of the
last lines. A line is its number and its length. The bytes of a file and what
the ring holds are functions of the number of lines counted or read.

### Sorting and Sha256

`SortMerge` is the merge sort with its fallback when there is no memory for it;
`SortQuick` the median-of-three quick sort with insertion sort below `Cutoff`,
which also reports how deep its calls nested. A loop of the code is a function of
the round (`taken`, `sunk`, `scanned`), a recursion a function of the length of
the part it is called for (`sorted`). `Sha256` is how a message given in pieces
is cut into blocks and padded, likewise by rounds; the transform of a block is
left out. `array` grows into every array a caller can have listed, `Piece` and
`Final` take a message in every way. The sorts run in `MCSubscriberDB`, the hash,
whose user is `auth.c`, in `MCAuth`.

### MCFoundations

`MemoryPool`, `HashTable` and `Logger`, one at a time.

## 4. The runs

| run | specification and bounds | checks |
|---|---|---|
| `subscriber_db` | two threads, two blocks, ids up to 3, symmetric; arrays of up to 8 elements with three keys | `TypeOK`, `IndexesAgree`, `IndexesSafe`, `RefsMatchHolders`, `ListsAreConsistent`, `CountOffByAtMostOne`; the action property `ResultsMatchEffects`; the refinement `ImplementsMap`; `SortsAreRight` |
| `shared_string` | two threads, objects and texts, three slots, fair, no symmetry; beside it the database, fair, ids up to 2 | `TypeOK`, `CountsAreReferences`, `NoDangling`, `OneObjectPerText`, `WalkCountsTable`; `UnusedIsFreed`; `LockIsReturned` |
| `foundations` | pool: two threads, two slabs of two blocks, six allocations; table: four keys, two of one hash, hints 3 and 8, one iterating thread; log: rotation at 3 bytes, lines of 1 and 2, nine lines | `PoolTypeOK`, `FreeListIntact`, `CountersAddUp`, `OwnedIsPrivate`; `TypeOK`, `ChainsWellFormed`, `CapacityIsPrime`, the refinement `ImplementsMap`; `LogTypeOK`, `RecentLinesKept` |
| `command_line` | three subscribers, three paths, two sessions at once, one death | `TypeOK`, `NoForgottenSession`, `CleanExit`, `FilesAreMoments`, `OnlyAuthorizedChanges` |
| `auth` | two users, two passwords, two session slots, clock up to 4, one failed save; messages of up to 40 bytes in blocks of 8 | `TypeOK`, `GuessesAreBounded`, `StoreIsCurrent`, `SessionsLiveOut`; `BlocksAreTheMessage` |
| `server` | three clients, one slot, two sessions, two subscribers | `TypeOK`, `SlotsComeBack`, `SessionsAccountedFor`, `OnlyLateChangesLost` |
| `save_is_atomic` | as `command_line` | violated: `SaveIsAtomic` |
| `open_session` | as `command_line` | violated: `TouchedWithOpenSession` |
| `update_is_whole` | as `subscriber_db` | violated: `UpdatesAreWhole` |
| `table_outlives_calls` | as `shared_string` | violated: `TableOutlivesCalls` |
| `login_needs_password` | as `auth` | violated: `LoginsNeedPasswords` |
| `server_cap` | as `server` | violated: `NeverAboveCap` |

What they show. `IndexesAgree`: with no writer inside, the three tables hold the
same blocks and those are all the blocks in use, so every failure path rolled
back everything. `IndexesSafe`: even in the middle of an operation no table
leads to a freed block and no key occurs twice. `RefsMatchHolders`: the counts
equal the fields that hold each string, in records, in copies still in callers'
hands and in the one update under way. `ListsAreConsistent`: a list that
succeeded is exactly the matching part of one committed state.
`CountOffByAtMostOne`: the unlocked count is at most one off, and exact when no
writer is inside. `ResultsMatchEffects`: an error changes nothing a reader can
see; OK means that the record asked for is there, or gone, or replaced by an
update of it. An update may lack a string it was asked for, and says OK all the
same, but only one that no other subscriber holds, for only such a string needs
memory; `update_is_whole` shows that the header promises more. `ImplementsMap`:
the database is a `SubscriberMap`. `LockIsReturned`: whatever early return an
operation takes, whoever got the lock gives it back.

`CountsAreReferences`: the count of every string is the number of references
that exist, so `sstr_release` frees the last one and only the last one.
`NoDangling`: while a string is unlinked, freed outside the mutex and interned
anew by someone else, no string that was freed can be reached and none is freed
twice - also when the pool is shut down in the middle of any call, over strings
in use, and started again. What such a shutdown does endanger is the table itself:
a call that has read `g_pool` goes on with freed memory (`table_outlives_calls`),
and of the process in which one does nothing more is said.
`OneObjectPerText`: only after a shutdown over strings in use can two objects in
use have one text. `WalkCountsTable`: the number of strings reported is the number
in the table when the walk ends; a shutdown waits for walks, as `ht_destroy` takes
the table's lock. `UnusedIsFreed`: a string nobody refers to is freed, though
its removal waits for walks.

`FreeListIntact`: the chain through the blocks' own memory visits every block
that is nobody's, once, and ends, although former owners wrote there and next
owners zero it outside the mutex. `OwnedIsPrivate`: a block arrives zeroed and
nobody else writes to it. `CountersAddUp`: the statistics agree with each other
and with the blocks that are out. `ChainsWellFormed`, `CapacityIsPrime`,
`HashTable!ImplementsMap`: whatever collides and whenever the table grows or
cannot, it is a map, by the answers it gives.

`FilesAreMoments`: what a save puts in place is a whole snapshot. With
`OnlyAuthorizedChanges`, files only add to the database, and every other change
was authorized when its questions began. `NoForgottenSession`: an open session
is the one the program shows; none survives the menu. `CleanExit`: everything
acquired is given back on every way out, and a save that reported success left
all of the database in the file.

`GuessesAreBounded`: of any `MAX_ATTEMPTS` + 1 wrong passwords that are compared
for an account that is no administrator's, with no right one between them, the
last comes a lockout after the first, across lockouts that run out, password
changes and restarts. An administrator's password is not checked at all
(`login_needs_password`). `SessionsLiveOut`: a live session is not taken
away by another login and an expired one does not come back. `StoreIsCurrent`:
apart from failed saves, and from a login that found the session table full, the
file has what memory has.

`SlotsComeBack`: every slot is free or taken, once, whatever fails between `accept`
and the thread and whichever way clients leave. `sem_wait`'s result is ignored, so
a signal can let one connection in above the cap (`server_cap`); the slot it never
had is posted, and that happens once, since the loop ends at the flag. `SessionsAccountedFor`: sessions are
left behind only by a second LOGIN on one connection. `OnlyLateChangesLost`:
what the last save misses is what clients changed after its snapshot.

`RecentLinesKept`: backup and file are the end of the log without gaps and at
least one rotation's worth. `SortsAreRight`: both sorts sort, the merge sort is
stable, the quick sort's nesting is logarithmic. `BlocksAreTheMessage`: however a
message is cut into pieces, the blocks digested are those of the padded message.

What is violated. `SaveIsAtomic` is the claim of `src/include/subscriber.h:141`, "Atomically
save the full DB to a CSV file (write to tmp + rename)": the code removes the old
file before it renames (`subscriber.c:882`), and if the process dies in between,
or the rename fails, there is no file. `TouchedWithOpenSession` is the claim of
`main.c:12-14`, that each action is checked "immediately before it touches the
subscriber DB": it is checked before the questions, and the session may have
expired when they are answered. `UpdatesAreWhole` is `subscriber.h:89-93`: only a
NULL field is left unchanged by an update; one whose string cannot be interned is
too, and the status is `SM_OK` (`subscriber.c:399`). `TableOutlivesCalls` is
`shared_string.h:10-14` and `server.c:9-12`: the string pool is thread-safe; its
shutdown takes no mutex, and the server calls it beside running threads
(`server.c:362`). `LoginsNeedPasswords` is `auth.h:86-87`: bad credentials and
locked accounts are refused; an administrator is let in with any password
(`auth.c:460`, `491`), with the default one also while locked. In the model
what such a login does is what one with the right password does, and the
counterexample is that it happens. `NeverAboveCap` is the comment at
`server.c:340-341`.

Bounds of the `subscriber_db` runs. Two threads give every pair of operations; two blocks let one be freed
and reused while another is live, and let the pool run out. `MaxId = 3` lets an
id be burnt or deleted and be followed by two more. Three of anything adds no
new kind of conflict: a writer excludes all others, and a rollback concerns one
record. For `LockIsReturned` one record is enough: it asks whether each path
through an operation ends in an unlock.

Bounds of the `shared_string` run. Two threads: the mutex admits one, the
other may walk or be about to free. Two objects: an old one being freed and its
successor with the same text, or one of the other text. Three slots: a count can
reach three and fall again, and stays below the `RefLimit` of 4. Larger instances
add nothing to safety, which is proved for all of them (section 5).

Bounds of the others. `foundations`: the pool grows once and runs out, and six
allocations of four blocks use some again; chains of one, two and
three, growth from 5 to 11 buckets (memory for 23 is never short of a prime),
hints raised to 5 and stepped over 9; nine lines rotate several times.
`command_line`: rows that are new, known, or clash; data that is read from where
the program is run or from beside the program; a death and a restart; a session
and one that replaces it. `auth`: a lockout is two ticks and longer than a
session, so the clock lets a lockout begin, run out and begin again; only the
operator is deleted and created. `server`: one slot, so that a client waits and a
signal can let it in. Sorts: eight elements are more than twice the cut-off, so
partitions nest. Messages: 40 bytes are five blocks, with the padding in the last
block or in one more. Deadlock is not checked where the program ends (`server`,
`server_cap`).

Fairness. `SubscriberDB!Fairness` assumes only that a thread between lock and unlock keeps
running: nothing it does there blocks, as the inner locks are held for one call
each. It assumes nothing about who gets the lock (POSIX promises a waiting
writer nothing) nor about callers. With two texts and finite tables every
operation has finitely many steps. `SharedString!Fairness` is strong fairness of
each call that has changed something, and of each walk: a removal waits for the table's write lock, and gets it if
the readers leave again and again. It does not cover walks that overlap without
end, with which a lock that prefers readers would keep the removal waiting; with
two threads, one of them waiting, walks cannot overlap.

No other module states fairness, for no liveness is claimed: the menu at the end
of its input never ends (`main.c:137`), and `accept` waits for a client as long
as it takes; nothing in the code promises otherwise.

## 5. The proofs

`SubscriberDB_proofs` proves, for any threads, memory, keys, texts, requests and
bound, from the two named assumptions on the constants only:

- `TypeCorrect`: `Spec => []TypeOK`.
- `IndexesStayInSync`: `Spec => []IndexesAgree`.
- `IndexesStaySafe`: `Spec => []IndexesSafe`.

Neither index property is inductive: in the middle of an add the tables
disagree, and what makes the end agree is where the writer is. The inductive
invariant `IndexInv` adds to `TypeOK`

- `LockInv`: a thread at a writer's step is `writer`, one at a reader's step is
  in `readers`, and a writer excludes both;
- `PhaseInv`: for each step of a writer, what each table holds relative to
  `used` and the record in hand (`Phase`) - for instance between the first and
  second removal the record is in no `by_id` but in the other two - and with no
  writer all three equal `used`;
- `KeysInv`: two blocks in use never share an id, an IMSI or an MSISDN, except
  that a record has id 0 until it gets one;
- `FreshInv`: ids in use are below `next_id`, and the keys an add has checked
  are still unused until it inserts them.

`IndexInvInit` and `IndexInvNext` show it is initial and preserved: steps outside
the lock (`IndexInvOutside`), the add (`IndexInvAdd`), the removals
(`IndexInvRemove`), the update (`IndexInvUpdate`) and the lock itself
(`IndexInvLock`), one step per action. `OutsideKeeps` and `SameKeysMove` are the
two facts used throughout: an action that leaves tables, blocks and keys alone
keeps the invariant.

Its second part proves what the history variables are for, on top of `IndexInv`: `ListsStayConsistent`, `CountStaysClose`, `ResultsAreTrue`,
`DatabaseIsAMap` (`Spec => ImplementsMap`) and `ReferencesExact`. What
`ResultsAreTrue` says of updates comes after the references, on which it rests.

- `HistoryInv` says, of each thread, how far its effect has got: with no writer
  the content is `view` and the last id is `issued` (`Unchanged`); at each step
  of a writer what its tables and record differ by from `view` (`Progress`);
  which fields of a new record are already copied (`Copied`); that the id it
  took is fresh (`Fresh`); and that the snapshots of a reader and the blocks it
  has to visit make up the matching part of `view` (`Reading`). The refinement
  follows at the one step where `view` changes, the unlock.
- `RefsInv` makes the sum behind `Holders` one that steps can be followed
  through: the holders of each kind are finite sets, and a step adds or takes
  away those of one record, one copy or one call (`CountInRecord` and the lemmas
  after it), which changes the count by what the code retains or releases.
- `UpdateInv` follows an update: the fields before `fld` are already those of an
  `IsUpdate` of the subscriber it found, the others untouched (`UpdatePassOver`,
  `UpdateSwaps`, `UpdateEnds`). A field can be passed over only when its string
  has count 0 (`PassesField`), and by `RefsInv` then no subscriber holds it
  (`UnheldIsLacking`).

`SharedString_proofs` proves all five safety properties of `SharedString`
(`TypeCorrect`, `CountsExact`, `MemorySafe`, `StoredOnce`, `WalksExact`) for any
threads, objects, texts and slots, under `NoneAssumption` and `RefsFit`, with the
shutdown at any moment of the calls. The
inductive invariant `Inv` adds to `TypeOK` and `CountsAreReferences`

- `LockInv`: the holder of the mutex is the thread at a put or an unlink;
- `OwnInv`: the object a thread is entering or removing is alive and its alone;
  a new one is not yet in the table and its text is not either, an old one has
  count 0 and, once it is about to be freed, is out of the table;
- `SlotInv`, `TableInv`: slots and table lead to live objects, and the table has
  one object per text;
- `WalkInv`: entries counted plus entries to visit are the table, which cannot
  change under a walk;
- `KnownInv`: unless `orphaned`, what has references is in the table or on its
  way into it, and a string that lost its last one is still there until it is
  removed. Without this, the removal by text could hit another object.

`CountsAreReferences` is what makes a count of 0 mean that no slot holds the
object (`ZeroMeansNone`), hence that it may be freed; `AddHolder` and
`DropHolder` count the references when one is put into a slot or taken out, and
`AddHolder` with `RefsFit` is why the 32-bit count does not wrap.

`MemoryPool_proofs` proves every property of `MemoryPool` under `PoolAssumption`.
`PoolInv` says that the free list is a walk (`IsWalk`): a sequence of distinct
blocks, all those that are unheld, each of which has the next one's link in its
memory, and the last none. An allocation removes the walk's head, a free puts one
there, growth joins a slab's own walk to it. It adds that nothing owned is being
handed out, that no two threads have taken one block, and the counters. That the
model's `Chain`, a recursive function, follows the walk is proved by induction
(`ChainIsWalk`). The counters count sets that change by one block, or by a slab
(`SlabSizes`).

The library's theorem for induction over the naturals takes an operator and
cannot be used, but its theorem that the order of the naturals is well founded
can: `LeastNatural` and `EveryNatural` derive induction over a set from it. They
stand in each module that needs them: `MemoryPool_proofs`, `HashTable_proofs`,
`Auth_proofs`, and the parts of `CommandLine_proofs` and `SubscriberDB_proofs`
about the log and the sorts. There and below, what a recursive function returns
is proved in two inductions: that a function which satisfies the equation exists
up to any number, and then the property of its values.

`HashTable_proofs` proves every property of `HashTable` under `HashAssumption`,
which says only that hashes, hints and `MaxCapacity` are natural numbers, and
`NoneAssumption`: `TypeCorrect`, `ChainsStayWellFormed`, `CapacityStaysPrime` and
`TableIsAMap` (`Spec => ImplementsMap`). It goes in four parts.

- Capacities: of two factors of an odd number one is odd and no larger than the
  root, so `is_prime` finds it (`TrialDivision`), and the next prime is one
  (`NextPrimeIsPrime`).
- Chains and layouts: pushing, replacing, removing and appending a node keep a
  chain free of equal keys (`PushNode` and the lemmas after it); `PushedChain` and
  `WalkedChain` show by induction what the recursive functions of a resize
  return, hence that it neither loses nor doubles a node and leaves each where its
  hash leads (`RelinkedLayout`).
- `HashInv`: `TableInv` (layout, count, prime capacity) and `WalksInv`, which says
  that an iteration has been given, once each, the nodes of the buckets before
  its position and those before it in its bucket. That nothing moves under it is
  the shared lock (`NoWalks`).
- Refinement: a set of nodes without equal keys is a map (`AsMap`, `MapIs`), and
  what each call does to the nodes (`PutNewEffect`, `PutKnownEffect`,
  `RemoveKeyEffect`) is what `KeyValueMap` does to the map (`StepRefines`). A
  complete iteration has as many entries as there are keys (`ChainLength`,
  `EntryCount`).

`Persistence_proofs` proves what a save has written at each of its steps
(`SaveInv`): the temporary file is the part of the snapshot that is no longer to
do, as long as every row could be written, and all of it after the flush; hence
a step of a save takes a file away or puts a whole snapshot there
(`StepWritesMoments`); and the types of files and of a save in progress. Two
proofs use it, under `FilesAssumption` and the program's own assumption.

`CommandLine_proofs` proves every property of the `command_line` run.
`FilesAreWhole` (`Spec => FilesAreMoments`): every step of the program is a step
of a save, the death of the process, or leaves the files alone (`StepOnFiles`).
The others rest on `ProgramInv` (`ProgramInvHolds`), whose parts are

- `SessionInv`: there is no session before the menu and the program shows none
  while it asks for a login (`SessionsAreShown`, of `NoForgottenSession`);
- `HeldInv`: what is acquired at each place of the start, the menu and the way
  out; `ExitInv`: what the last save's success says of the file from the save on
  (`EndsClean`, of `CleanExit`);
- `PromptInv`: an operation that asks questions was authorized when they began
  (`ChangesWereAuthorized`, `Spec => OnlyAuthorizedChanges`);
- `PathInv`, `SaveInv` and the types (`TypeCorrect`).

`Server_proofs`, for any clients, slots and sessions: `OpenSessionsAreServed`
(`SessionsAccountedFor` needs no strengthening but the domains of the
functions); `NoSlotIsLost` (`SlotsComeBack`), where `SlotInv` counts the free
slots, those that connections hold and the one in main's hand, which are
`MaxClients`, or one more once there was a signal and the loop is past `accept`;
`SaveMissesOnlyLate`, where `SnapshotInv` says that from the snapshot on it
differs from the database by `late`, and from the rename on so does the file;
`TypeCorrect`, where
`TableInv` has every open session apart by its token. A login takes a token
that no session has; that one exists is the pigeonhole principle
(`FreshIsFresh`), since the open sessions are fewer than the tokens.

`Auth_proofs` proves every property of `Auth`, under `AuthAssumption`, which says
of the constants that bounds are positive, that the accounts of a first run fit
the table and have different names (`auth.c:387-394` has three), and that `None`
is not a session.

- `TablesInv`: users and sessions have their types, names of users in use differ,
  the store holds users in use only (`Kept`), and `StoreIsCurrent`; for the last
  a store read back must be the table it came from (`KeptIsLoaded`,
  `KeptIsInUse`), for which `InUseIsAmong` shows by induction what the recursive
  function in `InUse` returns. With it `TypeCorrect`, `StoreStaysCurrent` and
  `SessionsLive`.
- `GuessInv`, for `GuessingIsBounded`, which is about accounts that are no
  administrator's: the table, and the store if nothing is
  unsaved, cover the misses (`Covers`): an account either has counted as many
  failures as there are misses, or is locked until a lockout after the last
  (`Guards`), and no account that missed is absent. Without the part about the
  store a restart could bring back an older count; without the part about
  absence a deleted and recreated name could start with misses it never counted.

TLC checked `TablesInv` and `GuessInv` on the `auth` instance before they were
proved, as it did the other inductive invariants of state machines on theirs.

The log (end of `CommandLine_proofs`, whose program writes it), under
`LoggerAssumption`: any limit, lengths of lines and length of the view.
`LogTypeCorrect` and `RecentLinesStay` rest on `LogInv`: lines of backup and file
are numbered without gaps up to `written`, and once a line is lost the two hold
at least `RotateMax` bytes. That is kept because the file is moved only when it
is full, and what it replaces is older.

- `Bytes` is a sum: the bytes of two files one after the other add up, and a line
  adds its own (`BytesOfParts`, `BytesOfLine`), by induction over `SumOfPart`.
- The view: after `i` lines the ring holds the last `TailLines` of them, each at
  its remainder (`RingHolds`); lines less than `TailLines` apart have different
  ones (`NearDiffer`), so the next line overwrites the oldest and nothing else
  (`RingReads`). Reading the ring from there is the end of the file
  (`ViewIsTheEnd`).

The digest (end of `Auth_proofs`, whose hashes it makes), under
`Sha256Assumption`: any block and length field, any pieces.
`MessageIsDigested` rests on `HashInv`: until the end the blocks and the buffer
are the bytes so far and the buffer is shorter than a block.

- A round of an update appends what it takes (`RoundAppends`), each takes at
  least a byte, hence all of the piece in as many rounds as it has bytes
  (`UpdateAppends`).
- The zeros that `Fill` adds one by one are the fewest with which the length
  field ends a block (`FillAppends`), which is the number that the standard's
  padding chooses (`LeastPadding`, `PaddingFound`), for a mark that fits the
  block and for one that starts another.

The sorts (end of `SubscriberDB_proofs`, whose lists they sort), under
`SortingAssumption`: arrays of any length, any integers for keys, any `Cutoff`.
`SortsStayRight` (`SortSpec => []SortsAreRight`) needs of the array only that it
is `Listed`: each element carries its place.

- Merge sort. With places to break ties, elements are strictly ordered
  (`Before`), and sorted strictly means sorted stably (`StrictIsStable`). What
  the merge has written is a prefix of both halves in order, all of it before
  what is left of either (`Split`, `Written`); on equal keys the left half goes
  first, and its places are lower (`WriteLeft`, `WriteRight`). `MergeSortSorts` is
  the induction over the length of the part.
- Quick sort. Every step moves elements within its part (`Moves`): the sinking
  of insertion sort, which also leaves the part in order (`SinkSorts`,
  `InsertionSorts`), the median, the scan (`Scanned`). After a partition nothing
  before the pivot is above it and nothing after it is below (`Around`,
  `PartitionSplits`), and sorting one side keeps that (`AroundStays`,
  `SidesJoin`). A call on the smaller side is for less than half of the elements,
  so that one more level doubles what it can hold (`DepthJoins`, with
  `DoublePower`, which counts subsets because the provers know no law of powers).

Only model-checked. Liveness (`LockIsReturned`, `UnusedIsFreed`), for which the
provers have no ENABLED; and the six violations, which are counterexamples.

## 6. Not modelled

- The SHA-256 transform and hex coding, the hashing of passwords and the random
  generator: bit arithmetic without state of its own. A hash is its password.
- Parsing: of names and numbers typed, of protocol lines, of malformed lines in
  the credential store; replies, menus and wording. A line of the data file is
  a subscriber or junk.
- Ids, timestamps and the order of lines in the data file: a load issues new ids
  and a hash table has no order.
- Two saves to one path at once: each program saves from one thread. The removal
  of a temporary file is taken to succeed.
- Failing start-up of the server, which ends it before it serves anyone; the
  resolution of the log's and the credentials' paths, which is that of the
  database (`ResolvedPath`).
- The logger's levels and formatting, and log lines longer than the view's
  buffer, which it splits.
- NULL arguments, failing lock calls. The server destroying the database beside
  running threads is a step of `Server`; what their calls then do inside the
  tables and the pool, which is undefined, is not modelled (that of the string
  pool is, in `SharedString`).
- `common.h` (types and lock wrappers), the tests, demos, scripts, the
  vendored test stub, and the second copy of the tree, which is identical.
