--------------------------------- MODULE Auth ---------------------------------
(* Users, sessions and the credential store of auth.c: lockout after failed  *)
(* logins, sessions that slide and expire over a clock, tables of fixed size *)
(* and a store rewritten after almost every change.  One mutex makes every   *)
(* call atomic, except auth_change_password, which takes it twice.           *)
EXTENDS Integers, SequencesExt, AccessControl

CONSTANTS
  Names, Passwords,
  DefaultPassword,     \* SM_AUTH_DEFAULT_ADMIN_PASSWORD
  Seeds,               \* name, password and role of the accounts of a first run
  Managed, NewRoles,   \* accounts that are created and deleted, and their roles
  MaxUsers,            \* SM_AUTH_MAX_USERS
  MaxSessions,         \* SM_AUTH_MAX_SESSIONS
  MaxAttempts,         \* SM_AUTH_MAX_ATTEMPTS
  Lockout,             \* SM_AUTH_LOCKOUT_SECONDS
  SessionTime,         \* SM_AUTH_SESSION_SECONDS
  MaxTime,             \* bound: the clock
  MaxSaveFailures,     \* bound: saves that fail
  Threads,             \* callers of auth_change_password
  None

ASSUME AuthAssumption ==
  /\ {MaxUsers, MaxSessions, MaxAttempts, Lockout, SessionTime, MaxTime} \subseteq Nat \ {0}
  /\ DefaultPassword \in Passwords /\ NewRoles \subseteq Roles /\ Managed \subseteq Names
  /\ Seeds \in Seq([name : Names, pw : Passwords, role : Roles]) /\ Len(Seeds) <= MaxUsers
  /\ \A i, j \in 1..Len(Seeds) : i # j => Seeds[i].name # Seeds[j].name
  /\ None \notin [token : 1..2, name : Names, role : Roles, expires : Nat]

VARIABLES
  initialized,     \* g_initialized
  users,           \* g_users up to g_user_count; hashes stand for the passwords
  sessions,        \* g_sessions
  store,           \* the file: a sequence of users, or None
  now,             \* time(NULL)
  pending,         \* a thread between the two halves of auth_change_password
  unsaved,         \* history: a change is in memory only
  save_failures,   \* saves that failed so far
  misses           \* history: when wrong passwords were last compared, by the name of
                   \*   the account; nothing is kept for administrators

memory == <<users, sessions>>
vars   == <<initialized, memory, store, now, pending, unsaved, save_failures, misses>>

User(name, pw, role) == [in_use |-> TRUE, name |-> name, pw |-> pw, role |-> role,
                         failed |-> 0, locked |-> 0]
NoMisses   == [n \in Names |-> <<>>]
NoSessions == [s \in 1..MaxSessions |-> None]

\* The users in use of a table, in its order (SelectSeq, as a function that the
\* provers can expand).
InUse(us) ==
  LET among[n \in 0..Len(us)] ==
        IF n = 0 THEN <<>>
        ELSE IF us[n].in_use THEN Append(among[n-1], us[n]) ELSE among[n-1]
  IN  among[Len(us)]

Init ==
  /\ initialized = FALSE
  /\ users = <<>> /\ sessions = NoSessions
  /\ store = None /\ now = 1
  /\ pending = [t \in Threads |-> None]
  /\ unsaved = FALSE /\ save_failures = 0 /\ misses = NoMisses

-------------------------------------------------------------------------------
\* find_user_locked
Finds(name) == {i \in DOMAIN users : users[i].in_use /\ users[i].name = name}

\* Slip: nothing is written before the shutdown.
PersistForgets(us) == unsaved' = FALSE /\ UNCHANGED <<store, save_failures>>

\* save_users_locked writes the users in use to <path>.tmp and renames, which
\* replaces the store in one step; or it fails and the store stays.
Save(us) == store' = InUse(us) /\ unsaved' = FALSE /\ UNCHANGED save_failures
SaveFails ==
  /\ save_failures < MaxSaveFailures /\ save_failures' = save_failures + 1
  /\ unsaved' = TRUE /\ UNCHANGED store
Persist(us) == Save(us) \/ SaveFails

\* load_users_locked: as many users as the table holds.
Loaded(file) == SubSeq(file, 1, Min({Len(file), MaxUsers}))

\* seed_default_users_locked: three accounts with known or printed passwords.
Seeded == [i \in DOMAIN Seeds |-> User(Seeds[i].name, Seeds[i].pw, Seeds[i].role)]

\* auth_init: the file, or the seeds if it cannot be opened, whatever the
\* reason.
AuthInit ==
  /\ ~initialized
  /\ sessions' = NoSessions
  /\ \/ /\ store # None
        /\ users' = Loaded(store)
        /\ unsaved' = FALSE /\ initialized' = TRUE /\ UNCHANGED <<store, save_failures>>
        /\ misses' = IF unsaved THEN NoMisses ELSE misses
     \/ /\ users' = Seeded
        /\ \/ Save(Seeded) /\ initialized' = TRUE
           \/ SaveFails /\ initialized' = FALSE
        /\ misses' = NoMisses
  /\ UNCHANGED <<now, pending>>

\* auth_shutdown: a last save; the process ends afterwards (Crash).
AuthShutdown ==
  /\ initialized /\ initialized' = FALSE
  /\ Persist(users)
  /\ UNCHANGED <<memory, now, pending, misses>>

\* The process ends, with or without a shutdown: only the store is left.
Crash ==
  /\ initialized' = FALSE
  /\ users' = <<>> /\ sessions' = NoSessions
  /\ pending' = [t \in Threads |-> None]
  /\ UNCHANGED <<store, now, unsaved, save_failures, misses>>

Tick == now < MaxTime /\ now' = now + 1 /\ UNCHANGED <<initialized, memory, store, pending, unsaved, save_failures, misses>>

-------------------------------------------------------------------------------
\* hash_password and consttime_eq: the password, salted and hashed, is compared
\* with the hash of the record, which stands for the password it was made from.
Matches(u, pw) == u.pw = pw

\* auth_login
Locked(u) == u.locked # 0 /\ now < u.locked
Recovers(u, pw) == u.role = "ADMIN" /\ pw = DefaultPassword
Admitted(u, pw) == Recovers(u, pw) \/ (~Locked(u) /\ (u.role = "ADMIN" \/ Matches(u, pw)))

\* Slip: the account is locked after one failure too many.
MissLate(u) == [u EXCEPT !.failed = @ + 1,
                         !.locked = IF u.failed >= MaxAttempts THEN now + Lockout ELSE @]

\* A wrong password: counted, and from the last attempt allowed on every one
\* locks the account (again).
Miss(u) == [u EXCEPT !.failed = @ + 1,
                     !.locked = IF u.failed + 1 >= MaxAttempts THEN now + Lockout ELSE @]

\* As many of the last misses as it takes to break the bound.
Lately(times) == IF Len(times) > MaxAttempts + 1 THEN Tail(times) ELSE times

\* A login compared pw with that of u, who is no administrator: one more miss,
\* unless it is the right one.
Judged(u, pw) ==
  IF u.role = "ADMIN" THEN misses
  ELSE [misses EXCEPT ![u.name] = IF Matches(u, pw) THEN <<>> ELSE Lately(Append(@, now))]

LoginFails(i, pw) ==
  /\ ~Locked(users[i]) /\ ~Admitted(users[i], pw)
  /\ users' = [users EXCEPT ![i] = Miss(@)]
  /\ Persist(users')
  /\ misses' = Judged(users[i], pw)
  /\ UNCHANGED <<initialized, sessions, now, pending>>

\* A right one clears the counters; recovery also sets the hash anew.
Cleared(u, pw) == [u EXCEPT !.failed = 0, !.locked = 0,
                            !.pw = IF Recovers(u, pw) THEN DefaultPassword ELSE @]

\* Slip: a session is taken for expired when verification still accepts it.
ReusableEarly(s) == sessions[s] # None => sessions[s].expires <= now

\* The first slot that is free or whose session has expired.
Reusable(s) == sessions[s] # None => sessions[s].expires < now

\* A token is 256 random bits; two per slot tell a session from the one before.
FreshToken(s) == IF sessions[s] = None THEN 1 ELSE 3 - sessions[s].token

LoginSucceeds(i, pw) ==
  /\ Admitted(users[i], pw)
  /\ \E s \in 1..MaxSessions :
       /\ Reusable(s) /\ \A x \in 1..(s - 1) : ~Reusable(x)
       /\ sessions' = [sessions EXCEPT ![s] =
            [token |-> FreshToken(s), name |-> users[i].name, role |-> users[i].role,
             expires |-> now + SessionTime]]
  /\ users' = [users EXCEPT ![i] = Cleared(@, pw)]
  /\ Persist(users')
  /\ misses' = Judged(users[i], pw)
  /\ UNCHANGED <<initialized, now, pending>>

\* The table is full: the counters are cleared in memory; only a recovery has
\* saved by then.
LoginFull(i, pw) ==
  /\ Admitted(users[i], pw)
  /\ \A s \in 1..MaxSessions : ~Reusable(s)
  /\ users' = [users EXCEPT ![i] = Cleared(@, pw)]
  /\ IF Recovers(users[i], pw) THEN Persist(users')
     ELSE unsaved' = TRUE /\ UNCHANGED <<store, save_failures>>
  /\ misses' = Judged(users[i], pw)
  /\ UNCHANGED <<initialized, sessions, now, pending>>

\* auth_logout
Logout(s) ==
  /\ sessions[s] # None
  /\ sessions' = [sessions EXCEPT ![s] = None]
  /\ UNCHANGED <<initialized, users, store, now, pending, unsaved, save_failures, misses>>

\* auth_verify_session, also the first half of auth_authorize: an expired
\* session is reaped, a live one extended.
Verified(s) == sessions[s] # None /\ sessions[s].expires >= now
Extended(s) == [sessions EXCEPT ![s].expires = now + SessionTime]
Verify(s) ==
  /\ sessions[s] # None
  /\ sessions' = IF Verified(s) THEN Extended(s) ELSE [sessions EXCEPT ![s] = None]
  /\ UNCHANGED <<initialized, users, store, now, pending, unsaved, save_failures, misses>>

-------------------------------------------------------------------------------
\* Slip: only the users in use are counted.
CreateUserCounted(name, pw, role) ==
  /\ initialized /\ role # "UNKNOWN"
  /\ Finds(name) = {} /\ Len(InUse(users)) < MaxUsers
  /\ users' = Append(users, User(name, pw, role))
  /\ Persist(users')
  /\ UNCHANGED <<initialized, sessions, now, pending, misses>>

\* auth_create_user: the next slot, never one that a deleted user left.
CreateUser(name, pw, role) ==
  /\ initialized /\ role # "UNKNOWN"
  /\ Finds(name) = {} /\ Len(users) < MaxUsers
  /\ users' = Append(users, User(name, pw, role))
  /\ Persist(users')
  /\ UNCHANGED <<initialized, sessions, now, pending, misses>>

\* auth_delete_user: the sessions of the user stay.
DeleteUser(name) ==
  /\ \E i \in Finds(name) :
       /\ users' = [users EXCEPT ![i].in_use = FALSE]
       /\ Persist(users')
       /\ misses' = [misses EXCEPT ![name] = <<>>]
  /\ UNCHANGED <<initialized, sessions, now, pending>>

\* auth_change_password: the session is verified under one acquisition of the
\* mutex, the user found again by name under the next.
ChangeBegin(t, s, old, new) ==
  /\ pending[t] = None /\ Verified(s)
  /\ sessions' = Extended(s)
  /\ pending' = [pending EXCEPT ![t] = [name |-> sessions[s].name, old |-> old, new |-> new]]
  /\ UNCHANGED <<initialized, users, store, now, unsaved, save_failures, misses>>

ChangeEnd(t) ==
  /\ pending[t] # None
  /\ LET c == pending[t]
         hits == {i \in Finds(c.name) : Matches(users[i], c.old)}
     IN  IF hits = {} THEN UNCHANGED <<users, store, unsaved, save_failures>>
         ELSE users' = [users EXCEPT ![Min(hits)].pw = c.new] /\ Persist(users')
  /\ pending' = [pending EXCEPT ![t] = None]
  /\ UNCHANGED <<initialized, sessions, now, misses>>

Next ==
  \/ AuthInit \/ AuthShutdown \/ Crash \/ Tick
  \/ \E name \in Names, pw \in Passwords : \E i \in Finds(name) :
       LoginFails(i, pw) \/ LoginSucceeds(i, pw) \/ LoginFull(i, pw)
  \/ \E s \in 1..MaxSessions : Logout(s) \/ Verify(s)
  \/ \E name \in Managed, pw \in Passwords, role \in NewRoles : CreateUser(name, pw, role)
  \/ \E name \in Managed : DeleteUser(name)
  \/ \E t \in Threads, s \in 1..MaxSessions, old, new \in Passwords :
       old # new /\ ChangeBegin(t, s, old, new)
  \/ \E t \in Threads : ChangeEnd(t)

Spec == Init /\ [][Next]_vars

-------------------------------------------------------------------------------
UserType == [in_use : BOOLEAN, name : Names, pw : Passwords, role : Roles,
             failed : Nat, locked : Nat]
SessionType == [token : 1..2, name : Names, role : Roles, expires : Nat]

\* Every variable keeps its type and the tables their size; no name
\* is taken twice.
TypeOK ==
  /\ ToSet(users) \subseteq UserType /\ Len(users) <= MaxUsers
  /\ \A s \in 1..MaxSessions : sessions[s] \in SessionType \cup {None}
  /\ store # None => ToSet(store) \subseteq UserType
  /\ \A i, j \in DOMAIN users :
       i # j /\ users[i].in_use /\ users[j].in_use => users[i].name # users[j].name

\* Guessing is bounded for all but administrators: between two right passwords,
\* any MAX_ATTEMPTS + 1 wrong ones that logins to an account compare are
\* LOCKOUT_SECONDS apart, across lockouts that run out, sessions, password changes
\* and restarts, unless a failed save made a restart forget.  An administrator is
\* let in with any password (auth.c:460, 491) and never locked.
GuessesAreBounded ==
  \A u \in ToSet(users) : u.in_use /\ u.role # "ADMIN" =>
    LET times == misses[u.name]
    IN  Len(times) > MaxAttempts => times[Len(times)] >= times[1] + Lockout

\* A session is opened by nothing but the password of an account that is not
\* locked ("bad credentials or locked account", auth.h:86-87).  The code breaks it.
LoginsNeedPasswords ==
  [][\A name \in Names, pw \in Passwords : \A i \in Finds(name) :
       LoginSucceeds(i, pw) => Matches(users[i], pw) /\ ~Locked(users[i])]_vars

\* A session that has not expired is ended by its own logout or by the end of
\* the process, never by another login in need of a slot; one that has expired
\* is never accepted again.
SessionsLiveOut ==
  [][\A s \in 1..MaxSessions :
       sessions[s] # None =>
         LET same == sessions'[s] # None /\ sessions'[s].token = sessions[s].token
         IN  /\ sessions[s].expires >= now /\ ~same => Logout(s) \/ Crash \/ AuthInit
             /\ sessions[s].expires < now /\ same => sessions'[s] = sessions[s]]_vars

\* What is in the file is what is in memory, for every user in use, unless a
\* save failed or a login found the session table full (auth.c:513) since the
\* last save: a restart forgets nothing else.
StoreIsCurrent == users # <<>> /\ ~unsaved => store = InUse(users)
===============================================================================
