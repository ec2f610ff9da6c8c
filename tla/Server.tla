-------------------------------- MODULE Server --------------------------------
(* The TCP server of server.c: an accept loop that takes a slot of a         *)
(* semaphore and starts a detached thread per connection, the threads'       *)
(* commands on the sessions and the database, signals, and a shutdown that   *)
(* saves and frees everything without waiting for the threads.  One life of  *)
(* the process.                                                              *)
EXTENDS Persistence, AccessControl

CONSTANTS
  Data,          \* data/subscribers.csv
  Conns,         \* clients, each with at most one connection at a time
  MaxClients,    \* SM_SRV_MAX_CLIENTS
  MaxSessions,   \* SM_AUTH_MAX_SESSIONS
  Commands,      \* what ADD, DELETE, SEARCH and LIST need to be allowed
  UserRoles      \* the roles of the users that log in

ASSUME ServerAssumption ==
  /\ Data \in Paths /\ UserRoles \subseteq Roles /\ Commands \subseteq Actions
  /\ IsFiniteSet(Conns) /\ {MaxClients, MaxSessions} \subseteq Nat \ {0}
  /\ None \notin [token : Nat, role : UserRoles]

VARIABLES
  pc,            \* where main() is
  signals,       \* signals handled; g_srv_shutdown says whether there were any
  slots,         \* g_client_slots
  place,         \* where the connection is: its thread's control
  session,       \* the session a thread believes in, or None (logged_in, token)
  doing,         \* the command a thread has had authorized
  open,          \* auth.c: the sessions in the table that have not expired
  overwritten,   \* history: open sessions whose thread logged in a second time
  late           \* history: subscribers changed since the last save's snapshot

main    == <<pc, signals, slots>>
threads == <<place, session, doing>>
table   == <<open, overwritten>>
vars    == <<store, main, threads, table, late>>

NoThreads ==
  [place |-> [c \in Conns |-> "none"], session |-> [c \in Conns |-> None], doing |-> [c \in Conns |-> "none"]]

Init ==
  /\ FilesInit
  /\ pc = "off" /\ signals = 0 /\ slots = 0
  /\ place = NoThreads.place /\ session = NoThreads.session /\ doing = NoThreads.doing
  /\ open = {} /\ overwritten = {} /\ late = {}

Shutdown == signals > 0
Running  == pc \notin {"off", "ended"}
Serving  == {c \in Conns : place[c] \in {"serving", "closing"}}

-------------------------------------------------------------------------------
\* main up to listen().  What fails on the way ends the program, except the
\* logger and the load, whose results are ignored.
Start ==
  /\ pc = "off"
  /\ LoadFile(disk[Data])
  /\ pc' = "loop" /\ slots' = MaxClients
  /\ UNCHANGED <<files, save, signals, threads, table, late>>

\* The accept loop.  Its only exits: a signal seen here, an accept that fails.
Loop ==
  /\ pc = "loop"
  /\ pc' = IF Shutdown THEN "close" ELSE "accept"
  /\ UNCHANGED <<store, signals, slots, threads, table, late>>

Accept(c) ==
  /\ pc = "accept" /\ place[c] = "none"
  /\ pc' = "wait" /\ place' = [place EXCEPT ![c] = "accepted"]
  /\ UNCHANGED <<store, signals, slots, session, doing, table, late>>

AcceptFails ==
  /\ pc = "accept" /\ pc' = "close"
  /\ UNCHANGED <<store, signals, slots, threads, table, late>>

\* Slip: sem_trywait, and nobody looks at what it returns.
SemTryWait ==
  /\ pc = "wait" /\ pc' = "spawn"
  /\ slots' = IF slots > 0 THEN slots - 1 ELSE 0
  /\ UNCHANGED <<store, signals, threads, table, late>>

SemWait ==
  /\ pc = "wait" /\ slots > 0
  /\ slots' = slots - 1 /\ pc' = "spawn"
  /\ UNCHANGED <<store, signals, threads, table, late>>

\* Slip: on the way out the slot is posted once by each of two handlers.
SpawnPostsTwice(c) ==
  /\ pc = "spawn" /\ place[c] = "accepted"
  /\ pc' = "loop"
  /\ \/ place' = [place EXCEPT ![c] = "serving"] /\ UNCHANGED slots
     \/ place' = [place EXCEPT ![c] = "none"] /\ slots' = slots + 2
  /\ UNCHANGED <<store, signals, session, doing, table, late>>

\* malloc and pthread_create; if one fails the connection is closed and the
\* slot posted, whether or not sem_wait had got it.
Spawn(c) ==
  /\ pc = "spawn" /\ place[c] = "accepted"
  /\ pc' = "loop"
  /\ \/ place' = [place EXCEPT ![c] = "serving"] /\ UNCHANGED slots
     \/ place' = [place EXCEPT ![c] = "none"] /\ slots' = slots + 1
  /\ UNCHANGED <<store, signals, session, doing, table, late>>

\* SIGINT and SIGTERM, each handled once: under -std=c11 signal() resets the
\* handler and does not restart calls, so that the next one kills (Crash).  The
\* thread it is delivered to may be blocked: accept returns EINTR, sem_wait
\* returns without a slot, recv ends the connection.
Signal ==
  /\ Running /\ signals < 2 /\ signals' = signals + 1
  /\ \/ UNCHANGED <<pc, place>>
     \/ pc = "accept" /\ pc' = "loop" /\ UNCHANGED place
     \/ pc = "wait" /\ slots = 0 /\ pc' = "spawn" /\ UNCHANGED place
     \/ \E c \in Conns :
          /\ place[c] = "serving" /\ doing[c] = "none"
          /\ place' = [place EXCEPT ![c] = "closing"] /\ UNCHANGED pc
  /\ UNCHANGED <<store, slots, session, doing, table, late>>

-------------------------------------------------------------------------------
\* client_thread: what it reads next is up to the client.
AtPrompt(c) == place[c] = "serving" /\ doing[c] = "none"

InUse == open \cup ({session[c] : c \in Conns} \ {None})
Fresh == CHOOSE t \in 1..(MaxSessions + Cardinality(Conns) + 1) : \A s \in InUse : s.token # t

\* auth_login finds a slot; a session the thread had is forgotten, not closed.
Login(c) ==
  /\ AtPrompt(c) /\ Cardinality(open) < MaxSessions
  /\ \E role \in UserRoles :
       LET new == [token |-> Fresh, role |-> role] IN
       /\ session' = [session EXCEPT ![c] = new]
       /\ open' = open \cup {new}
  /\ overwritten' = (overwritten \cup {session[c]}) \cap open
  /\ UNCHANGED <<store, main, place, doing, late>>

CloseSession(c) ==
  /\ open' = open \ {session[c]} /\ UNCHANGED overwritten
  /\ session' = [session EXCEPT ![c] = None]

Logout(c) ==
  /\ AtPrompt(c) /\ CloseSession(c)
  /\ UNCHANGED <<store, main, place, doing, late>>

\* Each command is authorized, and then carried out.
Authorize(c, action) ==
  /\ AtPrompt(c)
  /\ session[c] \in open /\ RoleAllows(session[c].role, action)
  /\ doing' = [doing EXCEPT ![c] = action]
  /\ UNCHANGED <<store, main, place, session, table, late>>

Done(c) == doing' = [doing EXCEPT ![c] = "none"] /\ UNCHANGED <<files, save, main, place, session, table>>
Listed  == pc = "destroy" \/ (pc = "save" /\ step \in {"rows", "unlink", "rename", "done"})

Add(c) ==
  /\ doing[c] = "SUB_ADD" /\ pc # "free"
  /\ \E s \in Subscribers \ db :
       /\ ClashFree(db \cup {s}) /\ db' = db \cup {s}
       /\ late' = IF Listed THEN late \cup {s} ELSE late
  /\ Done(c)

Delete(c) ==
  /\ doing[c] = "SUB_DELETE" /\ pc # "free"
  /\ \E s \in db :
       /\ db' = db \ {s}
       /\ late' = IF Listed THEN late \cup {s} ELSE late
  /\ Done(c)

\* A search, a list, an add or a delete that fails; and any of them on the
\* database main has freed, which kills the process (Crash) or finds nothing.
NoChange(c) == doing[c] # "none" /\ UNCHANGED <<db, late>> /\ Done(c)

\* QUIT, a blank line, end of file or an error.
HangUp(c) ==
  /\ AtPrompt(c)
  /\ place' = [place EXCEPT ![c] = "closing"]
  /\ UNCHANGED <<store, main, session, doing, table, late>>

\* Slip: the session of a client that goes away is left to expire.
CloseKeepsSession(c) ==
  /\ place[c] = "closing"
  /\ place' = [place EXCEPT ![c] = "posting"]
  /\ session' = [session EXCEPT ![c] = None]
  /\ UNCHANGED <<store, main, doing, table, late>>

\* The session is closed, then the connection; then the slot is posted.
Close(c) ==
  /\ place[c] = "closing"
  /\ place' = [place EXCEPT ![c] = "posting"]
  /\ CloseSession(c)
  /\ UNCHANGED <<store, main, doing, late>>

Post(c) ==
  /\ place[c] = "posting"
  /\ place' = [place EXCEPT ![c] = "none"]
  /\ slots' = slots + 1
  /\ UNCHANGED <<store, pc, signals, session, doing, table, late>>

\* Sessions end by themselves when they are idle.
Expire ==
  /\ \E s \in open : open' = open \ {s}
  /\ overwritten' = overwritten \cap open'
  /\ UNCHANGED <<store, main, threads, late>>

-------------------------------------------------------------------------------
\* After the loop, with client threads still running.
ShutdownSave ==
  /\ pc = "close"
  /\ SaveOpen(Data) /\ pc' = "save" /\ late' = {}
  /\ UNCHANGED <<signals, slots, threads, table>>

Saving == SaveStep /\ UNCHANGED <<main, threads, table, late>>

SaveDone ==
  /\ pc = "save" /\ saving = None /\ pc' = "destroy"
  /\ UNCHANGED <<store, signals, slots, threads, table, late>>

\* subdb_destroy waits for the lock, and frees what threads may still use.
Destroy ==
  /\ pc = "destroy" /\ pc' = "free"
  /\ DestroyDb /\ late' = {}
  /\ UNCHANGED <<files, save, signals, slots, threads, table>>

\* main returns, or the process dies: every thread is gone.  What a restart
\* finds and does is in CommandLine, which uses the files in the same way.
ProcessEnds ==
  /\ LoseMemory
  /\ pc' = "ended" /\ signals' = 0 /\ slots' = 0
  /\ place' = NoThreads.place /\ session' = NoThreads.session /\ doing' = NoThreads.doing
  /\ open' = {} /\ overwritten' = {} /\ late' = {}
Exit  == pc = "free" /\ ProcessEnds
Crash == Running /\ ProcessEnds

Next ==
  \/ Start \/ Loop \/ AcceptFails \/ SemWait \/ Signal
  \/ \E c \in Conns :
       \/ Accept(c) \/ Spawn(c) \/ Login(c) \/ Logout(c)
       \/ \E action \in Commands : Authorize(c, action)
       \/ Add(c) \/ Delete(c) \/ NoChange(c) \/ HangUp(c) \/ Close(c) \/ Post(c)
  \/ Expire \/ ShutdownSave \/ Saving \/ SaveDone \/ Destroy \/ Exit \/ Crash

Spec == Init /\ [][Next]_vars

-------------------------------------------------------------------------------
SessionType == [token : Nat, role : UserRoles]

\* Every variable keeps its type; no two subscribers share a key, no two open
\* sessions a token, and the session table is never overfull.
TypeOK ==
  /\ FilesTypeOK
  /\ pc \in {"off", "loop", "accept", "wait", "spawn", "close", "save", "destroy", "free", "ended"}
  /\ signals \in 0..2 /\ slots \in 0..(MaxClients + 1)
  /\ place \in [Conns -> {"none", "accepted", "serving", "closing", "posting"}]
  /\ \A c \in Conns : session[c] # None => session[c] \in SessionType
  /\ doing \in [Conns -> Commands \cup {"none"}]
  /\ open \subseteq SessionType /\ Cardinality(open) <= MaxSessions
  /\ \A s, t \in open : s.token = t.token => s = t
  /\ overwritten \subseteq open /\ late \subseteq Subscribers

\* A connection has a slot from its thread's start until it posts; the one main
\* has got for the next belongs to nobody yet.
Holding == {c \in Conns : place[c] \in {"serving", "closing", "posting"}}
Taken   == Cardinality(Holding) + IF pc = "spawn" THEN 1 ELSE 0

\* Every slot is free or taken, once: none is lost when malloc, pthread_create or
\* a client fails, and none is posted twice.  Only a sem_wait that a signal ended
\* leaves one slot more than there were, and no second, for the loop ends then.
SlotsComeBack ==
  Running => Taken + slots \in MaxClients..(MaxClients + IF Shutdown THEN 1 ELSE 0)

\* "so we never exceed SM_SRV_MAX_CLIENTS threads" (server.c:340-341).  The code
\* does, when a signal ends the sem_wait whose result it ignores.
NeverAboveCap == Cardinality(Holding) <= MaxClients

\* A session that is open and has not expired is that of a connection being
\* served, or was given up by a second LOGIN on a connection: whatever way
\* clients leave, and whatever is going on with the others, the table fills up
\* with nothing else.
SessionsAccountedFor ==
  open \subseteq overwritten \cup {session[c] : c \in Serving}

\* When the server frees the database after a save that worked, the file and
\* the database differ only by what clients changed after the save had taken
\* its snapshot, although they go on adding and deleting all the time.
OnlyLateChangesLost ==
  pc = "destroy" /\ result = "OK" =>
    \A s \in Subscribers : (s \in db) # (s \in disk[Data].rows) => s \in late
===============================================================================
