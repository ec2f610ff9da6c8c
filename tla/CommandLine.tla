----------------------------- MODULE CommandLine -----------------------------
(* The menu program of main.c around the database, its file and the          *)
(* operator's session: start-up, the menu loop, each menu action, signals,   *)
(* the exit, and the process dying at any point.  It has one thread; what    *)
(* happens besides it is time, which can end a session while it waits for    *)
(* input, signals, and failing calls.                                        *)
EXTENDS Persistence, Sequences, AccessControl

CONSTANTS
  Data,          \* data/subscribers.csv, as seen from where the program is run
  Beside,        \* data/subscribers.csv, next to the program
  Backup,        \* the stamped path of a backup
  UserRoles,     \* the roles of the users that log in
  Tokens,        \* bound: sessions that are open at once
  MaxCrashes     \* bound: deaths of the process

ASSUME ProgramAssumption ==
  /\ {Data, Beside, Backup} \subseteq Paths /\ Backup \notin {Data, Beside}
  /\ UserRoles \subseteq Roles /\ MaxCrashes \in Nat
  /\ None \notin [token : Tokens, role : UserRoles]

VARIABLES
  path,          \* subscriber_path, the file loaded and saved
  pc,            \* where main() or run_menu() is
  attempt,       \* action_login's counter
  doing,         \* the action authorized, whose prompts are being answered
  state,         \* sm_app_state_t: the session the program believes in, or None
  sessions,      \* auth.c: the sessions that are open and not expired
  signalled,     \* g_shutdown_requested
  held,          \* what main() and subdb_create have acquired
  crashes        \* deaths so far

control == <<path, pc, attempt, doing>>
session == <<state, sessions>>
vars    == <<store, control, session, signalled, held, crashes>>

Services == {"logger", "strings", "auth"}
Ladder   == <<"db", "by_id", "by_imsi", "by_msisdn", "pool", "lock">>
Parts    == {Ladder[i] : i \in 1..Len(Ladder)}
Running  == pc \notin {"off", "failed", "ended"}

Goto(label) == pc' = label /\ UNCHANGED <<path, attempt, doing>>

Init ==
  /\ FilesInit
  /\ path = Data /\ pc = "off" /\ attempt = 0 /\ doing = "none"
  /\ state = None /\ sessions = {}
  /\ signalled = FALSE /\ held = {} /\ crashes = 0

-------------------------------------------------------------------------------
\* resolve_runtime_path: the file that can be opened, from where the program is
\* run if there is one, or else next to the program.
ResolvedPath == IF disk[Data] = Absent /\ disk[Beside] # Absent THEN Beside ELSE Data

\* main: the paths are resolved; the logger and the string pool are set up, whether or not that works;
\* without the credential store the program ends.
Start ==
  /\ ~Running
  /\ path' = ResolvedPath /\ signalled' = FALSE
  /\ \/ pc' = "create" /\ held' = Services
     \/ pc' = "failed" /\ held' = {"strings"}
  /\ UNCHANGED <<attempt, doing>>
  /\ UNCHANGED <<store, session, crashes>>

\* subdb_create acquires six things, one after the other.
Got == Cardinality(held \cap Parts)

CreateStep ==
  /\ pc = "create"
  /\ held' = held \cup {Ladder[Got + 1]}
  /\ IF Got + 1 = Len(Ladder) THEN Goto("load") ELSE Goto("create")
  /\ UNCHANGED <<store, session, signalled, crashes>>

\* Slip: the table made last is forgotten.
CreateFailsForgetsOne ==
  /\ pc = "create"
  /\ held' = held \ ({Ladder[i] : i \in 1..(Got - 1)} \cup {"auth", "logger"})
  /\ Goto("failed")
  /\ UNCHANGED <<store, session, signalled, crashes>>

\* When one fails those it has are given back, and main ends the program.
CreateFails ==
  /\ pc = "create"
  /\ held' = held \ ({Ladder[i] : i \in 1..Got} \cup {"auth", "logger"})
  /\ Goto("failed")
  /\ UNCHANGED <<store, session, signalled, crashes>>

Load ==
  /\ pc = "load"
  /\ LoadFile(disk[path])
  /\ Goto("menu")
  /\ UNCHANGED <<files, save, session, signalled, held, crashes>>

-------------------------------------------------------------------------------
\* run_menu: the session is verified before every prompt, the signal flag
\* looked at before and after it.
Menu ==
  /\ pc = "menu"
  /\ state' = IF state \in sessions THEN state ELSE None
  /\ Goto(IF signalled THEN "exit" ELSE "choice")
  /\ UNCHANGED <<store, sessions, signalled, held, crashes>>

Choosing == pc = "choice" /\ ~signalled

ChoiceInterrupted ==
  /\ pc = "choice" /\ signalled
  /\ Goto("exit")
  /\ UNCHANGED <<store, session, signalled, held, crashes>>

\* An unknown choice (end of input is one), or an action without a session.
ChooseNothing ==
  /\ Choosing
  /\ Goto("menu")
  /\ UNCHANGED <<store, session, signalled, held, crashes>>

ChooseExit ==
  /\ Choosing
  /\ Goto("exit")
  /\ UNCHANGED <<store, session, signalled, held, crashes>>

\* Slip: "Already logged in" is not said.
ChooseLoginAgain ==
  /\ Choosing
  /\ pc' = "login" /\ attempt' = 1 /\ UNCHANGED <<path, doing>>
  /\ UNCHANGED <<store, session, signalled, held, crashes>>

ChooseLogin ==
  /\ Choosing /\ state = None
  /\ pc' = "login" /\ attempt' = 1 /\ UNCHANGED <<path, doing>>
  /\ UNCHANGED <<store, session, signalled, held, crashes>>

LoginSucceeds ==
  /\ pc = "login"
  /\ \E role \in UserRoles, token \in Tokens :
       /\ \A s \in sessions : s.token # token
       /\ state' = [token |-> token, role |-> role]
  /\ sessions' = sessions \cup {state'}
  /\ Goto("menu")
  /\ UNCHANGED <<store, signalled, held, crashes>>

LoginFails ==
  /\ pc = "login"
  /\ IF attempt < 3 THEN attempt' = attempt + 1 /\ pc' = "login"
                    ELSE attempt' = 0 /\ pc' = "menu"
  /\ UNCHANGED <<path, doing, store, session, signalled, held, crashes>>

ChooseLogout ==
  /\ Choosing /\ state # None
  /\ sessions' = sessions \ {state} /\ state' = None
  /\ Goto("menu")
  /\ UNCHANGED <<store, signalled, held, crashes>>

-------------------------------------------------------------------------------
\* Slip: only the login is required.
AuthorizedByLogin(action) == state # None

\* auth_authorize, at the top of every action that require_login lets through:
\* the session is open and its role allows the action.
Authorized(action) == state # None /\ state \in sessions /\ RoleAllows(state.role, action)

\* What only reads, and asks nothing: the lists, the log file, the statistics
\* of the two pools.
Shows(action) ==
  /\ Choosing /\ Authorized(action)
  /\ Goto("menu")
  /\ UNCHANGED <<store, session, signalled, held, crashes>>
ListOrReport == Shows("SUB_LIST") \/ Shows("REPORT_GENERATE")
ViewLogs     == Shows("VIEW_LOGS")
ViewStats    == Shows("VIEW_STATS")

\* action_backup saves at once; subdb_backup makes up the path.
BackupNow ==
  /\ Choosing /\ Authorized("DB_BACKUP")
  /\ BackupTo(Backup)
  /\ Goto("backup")
  /\ UNCHANGED <<session, signalled, held, crashes>>

\* The others ask questions first, for as long as the operator takes.
BeginPrompts(action) ==
  /\ Choosing
  /\ action \in {"SUB_ADD", "SUB_SEARCH", "SUB_UPDATE", "SUB_DELETE", "DB_RESTORE"}
  /\ Authorized(action)
  /\ pc' = "prompt" /\ doing' = action /\ UNCHANGED <<path, attempt>>
  /\ UNCHANGED <<store, session, signalled, held, crashes>>

\* The password is the user's own business: no role is needed, and what
\* auth_change_password finds wrong, the session too, it says afterwards.
BeginChangePassword ==
  /\ Choosing /\ state # None
  /\ pc' = "prompt" /\ doing' = "CHANGE_PASSWORD" /\ UNCHANGED <<path, attempt>>
  /\ UNCHANGED <<store, session, signalled, held, crashes>>

Answered(action) ==
  /\ pc = "prompt" /\ doing = action
  /\ pc' = "menu" /\ doing' = "none" /\ UNCHANGED <<path, attempt>>
  /\ UNCHANGED <<files, save, session, signalled, held, crashes>>

\* Any of them may find its input invalid, its subscriber missing, its memory
\* gone; a search and a change of password leave the database as it is.
Nothing(action) == Answered(action) /\ UNCHANGED db

AddSubscriber ==
  /\ Answered("SUB_ADD")
  /\ \E s \in Subscribers : ClashFree(db \cup {s}) /\ db' = db \cup {s}

UpdateSubscriber ==
  /\ Answered("SUB_UPDATE")
  /\ \E s \in db, r \in Subscribers :
       /\ r.imsi = s.imsi /\ r.msisdn = s.msisdn
       /\ db' = (db \ {s}) \cup {r}

DeleteSubscriber ==
  /\ Answered("SUB_DELETE")
  /\ \E s \in db : db' = db \ {s}

\* action_restore loads whatever file the operator names, temporary ones too.
Restore ==
  /\ Answered("DB_RESTORE")
  /\ \E p \in Paths : RestoreFrom(disk[p]) \/ RestoreFrom(tmp[p])

-------------------------------------------------------------------------------
\* After the loop: the session is closed, the database saved, everything freed.
LeaveMenu ==
  /\ pc = "exit"
  /\ sessions' = sessions \ {state} /\ UNCHANGED <<state>>
  /\ SaveOpen(path)
  /\ Goto("exitsave")
  /\ UNCHANGED <<signalled, held, crashes>>

Saving == SaveStep /\ UNCHANGED <<control, session, signalled, held, crashes>>

SaveDone ==
  /\ pc \in {"backup", "exitsave"} /\ saving = None
  /\ IF pc = "backup" THEN Goto("menu") /\ result' = "OK"   \* shown and forgotten
                       ELSE Goto("destroy") /\ UNCHANGED result
  /\ UNCHANGED <<db, files, saving, step, listed, todo, write_ok, session, signalled, held, crashes>>

\* subdb_destroy, auth_shutdown, sstr_pool_shutdown, logger_shutdown.
Shutdown ==
  /\ pc = "destroy"
  /\ DestroyDb /\ result' = "OK" /\ held' = held \ (Parts \cup Services)
  /\ sessions' = {} /\ state' = None
  /\ Goto("ended")
  /\ UNCHANGED <<files, saving, step, listed, todo, write_ok, signalled, crashes>>

\* Time passes while the program waits for input: an idle session expires.
Expire ==
  /\ pc \in {"choice", "login", "prompt"}
  /\ \E s \in sessions : sessions' = sessions \ {s}
  /\ UNCHANGED <<store, control, state, signalled, held, crashes>>

\* SIGINT or SIGTERM: the handler sets the flag.
Signal ==
  /\ Running /\ ~signalled /\ signalled' = TRUE
  /\ UNCHANGED <<store, control, session, held, crashes>>

\* The process dies: nothing of it is left but the files.
Crash ==
  /\ Running /\ crashes < MaxCrashes /\ crashes' = crashes + 1
  /\ LoseMemory
  /\ path' = Data /\ pc' = "off" /\ attempt' = 0 /\ doing' = "none"
  /\ state' = None /\ sessions' = {}
  /\ signalled' = FALSE /\ held' = {}

Next ==
  \/ Start \/ CreateStep \/ CreateFails \/ Load
  \/ Menu \/ ChoiceInterrupted \/ ChooseNothing \/ ChooseExit
  \/ ChooseLogin \/ LoginSucceeds \/ LoginFails \/ ChooseLogout
  \/ ListOrReport \/ ViewLogs \/ ViewStats \/ BackupNow
  \/ (\E action \in Actions : BeginPrompts(action)) \/ BeginChangePassword
  \/ \E action \in Actions \cup {"CHANGE_PASSWORD"} : Nothing(action)
  \/ AddSubscriber \/ UpdateSubscriber \/ DeleteSubscriber \/ Restore
  \/ LeaveMenu \/ Saving \/ SaveDone \/ Shutdown
  \/ Expire \/ Signal \/ Crash

Spec == Init /\ [][Next]_vars

-------------------------------------------------------------------------------
SessionType == [token : Tokens, role : UserRoles]

\* Every variable keeps its type; no two subscribers share a key.
TypeOK ==
  /\ FilesTypeOK
  /\ path \in {Data, Beside}
  /\ pc \in {"off", "failed", "create", "load", "menu", "choice", "login", "prompt",
             "backup", "exit", "exitsave", "destroy", "ended"}
  /\ attempt \in 0..3 /\ doing \in Actions \cup {"CHANGE_PASSWORD", "none"}
  /\ state \in SessionType \cup {None} /\ sessions \subseteq SessionType
  /\ signalled \in BOOLEAN /\ crashes \in 0..MaxCrashes
  /\ held \subseteq Services \cup Parts

\* A file under its final name is one moment of the database: whatever fails
\* while a save writes, and wherever the process dies, what is renamed into
\* place is everything subdb_list_all returned to that save, header first.
FilesAreMoments ==
  [][\A p \in Paths : disk'[p] # disk[p] => disk'[p] \in {Absent, File(listed)}]_vars

\* Loading and restoring only add: no subscriber in memory is changed or
\* removed by a file, and every other change to the database, by a step of the
\* program and not by its death, was authorized when its prompts began.
OnlyAuthorizedChanges ==
  [][/\ (Load \/ Restore) => db \subseteq db'
     /\ db' # db /\ pc' \notin {"off", "ended"} =>
          \/ pc = "load"
          \/ state # None /\ RoleAllows(state.role, doing)]_vars

\* The menu never loses a session: one that is open and not expired is the one
\* the program shows as logged in, and logout or exit closes it; none is left
\* when the program frees what it has.
NoForgottenSession ==
  /\ pc \in {"menu", "choice", "login", "prompt", "backup", "exit"} => sessions \subseteq {state}
  /\ pc \in {"exitsave", "destroy", "ended"} => sessions = {}

\* However the program ends, short of dying, it has given back what it took
\* (a failed start leaves the string pool to the system, main.c:647-659), and
\* before it frees the database either the file holds all of it or the save
\* reported a failure.
CleanExit ==
  /\ pc = "ended" => held = {}
  /\ pc = "failed" => held \subseteq {"strings"}
  /\ pc = "destroy" /\ result = "OK" => disk[path] = File(db)

\* "Atomically save the full DB to a CSV file (write to tmp + rename)",
\* subscriber.h:141: a file that exists is replaced, never taken away, so that
\* a crash at any point finds the old one or the new one.
SaveIsAtomic == [][\A p \in Paths : disk[p] # Absent => disk'[p] # Absent]_vars

\* "each action is re-checked against RBAC via auth_authorize() immediately
\* before it touches the subscriber DB", main.c:12-14: when the database
\* changes after prompts, the operator's session is still open.
TouchedWithOpenSession ==
  [][db' # db /\ pc = "prompt" /\ pc' = "menu" => state \in sessions]_vars
===============================================================================
