-------------------------- MODULE CommandLine_proofs --------------------------
(* For any users, tokens, subscribers and files, and any number of deaths:   *)
(* a file under its final name is one moment of the database, and the menu   *)
(* never loses a session.  For any limit and lengths of lines, the log that  *)
(* main.c opens and shows keeps the end of what was written.                 *)
EXTENDS CommandLine, Logger, Persistence_proofs, FiniteSetTheorems, SequenceTheorems,
        WellFoundedInduction

PathInv == path \in Paths

(* The open sessions are the one the program shows, and none before the menu *)
(* or after it; while it asks for a login it shows none.                     *)
SessionInv ==
  /\ sessions \subseteq SessionType
  /\ pc \in {"off", "failed", "create", "load", "exitsave", "destroy", "ended"} => sessions = {}
  /\ pc \in {"menu", "choice", "login", "prompt", "backup", "exit"} => sessions \subseteq {state}
  /\ pc = "login" => state = None

-----------------------------------------------------------------------------
(* Files.  A step of the program is one of a save, the death of the process, *)
(* or leaves the files and the save alone.                                   *)

LEMMA PathStays ==
  ASSUME PathInv, Next
  PROVE  PathInv'
<1>1. path' \in {path, Data, Beside}
  BY DEF Next, Start, ResolvedPath, CreateStep, CreateFails, Load, Menu, ChoiceInterrupted, ChooseNothing,
         ChooseExit, ChooseLogin, LoginSucceeds, LoginFails, ChooseLogout, ListOrReport, ViewLogs, ViewStats,
         Shows, BackupNow, BeginPrompts, BeginChangePassword, Nothing, Answered, AddSubscriber,
         UpdateSubscriber, DeleteSubscriber, Restore, LeaveMenu, Saving, SaveDone, Shutdown, Expire, Signal,
         Crash, Goto, control
<1> QED
  BY <1>1, ProgramAssumption DEF PathInv

LEMMA StepOnFiles ==
  ASSUME PathInv, Next
  PROVE  \/ \E p \in Paths : SaveOpen(p)
         \/ SaveStep
         \/ LoseMemory
         \/ UNCHANGED <<files, saving, step, listed, todo, write_ok>>
<1>1. CASE BackupNow \/ LeaveMenu
  BY <1>1, ProgramAssumption DEF BackupNow, LeaveMenu, BackupTo, PathInv
<1>2. CASE Saving \/ Crash
  BY <1>2 DEF Saving, Crash
<1>3. CASE SaveDone \/ Shutdown
  BY <1>3 DEF SaveDone, Shutdown
<1>4. CASE Load \/ AddSubscriber \/ UpdateSubscriber \/ DeleteSubscriber \/ Restore
           \/ \E action \in Actions \cup {"CHANGE_PASSWORD"} : Nothing(action)
  BY <1>4 DEF Load, AddSubscriber, UpdateSubscriber, DeleteSubscriber, Restore, Nothing, Answered, save
<1>5. CASE \/ Start \/ CreateStep \/ CreateFails \/ Menu \/ ChoiceInterrupted \/ ChooseNothing
           \/ ChooseExit \/ ChooseLogin \/ LoginSucceeds \/ LoginFails \/ ChooseLogout \/ Expire \/ Signal
           \/ ListOrReport \/ ViewLogs \/ ViewStats \/ BeginChangePassword
           \/ \E action \in Actions : BeginPrompts(action)
  BY <1>5 DEF Start, CreateStep, CreateFails, Menu, ChoiceInterrupted, ChooseNothing, ChooseExit, ChooseLogin,
              LoginSucceeds, LoginFails, ChooseLogout, Expire, Signal, ListOrReport, ViewLogs, ViewStats, Shows,
              BeginChangePassword, BeginPrompts, store, save
<1> QED
  BY <1>1, <1>2, <1>3, <1>4, <1>5 DEF Next

LEMMA FilesStay ==
  ASSUME SaveInv, PathInv, [Next]_vars
  PROVE  SaveInv' /\ PathInv'
<1>1. CASE Next
  <2>1. CASE \E p \in Paths : SaveOpen(p)
    BY <1>1, <2>1, PathStays, SaveOpenKeeps
  <2> QED
    BY <1>1, <2>1, PathStays, StepOnFiles, SaveStepKeeps, LoseMemoryKeeps, UnchangedKeeps
<1>2. CASE UNCHANGED vars
  BY <1>2, UnchangedKeeps DEF vars, store, save, control, PathInv
<1> QED
  BY <1>1, <1>2

(* Only a step of a save touches what is under a final name.                 *)
LEMMA StepWrites ==
  ASSUME SaveInv, PathInv, [Next]_vars, NEW p \in Paths, disk'[p] # disk[p]
  PROVE  disk'[p] \in {Absent, File(listed)}
<1>1. CASE SaveStep
  BY <1>1, StepWritesMoments
<1>2. CASE (\E q \in Paths : SaveOpen(q)) \/ LoseMemory
  BY <1>2 DEF SaveOpen, LoseMemory
<1>3. CASE UNCHANGED files
  BY <1>3 DEF files
<1> QED
  BY <1>1, <1>2, <1>3, StepOnFiles DEF vars, store

(* Whatever fails while a save writes, and wherever the process dies, a file *)
(* is one whole snapshot of the database, or there is none.                  *)
THEOREM FilesAreWhole == Spec => FilesAreMoments
<1>1. Init => SaveInv /\ PathInv
  BY SaveInvInit, ProgramAssumption DEF Init, PathInv
<1>2. SaveInv /\ PathInv /\ [Next]_vars => (SaveInv /\ PathInv)'
  BY FilesStay
<1>3. SaveInv /\ PathInv /\ [Next]_vars
        => [\A p \in Paths : disk'[p] # disk[p] => disk'[p] \in {Absent, File(listed)}]_vars
  BY StepWrites
<1> QED
  BY <1>1, <1>2, <1>3, PTL DEF Spec, FilesAreMoments

-----------------------------------------------------------------------------
(* Sessions.                                                                 *)

LEMMA SessionInit == Init => SessionInv
  BY DEF Init, SessionInv

LEMMA SessionStep ==
  ASSUME SessionInv, Next
  PROVE  SessionInv'
<1> USE DEF SessionInv, session
<1>1. CASE Start \/ CreateStep \/ CreateFails \/ Load
  BY <1>1 DEF Start, Running, CreateStep, CreateFails, Load, Goto
<1>2. CASE Menu
  BY <1>2 DEF Menu, Goto
<1>3. CASE ChoiceInterrupted \/ ChooseNothing \/ ChooseExit \/ ChooseLogin
  BY <1>3 DEF ChoiceInterrupted, ChooseNothing, ChooseExit, ChooseLogin, Choosing, Goto
<1>4. CASE LoginSucceeds
  <2>1. pc = "login" /\ pc' = "menu" /\ state' \in SessionType /\ sessions' = sessions \cup {state'}
    BY <1>4 DEF LoginSucceeds, Goto, SessionType
  <2>2. sessions = {}
    BY <2>1, ProgramAssumption DEF SessionType
  <2> QED
    BY <2>1, <2>2
<1>5. CASE LoginFails
  BY <1>5 DEF LoginFails
<1>6. CASE ChooseLogout
  BY <1>6 DEF ChooseLogout, Choosing, Goto
<1>7. CASE ListOrReport \/ ViewLogs \/ ViewStats \/ BackupNow
  BY <1>7 DEF ListOrReport, ViewLogs, ViewStats, Shows, BackupNow, Choosing, Goto
<1>8. CASE BeginChangePassword \/ \E action \in Actions : BeginPrompts(action)
  BY <1>8 DEF BeginChangePassword, BeginPrompts, Choosing
<1>9. CASE \/ AddSubscriber \/ UpdateSubscriber \/ DeleteSubscriber \/ Restore
           \/ \E action \in Actions \cup {"CHANGE_PASSWORD"} : Nothing(action)
  BY <1>9 DEF AddSubscriber, UpdateSubscriber, DeleteSubscriber, Restore, Nothing, Answered
<1>10. CASE LeaveMenu
  BY <1>10 DEF LeaveMenu, Goto
<1>11. CASE Saving \/ Signal
  BY <1>11 DEF Saving, Signal, control
<1>12. CASE SaveDone
  BY <1>12 DEF SaveDone, Goto
<1>13. CASE Shutdown
  BY <1>13 DEF Shutdown, Goto
<1>14. CASE Expire
  BY <1>14 DEF Expire, control
<1>15. CASE Crash
  BY <1>15 DEF Crash
<1> QED
  BY <1>1, <1>2, <1>3, <1>4, <1>5, <1>6, <1>7, <1>8, <1>9, <1>10, <1>11, <1>12, <1>13, <1>14, <1>15 DEF Next

(* An open session is the one the program shows, and none outlives the menu. *)
THEOREM SessionsAreShown == Spec => []NoForgottenSession
<1>1. SessionInv /\ [Next]_vars => SessionInv'
  <2>1. CASE UNCHANGED vars
    BY <2>1 DEF SessionInv, vars, control, session
  <2> QED
    BY <2>1, SessionStep
<1>2. SessionInv => NoForgottenSession
  BY DEF SessionInv, NoForgottenSession
<1> QED
  BY <1>1, <1>2, SessionInit, PTL DEF Spec

-----------------------------------------------------------------------------
(* The save at the exit, and what the program holds.                         *)

(* A save is under way only where the menu starts one; the one at the exit   *)
(* writes the file that was loaded, from the database as it stays.           *)
ExitInv ==
  /\ step = "done" <=> saving = None
  /\ pc \notin {"backup", "exitsave"} => saving = None
  /\ pc = "exitsave" /\ saving # None => saving = path
  /\ pc = "exitsave" /\ step \in {"rows", "unlink", "rename"} => listed = db
  /\ (pc = "exitsave" /\ step = "done") \/ pc = "destroy" => (result = "OK" => disk[path] = File(db))

LEMMA ExitInit == Init => ExitInv
  BY DEF Init, FilesInit, ExitInv

LEMMA QuietExit ==
  ASSUME ExitInv, pc \notin {"exitsave", "destroy"}, pc' \notin {"backup", "exitsave", "destroy"},
         pc # "backup", UNCHANGED <<saving, step>>
  PROVE  ExitInv'
  BY DEF ExitInv

LEMMA SavingKeepsExit ==
  ASSUME SaveInv, PathInv, ExitInv, Saving
  PROVE  ExitInv'
<1>1. pc' = pc /\ path' = path /\ step # "done" /\ saving \in Paths
  BY DEF Saving, control, SaveInv, SaveStep, SaveHeader, SaveList, SaveRow, SaveFlush, SaveUnlink, SaveRename
<1>2. pc \in {"backup", "exitsave"}
  BY <1>1, FilesAssumption DEF ExitInv
<1>3. ASSUME NEW status \in {"IO", "ALLOC_FAILED"}, Ends(status)
      PROVE  ExitInv'
  BY <1>1, <1>2, <1>3 DEF ExitInv, Ends
<1>4. ASSUME NEW next \in {"header", "rows", "unlink", "rename", "list"}, Goes(next),
             pc = "exitsave" /\ next \in {"rows", "unlink", "rename"} => listed' = db
      PROVE  ExitInv'
  BY <1>1, <1>2, <1>4, FilesAssumption DEF ExitInv, Goes
<1>5. CASE SaveHeader
  BY <1>3, <1>4, <1>5 DEF SaveHeader
<1>6. CASE SaveList
  BY <1>3, <1>4, <1>6 DEF SaveList
<1>7. CASE SaveRow
  BY <1>4, <1>7 DEF SaveRow, ExitInv
<1>8. CASE SaveFlush
  BY <1>3, <1>4, <1>8 DEF SaveFlush, ExitInv
<1>9. CASE SaveUnlink
  BY <1>3, <1>4, <1>9 DEF SaveUnlink, ExitInv
<1>10. CASE SaveRename
  <2>1. CASE disk' = [disk EXCEPT ![saving] = tmp[saving]] /\ Ends("OK")
    <3>1. disk'[saving] = File(listed)
      BY <1>1, <1>10, <2>1 DEF SaveInv, SaveRename
    <3>2. db' = db /\ saving' = None /\ step' = "done"
      BY <2>1 DEF Ends
    <3>3. pc = "exitsave" => saving = path /\ listed = db
      BY <1>1, <1>10, FilesAssumption DEF ExitInv, SaveRename
    <3> QED
      BY <1>1, <1>2, <3>1, <3>2, <3>3 DEF ExitInv
  <2> QED
    BY <1>3, <1>10, <2>1 DEF SaveRename
<1> QED
  BY <1>5, <1>6, <1>7, <1>8, <1>9, <1>10 DEF Saving, SaveStep

LEMMA OpeningKeepsExit ==
  ASSUME ExitInv, NEW p \in Paths, SaveOpen(p), pc' = "backup" \/ (pc' = "exitsave" /\ p = path), path' = path
  PROVE  ExitInv'
  BY FilesAssumption DEF ExitInv, SaveOpen, Ends

LEMMA ExitStep ==
  ASSUME SaveInv, PathInv, ExitInv, Next
  PROVE  ExitInv'
<1>1. CASE Start \/ CreateStep \/ CreateFails \/ Load \/ Menu \/ ChoiceInterrupted \/ ChooseNothing \/ ChooseExit
  BY <1>1, QuietExit DEF Start, Running, CreateStep, CreateFails, Load, Menu, ChoiceInterrupted, ChooseNothing,
                         ChooseExit, Choosing, Goto, store, save
<1>2. CASE \/ ChooseLogin \/ LoginSucceeds \/ LoginFails \/ ChooseLogout \/ ListOrReport \/ ViewLogs \/ ViewStats
           \/ BeginChangePassword \/ \E action \in Actions : BeginPrompts(action)
  BY <1>2, QuietExit DEF ChooseLogin, LoginSucceeds, LoginFails, ChooseLogout, ListOrReport, ViewLogs, ViewStats,
                         Shows, BeginChangePassword, BeginPrompts, Choosing, Goto, store, save
<1>3. CASE \/ AddSubscriber \/ UpdateSubscriber \/ DeleteSubscriber \/ Restore
           \/ \E action \in Actions \cup {"CHANGE_PASSWORD"} : Nothing(action)
  BY <1>3, QuietExit DEF AddSubscriber, UpdateSubscriber, DeleteSubscriber, Restore, Nothing, Answered, save
<1>4. CASE BackupNow
  BY <1>4, OpeningKeepsExit, ProgramAssumption DEF BackupNow, BackupTo, Goto
<1>5. CASE LeaveMenu
  BY <1>5, OpeningKeepsExit DEF LeaveMenu, Goto, PathInv
<1>6. CASE Saving
  BY <1>6, SavingKeepsExit
<1>7. CASE SaveDone
  BY <1>7 DEF SaveDone, Goto, ExitInv, files
<1>8. CASE Shutdown
  BY <1>8 DEF Shutdown, Goto, ExitInv
<1>9. CASE Expire \/ Signal
  BY <1>9 DEF Expire, Signal, store, save, files, control, ExitInv
<1>10. CASE Crash
  BY <1>10 DEF Crash, LoseMemory, ExitInv
<1> QED
  BY <1>1, <1>2, <1>3, <1>4, <1>5, <1>6, <1>7, <1>8, <1>9, <1>10 DEF Next

(* While it creates the database, the program has its services and so many   *)
(* of the database's parts, in their order.                                  *)
FirstParts(k) == {Ladder[i] : i \in 1..k}

HeldInv ==
  /\ held \subseteq Services \cup Parts
  /\ pc = "create" => \E k \in 0..5 : held = Services \cup FirstParts(k)
  /\ pc = "failed" => held \subseteq {"strings"}
  /\ pc = "ended" => held = {}

LEMMA LadderIsOne ==
  /\ Len(Ladder) = 6
  /\ \A i, j \in 1..6 : i # j => Ladder[i] # Ladder[j]
  /\ \A i \in 1..6 : Ladder[i] \notin Services
  BY DEF Ladder, Services

LEMMA GotFirst ==
  ASSUME NEW k \in 0..5, held = Services \cup FirstParts(k)
  PROVE  Got = k
<1>1. held \cap Parts = FirstParts(k)
  BY LadderIsOne DEF FirstParts, Parts
<1> DEFINE f == [i \in 1..k |-> Ladder[i]]
<1>2. f \in Bijection(1..k, FirstParts(k))
  BY LadderIsOne DEF FirstParts, Bijection, Injection, IsInjective, Surjection
<1>3. ExistsBijection(1..k, FirstParts(k))
  BY <1>2 DEF ExistsBijection
<1>4. Cardinality(FirstParts(k)) = k
  BY <1>3, FS_CountingElements
<1> QED
  BY <1>1, <1>4 DEF Got

LEMMA HeldInit == Init => HeldInv
  BY DEF Init, HeldInv

LEMMA HeldStep ==
  ASSUME HeldInv, Next
  PROVE  HeldInv'
<1>1. CASE Start
  <2>1. FirstParts(0) = {}
    BY DEF FirstParts
  <2> QED
    BY <1>1, <2>1 DEF Start, HeldInv, Services
<1>2. CASE CreateStep
  <2>1. PICK k \in 0..5 : held = Services \cup FirstParts(k) /\ Got = k
    BY <1>2, GotFirst DEF CreateStep, HeldInv
  <2>2. FirstParts(k) \cup {Ladder[k+1]} = FirstParts(k+1)
    BY DEF FirstParts
  <2>3. held' = Services \cup FirstParts(k+1)
    BY <1>2, <2>1, <2>2 DEF CreateStep
  <2>4. FirstParts(k+1) \subseteq Parts
    BY LadderIsOne DEF FirstParts, Parts
  <2>5. pc' = IF k + 1 = 6 THEN "load" ELSE "create"
    BY <1>2, <2>1, LadderIsOne DEF CreateStep, Goto
  <2> QED
    BY <2>1, <2>3, <2>4, <2>5 DEF HeldInv
<1>3. CASE CreateFails
  <2>1. PICK k \in 0..5 : held = Services \cup FirstParts(k) /\ Got = k
    BY <1>3, GotFirst DEF CreateFails, HeldInv
  <2>2. held' = held \ (FirstParts(k) \cup {"auth", "logger"}) /\ pc' = "failed"
    BY <1>3, <2>1 DEF CreateFails, Goto, FirstParts
  <2> QED
    BY <2>1, <2>2 DEF HeldInv, Services
<1>4. CASE Load \/ Menu \/ ChoiceInterrupted \/ ChooseNothing \/ ChooseExit \/ LeaveMenu \/ BackupNow
  BY <1>4 DEF Load, Menu, ChoiceInterrupted, ChooseNothing, ChooseExit, LeaveMenu, BackupNow, Goto, HeldInv
<1>5. CASE \/ ChooseLogin \/ LoginSucceeds \/ LoginFails \/ ChooseLogout \/ ListOrReport \/ ViewLogs \/ ViewStats
           \/ BeginChangePassword \/ \E action \in Actions : BeginPrompts(action)
  BY <1>5 DEF ChooseLogin, LoginSucceeds, LoginFails, ChooseLogout, ListOrReport, ViewLogs, ViewStats,
              Shows, BeginChangePassword, BeginPrompts, Goto, HeldInv
<1>6. CASE \/ AddSubscriber \/ UpdateSubscriber \/ DeleteSubscriber \/ Restore
           \/ \E action \in Actions \cup {"CHANGE_PASSWORD"} : Nothing(action)
  BY <1>6 DEF AddSubscriber, UpdateSubscriber, DeleteSubscriber, Restore, Nothing, Answered, HeldInv
<1>7. CASE Saving \/ SaveDone \/ Expire \/ Signal
  BY <1>7 DEF Saving, SaveDone, Expire, Signal, Goto, control, HeldInv
<1>8. CASE Shutdown
  BY <1>8 DEF Shutdown, Goto, HeldInv
<1>9. CASE Crash
  BY <1>9 DEF Crash, HeldInv
<1> QED
  BY <1>1, <1>2, <1>3, <1>4, <1>5, <1>6, <1>7, <1>8, <1>9 DEF Next

(* However the program ends, short of dying, nothing is left held, and a     *)
(* save at the exit that reports no failure has all of the database.         *)
THEOREM EndsClean == Spec => []CleanExit
<1>1. Init => SaveInv /\ PathInv /\ ExitInv /\ HeldInv
  BY SaveInvInit, ProgramAssumption, ExitInit, HeldInit DEF Init, PathInv
<1>2. SaveInv /\ PathInv /\ ExitInv /\ HeldInv /\ [Next]_vars => (SaveInv /\ PathInv /\ ExitInv /\ HeldInv)'
  <2>1. SaveInv /\ PathInv /\ ExitInv /\ [Next]_vars => ExitInv'
    <3>1. ExitInv /\ UNCHANGED vars => ExitInv'
      BY DEF ExitInv, vars, store, files, save, control
    <3> QED
      BY <3>1, ExitStep
  <2>2. HeldInv /\ [Next]_vars => HeldInv'
    <3>1. HeldInv /\ UNCHANGED vars => HeldInv'
      BY DEF HeldInv, vars, control
    <3> QED
      BY <3>1, HeldStep
  <2> QED
    BY <2>1, <2>2, FilesStay
<1>3. ExitInv /\ HeldInv => CleanExit
  BY DEF ExitInv, HeldInv, CleanExit
<1> QED
  BY <1>1, <1>2, <1>3, PTL DEF Spec

-----------------------------------------------------------------------------
(* Types, and who may change the database.                                   *)

ControlTypeOK ==
  /\ path \in {Data, Beside}
  /\ pc \in {"off", "failed", "create", "load", "menu", "choice", "login", "prompt",
             "backup", "exit", "exitsave", "destroy", "ended"}
  /\ attempt \in 0..3 /\ doing \in Actions \cup {"CHANGE_PASSWORD", "none"}
  /\ state \in SessionType \cup {None}
  /\ signalled \in BOOLEAN /\ crashes \in 0..MaxCrashes

(* The action whose prompts are being answered was authorized: the session   *)
(* the program still shows has a role that allows it.                        *)
PromptInv ==
  pc = "prompt" /\ doing # "CHANGE_PASSWORD" => state # None /\ RoleAllows(state.role, doing)

LEMMA ControlInit == Init => ControlTypeOK /\ PromptInv
<1>1. 0 \in 0..MaxCrashes /\ 0 \in 0..3
  BY ProgramAssumption
<1> QED
  BY <1>1 DEF Init, ControlTypeOK, PromptInv

LEMMA ControlStep ==
  ASSUME ControlTypeOK, Next
  PROVE  ControlTypeOK'
<1> USE DEF ControlTypeOK, session, control, Goto
<1>1. CASE Start \/ CreateStep \/ CreateFails \/ Load
  BY <1>1 DEF Start, ResolvedPath, CreateStep, CreateFails, Load
<1>2. CASE Menu \/ ChoiceInterrupted \/ ChooseNothing \/ ChooseExit \/ ChooseLogin \/ LoginFails \/ ChooseLogout
  BY <1>2 DEF Menu, ChoiceInterrupted, ChooseNothing, ChooseExit, ChooseLogin, LoginFails, ChooseLogout
<1>3. CASE LoginSucceeds
  BY <1>3 DEF LoginSucceeds, SessionType
<1>4. CASE ListOrReport \/ ViewLogs \/ ViewStats \/ BackupNow \/ LeaveMenu
  BY <1>4 DEF ListOrReport, ViewLogs, ViewStats, Shows, BackupNow, LeaveMenu
<1>5. CASE BeginChangePassword \/ \E action \in Actions : BeginPrompts(action)
  BY <1>5 DEF BeginChangePassword, BeginPrompts
<1>6. CASE \/ AddSubscriber \/ UpdateSubscriber \/ DeleteSubscriber \/ Restore
           \/ \E action \in Actions \cup {"CHANGE_PASSWORD"} : Nothing(action)
  BY <1>6 DEF AddSubscriber, UpdateSubscriber, DeleteSubscriber, Restore, Nothing, Answered
<1>7. CASE Saving \/ SaveDone \/ Shutdown \/ Expire \/ Signal
  BY <1>7 DEF Saving, SaveDone, Shutdown, Expire, Signal
<1>8. CASE Crash
  <2>1. MaxCrashes \in Nat
    BY ProgramAssumption
  <2>2. crashes \in 0..MaxCrashes /\ crashes < MaxCrashes /\ crashes' = crashes + 1
    BY <1>8 DEF Crash
  <2>3. crashes' \in 0..MaxCrashes
    BY <2>1, <2>2
  <2>4. path' = Data /\ pc' = "off" /\ attempt' = 0 /\ doing' = "none" /\ state' = None /\ signalled' = FALSE
    BY <1>8 DEF Crash
  <2>5. 0 \in 0..3
    OBVIOUS
  <2> QED
    BY <2>3, <2>4, <2>5, Zenon
<1> QED
  BY <1>1, <1>2, <1>3, <1>4, <1>5, <1>6, <1>7, <1>8 DEF Next

LEMMA PromptStep ==
  ASSUME PromptInv, Next
  PROVE  PromptInv'
<1>1. ASSUME NEW action \in Actions, BeginPrompts(action)
      PROVE  PromptInv'
  <2>1. state' = state /\ doing' = action /\ state # None /\ RoleAllows(state.role, action)
    BY <1>1 DEF BeginPrompts, Authorized, session
  <2> QED
    BY <2>1 DEF PromptInv
<1>2. CASE Expire \/ Signal \/ Saving
  <2>1. UNCHANGED <<pc, doing, state>>
    BY <1>2 DEF Expire, Signal, Saving, control, session
  <2> QED
    BY <2>1 DEF PromptInv
<1>3. CASE BeginChangePassword
  BY <1>3 DEF BeginChangePassword, PromptInv
<1>4. CASE ~(\E action \in Actions : BeginPrompts(action)) /\ ~(Expire \/ Signal \/ Saving) /\ ~BeginChangePassword
  <2>1. pc' # "prompt"
    BY <1>4 DEF Next, Start, CreateStep, CreateFails, Load, Menu, ChoiceInterrupted, ChooseNothing, ChooseExit,
                ChooseLogin, LoginSucceeds, LoginFails, ChooseLogout, ListOrReport, ViewLogs, ViewStats, Shows,
                BackupNow, Nothing, Answered, AddSubscriber, UpdateSubscriber, DeleteSubscriber, Restore,
                LeaveMenu, SaveDone, Shutdown, Crash, Goto
  <2> QED
    BY <2>1 DEF PromptInv
<1> QED
  BY <1>1, <1>2, <1>3, <1>4

(* How a step changes the database.                                          *)
LEMMA LoadsOnlyAdd ==
  ASSUME FilesTypeOK, PathInv, Load \/ Restore
  PROVE  db \subseteq db' /\ db' \subseteq Subscribers /\ ClashFree(db)'
<1>1. CASE Load
  <2>1. disk[path] \in FileType
    BY DEF FilesTypeOK, PathInv
  <2> QED
    BY <1>1, <2>1, LoadAdds DEF Load
<1>2. CASE Restore
  <2>1. \A p \in Paths : disk[p] \in FileType /\ tmp[p] \in FileType
    BY DEF FilesTypeOK
  <2> QED
    BY <1>2, <2>1, LoadAdds DEF Restore, RestoreFrom
<1> QED
  BY <1>1, <1>2

LEMMA FilesTypeStep ==
  ASSUME FilesTypeOK, SaveInv, PathInv, Next
  PROVE  FilesTypeOK'
<1>1. CASE Load \/ Restore
  BY <1>1, LoadsOnlyAdd, DbChangeKeepsType DEF Load, Restore, Answered, store
<1>2. CASE AddSubscriber
  BY <1>2, DbChangeKeepsType DEF AddSubscriber, Answered, FilesTypeOK, ClashFree
<1>3. CASE UpdateSubscriber
  <2>1. PICK s \in db, r \in Subscribers : r.imsi = s.imsi /\ r.msisdn = s.msisdn /\ db' = (db \ {s}) \cup {r}
    BY <1>3 DEF UpdateSubscriber
  <2>2. ClashFree(db)'
    BY <2>1 DEF FilesTypeOK, ClashFree, Clash
  <2>3. db' \subseteq Subscribers /\ UNCHANGED <<files, save>>
    BY <1>3, <2>1 DEF UpdateSubscriber, Answered, FilesTypeOK
  <2> QED
    BY <2>2, <2>3, DbChangeKeepsType
<1>4. CASE DeleteSubscriber
  BY <1>4, DbChangeKeepsType DEF DeleteSubscriber, Answered, FilesTypeOK, ClashFree
<1>5. CASE \E action \in Actions \cup {"CHANGE_PASSWORD"} : Nothing(action)
  BY <1>5, DbChangeKeepsType DEF Nothing, Answered, FilesTypeOK, ClashFree
<1>6. CASE BackupNow \/ LeaveMenu
  BY <1>6, SaveOpenKeepsType, ProgramAssumption DEF BackupNow, BackupTo, LeaveMenu, PathInv
<1>7. CASE Saving
  BY <1>7, SaveStepKeepsType DEF Saving
<1>8. CASE SaveDone \/ Shutdown
  BY <1>8 DEF SaveDone, Shutdown, DestroyDb, files, FilesTypeOK, ClashFree
<1>9. CASE Crash
  BY <1>9, LoseMemoryKeepsType DEF Crash
<1>10. CASE \/ Start \/ CreateStep \/ CreateFails \/ Menu \/ ChoiceInterrupted \/ ChooseNothing
            \/ ChooseExit \/ ChooseLogin \/ LoginSucceeds \/ LoginFails \/ ChooseLogout \/ Expire \/ Signal
            \/ ListOrReport \/ ViewLogs \/ ViewStats \/ BeginChangePassword
            \/ \E action \in Actions : BeginPrompts(action)
  <2>1. UNCHANGED store
    BY <1>10 DEF Start, CreateStep, CreateFails, Menu, ChoiceInterrupted, ChooseNothing, ChooseExit, ChooseLogin,
                 LoginSucceeds, LoginFails, ChooseLogout, Expire, Signal, ListOrReport, ViewLogs, ViewStats, Shows,
                 BeginChangePassword, BeginPrompts
  <2> QED
    BY <2>1 DEF store, files, save, FilesTypeOK, ClashFree
<1> QED
  BY <1>1, <1>2, <1>3, <1>4, <1>5, <1>6, <1>7, <1>8, <1>9, <1>10 DEF Next

LEMMA ChangesAreAuthorized ==
  ASSUME ControlTypeOK, PromptInv, ExitInv, Next, db' # db, pc' \notin {"off", "ended"}
  PROVE  pc = "load" \/ (state # None /\ RoleAllows(state.role, doing))
<1>1. \/ Load \/ AddSubscriber \/ UpdateSubscriber \/ DeleteSubscriber \/ Restore
      \/ Shutdown \/ Crash
  BY DEF Next, Start, CreateStep, CreateFails, Menu, ChoiceInterrupted, ChooseNothing, ChooseExit, ChooseLogin,
         LoginSucceeds, LoginFails, ChooseLogout, Expire, Signal, ListOrReport, ViewLogs, ViewStats, Shows,
         BeginChangePassword, BeginPrompts, Nothing, BackupNow, BackupTo, LeaveMenu, SaveOpen, Ends, Saving,
         SaveStep, SaveHeader, SaveList, SaveRow, SaveFlush, SaveUnlink, SaveRename, Goes, SaveDone, store
<1>2. CASE AddSubscriber \/ UpdateSubscriber \/ DeleteSubscriber \/ Restore
  <2>1. pc = "prompt" /\ doing # "CHANGE_PASSWORD"
    BY <1>2 DEF AddSubscriber, UpdateSubscriber, DeleteSubscriber, Restore, Answered
  <2> QED
    BY <2>1 DEF PromptInv
<1> QED
  BY <1>1, <1>2 DEF Load, Shutdown, Crash, Goto

ProgramInv == FilesTypeOK /\ SaveInv /\ PathInv /\ ExitInv /\ HeldInv /\ SessionInv /\ ControlTypeOK /\ PromptInv

(* Everything above at once, for any number of deaths.                       *)
THEOREM ProgramInvHolds == Spec => []ProgramInv
<1>1. Init => ProgramInv
  <2>1. Init => FilesTypeOK /\ SaveInv
    BY FilesTypeInit, SaveInvInit DEF Init
  <2>2. Init => PathInv
    BY ProgramAssumption DEF Init, PathInv
  <2> QED
    BY <2>1, <2>2, ExitInit, HeldInit, SessionInit, ControlInit DEF ProgramInv
<1>2. ProgramInv /\ [Next]_vars => ProgramInv'
  <2>1. ProgramInv /\ Next => ProgramInv'
    BY FilesTypeStep, FilesStay, ExitStep, HeldStep, SessionStep, ControlStep, PromptStep DEF ProgramInv
  <2>2. ASSUME ProgramInv, UNCHANGED vars PROVE ProgramInv'
    <3>1. UNCHANGED <<db, disk, tmp, saving, step, listed, todo, write_ok, result, path, pc, attempt, doing,
                      state, sessions, signalled, held, crashes>>
      BY <2>2 DEF vars, store, files, save, control, session
    <3>2. FilesTypeOK' /\ PathInv' /\ ExitInv' /\ HeldInv'
      BY <2>2, <3>1 DEF ProgramInv, FilesTypeOK, ClashFree, PathInv, ExitInv, HeldInv
    <3>3. SaveInv'
      BY <2>2, <3>1 DEF ProgramInv, SaveInv
    <3>4. SessionInv' /\ ControlTypeOK' /\ PromptInv'
      BY <2>2, <3>1 DEF ProgramInv, SessionInv, ControlTypeOK, PromptInv
    <3> QED
      BY <3>2, <3>3, <3>4 DEF ProgramInv
  <2> QED
    BY <2>1, <2>2
<1> QED
  BY <1>1, <1>2, PTL DEF Spec

(* Every variable keeps its type, and no two subscribers share a key.        *)
THEOREM TypeCorrect == Spec => []TypeOK
<1>1. ProgramInv => TypeOK
  BY DEF ProgramInv, TypeOK, ControlTypeOK, SessionInv, HeldInv
<1> QED
  BY <1>1, ProgramInvHolds, PTL

(* A file only adds to what is in memory, and whatever else changes it was   *)
(* authorized when its prompts began.                                        *)
THEOREM ChangesWereAuthorized == Spec => OnlyAuthorizedChanges
<1>1. ProgramInv /\ [Next]_vars
        => [/\ (Load \/ Restore) => db \subseteq db'
            /\ db' # db /\ pc' \notin {"off", "ended"} =>
                 \/ pc = "load"
                 \/ state # None /\ RoleAllows(state.role, doing)]_vars
  BY LoadsOnlyAdd, ChangesAreAuthorized DEF ProgramInv
<1> QED
  BY <1>1, ProgramInvHolds, PTL DEF Spec, OnlyAuthorizedChanges

-----------------------------------------------------------------------------
(* Induction, from the order of the naturals being well founded.             *)

LEMMA LeastNatural ==
  ASSUME NEW S, S \subseteq Nat, S # {}
  PROVE  \E n \in S : \A m \in S : n <= m
<1> DEFINE R == {p \in Nat \X Nat : p[1] < p[2]}
<1>1. R = OpToRel(<, Nat)
  BY Zenon DEF OpToRel
<1>2. IsWellFoundedOn(R, Nat)
  BY <1>1, NatLessThanWellFounded, Zenon
<1> HIDE DEF R
<1>3. PICK n \in S : \A m \in S : <<m, n>> \notin R
  BY <1>2, WFMin, Zenon
<1>4. \A m \in S : ~ (m < n)
  BY <1>3 DEF R
<1> QED
  BY <1>4

LEMMA EveryNatural ==
  ASSUME NEW S, 0 \in S, \A n \in Nat : n \in S => n + 1 \in S
  PROVE  Nat \subseteq S
<1> DEFINE missing == {n \in Nat : n \notin S}
<1>1. ASSUME missing # {} PROVE FALSE
  <2>1. PICK n \in missing : \A m \in missing : n <= m
    BY <1>1, LeastNatural
  <2>2. n # 0 /\ n - 1 \in Nat /\ n - 1 \notin missing
    BY <2>1
  <2> QED
    BY <2>1, <2>2
<1> QED
  BY <1>1


-----------------------------------------------------------------------------
(* Remainders, for the ring of the log view.                                 *)

LEMMA Remainder ==
  ASSUME NEW d \in Nat, d > 0, NEW q \in Int, NEW r \in 0..(d-1)
  PROVE  (d * q + r) % d = r
<1> DEFINE p == d * q
<1>1. p \in Int
  OBVIOUS
<1> QED
  OBVIOUS

LEMMA NearDiffer ==
  ASSUME NEW d \in Nat, d > 0, NEW a \in Nat, NEW b \in Nat, a < b, b < a + d
  PROVE  a % d # b % d
<1>1. PICK qa \in Int : a = d * qa + (a % d)
  BY a = d * (a \div d) + (a % d)
<1>2. PICK qb \in Int : b = d * qb + (b % d)
  BY b = d * (b \div d) + (b % d)
<1> SUFFICES ASSUME a % d = b % d
             PROVE  FALSE
  OBVIOUS
<1>3. b - a = d * (qb - qa)
  BY <1>1, <1>2
<1> DEFINE k == qb - qa
<1>4. k \in Int /\ b - a = d * k
  BY <1>3
<1> HIDE DEF k
<1>5. k <= 0 => d * k <= 0
  BY <1>4
<1>6. k >= 1 => d * k >= d
  BY <1>4
<1> QED
  BY <1>4, <1>5, <1>6

LEMMA Shifted ==
  ASSUME NEW d \in Nat, d > 0, NEW n \in Nat, n >= d, NEW j \in Nat
  PROVE  ((n % d) + j) % d = ((n - d) + j) % d
<1> DEFINE r == n % d
           m == r + j
<1>1. r \in 0..(d-1) /\ m \in Nat
  OBVIOUS
<1>2. PICK q \in Int : n = d * q + r
  BY n = d * (n \div d) + r
<1> HIDE DEF m, r
<1>3. PICK p \in Int : m = d * p + (m % d)
  BY <1>1, m = d * (m \div d) + (m % d)
<1>4. m % d \in 0..(d-1)
  BY <1>1
<1>5. (n - d) + j = d * ((q - 1) + p) + (m % d)
  <2>1. (n - d) + j = (d * q - d) + m
    BY <1>1, <1>2 DEF m
  <2>2. d * ((q - 1) + p) = (d * q - d) + d * p
    OBVIOUS
  <2> QED
    BY <1>1, <1>3, <1>4, <2>1, <2>2
<1>6. (q - 1) + p \in Int
  OBVIOUS
<1>7. ((n - d) + j) % d = m % d
  <2> DEFINE k == (q - 1) + p
             e == m % d
             v == (n - d) + j
  <2>1. k \in Int /\ e \in 0..(d-1) /\ v = d * k + e
    BY <1>4, <1>5, <1>6
  <2> HIDE DEF k, e, v
  <2>2. (d * k + e) % d = e
    BY <2>1, Remainder
  <2>3. v % d = e
    BY <2>1, <2>2
  <2> QED
    BY <2>3 DEF e, v
<1> QED
  BY <1>7 DEF m, r

-----------------------------------------------------------------------------
(* Lengths of files: the sums that Bytes stands for.                         *)

IsSum(sum, lines) ==
  /\ sum[0] = 0
  /\ \A i \in 1..Len(lines) : sum[i] = sum[i-1] + lines[i].size
  /\ \A i \in 0..Len(lines) : sum[i] \in Nat

Inside(part, whole, k) ==
  k + Len(part) <= Len(whole) /\ \A i \in 1..Len(part) : whole[k+i] = part[i]

LEMMA LineSize ==
  ASSUME NEW lines \in Seq(Lines), NEW i \in 1..Len(lines)
  PROVE  lines[i].size \in Nat
<1>1. lines[i] \in Lines
  OBVIOUS
<1> QED
  BY <1>1, LoggerAssumption DEF Lines

LEMMA BytesIsSum ==
  ASSUME NEW lines \in Seq(Lines)
  PROVE  \E sum : IsSum(sum, lines) /\ Bytes(lines) = sum[Len(lines)]
<1> DEFINE size == Len(lines)
           Def(f, i) == IF i = 0 THEN 0 ELSE f[i-1] + lines[i].size
           Fits(f, i) == f = [k \in 0..i |-> Def(f, k)]
           fit == {i \in Nat : \E f : Fits(f, i)}
           sum == CHOOSE f : Fits(f, size)
<1>1. size \in Nat /\ Bytes(lines) = sum[size]
  BY DEF Bytes
<1>2. Nat \subseteq fit
  <2>1. 0 \in fit
    <3>1. \A k \in 0..0 : k = 0
      OBVIOUS
    <3>2. Fits([k \in 0..0 |-> 0], 0)
      BY <3>1
    <3> QED
      BY <3>2
  <2>2. ASSUME NEW n \in Nat, n \in fit
        PROVE  n + 1 \in fit
    <3>1. PICK f : Fits(f, n)
      BY <2>2
    <3> DEFINE g == [k \in 0..(n+1) |-> IF k <= n THEN f[k] ELSE Def(f, k)]
    <3>2. \A k \in 0..n : f[k] = Def(f, k)
      BY <3>1
    <3>3. \A k \in 0..(n+1) : g[k] = Def(g, k)
      <4> TAKE k \in 0..(n+1)
      <4>1. CASE k = 0
        <5>1. g[k] = f[k] /\ k \in 0..n
          BY <4>1
        <5> QED
          BY <3>2, <4>1, <5>1
      <4>2. CASE k # 0
        <5>1. k - 1 \in 0..(n+1) /\ k - 1 <= n /\ k - 1 \in 0..n
          BY <4>2
        <5>2. g[k-1] = f[k-1]
          BY <5>1
        <5>3. Def(g, k) = Def(f, k)
          BY <5>2
        <5>4. g[k] = Def(f, k)
          BY <3>2
        <5> QED
          BY <5>3, <5>4
      <4> QED
        BY <4>1, <4>2
    <3>4. g = [k \in 0..(n+1) |-> Def(g, k)]
      <4>1. g = [k \in 0..(n+1) |-> g[k]]
        OBVIOUS
      <4> HIDE DEF g, Def
      <4> QED
        BY <4>1, <3>3
    <3>5. n + 1 \in Nat /\ Fits(g, n + 1)
      BY <3>4
    <3> HIDE DEF g, Fits
    <3> QED
      BY <3>5
  <2> HIDE DEF fit
  <2> QED
    BY <2>1, <2>2, EveryNatural
<1>3. Fits(sum, size)
  <2>1. \E f : Fits(f, size)
    BY <1>1, <1>2
  <2> HIDE DEF Fits
  <2> QED
    BY <2>1
<1>4. \A n \in 0..size : sum[n] = Def(sum, n)
  BY <1>3
<1> HIDE DEF sum, fit, Fits
<1>5. sum[0] = 0
  BY <1>1, <1>4
<1>6. ASSUME NEW i \in 1..size
      PROVE  sum[i] = sum[i-1] + lines[i].size
  BY <1>1, <1>4, i \in 0..size /\ i # 0
<1> DEFINE numbers == {n \in Nat : n <= size => sum[n] \in Nat}
<1>7. Nat \subseteq numbers
  <2>1. 0 \in numbers
    BY <1>5
  <2>2. ASSUME NEW n \in Nat, n \in numbers
        PROVE  n + 1 \in numbers
    <3> SUFFICES ASSUME n + 1 <= size PROVE sum[n+1] \in Nat
      OBVIOUS
    <3>1. n + 1 \in 1..size /\ (n + 1) - 1 = n /\ sum[n] \in Nat
      BY <1>1, <2>2
    <3>2. lines[n+1].size \in Nat
      BY <3>1, LineSize
    <3> QED
      BY <1>6, <3>1, <3>2
  <2> HIDE DEF numbers
  <2> QED
    BY <2>1, <2>2, EveryNatural
<1>8. \A i \in 0..size : sum[i] \in Nat
  BY <1>1, <1>7
<1> QED
  BY <1>1, <1>5, <1>6, <1>8 DEF IsSum

LEMMA SumOfPart ==
  ASSUME NEW part \in Seq(Lines), NEW whole \in Seq(Lines), NEW k \in Nat, Inside(part, whole, k),
         NEW f, IsSum(f, part), NEW h, IsSum(h, whole)
  PROVE  h[k+Len(part)] = h[k] + f[Len(part)]
<1> DEFINE same == {n \in Nat : n <= Len(part) => h[k+n] = h[k] + f[n]}
<1>1. /\ Len(part) \in Nat /\ Len(whole) \in Nat /\ k + Len(part) <= Len(whole)
      /\ \A i \in 1..Len(part) : whole[k+i] = part[i]
  BY DEF Inside
<1>2. 0 \in same
  <2>1. h[k] \in Nat /\ k + 0 = k
    BY <1>1 DEF IsSum
  <2> QED
    BY <2>1 DEF IsSum
<1>3. ASSUME NEW n \in Nat, n \in same
      PROVE  n + 1 \in same
  <2> SUFFICES ASSUME n + 1 <= Len(part) PROVE h[k+(n+1)] = h[k] + f[n+1]
    OBVIOUS
  <2>1. n + 1 \in 1..Len(part) /\ (n + 1) - 1 = n /\ n \in 0..Len(part) /\ h[k+n] = h[k] + f[n]
    BY <1>1, <1>3
  <2>2. k + (n + 1) \in 1..Len(whole) /\ (k + (n + 1)) - 1 = k + n /\ k \in 0..Len(whole)
    BY <1>1
  <2>3. h[k+(n+1)] = h[k+n] + whole[k+(n+1)].size
    BY <2>2 DEF IsSum
  <2>4. f[n+1] = f[n] + part[n+1].size
    BY <2>1 DEF IsSum
  <2>5. h[k] \in Nat /\ f[n] \in Nat
    BY <2>1, <2>2 DEF IsSum
  <2>6. part[n+1].size \in Nat
    BY <2>1, LineSize
  <2>7. whole[k+(n+1)] = part[n+1]
    BY <1>1, <2>1
  <2>8. h[k+(n+1)] = (h[k] + f[n]) + part[n+1].size
    BY <2>1, <2>3, <2>7
  <2> QED
    BY <2>4, <2>5, <2>6, <2>8
<1>4. Nat \subseteq same
  <2> HIDE DEF same
  <2> QED
    BY <1>2, <1>3, EveryNatural
<1> QED
  BY <1>1, <1>4

LEMMA BytesOfParts ==
  ASSUME NEW a \in Seq(Lines), NEW b \in Seq(Lines)
  PROVE  Bytes(a) \in Nat /\ Bytes(a \o b) = Bytes(a) + Bytes(b)
<1>1. PICK f : IsSum(f, a) /\ Bytes(a) = f[Len(a)]
  BY BytesIsSum
<1>2. PICK g : IsSum(g, b) /\ Bytes(b) = g[Len(b)]
  BY BytesIsSum
<1> DEFINE c == a \o b
<1>3. c \in Seq(Lines) /\ Len(c) = Len(a) + Len(b) /\ Len(a) \in Nat /\ Len(b) \in Nat
  OBVIOUS
<1>4. Inside(a, c, 0)
  BY <1>3 DEF Inside
<1>9. Inside(b, c, Len(a))
  BY <1>3 DEF Inside
<1> HIDE DEF c
<1>5. PICK h : IsSum(h, c) /\ Bytes(c) = h[Len(c)]
  BY <1>3, BytesIsSum
<1>6. h[0+Len(a)] = h[0] + f[Len(a)]
  BY <1>1, <1>3, <1>4, <1>5, SumOfPart
<1>7. h[Len(a)+Len(b)] = h[Len(a)] + g[Len(b)]
  BY <1>2, <1>3, <1>5, <1>9, SumOfPart
<1>8. h[0] = 0 /\ f[Len(a)] \in Nat /\ 0 + Len(a) = Len(a)
  BY <1>1, <1>3, <1>5 DEF IsSum
<1>10. Bytes(c) = Bytes(a) + Bytes(b)
  BY <1>1, <1>2, <1>3, <1>5, <1>6, <1>7, <1>8
<1> QED
  BY <1>1, <1>8, <1>10 DEF c

LEMMA BytesOfLine ==
  ASSUME NEW line \in Lines
  PROVE  Bytes(<<line>>) = line.size /\ Bytes(<<>>) = 0
<1>1. <<line>> \in Seq(Lines) /\ Len(<<line>>) = 1 /\ <<line>>[1] = line /\ <<>> \in Seq(Lines) /\ Len(<<>>) = 0
  OBVIOUS
<1>2. PICK f : IsSum(f, <<line>>) /\ Bytes(<<line>>) = f[1]
  BY <1>1, BytesIsSum
<1>3. PICK g : IsSum(g, <<>>) /\ Bytes(<<>>) = g[0]
  <2>1. \E g : IsSum(g, <<>>) /\ Bytes(<<>>) = g[Len(<<>>)]
    BY <1>1, BytesIsSum
  <2> QED
    BY <1>1, <2>1
<1>4. f[1] = f[1-1] + <<line>>[1].size /\ f[0] = 0
  BY <1>1, <1>2 DEF IsSum
<1>5. line.size \in Nat
  BY LoggerAssumption DEF Lines
<1> QED
  BY <1>1, <1>2, <1>3, <1>4, <1>5 DEF IsSum

-----------------------------------------------------------------------------
(* The log view: after i lines the ring holds the last TailLines of them.    *)

RingHolds(ring, f, i) ==
  /\ ring.next = i % TailLines
  /\ ring.count = IF i < TailLines THEN i ELSE TailLines
  /\ ring.lines = [j \in 0..(TailLines - 1) |-> ring.lines[j]]
  /\ \A k \in 1..i : k > i - TailLines => ring.lines[(k-1) % TailLines] = f[k]

LEMMA RingStarts ==
  ASSUME NEW f
  PROVE  RingHolds(NothingRead, f, 0)
<1>1. TailLines \in Nat /\ TailLines > 0
  BY LoggerAssumption
<1>2. 0 % TailLines = 0
  BY <1>1
<1>3. \A k \in 1..0 : FALSE
  OBVIOUS
<1> QED
  BY <1>1, <1>2, <1>3 DEF RingHolds, NothingRead

LEMMA RingReads ==
  ASSUME NEW f, NEW i \in Nat, NEW ring, RingHolds(ring, f, i)
  PROVE  RingHolds(ReadLine(ring, f[i+1]), f, i + 1)
<1> DEFINE after == ReadLine(ring, f[i+1])
<1>1. TailLines \in Nat /\ TailLines > 0
  BY LoggerAssumption
<1>2. /\ ring.next = i % TailLines
      /\ ring.count = IF i < TailLines THEN i ELSE TailLines
      /\ ring.lines = [j \in 0..(TailLines - 1) |-> ring.lines[j]]
      /\ \A k \in 1..i : k > i - TailLines => ring.lines[(k-1) % TailLines] = f[k]
  BY DEF RingHolds
<1>3. \A m \in Nat : m % TailLines \in 0..(TailLines - 1)
  BY <1>1
<1>4. /\ after.lines = [ring.lines EXCEPT ![i % TailLines] = f[i+1]]
      /\ after.next = ((i % TailLines) + 1) % TailLines
      /\ after.count = IF ring.count < TailLines THEN ring.count + 1 ELSE ring.count
  BY <1>2 DEF ReadLine
<1> HIDE DEF after
<1>5. after.next = (i + 1) % TailLines
  <2>1. PICK q \in Int : i = TailLines * q + (i % TailLines)
    BY <1>1, i = TailLines * (i \div TailLines) + (i % TailLines)
  <2> DEFINE r == i % TailLines
  <2>2. r \in 0..(TailLines - 1)
    BY <1>3
  <2> HIDE DEF r
  <2>3. i + 1 = TailLines * q + (r + 1)
    <3>1. i = TailLines * q + r /\ TailLines * q \in Int
      BY <1>1, <2>1 DEF r
    <3> QED
      BY <2>2, <3>1
  <2>4. CASE r + 1 < TailLines
    <3>1. r + 1 \in 0..(TailLines - 1)
      BY <2>2, <2>4, <1>1
    <3>2. (i + 1) % TailLines = r + 1
      BY <2>3, <3>1, <1>1, Remainder
    <3>3. (r + 1) % TailLines = r + 1
      BY <3>1, <1>1
    <3> QED
      BY <1>4, <3>2, <3>3 DEF r
  <2>5. CASE r + 1 = TailLines
    <3>1. 0 \in 0..(TailLines - 1)
      BY <1>1
    <3>2. i + 1 = TailLines * (q + 1) + 0
      <4>1. TailLines * (q + 1) = TailLines * q + TailLines
        BY <1>1
      <4> QED
        BY <2>3, <2>5, <4>1
    <3>3. q + 1 \in Int
      OBVIOUS
    <3>4. (i + 1) % TailLines = 0
      BY <3>1, <3>2, <3>3, <1>1, Remainder
    <3>5. TailLines % TailLines = 0
      BY <1>1
    <3> QED
      BY <1>4, <2>5, <3>4, <3>5 DEF r
  <2> QED
    BY <2>2, <2>4, <2>5, <1>1
<1>6. after.count = IF i + 1 < TailLines THEN i + 1 ELSE TailLines
  BY <1>1, <1>2, <1>4
<1>7. after.lines = [j \in 0..(TailLines - 1) |-> after.lines[j]]
  BY <1>2, <1>4
<1>8. ASSUME NEW k \in 1..(i+1), k > (i + 1) - TailLines
      PROVE  after.lines[(k-1) % TailLines] = f[k]
  <2>1. i % TailLines \in DOMAIN ring.lines
    BY <1>2, <1>3
  <2>2. CASE k = i + 1
    BY <1>4, <2>1, <2>2, k - 1 = i
  <2>3. CASE k # i + 1
    <3>1. k \in 1..i /\ k > i - TailLines /\ k - 1 \in Nat /\ k - 1 < i /\ i < (k - 1) + TailLines
      BY <1>1, <1>8, <2>3
    <3>2. (k - 1) % TailLines # i % TailLines
      BY <1>1, <3>1, NearDiffer
    <3>3. ring.lines[(k-1) % TailLines] = f[k] /\ (k - 1) % TailLines \in DOMAIN ring.lines
      BY <1>2, <1>3, <3>1
    <3> QED
      BY <1>4, <3>2, <3>3
  <2> QED
    BY <2>2, <2>3
<1> QED
  BY <1>5, <1>6, <1>7, <1>8 DEF after, RingHolds

LEMMA RingAfter ==
  ASSUME NEW f \in Seq(Lines)
  PROVE  RingHolds(ReadAll(f), f, Len(f))
<1> DEFINE size == Len(f)
           Def(g, i) == IF i = 0 THEN NothingRead ELSE ReadLine(g[i-1], f[i])
           Fits(g, i) == g = [k \in 0..i |-> Def(g, k)]
           fit == {i \in Nat : \E g : Fits(g, i)}
           ring == CHOOSE g : Fits(g, size)
<1>1. size \in Nat /\ ReadAll(f) = ring[size]
  BY DEF ReadAll
<1>2. Nat \subseteq fit
  <2>1. 0 \in fit
    <3>1. \A k \in 0..0 : k = 0
      OBVIOUS
    <3>2. Fits([k \in 0..0 |-> NothingRead], 0)
      BY <3>1
    <3> QED
      BY <3>2
  <2>2. ASSUME NEW n \in Nat, n \in fit
        PROVE  n + 1 \in fit
    <3>1. PICK h : Fits(h, n)
      BY <2>2
    <3> DEFINE g == [k \in 0..(n+1) |-> IF k <= n THEN h[k] ELSE Def(h, k)]
    <3>2. \A k \in 0..n : h[k] = Def(h, k)
      BY <3>1
    <3>3. \A k \in 0..(n+1) : g[k] = Def(g, k)
      <4> TAKE k \in 0..(n+1)
      <4>1. CASE k = 0
        <5>1. g[k] = h[k] /\ k \in 0..n
          BY <4>1
        <5> QED
          BY <3>2, <4>1, <5>1
      <4>2. CASE k # 0
        <5>1. k - 1 \in 0..(n+1) /\ k - 1 <= n /\ k - 1 \in 0..n
          BY <4>2
        <5>2. g[k-1] = h[k-1]
          BY <5>1
        <5>3. Def(g, k) = Def(h, k)
          BY <5>2
        <5>4. g[k] = Def(h, k)
          BY <3>2
        <5> QED
          BY <5>3, <5>4
      <4> QED
        BY <4>1, <4>2
    <3>4. g = [k \in 0..(n+1) |-> Def(g, k)]
      <4>1. g = [k \in 0..(n+1) |-> g[k]]
        OBVIOUS
      <4> HIDE DEF g, Def
      <4> QED
        BY <4>1, <3>3
    <3>5. n + 1 \in Nat /\ Fits(g, n + 1)
      BY <3>4
    <3> HIDE DEF g, Fits
    <3> QED
      BY <3>5
  <2> HIDE DEF fit
  <2> QED
    BY <2>1, <2>2, EveryNatural
<1>3. Fits(ring, size)
  <2>1. \E g : Fits(g, size)
    BY <1>1, <1>2
  <2> HIDE DEF Fits
  <2> QED
    BY <2>1
<1>4. \A n \in 0..size : ring[n] = Def(ring, n)
  BY <1>3
<1> HIDE DEF ring, fit, Fits
<1> DEFINE right == {n \in Nat : n <= size => RingHolds(ring[n], f, n)}
<1>5. 0 \in right
  <2>1. 0 \in 0..size
    BY <1>1
  <2>2. ring[0] = NothingRead
    BY <1>4, <2>1
  <2> QED
    BY <2>2, RingStarts
<1>6. ASSUME NEW n \in Nat, n \in right
      PROVE  n + 1 \in right
  <2> SUFFICES ASSUME n + 1 <= size
               PROVE  RingHolds(ring[n+1], f, n + 1)
    OBVIOUS
  <2>1. n + 1 \in 0..size /\ (n + 1) - 1 = n /\ n + 1 # 0 /\ RingHolds(ring[n], f, n)
    BY <1>1, <1>6
  <2>2. ring[n+1] = ReadLine(ring[n], f[n+1])
    BY <1>4, <2>1
  <2> QED
    BY <2>1, <2>2, RingReads
<1>7. Nat \subseteq right
  <2> HIDE DEF right
  <2> QED
    BY <1>5, <1>6, EveryNatural
<1> QED
  BY <1>1, <1>7

LEMMA ViewIsTheEnd ==
  ASSUME NEW f \in Seq(Lines)
  PROVE  Shown(f) = SubSeq(f, Max({1, Len(f) - TailLines + 1}), Len(f))
<1> DEFINE n == Len(f)
           ring == ReadAll(f)
           start == IF ring.count < TailLines THEN 0 ELSE ring.next
           first == Max({1, n - TailLines + 1})
<1>1. TailLines \in Nat /\ TailLines > 0 /\ n \in Nat
  BY LoggerAssumption
<1>2. /\ ring.next = n % TailLines
      /\ ring.count = IF n < TailLines THEN n ELSE TailLines
      /\ \A k \in 1..n : k > n - TailLines => ring.lines[(k-1) % TailLines] = f[k]
  BY RingAfter DEF RingHolds
<1>3. Shown(f) = [i \in 1..ring.count |-> ring.lines[(start + i - 1) % TailLines]]
  BY DEF Shown
<1>4. first = IF n < TailLines THEN 1 ELSE n - TailLines + 1
  BY <1>1 DEF Max
<1>5. SubSeq(f, first, n) = [i \in 1..(n - first + 1) |-> f[first + i - 1]]
  <2> HIDE DEF first
  <2>1. first \in 1..(n+1)
    BY <1>1, <1>4
  <2> QED
    BY <1>1, <2>1, SubSeqProperties
<1> HIDE DEF ring, first
<1>6. CASE n < TailLines
  <2>1. ring.count = n /\ start = 0 /\ first = 1 /\ n - first + 1 = n
    BY <1>1, <1>2, <1>4, <1>6
  <2>2. \A i \in 1..n : ring.lines[(start + i - 1) % TailLines] = f[first + i - 1]
    <3> TAKE i \in 1..n
    <3>1. start + i - 1 = i - 1 /\ first + i - 1 = i /\ i > n - TailLines
      BY <1>6, <2>1, <1>1
    <3> QED
      BY <1>2, <3>1
  <2> QED
    BY <1>3, <1>5, <2>1, <2>2 DEF first
<1>7. CASE ~(n < TailLines)
  <2>1. ring.count = TailLines /\ start = n % TailLines /\ first = n - TailLines + 1 /\ n - first + 1 = TailLines
    BY <1>1, <1>2, <1>4, <1>7
  <2>2. \A i \in 1..TailLines : ring.lines[(start + i - 1) % TailLines] = f[first + i - 1]
    <3> TAKE i \in 1..TailLines
    <3> DEFINE k == first + i - 1
               j == i - 1
    <3>1. k \in 1..n /\ k > n - TailLines /\ j \in Nat /\ k - 1 = (n - TailLines) + j
      BY <1>1, <1>7, <2>1
    <3>2. n % TailLines \in Nat
      BY <1>1
    <3>3. start + i - 1 = (n % TailLines) + j
      BY <2>1, <3>2
    <3>4. ((n % TailLines) + j) % TailLines = ((n - TailLines) + j) % TailLines
      <4>1. n >= TailLines /\ j \in Nat
        BY <1>1, <1>7, <3>1
      <4> HIDE DEF n, j
      <4> QED
        BY <1>1, <4>1, Shifted
    <3>5. ring.lines[(k-1) % TailLines] = f[k]
      BY <1>2, <3>1
    <3> QED
      BY <3>1, <3>3, <3>4, <3>5
  <2> QED
    BY <1>3, <1>5, <2>1, <2>2 DEF first
<1> QED
  BY <1>6, <1>7

-----------------------------------------------------------------------------
(* The log.  Backup and file are numbered to the last line written; what is  *)
(* no longer there was pushed out by a whole file.                           *)

LogInv ==
  /\ log \in Seq(Lines) /\ backup \in Seq(Lines)
  /\ fp \in BOOLEAN /\ stuck \in BOOLEAN /\ written \in 0..MaxLines
  /\ \A i \in 1..Len(backup) : backup[i].number = written - Len(log) - Len(backup) + i
  /\ \A i \in 1..Len(log) : log[i].number = written - Len(log) + i
  /\ Len(backup) + Len(log) < written => Bytes(backup) + Bytes(log) >= RotateMax
  /\ RotateMax # 0 /\ ~stuck => Bytes(log) < RotateMax + LongestLine

LEMMA NoBytes == Bytes(<<>>) = 0
<1>1. [number |-> 1, size |-> 1] \in Lines
  BY LoggerAssumption DEF Lines
<1> QED
  BY <1>1, BytesOfLine

LEMMA LineWritten ==
  ASSUME written \in 0..MaxLines, NEW old \in Seq(Lines), Write(old),
         \A i \in 1..Len(old) : old[i].number = written - Len(old) + i
  PROVE  /\ log' \in Seq(Lines) /\ written' \in 0..MaxLines
         /\ written' - Len(log') = written - Len(old)
         /\ \A i \in 1..Len(log') : log'[i].number = written' - Len(log') + i
         /\ Bytes(log') >= Bytes(old) /\ Bytes(log') <= Bytes(old) + LongestLine
<1>1. Bytes(old) \in Nat /\ LongestLine \in Nat /\ MaxLines \in Nat /\ Len(old) \in Nat
  BY BytesOfParts, LoggerAssumption
<1>2. CASE log' = old /\ UNCHANGED written
  BY <1>1, <1>2
<1>3. ASSUME NEW size \in 1..LongestLine, written < MaxLines, written' = written + 1,
             log' = Append(old, [number |-> written', size |-> size])
      PROVE  /\ log' \in Seq(Lines) /\ written' \in 0..MaxLines
             /\ written' - Len(log') = written - Len(old)
             /\ \A i \in 1..Len(log') : log'[i].number = written' - Len(log') + i
             /\ Bytes(log') >= Bytes(old) /\ Bytes(log') <= Bytes(old) + LongestLine
  <2> DEFINE line == [number |-> written', size |-> size]
  <2>1. line \in Lines /\ line.number = written + 1 /\ line.size = size /\ written' \in 0..MaxLines
    BY <1>1, <1>3 DEF Lines
  <2> HIDE DEF line
  <2>2. log' = old \o <<line>> /\ log' \in Seq(Lines) /\ Len(log') = Len(old) + 1
    BY <1>3, <2>1, AppendProperties, AppendIsConcat DEF line
  <2>3. \A i \in 1..Len(log') : log'[i] = IF i <= Len(old) THEN old[i] ELSE line
    BY <2>1, <2>2
  <2>4. ASSUME NEW i \in 1..Len(log')
        PROVE  log'[i].number = written' - Len(log') + i
    <3>1. CASE i <= Len(old)
      <4>1. i \in 1..Len(old) /\ log'[i] = old[i]
        BY <1>1, <2>3, <3>1
      <4> QED
        BY <1>1, <1>3, <2>2, <4>1
    <3>2. CASE ~(i <= Len(old))
      BY <1>1, <1>3, <2>1, <2>2, <2>3, <3>2
    <3> QED
      BY <3>1, <3>2
  <2>5. Bytes(log') = Bytes(old) + size
    <3>1. <<line>> \in Seq(Lines)
      BY <2>1
    <3>2. Bytes(old \o <<line>>) = Bytes(old) + Bytes(<<line>>)
      BY <3>1, BytesOfParts
    <3> QED
      BY <2>1, <2>2, <3>2, BytesOfLine
  <2>6. written' - Len(log') = written - Len(old)
    BY <1>1, <1>3, <2>2
  <2>7. Bytes(log') >= Bytes(old) /\ Bytes(log') <= Bytes(old) + LongestLine
    BY <1>1, <2>5
  <2> QED
    BY <2>1, <2>2, <2>4, <2>6, <2>7
<1> QED
  BY <1>2, <1>3 DEF Write

LEMMA LogInvHolds == LogSpec => []LogInv
<1>1. LogInit => LogInv
  <2> SUFFICES ASSUME LogInit PROVE LogInv
    OBVIOUS
  <2>1. log \in Seq(Lines) /\ backup \in Seq(Lines) /\ Len(log) = 0 /\ Len(backup) = 0
    BY DEF LogInit
  <2>2. Bytes(log) = 0 /\ fp \in BOOLEAN /\ stuck \in BOOLEAN /\ written = 0
    BY NoBytes DEF LogInit
  <2>3. \A i \in 1..0 : FALSE
    OBVIOUS
  <2> QED
    BY <2>1, <2>2, <2>3, LoggerAssumption DEF LogInv
<1>2. LogInv /\ [LogNext]_logVars => LogInv'
  <2> SUFFICES ASSUME LogInv, [LogNext]_logVars
               PROVE  LogInv'
    OBVIOUS
  <2> USE DEF LogInv
  <2>1. /\ Bytes(log) \in Nat /\ Bytes(backup) \in Nat /\ RotateMax \in Nat /\ LongestLine \in Nat \ {0}
        /\ Len(log) \in Nat /\ Len(backup) \in Nat
    BY BytesOfParts, LoggerAssumption
  <2>2. CASE Open \/ Close \/ UNCHANGED logVars
    BY <2>2 DEF Open, Close, logVars
  <2>3. CASE LogUnrotated
    <3>1. /\ log' \in Seq(Lines) /\ written' \in 0..MaxLines
          /\ written' - Len(log') = written - Len(log)
          /\ \A i \in 1..Len(log') : log'[i].number = written' - Len(log') + i
          /\ Bytes(log') >= Bytes(log) /\ Bytes(log') <= Bytes(log) + LongestLine
      BY <2>3, LineWritten DEF LogUnrotated
    <3>2. backup' = backup /\ fp' = fp /\ stuck' = stuck
      BY <2>3 DEF LogUnrotated
    <3>3. RotateMax # 0 => Bytes(log) < RotateMax
      BY <2>1, <2>3 DEF LogUnrotated, Full
    <3>4. Bytes(log') \in Nat /\ Len(log') \in Nat
      BY <3>1, BytesOfParts
    <3>5. RotateMax # 0 => Bytes(log') < RotateMax + LongestLine
      BY <2>1, <3>1, <3>3, <3>4
    <3>6. Len(backup) + Len(log') < written' => Bytes(backup) + Bytes(log') >= RotateMax
      BY <2>1, <3>1, <3>4
    <3>7. \A i \in 1..Len(backup) : backup[i].number = written' - Len(log') - Len(backup) + i
      <4>1. \A i \in 1..Len(backup) : backup[i].number = written - Len(log) - Len(backup) + i
        BY <2>1
      <4>2. written' - Len(log') = written - Len(log)
        BY <3>1
      <4> QED
        BY ONLY <4>1, <4>2
    <3> QED
      BY <3>1, <3>2, <3>5, <3>6, <3>7
  <2>4. CASE LogRotated
    <3>1. PICK renamed \in BOOLEAN, reopened \in BOOLEAN :
               /\ backup' = IF renamed THEN log ELSE backup
               /\ stuck' = ~renamed /\ fp' = reopened
               /\ LET old == IF renamed THEN <<>> ELSE log
                  IN  IF reopened THEN Write(old) ELSE log' = old /\ UNCHANGED written
      BY <2>4 DEF LogRotated
    <3> DEFINE old == IF renamed THEN <<>> ELSE log
    <3>2. old \in Seq(Lines) /\ Len(old) \in Nat /\ Len(old) = IF renamed THEN 0 ELSE Len(log)
      BY <2>1
    <3>3. \A i \in 1..Len(old) : old[i].number = written - Len(old) + i
      <4>1. \A i \in 1..0 : FALSE
        OBVIOUS
      <4> QED
        BY <3>2, <4>1
    <3>4. Bytes(old) \in Nat /\ Bytes(old) = IF renamed THEN 0 ELSE Bytes(log)
      BY <2>1, NoBytes
    <3>5. Write(old) \/ (log' = old /\ UNCHANGED written)
      BY <3>1
    <3> HIDE DEF old
    <3>6. /\ log' \in Seq(Lines) /\ written' \in 0..MaxLines
          /\ written' - Len(log') = written - Len(old)
          /\ \A i \in 1..Len(log') : log'[i].number = written' - Len(log') + i
          /\ Bytes(log') >= Bytes(old) /\ Bytes(log') <= Bytes(old) + LongestLine
      <4>1. CASE Write(old)
        BY <3>2, <3>3, <4>1, LineWritten
      <4>2. CASE log' = old /\ UNCHANGED written
        <5>1. log' = old /\ written' = written /\ Len(log') = Len(old) /\ Bytes(log') = Bytes(old)
          BY <4>2
        <5>2. written' \in 0..MaxLines /\ written' - Len(log') = written - Len(old)
          BY <5>1
        <5>3. \A i \in 1..Len(log') : log'[i].number = written' - Len(log') + i
          BY <3>3, <5>1
        <5>4. Bytes(log') >= Bytes(old) /\ Bytes(log') <= Bytes(old) + LongestLine
          BY <2>1, <3>4, <5>1
        <5> QED
          BY <3>2, <5>1, <5>2, <5>3, <5>4
      <4> QED
        BY <3>5, <4>1, <4>2
    <3>7. Bytes(log') \in Nat /\ Len(log') \in Nat
      BY <3>6, BytesOfParts
    <3>8. RotateMax # 0 /\ Bytes(log) >= RotateMax
      BY <2>4 DEF LogRotated, Full
    <3>9. CASE renamed
      <4>1. backup' = log /\ Len(old) = 0 /\ Bytes(old) = 0 /\ fp' \in BOOLEAN /\ stuck' \in BOOLEAN
        BY <3>1, <3>2, <3>4, <3>9
      <4>2. Bytes(log') < RotateMax + LongestLine
        BY <2>1, <3>4, <3>6, <3>7, <3>8, <4>1
      <4>3. Bytes(log) + Bytes(log') >= RotateMax
        BY <2>1, <3>7, <3>8
      <4>4. \A i \in 1..Len(log) : log[i].number = written' - Len(log') - Len(log) + i
        <5>1. written' - Len(log') = written /\ written \in Int
          BY <2>1, <3>6, <3>7, <4>1
        <5> QED
          BY <2>1, <5>1
      <4> QED
        BY <3>6, <4>1, <4>2, <4>3, <4>4
    <3>10. CASE ~renamed
      <4>1. /\ backup' = backup /\ Len(old) = Len(log) /\ Bytes(old) = Bytes(log)
            /\ fp' \in BOOLEAN /\ stuck' = TRUE
        BY <3>1, <3>2, <3>4, <3>10
      <4>2. Len(backup) + Len(log') < written' => Bytes(backup) + Bytes(log') >= RotateMax
        BY <2>1, <3>6, <3>7, <4>1
      <4>3. \A i \in 1..Len(backup) : backup[i].number = written' - Len(log') - Len(backup) + i
        BY <2>1, <3>6, <3>7, <4>1
      <4> QED
        BY <3>6, <4>1, <4>2, <4>3
    <3> QED
      BY <3>9, <3>10
  <2> QED
    BY <2>2, <2>3, <2>4 DEF LogNext
<1> QED
  BY <1>1, <1>2, PTL DEF LogSpec

\* The log file grows past its limit by less than one line, for any limit and
\* any lengths of lines, as long as it can be renamed (maybe_rotate).
THEOREM LogTypeCorrect == LogSpec => []LogTypeOK
<1>1. LogInv => LogTypeOK
  <2> SUFFICES ASSUME LogInv PROVE LogTypeOK
    OBVIOUS
  <2>1. ToSet(log) \subseteq Lines /\ ToSet(backup) \subseteq Lines
    BY DEF LogInv, ToSet
  <2> QED
    BY <2>1 DEF LogInv, LogTypeOK
<1> QED
  BY <1>1, LogInvHolds, PTL

\* Whatever renames and opens fail and however often the program restarts,
\* backup and file are the end of the log without a gap, at least as long as
\* the limit, and the log view shows the last lines of the file.
THEOREM RecentLinesStay == LogSpec => []RecentLinesKept
<1>1. LogInv => RecentLinesKept
  <2> SUFFICES ASSUME LogInv PROVE RecentLinesKept
    OBVIOUS
  <2> USE DEF LogInv
  <2> DEFINE kept == backup \o log
  <2>1. Len(log) \in Nat /\ Len(backup) \in Nat /\ written \in Int
    OBVIOUS
  <2>2. Len(kept) = Len(backup) + Len(log) /\ DOMAIN kept = 1..Len(kept)
    OBVIOUS
  <2>3. \A i \in 1..Len(kept) : kept[i] = IF i <= Len(backup) THEN backup[i] ELSE log[i - Len(backup)]
    OBVIOUS
  <2>4. Bytes(kept) = Bytes(backup) + Bytes(log)
    BY BytesOfParts
  <2> HIDE DEF kept
  <2>5. ASSUME NEW i \in 1..Len(kept)
        PROVE  kept[i].number = written - Len(kept) + i
    <3>1. CASE i <= Len(backup)
      <4>1. i \in 1..Len(backup) /\ kept[i] = backup[i]
        BY <2>1, <2>3, <3>1
      <4> QED
        BY <2>1, <2>2, <4>1
    <3>2. CASE ~(i <= Len(backup))
      <4>1. i - Len(backup) \in 1..Len(log) /\ kept[i] = log[i - Len(backup)]
        BY <2>1, <2>2, <2>3, <3>2
      <4>2. log[i - Len(backup)].number = written - Len(log) + (i - Len(backup))
        BY <4>1
      <4> QED
        BY <2>1, <2>2, <4>1, <4>2
    <3> QED
      BY <3>1, <3>2
  <2>6. Len(kept) < written => Bytes(kept) >= RotateMax
    BY <2>2, <2>4
  <2>7. Shown(log) = SubSeq(log, Max({1, Len(log) - TailLines + 1}), Len(log))
    BY ViewIsTheEnd
  <2> QED
    BY <2>2, <2>5, <2>6, <2>7 DEF RecentLinesKept, kept
<1> QED
  BY <1>1, LogInvHolds, PTL
=============================================================================
