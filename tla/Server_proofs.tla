---------------------------- MODULE Server_proofs ----------------------------
(* For any clients, slots, sessions, subscribers and files: every slot taken *)
(* comes back once, open sessions are accounted for, and the last save       *)
(* misses only what changed after its snapshot.                              *)
EXTENDS Server, Persistence_proofs, FiniteSetTheorems

Shape ==
  /\ place = [c \in Conns |-> place[c]]
  /\ session = [c \in Conns |-> session[c]]
  /\ doing = [c \in Conns |-> doing[c]]

-----------------------------------------------------------------------------
(* Sessions.                                                                 *)

SessionsInv == Shape /\ SessionsAccountedFor

LEMMA SessionsInit == Init => SessionsInv
  BY DEF Init, NoThreads, SessionsInv, Shape, SessionsAccountedFor

LEMMA SessionsStep ==
  ASSUME SessionsInv, Next
  PROVE  SessionsInv'
<1> USE DEF SessionsInv, Shape, SessionsAccountedFor, Serving, threads, table
<1>1. CASE Start \/ Loop \/ AcceptFails \/ SemWait \/ ShutdownSave \/ Saving \/ SaveDone \/ Destroy
  BY <1>1 DEF Start, Loop, AcceptFails, SemWait, ShutdownSave, Saving, SaveDone, Destroy
<1>2. CASE Signal
  BY <1>2 DEF Signal
<1>3. ASSUME NEW c \in Conns, Accept(c) \/ Spawn(c) \/ HangUp(c) \/ Post(c)
      PROVE  SessionsInv'
  BY <1>3 DEF Accept, Spawn, HangUp, Post, AtPrompt
<1>4. ASSUME NEW c \in Conns, Login(c)
      PROVE  SessionsInv'
  <2>1. PICK new : session' = [session EXCEPT ![c] = new] /\ open' = open \cup {new}
    BY <1>4 DEF Login
  <2>2. UNCHANGED <<place, doing>> /\ c \in Serving /\ overwritten' = (overwritten \cup {session[c]}) \cap open
    BY <1>4 DEF Login, AtPrompt
  <2>3. ASSUME NEW s \in open
        PROVE  s \in overwritten' \/ \E d \in Serving : d # c /\ s = session[d]
    BY <2>2, <2>3
  <2> QED
    BY <2>1, <2>2, <2>3
<1>5. ASSUME NEW c \in Conns, Logout(c) \/ Close(c)
      PROVE  SessionsInv'
  BY <1>5 DEF Logout, Close, CloseSession, AtPrompt
<1>6. ASSUME NEW c \in Conns, \/ \E action \in Commands : Authorize(c, action)
                              \/ Add(c) \/ Delete(c) \/ NoChange(c)
      PROVE  SessionsInv'
  BY <1>6 DEF Authorize, Add, Delete, NoChange, Done
<1>7. CASE Expire
  BY <1>7 DEF Expire
<1>8. CASE Exit \/ Crash
  BY <1>8 DEF Exit, Crash, ProcessEnds, NoThreads
<1> QED
  BY <1>1, <1>2, <1>3, <1>4, <1>5, <1>6, <1>7, <1>8 DEF Next

(* Whatever way clients leave, every open session that has not expired is    *)
(* that of a connection being served, or was given up by a second LOGIN.     *)
THEOREM OpenSessionsAreServed == Spec => []SessionsAccountedFor
<1>1. SessionsInv /\ [Next]_vars => SessionsInv'
  <2>1. CASE UNCHANGED vars
    BY <2>1 DEF SessionsInv, Shape, SessionsAccountedFor, Serving, vars, threads, table
  <2> QED
    BY <2>1, SessionsStep
<1>2. SessionsInv => SessionsAccountedFor
  BY DEF SessionsInv
<1> QED
  BY <1>1, <1>2, SessionsInit, PTL DEF Spec

-----------------------------------------------------------------------------
(* Slots.                                                                    *)

(* With a signal one more may be out; then the loop takes no other client.   *)
SlotInv ==
  /\ place = [c \in Conns |-> place[c]]
  /\ slots \in Nat /\ signals \in Nat
  /\ pc = "off" => Holding = {}
  /\ Taken + slots <= MaxClients + IF Shutdown /\ pc \notin {"accept", "wait"} THEN 1 ELSE 0
  /\ Running => Taken + slots >= MaxClients

LEMMA HoldingFinite == IsFiniteSet(Holding) /\ Cardinality(Holding) \in Nat
  BY ServerAssumption, FS_Subset, FS_CardinalityType DEF Holding

LEMMA SlotInit == Init => SlotInv
<1> SUFFICES ASSUME Init PROVE SlotInv
  OBVIOUS
<1>1. Holding = {}
  BY DEF Init, NoThreads, Holding
<1> QED
  BY <1>1, FS_EmptySet, ServerAssumption DEF Init, NoThreads, SlotInv, Taken, Shutdown, Running

(* A step that changes no place, or none that matters, moves no slot either. *)
LEMMA SameHolding ==
  ASSUME SlotInv, UNCHANGED <<slots, signals>>, Holding' = Holding,
         place' = [c \in Conns |-> place'[c]],
         pc' = "spawn" => pc = "spawn",
         pc' \in {"accept", "wait"} => pc \in {"accept", "wait"} \/ ~Shutdown,
         pc' = "off" <=> pc = "off",
         pc = "spawn" => pc' = "spawn",
         pc = "ended" => pc' = "ended"
  PROVE  SlotInv'
  BY HoldingFinite, ServerAssumption DEF SlotInv, Taken, Shutdown, Running

LEMMA SlotStep ==
  ASSUME SlotInv, Next
  PROVE  SlotInv'
<1> USE HoldingFinite, ServerAssumption
<1>1. CASE Start
  BY <1>1, FS_EmptySet DEF Start, SlotInv, Taken, Shutdown, Running, Holding, threads
<1>2. CASE Loop \/ AcceptFails \/ ShutdownSave \/ Saving \/ SaveDone \/ Destroy \/ Expire
  <2>1. Holding' = Holding /\ UNCHANGED <<place, slots, signals>>
    BY <1>2 DEF Loop, AcceptFails, ShutdownSave, Saving, SaveDone, Destroy, Expire, threads, main, Holding
  <2> QED
    BY <1>2, <2>1, SameHolding
       DEF Loop, AcceptFails, ShutdownSave, Saving, SaveDone, Destroy, Expire, main, SlotInv
<1>3. CASE SemWait
  BY <1>3 DEF SemWait, SlotInv, Taken, Shutdown, Running, Holding, threads
<1>4. CASE Signal
  <2>1. Holding' = Holding
    BY <1>4 DEF Signal, Holding, SlotInv
  <2>2. place' = [c \in Conns |-> place'[c]] /\ slots' = slots /\ signals' = signals + 1
    BY <1>4 DEF Signal, SlotInv
  <2>3. \/ pc' = pc /\ pc # "off"
        \/ pc = "accept" /\ pc' = "loop"
        \/ pc = "wait" /\ pc' = "spawn"
    BY <1>4 DEF Signal, Running
  <2> QED
    BY <2>1, <2>2, <2>3 DEF SlotInv, Taken, Shutdown, Running
<1>5. ASSUME NEW c \in Conns, Accept(c) \/ HangUp(c) \/ Close(c)
      PROVE  SlotInv'
  <2>1. Holding' = Holding /\ UNCHANGED <<slots, signals>> /\ place' = [d \in Conns |-> place'[d]]
    BY <1>5 DEF Accept, HangUp, Close, AtPrompt, Holding, SlotInv, main
  <2> QED
    BY <1>5, <2>1, SameHolding DEF Accept, HangUp, Close, main
<1>6. ASSUME NEW c \in Conns, Spawn(c)
      PROVE  SlotInv'
  <2>1. CASE place' = [place EXCEPT ![c] = "serving"] /\ UNCHANGED slots
    <3>1. Holding' = Holding \cup {c} /\ c \notin Holding
      BY <1>6, <2>1 DEF Spawn, Holding, SlotInv
    <3>2. Cardinality(Holding') = Cardinality(Holding) + 1
      BY <3>1, FS_AddElement
    <3> QED
      BY <1>6, <2>1, <3>2 DEF Spawn, SlotInv, Taken, Shutdown, Running
  <2>2. CASE place' = [place EXCEPT ![c] = "none"] /\ slots' = slots + 1
    <3>1. Holding' = Holding
      BY <1>6, <2>2 DEF Spawn, Holding, SlotInv
    <3> QED
      BY <1>6, <2>2, <3>1 DEF Spawn, SlotInv, Taken, Shutdown, Running
  <2> QED
    BY <1>6, <2>1, <2>2 DEF Spawn
<1>7. ASSUME NEW c \in Conns, Post(c)
      PROVE  SlotInv'
  <2>1. Holding' = Holding \ {c} /\ c \in Holding
    BY <1>7 DEF Post, Holding, SlotInv
  <2>2. Cardinality(Holding') = Cardinality(Holding) - 1
    BY <2>1, FS_RemoveElement
  <2> QED
    BY <1>7, <2>1, <2>2 DEF Post, SlotInv, Taken, Shutdown, Running
<1>8. ASSUME NEW c \in Conns, \/ \E action \in Commands : Authorize(c, action)
                              \/ Login(c) \/ Logout(c) \/ Add(c) \/ Delete(c) \/ NoChange(c)
      PROVE  SlotInv'
  <2>1. UNCHANGED <<place, main>>
    BY <1>8 DEF Authorize, Login, Logout, Add, Delete, NoChange, Done
  <2> QED
    BY <2>1, SameHolding DEF main, Holding, SlotInv
<1>9. CASE Exit \/ Crash
  <2>1. Holding' = {} /\ slots' = 0 /\ signals' = 0 /\ pc' = "ended" /\ place' = [c \in Conns |-> "none"]
    BY <1>9 DEF Exit, Crash, ProcessEnds, NoThreads, Holding
  <2> QED
    BY <2>1, FS_EmptySet DEF SlotInv, Taken, Shutdown, Running
<1> QED
  BY <1>1, <1>2, <1>3, <1>4, <1>5, <1>6, <1>7, <1>8, <1>9 DEF Next

(* Every slot is free or taken, once; one more is there only after a signal  *)
(* has ended a sem_wait.                                                     *)
THEOREM NoSlotIsLost == Spec => []SlotsComeBack
<1>1. SlotInv /\ [Next]_vars => SlotInv'
  <2>1. CASE UNCHANGED vars
    BY <2>1, SameHolding DEF vars, main, threads, Holding, SlotInv
  <2> QED
    BY <2>1, SlotStep
<1>2. SlotInv => SlotsComeBack
  <2> SUFFICES ASSUME SlotInv, Running PROVE SlotsComeBack
    BY DEF SlotsComeBack
  <2>1. Taken \in Nat
    BY HoldingFinite DEF Taken
  <2> QED
    BY <2>1, ServerAssumption DEF SlotInv, SlotsComeBack, Shutdown
<1> QED
  BY <1>1, <1>2, SlotInit, PTL DEF Spec

-----------------------------------------------------------------------------
(* The last save.                                                            *)

Differ(S) == {s \in Subscribers : (s \in db) # (s \in S)}

(* Once the snapshot is taken it differs from the database by what is late,  *)
(* and so does the file, when the save has put the snapshot there.           *)
SnapshotInv ==
  /\ step # "done" => pc = "save" /\ saving = Data
  /\ pc = "save" /\ step \in {"rows", "unlink", "rename"} => Differ(listed) \subseteq late
  /\ (pc = "save" /\ step = "done") \/ pc = "destroy" =>
       (result = "OK" => Differ(disk[Data].rows) \subseteq late)

LEMMA SnapshotInit == Init => SaveInv /\ SnapshotInv
  BY SaveInvInit DEF Init, FilesInit, SnapshotInv

LEMMA StepOnSave ==
  ASSUME Next
  PROVE  \/ SaveOpen(Data)
         \/ SaveStep
         \/ LoseMemory
         \/ UNCHANGED <<files, saving, step, listed, todo, write_ok, result>>
<1>1. CASE Start \/ Loop \/ AcceptFails \/ SemWait \/ Signal \/ ShutdownSave \/ Saving \/ SaveDone \/ Destroy
           \/ Expire \/ Exit \/ Crash
  BY <1>1 DEF Start, Loop, AcceptFails, SemWait, Signal, ShutdownSave, Saving, SaveDone, Destroy, Expire, Exit,
              Crash, ProcessEnds, store, save
<1>2. ASSUME NEW c \in Conns,
             \/ Accept(c) \/ Spawn(c) \/ Login(c) \/ Logout(c)
             \/ \E action \in Commands : Authorize(c, action)
             \/ Add(c) \/ Delete(c) \/ NoChange(c) \/ HangUp(c) \/ Close(c) \/ Post(c)
      PROVE  UNCHANGED <<files, saving, step, listed, todo, write_ok, result>>
  BY <1>2 DEF Accept, Spawn, Login, Logout, Authorize, Add, Delete, NoChange, Done, HangUp, Close, Post, store, save
<1> QED
  BY <1>1, <1>2 DEF Next

LEMMA SaveInvStays ==
  ASSUME SaveInv, [Next]_vars
  PROVE  SaveInv'
<1>1. Data \in Paths
  BY ServerAssumption
<1>2. CASE UNCHANGED vars
  BY <1>2, UnchangedKeeps DEF vars, store, save
<1> QED
  BY <1>1, <1>2, StepOnSave, SaveOpenKeeps, SaveStepKeeps, LoseMemoryKeeps, UnchangedKeeps

(* What a client changes while the snapshot is out is late.                  *)
LEMMA ChangesAreLate ==
  ASSUME SnapshotInv, NEW c \in Conns, Add(c) \/ Delete(c) \/ NoChange(c)
  PROVE  SnapshotInv'
<1>1. UNCHANGED <<pc, step, saving, listed, disk, result>>
  BY DEF Add, Delete, NoChange, Done, main, save, files
<1>2. CASE UNCHANGED <<db, late>>
  BY <1>1, <1>2 DEF SnapshotInv, Differ
<1>3. CASE \E s :
             /\ db' = db \cup {s} \/ db' = db \ {s}
             /\ late' = IF Listed THEN late \cup {s} ELSE late
  BY <1>1, <1>3 DEF SnapshotInv, Differ, Listed
<1> QED
  BY <1>2, <1>3 DEF Add, Delete, NoChange

LEMMA SaveKeepsSnapshot ==
  ASSUME SaveInv, SnapshotInv, Saving
  PROVE  SnapshotInv'
<1>1. pc = "save" /\ pc' = "save" /\ late' = late /\ saving = Data /\ SaveStep
  BY DEF Saving, SnapshotInv, main, SaveStep, SaveHeader, SaveList, SaveRow, SaveFlush, SaveUnlink, SaveRename
<1>2. UNCHANGED db
  BY <1>1 DEF SaveStep, SaveHeader, SaveList, SaveRow, SaveFlush, SaveUnlink, SaveRename, Goes, Ends
<1>3. CASE \E status \in {"IO", "ALLOC_FAILED"} : Ends(status)
  BY <1>1, <1>3 DEF Ends, SnapshotInv
<1>4. CASE SaveHeader /\ Goes("list")
  BY <1>1, <1>4 DEF Goes, SnapshotInv
<1>5. CASE SaveList /\ Goes("rows") /\ listed' = db
  BY <1>1, <1>2, <1>5 DEF Goes, SnapshotInv, Differ
<1>6. CASE SaveRow \/ (SaveFlush /\ Goes("unlink")) \/ (SaveUnlink /\ Goes("rename"))
  <2>1. step \in {"rows", "unlink"} /\ step' \in {"rows", "unlink", "rename"} /\ UNCHANGED <<saving, listed>>
    BY <1>6 DEF SaveRow, SaveFlush, SaveUnlink, Goes, Ends
  <2> QED
    BY <1>1, <1>2, <2>1 DEF SnapshotInv, Differ
<1>7. CASE SaveRename /\ Ends("OK") /\ disk' = [disk EXCEPT ![saving] = tmp[saving]]
  <2>1. disk'[Data] = File(listed)
    BY <1>1, <1>7, ServerAssumption DEF SaveInv, SaveRename
  <2>2. disk'[Data].rows = listed
    BY <2>1 DEF File
  <2> QED
    BY <1>1, <1>2, <1>7, <2>2 DEF SnapshotInv, Differ, SaveRename, Ends
<1> QED
  BY <1>1, <1>3, <1>4, <1>5, <1>6, <1>7
     DEF SaveStep, SaveHeader, SaveList, SaveRow, SaveFlush, SaveUnlink, SaveRename

LEMMA SnapshotStep ==
  ASSUME SaveInv, SnapshotInv, Next
  PROVE  SnapshotInv'
<1>1. CASE Saving
  BY <1>1, SaveKeepsSnapshot
<1>2. CASE ShutdownSave
  BY <1>2 DEF ShutdownSave, SaveOpen, Ends, SnapshotInv
<1>3. CASE SaveDone
  <2>1. pc = "save" /\ pc' = "destroy" /\ UNCHANGED <<store, late>> /\ saving = None
    BY <1>3 DEF SaveDone
  <2>2. step = "done"
    BY <2>1, FilesAssumption, ServerAssumption DEF SnapshotInv
  <2> QED
    BY <2>1, <2>2 DEF SnapshotInv, Differ, store, save, files
<1>4. CASE Start \/ Destroy
  BY <1>4 DEF Start, Destroy, SnapshotInv, save
<1>5. CASE Loop \/ AcceptFails \/ SemWait \/ Signal
  BY <1>5 DEF Loop, AcceptFails, SemWait, Signal, SnapshotInv, Differ, store, save, files
<1>6. CASE Expire
  BY <1>6 DEF Expire, SnapshotInv, Differ, main, store, save, files
<1>7. CASE Exit \/ Crash
  BY <1>7 DEF Exit, Crash, ProcessEnds, LoseMemory, SnapshotInv
<1>8. ASSUME NEW c \in Conns, Add(c) \/ Delete(c) \/ NoChange(c)
      PROVE  SnapshotInv'
  BY <1>8, ChangesAreLate
<1>9. ASSUME NEW c \in Conns, Accept(c) \/ Spawn(c)
      PROVE  SnapshotInv'
  BY <1>9 DEF Accept, Spawn, SnapshotInv, Differ, store, save, files
<1>10. ASSUME NEW c \in Conns,
              \/ Login(c) \/ Logout(c) \/ HangUp(c) \/ Close(c) \/ Post(c)
              \/ \E action \in Commands : Authorize(c, action)
       PROVE  SnapshotInv'
  BY <1>10 DEF Login, Logout, HangUp, Close, Post, Authorize, SnapshotInv, Differ, main, store, save, files
<1> QED
  BY <1>1, <1>2, <1>3, <1>4, <1>5, <1>6, <1>7, <1>8, <1>9, <1>10 DEF Next

(* When the server frees the database after a save that worked, the file     *)
(* lacks only what clients changed after the save had taken its snapshot.    *)
THEOREM SaveMissesOnlyLate == Spec => []OnlyLateChangesLost
<1>1. SaveInv /\ SnapshotInv /\ [Next]_vars => SaveInv' /\ SnapshotInv'
  <2>1. CASE UNCHANGED vars
    BY <2>1, SaveInvStays DEF SnapshotInv, Differ, vars, store, save, files, main
  <2> QED
    BY <2>1, SaveInvStays, SnapshotStep
<1>2. SaveInv /\ SnapshotInv => OnlyLateChangesLost
  BY DEF SnapshotInv, Differ, OnlyLateChangesLost
<1> QED
  BY <1>1, <1>2, SnapshotInit, PTL DEF Spec

-----------------------------------------------------------------------------
(* Types.  A login takes a token that no session in use has: fewer are in    *)
(* use than there are to choose from.  So no two threads believe in the same *)
(* session, and none in one that was given up.                               *)

TableInv ==
  /\ session = [c \in Conns |-> session[c]]
  /\ \A c \in Conns : session[c] # None => session[c] \in SessionType
  /\ open \subseteq SessionType /\ IsFiniteSet(open) /\ Cardinality(open) <= MaxSessions
  /\ \A s, t \in open : s.token = t.token => s = t
  /\ overwritten \subseteq open
  /\ \A c, d \in Conns : c # d /\ session[c] # None => session[c] # session[d]
  /\ \A c \in Conns : session[c] \notin overwritten

LEMMA ImageCounts ==
  ASSUME NEW S, IsFiniteSet(S), NEW f, f = [x \in S |-> f[x]]
  PROVE  /\ IsFiniteSet({f[x] : x \in S})
         /\ Cardinality({f[x] : x \in S}) \in Nat
         /\ Cardinality({f[x] : x \in S}) <= Cardinality(S)
<1> DEFINE T == {f[x] : x \in S}
<1>1. f \in Surjection(S, T)
  BY DEF Surjection
<1>2. IsFiniteSet(T) /\ Cardinality(T) <= Cardinality(S)
  BY <1>1, FS_Surjection
<1> QED
  BY <1>2, FS_CardinalityType

LEMMA InUseCounts ==
  ASSUME TableInv
  PROVE  /\ IsFiniteSet(InUse) /\ Cardinality(InUse) \in Nat
         /\ Cardinality(InUse) <= MaxSessions + Cardinality(Conns)
         /\ InUse \subseteq SessionType
<1> DEFINE theirs == {session[c] : c \in Conns}
<1>1. IsFiniteSet(theirs) /\ Cardinality(theirs) \in Nat /\ Cardinality(theirs) <= Cardinality(Conns)
  <2>1. session = [c \in Conns |-> session[c]]
    BY DEF TableInv
  <2> QED
    BY <2>1, ServerAssumption, ImageCounts
<1>2. /\ IsFiniteSet(theirs \ {None}) /\ Cardinality(theirs \ {None}) \in Nat
      /\ Cardinality(theirs \ {None}) <= Cardinality(theirs)
  <2>1. theirs \ {None} \in SUBSET theirs
    OBVIOUS
  <2>2. IsFiniteSet(theirs \ {None}) /\ Cardinality(theirs \ {None}) <= Cardinality(theirs)
    BY <1>1, <2>1, FS_Subset, Zenon
  <2> QED
    BY <2>2, FS_CardinalityType
<1> HIDE DEF theirs
<1>3. IsFiniteSet(open) /\ Cardinality(open) \in Nat /\ Cardinality(open) <= MaxSessions
  BY FS_CardinalityType DEF TableInv
<1> DEFINE both == open \cap (theirs \ {None})
<1>4. IsFiniteSet(both) /\ Cardinality(both) \in Nat
  BY <1>3, FS_Intersection, FS_CardinalityType
<1>5. /\ IsFiniteSet(open \cup (theirs \ {None}))
      /\ Cardinality(open \cup (theirs \ {None})) = Cardinality(open) + Cardinality(theirs \ {None}) - Cardinality(both)
  BY <1>2, <1>3, FS_Union
<1>6. InUse = open \cup (theirs \ {None})
  BY DEF InUse, theirs
<1>7. Cardinality(Conns) \in Nat /\ MaxSessions \in Nat
  BY ServerAssumption, FS_CardinalityType
<1>8. IsFiniteSet(InUse) /\ Cardinality(InUse) = Cardinality(open) + Cardinality(theirs \ {None}) - Cardinality(both)
  BY <1>5, <1>6
<1>9. Cardinality(InUse) \in Nat
  BY <1>8, FS_CardinalityType
<1>10. InUse \subseteq SessionType
  BY <1>6 DEF theirs, TableInv
<1> HIDE DEF both
<1> QED
  BY <1>1, <1>2, <1>3, <1>4, <1>7, <1>8, <1>9, <1>10

LEMMA FreshIsFresh ==
  ASSUME TableInv
  PROVE  Fresh \in Nat /\ \A s \in InUse : s.token # Fresh
<1> DEFINE tokens == 1..(MaxSessions + Cardinality(Conns) + 1)
           f == [s \in InUse |-> s.token]
           used == {f[s] : s \in InUse}
<1>1. Cardinality(Conns) \in Nat /\ MaxSessions \in Nat
  BY ServerAssumption, FS_CardinalityType
<1>2. IsFiniteSet(tokens) /\ Cardinality(tokens) = MaxSessions + Cardinality(Conns) + 1
  <2> DEFINE k == MaxSessions + Cardinality(Conns) + 1
  <2>1. k \in Nat /\ k >= 1
    BY <1>1
  <2> HIDE DEF k
  <2>2. IsFiniteSet(1..k) /\ Cardinality(1..k) = k
    BY <2>1, FS_Interval
  <2> QED
    BY <2>2 DEF k
<1>3. IsFiniteSet(used) /\ Cardinality(used) \in Nat /\ Cardinality(used) <= Cardinality(InUse)
  BY InUseCounts, ImageCounts
<1>4. \A s \in InUse : f[s] = s.token
  OBVIOUS
<1> HIDE DEF f
<1>5. ASSUME \A t \in tokens : \E s \in InUse : s.token = t
      PROVE  FALSE
  <2>1. tokens \in SUBSET used
    BY <1>4, <1>5
  <2>2. Cardinality(tokens) <= Cardinality(used)
    BY <2>1, <1>3, FS_Subset
  <2> QED
    BY <2>2, <1>1, <1>2, <1>3, InUseCounts
<1>6. \E t \in tokens : \A s \in InUse : s.token # t
  BY <1>5
<1>7. Fresh \in tokens /\ \A s \in InUse : s.token # Fresh
  BY <1>6 DEF Fresh
<1> QED
  BY <1>1, <1>7

LEMMA NoneIsNoSession == None \notin SessionType
  BY ServerAssumption DEF SessionType

LEMMA TableInit == Init => TableInv
<1>1. MaxSessions \in Nat
  BY ServerAssumption
<1> QED
  BY <1>1, FS_EmptySet DEF Init, NoThreads, TableInv

LEMMA FewerSessions ==
  ASSUME TableInv, session' = [c \in Conns |-> session'[c]],
         \A c \in Conns : session'[c] \in {session[c], None},
         NEW s, open' = open \ {s}, overwritten' \subseteq overwritten \cap open', None \notin overwritten
  PROVE  TableInv'
<1>1. IsFiniteSet(open') /\ Cardinality(open') <= Cardinality(open)
  BY FS_Subset DEF TableInv
<1>2. Cardinality(open') \in Nat /\ Cardinality(open) \in Nat /\ MaxSessions \in Nat
  BY <1>1, FS_CardinalityType, ServerAssumption DEF TableInv
<1>3. Cardinality(open') <= MaxSessions
  BY <1>1, <1>2 DEF TableInv
<1> QED
  BY <1>1, <1>3 DEF TableInv

LEMMA LoginKeepsTable ==
  ASSUME TableInv, NEW c \in Conns, Login(c)
  PROVE  TableInv'
<1>1. PICK role \in UserRoles :
        /\ session' = [session EXCEPT ![c] = [token |-> Fresh, role |-> role]]
        /\ open' = open \cup {[token |-> Fresh, role |-> role]}
  BY DEF Login
<1> DEFINE new == [token |-> Fresh, role |-> role]
<1>2. new \in SessionType /\ new.token = Fresh
  BY FreshIsFresh DEF SessionType
<1>3. \A s \in open : s.token # new.token
  BY <1>2, FreshIsFresh DEF InUse
<1>4. session' = [session EXCEPT ![c] = new] /\ open' = open \cup {new}
  BY <1>1
<1>5. overwritten' \subseteq open /\ Cardinality(open) < MaxSessions
  BY DEF Login
<1> HIDE DEF new
<1>6. IsFiniteSet(open') /\ Cardinality(open') <= MaxSessions
  <2>1. IsFiniteSet(open) /\ Cardinality(open) \in Nat /\ MaxSessions \in Nat
    BY FS_CardinalityType, ServerAssumption DEF TableInv
  <2>2. IsFiniteSet(open') /\ Cardinality(open') = Cardinality(open) + 1
    BY <1>3, <1>4, <2>1, FS_AddElement
  <2> QED
    BY <1>5, <2>1, <2>2
<1>7. \A s, t \in open' : s.token = t.token => s = t
  BY <1>3, <1>4 DEF TableInv
<1>8. new \notin open /\ \A d \in Conns : session[d] # None => session[d] # new
  BY <1>2, <1>3, FreshIsFresh DEF InUse
<1>9. \A d \in Conns : session'[d] = IF d = c THEN new ELSE session[d]
  BY <1>4 DEF TableInv
<1>10. \A d, e \in Conns : d # e /\ session'[d] # None => session'[d] # session'[e]
  BY <1>8, <1>9, NoneIsNoSession, <1>2 DEF TableInv
<1>11. overwritten' = (overwritten \cup {session[c]}) \cap open
  BY DEF Login
<1>12. \A d \in Conns : session'[d] \notin overwritten'
  <2> TAKE d \in Conns
  <2>1. CASE d = c
    BY <2>1, <1>8, <1>9, <1>11
  <2>2. CASE d # c /\ session[d] # None
    BY <2>2, <1>9, <1>11 DEF TableInv
  <2>3. CASE d # c /\ session[d] = None
    BY <2>3, <1>9, <1>11, NoneIsNoSession DEF TableInv
  <2> QED
    BY <2>1, <2>2, <2>3
<1>13. session' = [d \in Conns |-> session'[d]]
  BY <1>4 DEF TableInv
<1>14. \A d \in Conns : session'[d] # None => session'[d] \in SessionType
  BY <1>2, <1>9 DEF TableInv
<1> QED
  BY <1>2, <1>4, <1>5, <1>6, <1>7, <1>10, <1>12, <1>13, <1>14 DEF TableInv

LEMMA TableStep ==
  ASSUME TableInv, Next
  PROVE  TableInv'
<1>1. CASE UNCHANGED <<session, open, overwritten>>
  BY <1>1 DEF TableInv
<1>2. ASSUME NEW c \in Conns, Login(c)
      PROVE  TableInv'
  BY <1>2, LoginKeepsTable
<1>3. ASSUME NEW c \in Conns, CloseSession(c)
      PROVE  TableInv'
  <2>1. open' = open \ {session[c]} /\ overwritten' = overwritten /\ session' = [session EXCEPT ![c] = None]
    BY <1>3 DEF CloseSession
  <2>2. overwritten \subseteq open' /\ None \notin overwritten
    BY <2>1, NoneIsNoSession DEF TableInv
  <2>3. session' = [d \in Conns |-> session'[d]] /\ \A d \in Conns : session'[d] \in {session[d], None}
    BY <2>1 DEF TableInv
  <2> QED
    BY <2>1, <2>2, <2>3, FewerSessions
<1>4. CASE Expire
  <2>1. PICK s \in open : open' = open \ {s}
    BY <1>4 DEF Expire
  <2>2. session' = session /\ overwritten' = overwritten \cap open' /\ None \notin overwritten
    BY <1>4, NoneIsNoSession DEF Expire, threads, TableInv
  <2>3. session' = [d \in Conns |-> session'[d]] /\ \A d \in Conns : session'[d] \in {session[d], None}
    BY <2>2 DEF TableInv
  <2> QED
    BY <2>1, <2>2, <2>3, FewerSessions
<1>5. CASE Exit \/ Crash
  <2>1. IsFiniteSet({}) /\ Cardinality({}) <= MaxSessions
    BY ServerAssumption, FS_EmptySet
  <2>2. open' = {} /\ overwritten' = {} /\ session' = [c \in Conns |-> None]
    BY <1>5 DEF Exit, Crash, ProcessEnds, NoThreads
  <2> QED
    BY <2>1, <2>2 DEF TableInv
<1>6. CASE Start \/ Loop \/ AcceptFails \/ SemWait \/ Signal \/ ShutdownSave \/ Saving \/ SaveDone \/ Destroy
  BY <1>1, <1>6 DEF Start, Loop, AcceptFails, SemWait, Signal, ShutdownSave, Saving, SaveDone, Destroy, threads, table
<1>7. ASSUME NEW c \in Conns, \/ Accept(c) \/ Spawn(c) \/ HangUp(c) \/ Post(c) \/ Add(c) \/ Delete(c) \/ NoChange(c)
                              \/ \E action \in Commands : Authorize(c, action)
      PROVE  TableInv'
  BY <1>1, <1>7 DEF Accept, Spawn, HangUp, Post, Add, Delete, NoChange, Authorize, Done, table
<1>8. ASSUME NEW c \in Conns, Logout(c) \/ Close(c)
      PROVE  TableInv'
  BY <1>3, <1>8 DEF Logout, Close
<1> QED
  BY <1>2, <1>4, <1>5, <1>6, <1>7, <1>8 DEF Next

ThreadTypeOK ==
  /\ pc \in {"off", "loop", "accept", "wait", "spawn", "close", "save", "destroy", "free", "ended"}
  /\ signals \in 0..2
  /\ place \in [Conns -> {"none", "accepted", "serving", "closing", "posting"}]
  /\ doing \in [Conns -> Commands \cup {"none"}]
  /\ late \subseteq Subscribers

LEMMA ThreadInit == Init => ThreadTypeOK
<1>1. 0 \in 0..2
  OBVIOUS
<1> QED
  BY <1>1 DEF Init, NoThreads, ThreadTypeOK

LEMMA ThreadStep ==
  ASSUME FilesTypeOK, ThreadTypeOK, Next
  PROVE  ThreadTypeOK'
<1> USE DEF ThreadTypeOK
<1>1. CASE Start \/ Loop \/ AcceptFails \/ SemWait \/ ShutdownSave \/ SaveDone \/ Destroy
  BY <1>1 DEF Start, Loop, AcceptFails, SemWait, ShutdownSave, SaveDone, Destroy, threads
<1>2. CASE Saving \/ Expire
  BY <1>2 DEF Saving, Expire, main, threads
<1>3. CASE Signal
  <2>1. signals' \in 0..2
    BY <1>3 DEF Signal
  <2>2. place' \in [Conns -> {"none", "accepted", "serving", "closing", "posting"}]
    BY <1>3 DEF Signal
  <2>3. pc' \in {pc, "loop", "spawn"} /\ UNCHANGED <<doing, late>>
    BY <1>3 DEF Signal
  <2> QED
    BY <2>1, <2>2, <2>3
<1>4. ASSUME NEW c \in Conns, Accept(c) \/ Spawn(c) \/ HangUp(c) \/ Close(c) \/ Post(c) \/ Login(c) \/ Logout(c)
      PROVE  ThreadTypeOK'
  BY <1>4 DEF Accept, Spawn, HangUp, Close, Post, Login, Logout, main
<1>5. ASSUME NEW c \in Conns, NEW action \in Commands, Authorize(c, action)
      PROVE  ThreadTypeOK'
  BY <1>5 DEF Authorize, main
<1>6. ASSUME NEW c \in Conns, Add(c) \/ Delete(c) \/ NoChange(c)
      PROVE  ThreadTypeOK'
  <2>1. doing' = [doing EXCEPT ![c] = "none"] /\ UNCHANGED <<pc, signals, place>>
    BY <1>6 DEF Add, Delete, NoChange, Done, main
  <2>2. late' \subseteq Subscribers
    BY <1>6 DEF Add, Delete, NoChange, FilesTypeOK
  <2> QED
    BY <2>1, <2>2
<1>7. CASE Exit \/ Crash
  <2>1. 0 \in 0..2
    OBVIOUS
  <2> QED
    BY <1>7, <2>1 DEF Exit, Crash, ProcessEnds, NoThreads
<1> QED
  BY <1>1, <1>2, <1>3, <1>4, <1>5, <1>6, <1>7 DEF Next

LEMMA FilesTypeStep ==
  ASSUME FilesTypeOK, SaveInv, Next
  PROVE  FilesTypeOK'
<1>1. CASE Start
  <2>1. disk[Data] \in FileType
    BY ServerAssumption DEF FilesTypeOK
  <2> QED
    BY <1>1, <2>1, LoadAdds, DbChangeKeepsType DEF Start
<1>2. CASE ShutdownSave
  BY <1>2, SaveOpenKeepsType, ServerAssumption DEF ShutdownSave
<1>3. CASE Saving
  BY <1>3, SaveStepKeepsType DEF Saving
<1>4. CASE Destroy
  BY <1>4, DbChangeKeepsType DEF Destroy, DestroyDb, ClashFree
<1>5. CASE Exit \/ Crash
  BY <1>5, LoseMemoryKeepsType DEF Exit, Crash, ProcessEnds
<1>6. ASSUME NEW c \in Conns, Add(c) \/ Delete(c) \/ NoChange(c)
      PROVE  FilesTypeOK'
  <2>1. db' \subseteq Subscribers /\ ClashFree(db)' /\ UNCHANGED <<files, save>>
    BY <1>6 DEF Add, Delete, NoChange, Done, FilesTypeOK, ClashFree
  <2> QED
    BY <2>1, DbChangeKeepsType
<1>7. CASE UNCHANGED store
  BY <1>7 DEF store, files, save, FilesTypeOK, ClashFree
<1>8. CASE Loop \/ AcceptFails \/ SemWait \/ Signal \/ Expire \/ SaveDone
  BY <1>7, <1>8 DEF Loop, AcceptFails, SemWait, Signal, Expire, SaveDone
<1>9. ASSUME NEW c \in Conns,
             \/ Accept(c) \/ Spawn(c) \/ Login(c) \/ Logout(c) \/ HangUp(c) \/ Close(c) \/ Post(c)
             \/ \E action \in Commands : Authorize(c, action)
      PROVE  FilesTypeOK'
  BY <1>7, <1>9 DEF Accept, Spawn, Login, Logout, HangUp, Close, Post, Authorize
<1> QED
  BY <1>1, <1>2, <1>3, <1>4, <1>5, <1>6, <1>8, <1>9 DEF Next

(* Every variable keeps its type; no two subscribers share a key, no two     *)
(* open sessions a token, and the session table is never overfull.           *)
THEOREM TypeCorrect == Spec => []TypeOK
<1> DEFINE Inv == FilesTypeOK /\ SaveInv /\ ThreadTypeOK /\ TableInv /\ SlotInv
<1>1. Init => Inv
  <2>1. Init => FilesTypeOK /\ SaveInv
    BY FilesTypeInit, SaveInvInit DEF Init
  <2> QED
    BY <2>1, ThreadInit, TableInit, SlotInit
<1>2. Inv /\ [Next]_vars => Inv'
  <2>1. Inv /\ Next => Inv'
    BY FilesTypeStep, SaveInvStays, ThreadStep, TableStep, SlotStep
  <2>2. ASSUME Inv, UNCHANGED vars PROVE Inv'
    <3>1. UNCHANGED <<db, disk, tmp, saving, step, listed, todo, write_ok, result, pc, signals, slots, place,
                      session, doing, open, overwritten, late>>
      BY <2>2 DEF vars, store, files, save, main, threads, table
    <3>2. FilesTypeOK' /\ ThreadTypeOK' /\ TableInv'
      BY <2>2, <3>1 DEF FilesTypeOK, ClashFree, ThreadTypeOK, TableInv
    <3>3. SlotInv'
      BY <2>2, <3>1, SameHolding DEF Holding, SlotInv
    <3> QED
      BY <2>2, <3>2, <3>3, SaveInvStays
  <2> QED
    BY <2>1, <2>2
<1>3. Inv => TypeOK
  <2>1. SlotInv => slots \in 0..(MaxClients + 1)
    BY HoldingFinite, ServerAssumption DEF SlotInv, Taken, Shutdown
  <2> QED
    BY <2>1 DEF ThreadTypeOK, TableInv, TypeOK
<1> QED
  BY <1>1, <1>2, <1>3, PTL DEF Spec
===============================================================================
