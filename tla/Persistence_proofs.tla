-------------------------- MODULE Persistence_proofs --------------------------
(* What a save has written so far, and that what it puts in place is all of  *)
(* its snapshot: for any subscribers, paths and files.  CommandLine_proofs   *)
(* and Server_proofs use these lemmas for the programs that save.            *)
EXTENDS Persistence, TLAPS

(* The temporary file is the part of the snapshot that is no longer to do,   *)
(* as long as every row could be written, and all of it from the flush on.   *)
SaveInv ==
  /\ disk = [p \in Paths |-> disk[p]] /\ tmp = [p \in Paths |-> tmp[p]]
  /\ step \in {"header", "list", "rows", "unlink", "rename", "done"}
  /\ step # "done" => saving \in Paths
  /\ step = "list" => tmp[saving] = File({})
  /\ step = "rows" /\ write_ok => todo \subseteq listed /\ tmp[saving] = File(listed \ todo)
  /\ step \in {"unlink", "rename"} => tmp[saving] = File(listed)

LEMMA SaveInvInit == FilesInit => SaveInv
  BY FilesAssumption DEF FilesInit, SaveInv

LEMMA SaveOpenKeeps ==
  ASSUME SaveInv, NEW p \in Paths, SaveOpen(p)
  PROVE  SaveInv'
  BY DEF SaveInv, SaveOpen, Ends

LEMMA SaveStepKeeps ==
  ASSUME SaveInv, SaveStep
  PROVE  SaveInv'
<1>1. CASE SaveHeader
  BY <1>1 DEF SaveInv, SaveHeader, Goes, Ends
<1>2. CASE SaveList
  BY <1>2 DEF SaveInv, SaveList, Goes, Ends, DropTmp
<1>3. CASE SaveRow
  <2>1. CASE write_ok' = FALSE /\ UNCHANGED tmp
    BY <1>3, <2>1 DEF SaveInv, SaveRow, Goes
  <2>2. ASSUME NEW s \in todo, write_ok, todo' = todo \ {s},
               tmp' = [tmp EXCEPT ![saving].rows = @ \cup {s}]
        PROVE  SaveInv'
    <3>1. saving \in Paths /\ step = "rows" /\ step' = "rows" /\ UNCHANGED <<saving, listed, disk>>
      BY <1>3 DEF SaveInv, SaveRow, Goes
    <3>2. todo \subseteq listed /\ tmp[saving] = File(listed \ todo)
      BY <3>1, <2>2 DEF SaveInv
    <3>3. tmp'[saving] = [tmp[saving] EXCEPT !.rows = @ \cup {s}]
      BY <2>2, <3>1 DEF SaveInv
    <3>4. tmp'[saving] = File((listed \ todo) \cup {s})
      BY <3>2, <3>3 DEF File
    <3>5. (listed \ todo) \cup {s} = listed \ todo'
      BY <3>2, <2>2
    <3>6. tmp' = [p \in Paths |-> tmp'[p]]
      BY <2>2, <3>1 DEF SaveInv
    <3> QED
      BY <3>1, <3>2, <3>4, <3>5, <3>6, <2>2 DEF SaveInv
  <2>3. ASSUME NEW s \in todo, ~write_ok, UNCHANGED write_ok,
               tmp' = [tmp EXCEPT ![saving].rows = @ \cup {s}]
        PROVE  SaveInv'
    BY <1>3, <2>3 DEF SaveInv, SaveRow, Goes
  <2> QED
    BY <1>3, <2>1, <2>2, <2>3 DEF SaveRow
<1>4. CASE SaveFlush
  <2>1. CASE Ends("IO") /\ DropTmp
    BY <1>4, <2>1 DEF SaveInv, SaveFlush, Ends, DropTmp
  <2>2. CASE write_ok /\ Goes("unlink") /\ UNCHANGED <<listed, todo, write_ok, tmp>>
    <3>1. tmp[saving] = File(listed \ todo) /\ listed \ todo = listed
      BY <1>4, <2>2 DEF SaveInv, SaveFlush
    <3> QED
      BY <1>4, <2>2, <3>1 DEF SaveInv, SaveFlush, Goes
  <2> QED
    BY <1>4, <2>1, <2>2 DEF SaveFlush
<1>5. CASE SaveUnlink
  BY <1>5 DEF SaveInv, SaveUnlink, Goes, Ends, DropTmp
<1>6. CASE SaveRename
  BY <1>6 DEF SaveInv, SaveRename, Ends, DropTmp
<1> QED
  BY <1>1, <1>2, <1>3, <1>4, <1>5, <1>6 DEF SaveStep

LEMMA LoseMemoryKeeps ==
  ASSUME SaveInv, LoseMemory
  PROVE  SaveInv'
  BY DEF SaveInv, LoseMemory

LEMMA UnchangedKeeps ==
  ASSUME SaveInv, UNCHANGED <<files, saving, step, listed, todo, write_ok>>
  PROVE  SaveInv'
  BY DEF SaveInv, files

(* A step of a save takes the file away or puts the whole snapshot there.    *)
LEMMA StepWritesMoments ==
  ASSUME SaveInv, SaveStep, NEW p \in Paths, disk'[p] # disk[p]
  PROVE  disk'[p] \in {Absent, File(listed)}
<1>1. CASE SaveUnlink
  BY <1>1 DEF SaveInv, SaveUnlink
<1>2. CASE SaveRename
  BY <1>2 DEF SaveInv, SaveRename
<1>3. CASE SaveHeader \/ SaveList \/ SaveRow \/ SaveFlush
  BY <1>3 DEF SaveHeader, SaveList, SaveRow, SaveFlush
<1> QED
  BY <1>1, <1>2, <1>3 DEF SaveStep

-----------------------------------------------------------------------------
(* Types: what is on the disk and in memory are subscribers, and no two in   *)
(* memory share a key, whatever a file brings.                               *)

LEMMA EmptyFiles == Absent \in FileType /\ Headless \in FileType
  BY DEF Absent, Headless, FileType

LEMMA FileOfSubscribers ==
  ASSUME NEW S \in SUBSET Subscribers
  PROVE  File(S) \in FileType
  BY DEF File, FileType

LEMMA FilesTypeInit == FilesInit => FilesTypeOK
  BY FilesAssumption, EmptyFiles DEF FilesInit, FilesTypeOK, ClashFree

LEMMA EndsKeepsType ==
  ASSUME FilesTypeOK, NEW status \in {"OK", "IO", "ALLOC_FAILED"}, Ends(status),
         disk' \in [Paths -> FileType], tmp' \in [Paths -> FileType]
  PROVE  FilesTypeOK'
  BY DEF FilesTypeOK, Ends, ClashFree

LEMMA SaveOpenKeepsType ==
  ASSUME FilesTypeOK, NEW p \in Paths, SaveOpen(p)
  PROVE  FilesTypeOK'
<1>1. CASE tmp' = [tmp EXCEPT ![p] = Headless] /\ saving' = p /\ step' = "header"
           /\ UNCHANGED <<listed, todo, write_ok, result, db>>
  BY <1>1, EmptyFiles DEF FilesTypeOK, SaveOpen, ClashFree
<1>2. CASE Ends("IO") /\ UNCHANGED tmp
  BY <1>2, EndsKeepsType DEF FilesTypeOK, SaveOpen
<1> QED
  BY <1>1, <1>2 DEF SaveOpen

LEMMA SaveStepKeepsType ==
  ASSUME FilesTypeOK, SaveInv, SaveStep
  PROVE  FilesTypeOK'
<1>1. saving \in Paths
  BY DEF SaveInv, SaveStep, SaveHeader, SaveList, SaveRow, SaveFlush, SaveUnlink, SaveRename
<1>2. ASSUME DropTmp
      PROVE  tmp' \in [Paths -> FileType]
  BY <1>1, <1>2, EmptyFiles DEF DropTmp, FilesTypeOK
<1>3. ASSUME NEW status \in {"OK", "IO", "ALLOC_FAILED"}, Ends(status),
             disk' \in [Paths -> FileType], DropTmp \/ UNCHANGED tmp
      PROVE  FilesTypeOK'
  BY <1>2, <1>3, EndsKeepsType DEF FilesTypeOK
<1>4. CASE SaveHeader
  <2>1. CASE Ends("IO") /\ UNCHANGED <<tmp, disk>>
    BY <1>3, <2>1 DEF FilesTypeOK
  <2>2. CASE tmp' = [tmp EXCEPT ![saving] = File({})] /\ Goes("list") /\ UNCHANGED <<listed, todo, write_ok, disk>>
    BY <1>1, <2>2, FileOfSubscribers DEF FilesTypeOK, Goes, ClashFree
  <2> QED
    BY <1>4, <2>1, <2>2 DEF SaveHeader
<1>5. CASE SaveList
  <2>1. CASE Ends("ALLOC_FAILED") /\ DropTmp /\ UNCHANGED disk
    BY <1>3, <2>1 DEF FilesTypeOK
  <2>2. CASE listed' = db /\ todo' = db /\ Goes("rows") /\ UNCHANGED <<write_ok, tmp, disk>>
    BY <2>2 DEF FilesTypeOK, Goes, ClashFree
  <2> QED
    BY <1>5, <2>1, <2>2 DEF SaveList
<1>6. CASE SaveRow
  <2>1. UNCHANGED <<db, saving, result, listed, disk>> /\ step' = "rows"
    BY <1>6 DEF SaveRow, Goes
  <2>2. todo' \subseteq listed /\ write_ok' \in BOOLEAN
    BY <1>6 DEF SaveRow, FilesTypeOK
  <2>3. tmp' \in [Paths -> FileType]
    <3>1. CASE UNCHANGED tmp
      BY <3>1 DEF FilesTypeOK
    <3>2. ASSUME NEW s \in todo, tmp' = [tmp EXCEPT ![saving].rows = @ \cup {s}]
          PROVE  tmp' \in [Paths -> FileType]
      <4>1. s \in Subscribers /\ tmp[saving] \in FileType
        BY <1>1 DEF FilesTypeOK
      <4>2. [tmp[saving] EXCEPT !.rows = @ \cup {s}] \in FileType
        BY <4>1 DEF FileType
      <4> QED
        BY <3>2, <4>2 DEF FilesTypeOK
    <3> QED
      BY <1>6, <3>1, <3>2 DEF SaveRow
  <2> QED
    BY <2>1, <2>2, <2>3 DEF FilesTypeOK, ClashFree
<1>7. CASE SaveFlush
  <2>1. CASE Ends("IO") /\ DropTmp /\ UNCHANGED disk
    BY <1>3, <2>1 DEF FilesTypeOK
  <2>2. CASE Goes("unlink") /\ UNCHANGED <<listed, todo, write_ok, tmp, disk>>
    BY <2>2 DEF FilesTypeOK, Goes, ClashFree
  <2> QED
    BY <1>7, <2>1, <2>2 DEF SaveFlush
<1>8. CASE SaveUnlink
  <2>1. CASE Ends("IO") /\ DropTmp /\ UNCHANGED disk
    BY <1>3, <2>1 DEF FilesTypeOK
  <2>2. CASE disk' = [disk EXCEPT ![saving] = Absent] /\ Goes("rename") /\ UNCHANGED <<listed, todo, write_ok, tmp>>
    BY <1>1, <2>2, EmptyFiles DEF FilesTypeOK, Goes, ClashFree
  <2> QED
    BY <1>8, <2>1, <2>2 DEF SaveUnlink
<1>9. CASE SaveRename
  <2>1. CASE Ends("IO") /\ DropTmp /\ UNCHANGED disk
    BY <1>3, <2>1 DEF FilesTypeOK
  <2>2. CASE disk' = [disk EXCEPT ![saving] = tmp[saving]] /\ tmp' = [tmp EXCEPT ![saving] = Absent] /\ Ends("OK")
    BY <1>1, <2>2, EmptyFiles, EndsKeepsType DEF FilesTypeOK
  <2> QED
    BY <1>9, <2>1, <2>2 DEF SaveRename
<1> QED
  BY <1>4, <1>5, <1>6, <1>7, <1>8, <1>9 DEF SaveStep

LEMMA LoseMemoryKeepsType ==
  ASSUME FilesTypeOK, SaveInv, LoseMemory
  PROVE  FilesTypeOK'
<1>1. tmp' \in [Paths -> FileType]
  <2>1. CASE UNCHANGED tmp
    BY <2>1 DEF FilesTypeOK
  <2>2. ASSUME saving # None, NEW S \in SUBSET tmp[saving].rows, tmp' = [tmp EXCEPT ![saving].rows = S]
        PROVE  tmp' \in [Paths -> FileType]
    <3>1. tmp[saving] \in FileType
      BY <2>2 DEF FilesTypeOK
    <3>2. [tmp[saving] EXCEPT !.rows = S] \in FileType
      BY <2>2, <3>1 DEF FileType
    <3> QED
      BY <2>2, <3>2 DEF FilesTypeOK
  <2> QED
    BY <2>1, <2>2 DEF LoseMemory
<1> QED
  BY <1>1 DEF FilesTypeOK, LoseMemory, ClashFree

(* A load only adds, and what it adds clashes with nothing.                  *)
LEMMA LoadAdds ==
  ASSUME FilesTypeOK, NEW file \in FileType, LoadFile(file)
  PROVE  db \subseteq db' /\ db' \subseteq Subscribers /\ ClashFree(db)'
<1>1. CASE file.kind # "csv"
  BY <1>1 DEF LoadFile, FilesTypeOK, ClashFree
<1>2. CASE file.kind = "csv"
  <2>1. PICK new \in SUBSET (file.rows \ {Junk}) : ClashFree(db \cup new) /\ db' = db \cup new
    BY <1>2 DEF LoadFile
  <2> QED
    BY <2>1 DEF FilesTypeOK, FileType, ClashFree
<1> QED
  BY <1>1, <1>2

(* Changes of the database alone.                                            *)
LEMMA DbChangeKeepsType ==
  ASSUME FilesTypeOK, db' \subseteq Subscribers, ClashFree(db)', UNCHANGED <<files, save>>
  PROVE  FilesTypeOK'
  BY DEF FilesTypeOK, files, save
===============================================================================
