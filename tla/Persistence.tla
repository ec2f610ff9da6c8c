----------------------------- MODULE Persistence -----------------------------
(* Saving, loading, backing up and restoring the subscriber database         *)
(* (subscriber.c:825-996): a save writes <path>.tmp, removes <path> and      *)
(* renames; every one of its steps can fail, and the process can die between *)
(* any two.  CommandLine and Server are the programs that do this.           *)
EXTENDS Integers, FiniteSets

CONSTANTS
  Subscribers,     \* records [imsi, msisdn, text]; text is name, region, plan, status
  Junk,            \* a line that is malformed or whose fields are not valid
  Paths,           \* files a save may be told to write
  InitialDisks,    \* what the files may hold at first
  None

Clash(a, b)   == a.imsi = b.imsi \/ a.msisdn = b.msisdn
ClashFree(S)  == \A a, b \in S : a # b => ~Clash(a, b)

\* A file is absent, there without the header, or there with it; the order of
\* its lines is that of a hash table and means nothing.  An id is written, and
\* ignored by a load, which issues new ones.
Absent   == [kind |-> "absent", rows |-> {}]
Headless == [kind |-> "headless", rows |-> {}]
File(S)  == [kind |-> "csv", rows |-> S]

VARIABLES
  db,                  \* the subscribers in memory
  disk, tmp,           \* <path> and <path>.tmp
  saving, step,        \* the path a save is writing, or None, and how far it is
  listed, todo,        \* the snapshot it writes, and the rows still to write
  write_ok, result     \* its flag, and what the last save returned

files == <<disk, tmp>>
save  == <<saving, step, listed, todo, write_ok, result>>
store == <<db, files, save>>

FilesInit ==
  /\ db = {}
  /\ disk \in InitialDisks /\ tmp = [p \in Paths |-> Absent]
  /\ saving = None /\ step = "done" /\ listed = {} /\ todo = {}
  /\ write_ok = TRUE /\ result = "OK"

-------------------------------------------------------------------------------
\* subdb_save_csv.  How it ends: what it returns, and on most paths of failure
\* the temporary file, which it has just made, is removed.
Ends(status) ==
  /\ saving' = None /\ step' = "done" /\ listed' = {} /\ todo' = {} /\ write_ok' = TRUE
  /\ result' = status
  /\ UNCHANGED db
DropTmp == tmp' = [tmp EXCEPT ![saving] = Absent]
Goes(next) == step' = next /\ UNCHANGED <<db, saving, result>>

\* A call starts a save; it fails at once if <path>.tmp cannot be opened.
SaveOpen(p) ==
  /\ saving = None
  /\ \/ /\ tmp' = [tmp EXCEPT ![p] = Headless]
        /\ saving' = p /\ step' = "header" /\ UNCHANGED <<listed, todo, write_ok, result, db>>
     \/ Ends("IO") /\ UNCHANGED tmp
  /\ UNCHANGED disk

\* A header that cannot be written ends the save and leaves the file behind.
SaveHeader ==
  /\ step = "header"
  /\ \/ /\ tmp' = [tmp EXCEPT ![saving] = File({})]
        /\ Goes("list") /\ UNCHANGED <<listed, todo, write_ok>>
     \/ Ends("IO") /\ UNCHANGED tmp
  /\ UNCHANGED disk

\* subdb_list_all copies the database under its lock, or has no memory for it.
SaveList ==
  /\ step = "list"
  /\ \/ listed' = db /\ todo' = db /\ Goes("rows") /\ UNCHANGED <<write_ok, tmp>>
     \/ Ends("ALLOC_FAILED") /\ DropTmp
  /\ UNCHANGED disk

SaveRow ==
  /\ step = "rows" /\ todo # {}
  /\ \/ \E s \in todo :
          /\ tmp' = [tmp EXCEPT ![saving].rows = @ \cup {s}]
          /\ todo' = todo \ {s}
          /\ UNCHANGED write_ok
     \/ write_ok' = FALSE /\ todo' = {} /\ UNCHANGED tmp
  /\ Goes("rows") /\ UNCHANGED <<listed, disk>>

\* Slip: only the flush is asked whether the writing worked.
SaveFlushForgetsRows ==
  /\ step = "rows" /\ todo = {}
  /\ \/ Goes("unlink") /\ UNCHANGED <<listed, todo, write_ok, tmp>>
     \/ Ends("IO") /\ DropTmp
  /\ UNCHANGED disk

SaveFlush ==
  /\ step = "rows" /\ todo = {}
  /\ \/ write_ok /\ Goes("unlink") /\ UNCHANGED <<listed, todo, write_ok, tmp>>
     \/ Ends("IO") /\ DropTmp
  /\ UNCHANGED disk

\* remove(path): ENOENT is as good as success.
SaveUnlink ==
  /\ step = "unlink"
  /\ \/ /\ disk' = [disk EXCEPT ![saving] = Absent]
        /\ Goes("rename") /\ UNCHANGED <<listed, todo, write_ok, tmp>>
     \/ disk[saving] # Absent /\ Ends("IO") /\ DropTmp /\ UNCHANGED disk

SaveRename ==
  /\ step = "rename"
  /\ \/ /\ disk' = [disk EXCEPT ![saving] = tmp[saving]]
        /\ tmp' = [tmp EXCEPT ![saving] = Absent]
        /\ Ends("OK")
     \/ Ends("IO") /\ DropTmp /\ UNCHANGED disk

SaveStep == SaveHeader \/ SaveList \/ SaveRow \/ SaveFlush \/ SaveUnlink \/ SaveRename

-------------------------------------------------------------------------------
\* Slip: every row is taken, clashing or not.
LoadFileUnchecked(file) ==
  IF file.kind # "csv" THEN UNCHANGED db ELSE db' = db \cup (file.rows \ {Junk})

\* subdb_load_csv: without the file or its header nothing happens; a line that is junk, that clashes with a
\* subscriber already there, or whose add finds no memory, is skipped.
LoadFile(file) ==
  IF file.kind # "csv" THEN UNCHANGED db
  ELSE \E unlucky \in SUBSET (file.rows \ {Junk}) :
         LET rows == file.rows \ ({Junk} \cup unlucky)
         IN  \E new \in SUBSET rows :
               /\ ClashFree(db \cup new)
               /\ \A r \in rows \ new : \E s \in db \cup new : Clash(r, s)
               /\ db' = db \cup new

\* subdb_backup is a save under a name made from the time; subdb_restore looks
\* at the count, for a warning, and loads.
BackupTo(p)       == SaveOpen(p)
RestoreFrom(file) == LoadFile(file)

\* subdb_destroy, under the lock: every subscriber goes back to its pool.
DestroyDb == db' = {}

\* The process dies: memory is gone, <path>.tmp holds what had reached it.
LoseMemory ==
  /\ db' = {} /\ saving' = None /\ step' = "done" /\ listed' = {} /\ todo' = {}
  /\ write_ok' = TRUE /\ result' = "OK"
  /\ IF saving = None THEN UNCHANGED tmp
     ELSE \E S \in SUBSET tmp[saving].rows : tmp' = [tmp EXCEPT ![saving].rows = S]
  /\ UNCHANGED disk

-------------------------------------------------------------------------------
FileType == [kind : {"absent", "headless", "csv"}, rows : SUBSET (Subscribers \cup {Junk})]

ASSUME FilesAssumption == InitialDisks \subseteq [Paths -> FileType] /\ None \notin Paths

FilesTypeOK ==
  /\ db \subseteq Subscribers /\ ClashFree(db)
  /\ disk \in [Paths -> FileType] /\ tmp \in [Paths -> FileType]
  /\ saving \in Paths \cup {None}
  /\ step \in {"header", "list", "rows", "unlink", "rename", "done"}
  /\ listed \subseteq Subscribers /\ todo \subseteq listed
  /\ write_ok \in BOOLEAN /\ result \in {"OK", "IO", "ALLOC_FAILED"}
===============================================================================
