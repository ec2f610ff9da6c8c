-------------------------------- MODULE Logger --------------------------------
(* The log file of logger.c, its rotation to one backup and the view of its  *)
(* last lines in main.c.  A mutex makes every call one step; what fails is   *)
(* opening, renaming and writing; the process may die between calls.         *)
EXTENDS Integers, SequencesExt

CONSTANTS
  RotateMax,     \* g_rotate_max, in bytes; 0 for no rotation
  LongestLine,   \* what logger_log's buffer for the message leaves room for
  TailLines,     \* SM_LOG_TAIL_LINES
  MaxLines       \* bound: lines written to the file

ASSUME LoggerAssumption ==
  RotateMax \in Nat /\ {LongestLine, TailLines, MaxLines} \subseteq Nat \ {0}

VARIABLES
  log, backup,   \* <path> and <path>.1, as sequences of lines
  fp,            \* whether g_fp is the file; it is stderr's turn otherwise
  written,       \* history: how many lines went to the file
  stuck          \* history: a rename failed and none has worked since

logVars == <<log, backup, fp, written, stuck>>

LogInit == log = <<>> /\ backup = <<>> /\ fp = FALSE /\ written = 0 /\ stuck = FALSE

Bytes(lines) ==
  LET sum[i \in 0..Len(lines)] == IF i = 0 THEN 0 ELSE sum[i-1] + lines[i].size
  IN  sum[Len(lines)]

\* Slip: the file is made anew instead of appended to.
OpenTruncates ==
  /\ ~fp /\ fp' = TRUE /\ log' = <<>>
  /\ UNCHANGED <<backup, written, stuck>>

\* logger_init, once in a process; if it fails logging goes to stderr.
Open ==
  /\ ~fp /\ fp' = TRUE
  /\ UNCHANGED <<log, backup, written, stuck>>

\* logger_shutdown, or the end of the process: every line has been flushed.
Close ==
  /\ fp /\ fp' = FALSE
  /\ UNCHANGED <<log, backup, written, stuck>>

\* Slip: the file may be as long as the limit, and get another line.
FullLate == RotateMax # 0 /\ Bytes(log) > RotateMax

\* maybe_rotate: the length of the file, opened to append, is where ftell is.
Full == RotateMax # 0 /\ Bytes(log) >= RotateMax

\* The line of a logger_log that found the file as given.
Write(old) ==
  \/ \E size \in 1..LongestLine :
       /\ written < MaxLines /\ written' = written + 1
       /\ log' = Append(old, [number |-> written', size |-> size])
  \/ log' = old /\ UNCHANGED written

LogUnrotated == fp /\ ~Full /\ Write(log) /\ UNCHANGED <<backup, fp, stuck>>

\* Renaming may fail, and is forgotten; then opening may fail, and every line
\* from then on goes to stderr.
LogRotated ==
  /\ fp /\ Full
  /\ \E renamed, reopened \in BOOLEAN :
       /\ backup' = IF renamed THEN log ELSE backup
       /\ stuck' = ~renamed /\ fp' = reopened
       /\ LET old == IF renamed THEN <<>> ELSE log
          IN  IF reopened THEN Write(old) ELSE log' = old /\ UNCHANGED written

LogNext == Open \/ Close \/ LogUnrotated \/ LogRotated

LogSpec == LogInit /\ [][LogNext]_logVars

-------------------------------------------------------------------------------
\* action_view_logs: a ring of the last lines read, printed from the oldest.
\* Lines too long for its buffer, which come in pieces, are left out.
ReadLine(ring, line) ==
  [lines |-> [ring.lines EXCEPT ![ring.next] = line],
   next  |-> (ring.next + 1) % TailLines,
   count |-> IF ring.count < TailLines THEN ring.count + 1 ELSE ring.count]
NothingRead == [lines |-> [i \in 0..(TailLines - 1) |-> 0], next |-> 0, count |-> 0]
ReadAll(f) ==
  LET ring[i \in 0..Len(f)] == IF i = 0 THEN NothingRead ELSE ReadLine(ring[i-1], f[i])
  IN  ring[Len(f)]
Shown(f) ==
  LET ring  == ReadAll(f)
      start == IF ring.count < TailLines THEN 0 ELSE ring.next
  IN  [i \in 1..ring.count |-> ring.lines[(start + i - 1) % TailLines]]

-------------------------------------------------------------------------------
Lines == [number : 1..MaxLines, size : 1..LongestLine]

\* Every variable keeps its type, and the file outgrows the limit by less than
\* one line, unless renaming it keeps failing.
LogTypeOK ==
  /\ ToSet(log) \subseteq Lines /\ ToSet(backup) \subseteq Lines
  /\ fp \in BOOLEAN /\ stuck \in BOOLEAN /\ written \in 0..MaxLines
  /\ RotateMax # 0 /\ ~stuck => Bytes(log) < RotateMax + LongestLine

\* Backup and file together are the end of the log, in order and without gaps,
\* and at least RotateMax bytes of it, however rotation, failures and restarts
\* follow one another; what an administrator is shown is the end of the file.
RecentLinesKept ==
  LET kept == backup \o log
  IN  /\ \A i \in DOMAIN kept : kept[i].number = written - Len(kept) + i
      /\ Len(kept) < written => Bytes(kept) >= RotateMax
      /\ Shown(log) = SubSeq(log, Max({1, Len(log) - TailLines + 1}), Len(log))
===============================================================================
