------------------------------- MODULE Logger -------------------------------
(***************************************************************************)
(* logger.c: one open log file or none, an early buffer for the lines of   *)
(* the time without a file, stderr as the last resort.                     *)
(*                                                                         *)
(* Lines are numbered as they pass the level filter.  A path leads to an   *)
(* inode or to none (0); an open file stays the inode it was opened as,    *)
(* whatever becomes of its path.  Mirroring to a terminal is left out: it  *)
(* adds lines to stderr and changes nothing else.                          *)
(*                                                                         *)
(* Operators with primes are the functions of logger.c; Settings has the   *)
(* actions that call them.                                                 *)
(* A definition named MutX is X with a plausible slip; no action uses it.  *)
(***************************************************************************)
EXTENDS Integers, Sequences

CONSTANTS
  LogPaths,   \* paths a log may have
  EarlyMax,   \* EARLY_LOG_MAX_MSGS
  MaxLines,   \* bound of the number of lines logged
  MaxInodes   \* bound of the number of files ever created

ASSUME LoggerConstantsOK ==
  /\ EarlyMax \in Nat
  /\ MaxLines \in Nat
  /\ MaxInodes \in Nat

VARIABLES
  handle,   \* log_file: an inode, 0 for NULL
  early,    \* early_log_buf: lines waiting for a file
  level,    \* current_log_level
  dir,      \* the inode each path leads to, 0 for none
  disk,     \* the lines in each inode, in order of creation
  lines,    \* lines accepted so far
  echoed,   \* lines that were printed to stderr
  spoilt    \* lines whose write into the file failed

logVars == <<handle, early, level, dir, disk, lines, echoed, spoilt>>

----------------------------------------------------------------------------
Levels == 0..3                   \* LOG_ERROR, LOG_WARN, LOG_INFO, LOG_DEBUG
LOG_INFO == 2
Inodes == 1..Len(disk)

\* The file fopen(path, "a") opens; a new one unless the path leads to one.
InodeOf(path) == IF dir[path] = 0 THEN Len(disk) + 1 ELSE dir[path]
DiskWith(path) == IF dir[path] = 0 THEN Append(disk, <<>>) ELSE disk

\* A successful fopen() in logger_init(): what waited goes into the file.
MutOpened(path) ==
  /\ handle' = InodeOf(path)
  /\ dir' = [dir EXCEPT ![path] = InodeOf(path)]
  /\ disk' = [DiskWith(path) EXCEPT ![InodeOf(path)] = @ \o early]
  /\ UNCHANGED early

Opened(path) ==
  /\ handle' = InodeOf(path)
  /\ dir' = [dir EXCEPT ![path] = InodeOf(path)]
  /\ disk' = [DiskWith(path) EXCEPT ![InodeOf(path)] = @ \o early]
  /\ early' = <<>>

logger_init(path, rc) ==
  \/ rc = 0 /\ Opened(path)
  \/ rc = -1 /\ handle' = 0 /\ UNCHANGED <<early, dir, disk>>

\* The probe fails and nothing changes; or it creates the file, the log is
\* closed and opened again, which may still fail.
logger_reopen(path, rc) ==
  \/ rc = -1 /\ UNCHANGED <<handle, early, dir, disk>>
  \/ rc = 0 /\ Opened(path)
  \/ /\ rc = -1
     /\ handle' = 0
     /\ dir' = [dir EXCEPT ![path] = InodeOf(path)]
     /\ disk' = DiskWith(path)
     /\ UNCHANGED early

MutBufferedOne ==
  /\ handle = 0
  /\ early' = IF Len(early) <= EarlyMax THEN Append(early, lines + 1) ELSE early
  /\ echoed' = echoed \cup {lines + 1}
  /\ UNCHANGED <<disk, spoilt>>

MutBuffered ==
  /\ handle = 0
  /\ early' = IF Len(early) < EarlyMax THEN Append(early, lines + 1) ELSE early
  /\ echoed' = IF Len(early) < EarlyMax THEN echoed \cup {lines + 1} ELSE echoed
  /\ UNCHANGED <<disk, spoilt>>

\* log_msg() without a file: stderr always, the buffer while there is room.
Buffered ==
  /\ handle = 0
  /\ early' = IF Len(early) < EarlyMax THEN Append(early, lines + 1) ELSE early
  /\ echoed' = echoed \cup {lines + 1}
  /\ UNCHANGED <<disk, spoilt>>

\* log_msg() with a file; when the write fails stderr gets a note of that only.
Written ==
  /\ handle # 0
  /\ \/ disk' = [disk EXCEPT ![handle] = Append(@, lines + 1)] /\ UNCHANGED spoilt
     \/ spoilt' = spoilt \cup {lines + 1} /\ UNCHANGED disk
  /\ UNCHANGED <<early, echoed>>

log_msg(l) ==
  /\ l <= level
  /\ lines < MaxLines
  /\ lines' = lines + 1
  /\ Buffered \/ Written
  /\ UNCHANGED <<handle, level, dir>>

LoggerInit ==
  /\ handle = 0 /\ early = <<>> /\ level = LOG_INFO
  /\ dir = [p \in LogPaths |-> 0] /\ disk = <<>>
  /\ lines = 0 /\ echoed = {} /\ spoilt = {}

LoggerTypeOK ==
  /\ handle \in 0..Len(disk)
  /\ early \in Seq(1..lines) /\ Len(early) <= EarlyMax
  /\ level \in Levels
  /\ dir \in [LogPaths -> 0..Len(disk)]
  /\ disk \in Seq(Seq(1..lines))
  /\ lines \in Nat
  /\ echoed \subseteq 1..lines /\ spoilt \subseteq 1..lines

----------------------------------------------------------------------------
RangeOf(s) == {s[k] : k \in 1..Len(s)}
Filed == UNION {RangeOf(disk[i]) : i \in Inodes}

\* Every line that passed the filter is in a file, or was printed to stderr,
\* or its write failed; one that waits in the early buffer was printed too
\* (logger.c, log_msg() and logger_init()).
LinesKept ==
  /\ (1..lines) = Filed \cup echoed \cup spoilt
  /\ RangeOf(early) \subseteq echoed

\* The lines of a file are in the order they were logged, those replayed from
\* the early buffer included, and no line is written twice: not into one file,
\* not into two, and none that waits in the buffer is in a file already
\* (logger.c, the replay and reset of the buffer in logger_init()).
LinesOrdered ==
  /\ \A i \in Inodes : \A j, k \in 1..Len(disk[i]) : j < k => disk[i][j] < disk[i][k]
  /\ \A j, k \in 1..Len(early) : j < k => early[j] < early[k]
  /\ \A i \in Inodes : RangeOf(disk[i]) \cap RangeOf(early) = {}
  /\ \A i, j \in Inodes : i # j => RangeOf(disk[i]) \cap RangeOf(disk[j]) = {}
============================================================================
