----------------------------- MODULE CopyRotate -----------------------------
(***************************************************************************)
(* Rotation of somebody else's log by copying and truncating it            *)
(* (slogrus.RotateLogCheck), as the goroutine of RotateLogsMonitor does it *)
(* for a given file and that of RotateDirsMonitor for the files it finds   *)
(* in a directory, while an application appends lines to the log.          *)
(*                                                                         *)
(* A name is the time stamps in it and its suffix: x.log, x-T1.log,        *)
(* x-T1.log.gz, x-T1-T2.log.  A file is the sequence of the lines in it,   *)
(* and its size their number.  The pattern given to RotateDirsMonitor      *)
(* takes no compressed files, the application opens its log for appending, *)
(* and one monitor looks after a file.                                     *)
(***************************************************************************)
EXTENDS Integers, Sequences, FiniteSets, Functions

CONSTANTS
  MaxLines,      \* bound: the lines the application writes
  maxFileSize,
  maxBackups,    \* 0: keep all
  maxAge,        \* in ticks of the clock, 0: no limit
  LastTick,      \* bound
  Mishaps,       \* bound: crashes and errors
  Zones          \* what is tried: is local time "east" or "west" of Greenwich?

ASSUME CopyAssumption ==
    {MaxLines, maxFileSize, maxBackups, maxAge, LastTick, Mishaps} \subseteq Nat

VARIABLES
  lines,     \* written so far
  disk,      \* from the names of the files to their lines
  chk,       \* the goroutine of the monitor
  kind,      \* which monitor it is, "logs" or "dirs"
  zone,
  clock,
  mishaps,   \* crashes and errors so far
  late,      \* lines written between the end of a copy and its truncation
  dropped    \* lines of backups that were removed

copyVars == <<lines, disk, chk, kind, zone, clock, mishaps, late, dropped>>

TheLog == <<<<>>, "log">>
Unfinished == <<0>>     \* a compressed file that is not complete
Resting == [pc |-> "idle", files |-> {}, file |-> TheLog, backup |-> TheLog, remove |-> {}, compress |-> {}]

\* An error or a crash, if there may be another.
Mishap == mishaps < Mishaps /\ mishaps' = mishaps + 1

CopyInit ==
    /\ lines = 0 /\ disk = [f \in {} |-> <<>>]
    /\ chk = Resting /\ kind \in {"logs", "dirs"} /\ zone \in Zones
    /\ clock = 0 /\ mishaps = 0
    /\ late = {} /\ dropped = {}

Put(f, s) == [g \in DOMAIN disk \cup {f} |-> IF g = f THEN s ELSE disk[g]]
Unlink(f) == [g \in DOMAIN disk \ {f} |-> disk[g]]

-----------------------------------------------------------------------------
\* The application writes a line.
AppendLine ==
    /\ lines < MaxLines /\ lines' = lines + 1
    /\ disk' = Put(TheLog, Append(IF TheLog \in DOMAIN disk THEN disk[TheLog] ELSE <<>>, lines + 1))
    /\ late' = IF chk.pc = "truncate" /\ chk.file = TheLog THEN late \cup {lines + 1} ELSE late
    /\ UNCHANGED <<chk, clock, mishaps, dropped>>

\* GetOriginLogFiles leaves out what has a time stamp after its last "-".  The
\* stamp ends with the offset of local time, so west of Greenwich the last "-"
\* is within the stamp, and the backups are taken for logs.
notMatchLogBackup(f) == f[1] = <<>> \/ zone = "west"

\* sort.Strings: "-" is less than ".".
Sorts(f, g) ==
    \E i \in 1..Len(f[1]) :
        /\ \A j \in 1..(i - 1) : j <= Len(g[1]) /\ f[1][j] = g[1][j]
        /\ i > Len(g[1]) \/ f[1][i] < g[1][i]

GetOriginLogFiles == {f \in DOMAIN disk : f[2] = "log" /\ notMatchLogBackup(f)}

\* The ticker fires: RotateLogsCheck or RotateDirsCheck.
Check ==
    /\ chk.pc = "idle"
    /\ chk' = [Resting EXCEPT !.pc = "stat", !.files = IF kind = "logs" THEN {TheLog} ELSE GetOriginLogFiles]
    /\ UNCHANGED <<lines, disk, clock, mishaps, late, dropped>>

\* ctx is done.
CheckStops ==
    /\ chk.pc = "idle"
    /\ chk' = [chk EXCEPT !.pc = "stopped"]
    /\ UNCHANGED <<lines, disk, clock, mishaps, late, dropped>>

First == CHOOSE f \in chk.files : \A g \in chk.files \ {f} : Sorts(f, g)

\* RotateLogCheck returns: the next file, whatever the error.
NextFile == chk' = [Resting EXCEPT !.pc = "stat", !.files = chk.files \ {First}]

\* A file that is not there or not too large is left alone.
NothingToDo ==
    /\ chk.pc = "stat"
    /\ IF chk.files = {} THEN chk' = Resting
       ELSE (First \in DOMAIN disk => Len(disk[First]) <= maxFileSize) /\ NextFile
    /\ UNCHANGED <<lines, disk, clock, mishaps, late, dropped>>

\* backupName, and copyFile's os.Create.  (Two backups of one file in the same
\* millisecond, where the second replaces the first, are left out.)
CreateBackup ==
    /\ chk.pc = "stat" /\ chk.files # {}
    /\ LET f == First
           backup == <<Append(f[1], clock), "log">>
       IN  /\ f \in DOMAIN disk /\ Len(disk[f]) > maxFileSize
           /\ backup \notin DOMAIN disk /\ <<backup[1], "gz">> \notin DOMAIN disk
           /\ disk' = Put(backup, <<>>)
           /\ chk' = [chk EXCEPT !.pc = "copy", !.file = f, !.backup = backup]
    /\ UNCHANGED <<lines, clock, mishaps, late, dropped>>

\* io.Copy reads on until there is no more ...
CopyLine ==
    /\ chk.pc = "copy" /\ Len(disk[chk.backup]) < Len(disk[chk.file])
    /\ disk' = Put(chk.backup, Append(disk[chk.backup], disk[chk.file][Len(disk[chk.backup]) + 1]))
    /\ UNCHANGED <<lines, chk, clock, mishaps, late, dropped>>

\* ... and the backup gets the owner and the mode of the log.
CopyEnds ==
    /\ chk.pc = "copy" /\ Len(disk[chk.backup]) = Len(disk[chk.file])
    /\ chk' = [chk EXCEPT !.pc = "truncate"]
    /\ UNCHANGED <<lines, disk, clock, mishaps, late, dropped>>

\* Mutant: an error of copyFile is only logged.
BackupFailsOn ==
    /\ Mishap /\ chk.pc \in {"copy", "truncate"}
    /\ chk' = [chk EXCEPT !.pc = "truncate"]
    /\ UNCHANGED <<lines, disk, clock, late, dropped>>

\* os.Stat, copyFile or os.Truncate fails: what was copied stays.
BackupFails ==
    /\ Mishap /\ chk.pc \in {"stat", "copy", "truncate"} /\ chk.files # {}
    /\ NextFile
    /\ UNCHANGED <<lines, disk, clock, late, dropped>>

TruncateLog ==
    /\ chk.pc = "truncate"
    /\ disk' = Put(chk.file, <<>>)
    /\ chk' = [chk EXCEPT !.pc = "list"]
    /\ UNCHANGED <<lines, clock, mishaps, late, dropped>>

-----------------------------------------------------------------------------
(* The old backups of the file.                                            *)

\* Those with one stamp more, which parses as a time.
getOldLogFiles(f) ==
    {g \in DOMAIN disk : Len(g[1]) = Len(f[1]) + 1 /\ SubSeq(g[1], 1, Len(f[1])) = f[1]}

StampOf(g) == g[1][Len(g[1])]
Newer(f, t) == {StampOf(g) : g \in {h \in getOldLogFiles(f) : StampOf(h) >= t}}

\* A backup and its compressed copy count once.
ListOld ==
    /\ chk.pc = "list"
    /\ LET old == getOldLogFiles(chk.file)
           many == {g \in old : maxBackups > 0 /\ Cardinality(Newer(chk.file, StampOf(g))) > maxBackups}
           aged == {g \in old \ many : maxAge > 0 /\ StampOf(g) < clock - maxAge}
       IN  chk' = [chk EXCEPT !.pc = "work", !.remove = many \cup aged,
                     !.compress = {g \in old \ (many \cup aged) : g[2] = "log"}]
    /\ UNCHANGED <<lines, disk, clock, mishaps, late, dropped>>

ListFails ==
    /\ Mishap /\ chk.pc = "list"
    /\ NextFile
    /\ UNCHANGED <<lines, disk, clock, late, dropped>>

RemoveOld(f) ==
    /\ chk.pc = "work" /\ f \in chk.remove
    /\ chk' = [chk EXCEPT !.remove = @ \ {f}]
    /\ \/ disk' = Unlink(f) /\ dropped' = dropped \cup Range(disk[f]) /\ UNCHANGED mishaps
       \/ Mishap /\ UNCHANGED <<disk, dropped>>
    /\ UNCHANGED <<lines, clock, late>>

\* GzipFile: the compressed file is created,
ZipStarts(f) ==
    /\ chk.pc = "work" /\ chk.remove = {} /\ f \in chk.compress
    /\ disk' = Put(<<f[1], "gz">>, Unfinished)
    /\ chk' = [chk EXCEPT !.pc = "zip", !.backup = f, !.compress = @ \ {f}]
    /\ UNCHANGED <<lines, clock, mishaps, late, dropped>>

\* ... filled
ZipFills ==
    /\ chk.pc = "zip"
    /\ disk' = Put(<<chk.backup[1], "gz">>, disk[chk.backup])
    /\ chk' = [chk EXCEPT !.pc = "unlink"]
    /\ UNCHANGED <<lines, clock, mishaps, late, dropped>>

ZipFails ==
    /\ Mishap /\ chk.pc \in {"zip", "unlink"}
    /\ chk' = [chk EXCEPT !.pc = "work"]
    /\ UNCHANGED <<lines, disk, clock, late, dropped>>

\* ... and the source removed.
ZipEnds ==
    /\ chk.pc = "unlink"
    /\ disk' = Unlink(chk.backup)
    /\ chk' = [chk EXCEPT !.pc = "work"]
    /\ UNCHANGED <<lines, clock, mishaps, late, dropped>>

CheckDone ==
    /\ chk.pc = "work" /\ chk.remove = {} /\ chk.compress = {}
    /\ NextFile
    /\ UNCHANGED <<lines, disk, clock, mishaps, late, dropped>>

-----------------------------------------------------------------------------
CopyTick ==
    /\ clock < LastTick /\ clock' = clock + 1
    /\ UNCHANGED <<lines, disk, chk, mishaps, late, dropped>>

\* The process of the monitor dies and starts again.
CheckCrash ==
    /\ Mishap
    /\ chk' = Resting
    /\ UNCHANGED <<lines, disk, clock, late, dropped>>

RotateLogCheck ==
    \/ NothingToDo \/ CreateBackup \/ CopyLine \/ CopyEnds \/ BackupFails \/ TruncateLog
    \/ ListOld \/ ListFails \/ (\E f \in chk.remove : RemoveOld(f))
    \/ (\E f \in chk.compress : ZipStarts(f)) \/ ZipFills \/ ZipFails \/ ZipEnds \/ CheckDone

CopyNext ==
    /\ AppendLine \/ Check \/ CheckStops \/ RotateLogCheck \/ CopyTick \/ CheckCrash
    /\ UNCHANGED <<kind, zone>>

CopySpec == CopyInit /\ [][CopyNext]_copyVars

-----------------------------------------------------------------------------
(* Properties. *)

\* A line that the application wrote is in the log or in a backup, unless it
\* came after the copy was complete and before the log was truncated, or its
\* backup was removed by number or age.
LinesKept ==
    \A m \in 1..lines : m \in (UNION {Range(disk[f]) : f \in DOMAIN disk}) \cup late \cup dropped

\* Backups follow each other in time, and the log follows them.
InTurn ==
    \A f, g \in DOMAIN disk :
        (f[1] # <<>> /\ (g[1] = <<>> \/ f[1][1] < g[1][1]) /\ ~(chk.pc \in {"copy", "truncate"} /\ f = chk.backup))
        => \A i \in DOMAIN disk[f], j \in DOMAIN disk[g] : disk[f][i] < disk[g][j] \/ disk[g][j] = 0

\* "the maximum number of backups" (comment of RotateLogsCheck), once a check
\* is over.
FewBackups ==
    chk.pc = "idle" /\ maxBackups > 0 => Cardinality(Newer(TheLog, 0)) <= maxBackups

\* Rotation by copying keeps the lines, whatever fails; and as long as nothing
\* has failed it keeps their order and the number of backups.
CopiesWhole == LinesKept /\ (mishaps = 0 => InTurn /\ FewBackups)
=============================================================================
