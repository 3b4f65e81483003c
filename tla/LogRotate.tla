------------------------------ MODULE LogRotate ------------------------------
(***************************************************************************)
(* slogrus.LoggerRotate: callers put messages into a ring buffer, one      *)
(* goroutine (writeFromBuffToFile) takes all there is and writes it to the *)
(* log file, rotating the file when it would grow too large, and another   *)
(* (millRun) compresses and removes old backups.  Rotate and Close come    *)
(* from any goroutine.                                                     *)
(*                                                                         *)
(* Messages are numbered in the order of the calls of Write; a file is the *)
(* sequence of the messages in it.  The writer's section under l.mu is one *)
(* action with its failures as alternatives; the steps of the mill, which  *)
(* takes no lock, are actions of their own.  A crash may come between any  *)
(* two actions, and the process then starts again on the files it left.    *)
(***************************************************************************)
EXTENDS Integers, Sequences, FiniteSets, Functions

CONSTANTS
  SizeOf,       \* the sizes of the messages that will be written, in order
  MaxSize,      \* of the log file
  BuffSize,     \* of the ring buffer
  MaxBackups,   \* 0: keep all
  MaxAge,       \* in ticks of the clock, 0: no limit
  Compress,
  MaxTime,      \* bound: the last tick of the clock
  MaxCrashes,   \* bound
  Linux         \* is this the build for Linux, where chown is not a no-op?

ASSUME SizeAssumption ==
    /\ SizeOf \in Seq(Nat \ {0}) /\ MaxSize \in Nat \ {0} /\ BuffSize \in Nat
    /\ MaxBackups \in Nat /\ MaxAge \in Nat /\ MaxTime \in Nat /\ MaxCrashes \in Nat
ASSUME FlagsAssumption == {Compress, Linux} \subseteq BOOLEAN

VARIABLES
  n,         \* messages written so far
  buff,      \* the ring buffer
  batch,     \* p of writeFromBuffToFile
  cur,       \* the log file, or Absent
  open,      \* l.file # nil
  backups,   \* the backup files: from <<time, "log" or "gz">> to their content
  millCh,    \* messages in millCh
  mill,      \* the goroutine millRun: its state and what it still has to do
  now,
  crashes,
  gone,      \* messages no longer in any file, and why
  faulty     \* may the process crash, and rename, open and copying fail?

logVars == <<n, buff, batch, cur, open, backups, millCh, mill, now, crashes, gone, faulty>>

Absent == <<0>>
Torn == <<0>>     \* a compressed file that was not finished
NoFile == <<0, "none">>
Idle == [pc |-> "idle", remove |-> {}, compress |-> {}, zip |-> NoFile]
NoFiles == [f \in {} |-> <<>>]
NoBatch == <<>>

\* The bytes of the messages in s, none of which is there twice.
BytesOf(s) == UNION {{m} \X (1..SizeOf[m]) : m \in Range(s)}
Size(s) == Cardinality(BytesOf(s))
With(s) == {<<m, "error">> : m \in Range(s)}

LogInit ==
    /\ n = 0 /\ buff = <<>> /\ batch = NoBatch
    /\ cur = Absent /\ open = FALSE
    /\ backups = NoFiles
    /\ millCh = 0 /\ mill = Idle
    /\ now = 0 /\ crashes = 0
    /\ gone = {}
    /\ faulty \in BOOLEAN

-----------------------------------------------------------------------------
\* Write: WriteWait blocks until the buffer has room; the answer is always nil.
Write ==
    /\ n < Len(SizeOf)
    /\ Size(buff) + SizeOf[n + 1] <= BuffSize
    /\ n' = n + 1
    /\ buff' = Append(buff, n + 1)
    /\ UNCHANGED <<batch, cur, open, backups, millCh, mill, now, crashes, gone>>

\* ReadAllWait.
TakeAll ==
    /\ batch = NoBatch /\ buff # <<>>
    /\ batch' = buff /\ buff' = <<>>
    /\ UNCHANGED <<n, cur, open, backups, millCh, mill, now, crashes, gone>>

\* The backup is named after the present time.  A second rotation in the same
\* millisecond, whose rename would replace the first backup, is left out.
Stamps == {f[1] : f \in DOMAIN backups}
StampFree == cur = Absent \/ now \notin Stamps

Moved ==
    IF cur = Absent THEN backups
    ELSE [f \in DOMAIN backups \cup {<<now, "log">>} |->
            IF f = <<now, "log">> THEN cur ELSE backups[f]]

Signal == millCh' = 1     \* the non-blocking send of mill

\* On Linux openNew gives the new log file the owner of the old one, by its
\* name and before it exists: chown then fails.
ChownFails == Linux /\ cur # Absent

\* openNew after close, with s as the first content of the new file.
OpenNew(s) ==
    /\ StampFree /\ ~ChownFails
    /\ backups' = Moved
    /\ cur' = s /\ open' = TRUE
    /\ UNCHANGED gone

\* openNew fails, before or after the old file was moved aside; s is lost.
OpenNewFails(s) ==
    /\ faulty \/ ChownFails
    /\ StampFree
    /\ open' = FALSE
    /\ \/ faulty /\ UNCHANGED <<cur, backups>> /\ gone' = gone \cup With(s)
       \/ backups' = Moved /\ cur' = Absent /\ gone' = gone \cup With(s)

\* Mutant: the size of an open file is tested one batch late.
MustRotateLate ==
    IF open THEN Size(cur) > MaxSize
            ELSE cur # Absent /\ Size(cur) + Size(batch) >= MaxSize

\* Does the batch no longer fit?  (An open file may be filled to the last byte;
\* one that has to be opened may not.)
MustRotate ==
    IF open THEN Size(cur) + Size(batch) > MaxSize
            ELSE cur # Absent /\ Size(cur) + Size(batch) >= MaxSize

Fits == Size(batch) <= MaxSize

\* The part of writeFromBuffToFile under the lock: the batch is refused,
TooLarge ==
    /\ batch # NoBatch /\ ~Fits
    /\ gone' = gone \cup {<<m, "toolarge">> : m \in Range(batch)}
    /\ batch' = NoBatch
    /\ UNCHANGED <<n, buff, cur, open, backups, millCh, mill, now, crashes>>

\* ... appended to the file, which is opened first if need be,
AppendBatch ==
    /\ batch # NoBatch /\ Fits /\ ~MustRotate /\ (open \/ cur # Absent)
    /\ cur' = cur \o batch
    /\ open' = TRUE
    /\ IF open THEN UNCHANGED millCh ELSE Signal
    /\ batch' = NoBatch
    /\ UNCHANGED <<n, buff, backups, mill, now, crashes, gone>>

\* ... or put at the head of a new file: there was none, the batch does not
\* fit, or the old one could not be opened.
StartFile ==
    /\ batch # NoBatch /\ Fits
    /\ MustRotate \/ (~open /\ (cur = Absent \/ faulty))
    /\ \/ OpenNew(batch) /\ Signal
       \/ OpenNewFails(batch) /\ IF open THEN UNCHANGED millCh ELSE Signal
    /\ batch' = NoBatch
    /\ UNCHANGED <<n, buff, mill, now, crashes>>

Rotate ==
    /\ \/ OpenNew(<<>>) /\ Signal
       \/ OpenNewFails(<<>>) /\ UNCHANGED millCh
    /\ UNCHANGED <<n, buff, batch, mill, now, crashes>>

CloseLog ==
    /\ open /\ open' = FALSE
    /\ UNCHANGED <<n, buff, batch, cur, backups, millCh, mill, now, crashes, gone>>

-----------------------------------------------------------------------------
(* millRun.  The files are listed once and dealt with one by one. *)

Rank(t) == Cardinality({u \in Stamps : u >= t})      \* 1 is the newest

\* Mutant: the oldest are kept.
TooManyNewest(t) == MaxBackups > 0 /\ Cardinality({u \in Stamps : u <= t}) > MaxBackups

TooMany(t) == MaxBackups > 0 /\ Rank(t) > MaxBackups
TooOld(t) == MaxAge > 0 /\ t < now - MaxAge

MillTakes ==
    /\ mill.pc = "idle" /\ millCh = 1
    /\ millCh' = 0
    /\ LET remove == {f \in DOMAIN backups : TooMany(f[1]) \/ TooOld(f[1])}
       IN  mill' = [Idle EXCEPT !.pc = "work", !.remove = remove,
                      !.compress = {f \in DOMAIN backups \ remove : Compress /\ f[2] = "log"}]
    /\ UNCHANGED <<n, buff, batch, cur, open, backups, now, crashes, gone>>

Without(f) == [g \in DOMAIN backups \ {f} |-> backups[g]]
WithFile(f, s) == [g \in DOMAIN backups \cup {f} |-> IF g = f THEN s ELSE backups[g]]

MillRemoves(f) ==
    /\ mill.pc = "work" /\ f \in mill.remove
    /\ backups' = Without(f)
    /\ mill' = [mill EXCEPT !.remove = @ \ {f}]
    /\ gone' = gone \cup {<<m, "removed">> : m \in Range(backups[f]) \ {0}}
    /\ UNCHANGED <<n, buff, batch, cur, open, millCh, now, crashes>>

Zipped(f) == <<f[1], "gz">>

\* GzipFile: the compressed file is created, filled, and the source removed.
MillCreates(f) ==
    /\ mill.pc = "work" /\ mill.remove = {} /\ f \in mill.compress
    /\ backups' = WithFile(Zipped(f), Torn)
    /\ mill' = [mill EXCEPT !.pc = "fill", !.compress = @ \ {f}, !.zip = f]
    /\ UNCHANGED <<n, buff, batch, cur, open, millCh, now, crashes, gone>>

MillFills ==
    /\ mill.pc = "fill"
    /\ backups' = WithFile(Zipped(mill.zip), backups[mill.zip])
    /\ mill' = [mill EXCEPT !.pc = "unlink"]
    /\ UNCHANGED <<n, buff, batch, cur, open, millCh, now, crashes, gone>>

\* The copy fails: the source stays, and so does what was written.
MillGivesUp ==
    /\ faulty /\ mill.pc = "fill"
    /\ mill' = [mill EXCEPT !.pc = "work", !.zip = NoFile]
    /\ UNCHANGED <<n, buff, batch, cur, open, backups, millCh, now, crashes, gone>>

MillUnlinks ==
    /\ mill.pc = "unlink"
    /\ backups' = Without(mill.zip)
    /\ mill' = [mill EXCEPT !.pc = "work", !.zip = NoFile]
    /\ UNCHANGED <<n, buff, batch, cur, open, millCh, now, crashes, gone>>

\* Mutant: the mill empties its channel when it is done.
MillDoneDrains ==
    /\ mill.pc = "work" /\ mill.remove = {} /\ mill.compress = {}
    /\ mill' = Idle /\ millCh' = 0
    /\ UNCHANGED <<n, buff, batch, cur, open, backups, now, crashes, gone>>

MillDone ==
    /\ mill.pc = "work" /\ mill.remove = {} /\ mill.compress = {}
    /\ mill' = Idle
    /\ UNCHANGED <<n, buff, batch, cur, open, backups, millCh, now, crashes, gone>>

-----------------------------------------------------------------------------
Tick ==
    /\ now < MaxTime /\ now' = now + 1
    /\ UNCHANGED <<n, buff, batch, cur, open, backups, millCh, mill, crashes, gone>>

\* The process dies and starts again: the files stay.
Crash ==
    /\ faulty /\ crashes < MaxCrashes /\ crashes' = crashes + 1
    /\ gone' = gone \cup {<<m, "crash">> : m \in Range(buff) \cup Range(batch)}
    /\ buff' = <<>> /\ batch' = NoBatch /\ open' = FALSE
    /\ millCh' = 0 /\ mill' = Idle
    /\ UNCHANGED <<n, cur, backups, now>>

MillStep ==
    \/ MillTakes \/ MillDone
    \/ \E f \in mill.remove : MillRemoves(f)
    \/ \E f \in mill.compress : MillCreates(f)
    \/ MillFills \/ MillGivesUp \/ MillUnlinks

WriterStep == TakeAll \/ TooLarge \/ AppendBatch \/ StartFile

LogNext ==
    /\ Write \/ WriterStep \/ Rotate \/ CloseLog \/ MillStep \/ Tick \/ Crash
    /\ UNCHANGED faulty

LogSpec == LogInit /\ [][LogNext]_logVars

-----------------------------------------------------------------------------
(* Properties. *)

\* "Whenever a write would cause the current log file exceed MaxSize, the
\* current file is closed, renamed, and a new log file created" (comment of
\* LoggerRotate): the log file and the backups never exceed MaxSize.
FileBounded ==
    /\ cur # Absent => Size(cur) <= MaxSize
    /\ \A f \in DOMAIN backups : backups[f] # Torn => Size(backups[f]) <= MaxSize

\* The files that can be read: the log file, and the backups but for a
\* compressed one that was not finished.
Current == IF cur = Absent THEN <<>> ELSE cur
Complete == {f \in DOMAIN backups : backups[f] # Torn}

Ascending(s) == \A i, j \in DOMAIN s : i < j => s[i] < s[j]
Before(s, t) == \A i \in DOMAIN s, j \in DOMAIN t : s[i] < t[j]

\* The files, read from the oldest to the newest, hold the messages in the
\* order they were written, each once, across rotations, failures and crashes;
\* a backup and its compressed copy hold the same ones.
InOrder ==
    /\ Ascending(Current)
    /\ \A f \in Complete : Ascending(backups[f]) /\ Before(backups[f], Current)
    /\ \A f, g \in Complete :
         /\ f[1] < g[1] => Before(backups[f], backups[g])
         /\ f[1] = g[1] => backups[f] = backups[g]

\* A message that Write accepted is under way or in a file that can be read,
\* unless its batch was too large, the file system failed, the process died or
\* its backup was removed by age or number.
NothingLost ==
    \A m \in 1..n :
       \/ m \in Range(buff) \cup Range(batch) \cup Range(Current)
       \/ \E f \in Complete : m \in Range(backups[f])
       \/ \E g \in gone : g[1] = m

\* The log is whole: in order, nothing lost and no file too large.
LogWhole == InOrder /\ NothingLost /\ FileBounded

\* "The most recent files according to the encoded timestamp will be retained,
\* up to a number equal to MaxBackups" (comment of LoggerRotate): a backup goes
\* only when so many newer ones are there, or by its age.
NewestKept ==
    [][\A t \in Stamps : t \notin Stamps' => TooOld(t) \/ (MaxBackups > 0 /\ Rank(t) > MaxBackups)]_logVars

\* The channel of the mill holds one signal and further ones are dropped, yet
\* none is missed: a backup beyond the limit is on the mill's list, or a signal
\* is waiting that makes it look again.  (A rotation that fails half-way sends
\* none.)
MillIsTold ==
    ~faulty => \A t \in Stamps : TooMany(t) => millCh = 1 \/ \E f \in mill.remove : f[1] = t

\* "The file is closed, renamed to include a timestamp of the current time, and
\* a new log file is created" (comment of writeFromBuffToFile): while the file
\* system works, no rotation costs the batch that made it necessary.
RotationKeepsBatch == ~faulty => \A g \in gone : g[2] # "error"
=============================================================================
