----------------------------- MODULE LockedFile -----------------------------
(***************************************************************************)
(* Package lockedfile on the platforms that have flock(2): OpenFile and    *)
(* Close, and the one-shot operations Read, Write and Transform, run by a  *)
(* set of processes on ONE path.  Every system call of the package is one  *)
(* step, so that the calls of different processes interleave; every call   *)
(* that can fail has a failing outcome, a write can stop half way, and a   *)
(* process can be killed between any two calls.                            *)
(*                                                                         *)
(* A call that returns an error before it has changed anything (a failing  *)
(* os.OpenFile, a second Close of a File) is a stuttering step.            *)
(***************************************************************************)
EXTENDS Integers, Sequences

CONSTANTS Procs,      \* users of the path, each with its own descriptor
          Bytes,      \* what a byte of the file can be
          Contents    \* what Write, Transform's t and a handle may store

ASSUME ContentsAssumption == Contents \subseteq Seq(Bytes)

VARIABLES
  file,       \* the bytes on disk
  locks,      \* the kernel's flock table: the mode each descriptor holds
  pc,         \* the next system call of each process
  op,         \* the package function each process is executing
  old,        \* what the process has read so far (Read, Transform)
  new,        \* what the process is storing (Write, Transform)
  pos,        \* offset of the descriptor (io.ReadAll, io.Copy)
  fails,      \* how many I/O calls failed during the current operation
  committed,  \* history: the contents left by the last completed operation
  damaged     \* history: something happened that Transform cannot undo

vars == <<file, locks, pc, op, old, new, pos, fails, committed, damaged>>

Ops == {"Read", "Write", "Transform", "Open", "Create", "Edit"}

\* openFile's choice between filelock.Lock and filelock.RLock.
Mode(o) == IF o \in {"Read", "Open"} THEN "sh" ELSE "ex"

\* The operations whose flag has O_TRUNC.
Truncates(o) == o \in {"Write", "Create"}

\* The operations that keep the File and leave its I/O to the caller.
IsHandle(o) == o \in {"Open", "Create", "Edit"}

PCs == {"idle", "flock", "truncate", "read", "call", "tail", "untail",
        "overwrite", "shrink", "rollback", "retruncate", "copy", "handle",
        "close"}

\* Where the holder of a write lock has changed nothing yet.
Unwritten == {"truncate", "read", "call", "tail"}

-----------------------------------------------------------------------------
(* System calls on the file. *)

\* pwrite(2) of the first k bytes of b at offset off.
Pwrite(s, b, off, k) ==
    [i \in 1..(IF off + k > Len(s) THEN off + k ELSE Len(s)) |->
        IF off < i /\ i <= off + k THEN b[i - off] ELSE s[i]]

\* ftruncate(2) to n bytes, n no more than the size.
Ftruncate(s, n) == [i \in 1..n |-> s[i]]

\* new[n:], the part of a longer content behind the old size.
TailOf(s, n) == [i \in 1..(Len(s) - n) |-> s[n + i]]

\* flock(2) grants mode m to p when no other descriptor holds a conflicting one.
Grantable(p, m) ==
    \A q \in Procs \ {p} :
        IF m = "ex" THEN locks[q] = "none" ELSE locks[q] # "ex"

-----------------------------------------------------------------------------
Init ==
    /\ file \in Contents
    /\ committed = file
    /\ locks = [p \in Procs |-> "none"]
    /\ pc = [p \in Procs |-> "idle"]
    /\ op = [p \in Procs |-> "Read"]
    /\ old = [p \in Procs |-> <<>>]
    /\ new = [p \in Procs |-> <<>>]
    /\ pos = [p \in Procs |-> 0]
    /\ fails = [p \in Procs |-> 0]
    /\ damaged = FALSE

Goto(p, label) == pc' = [pc EXCEPT ![p] = label]

\* The operation of p is over: its local variables go out of scope.
Return(p) ==
    /\ Goto(p, "idle")
    /\ locks' = [locks EXCEPT ![p] = "none"]
    /\ op' = [op EXCEPT ![p] = "Read"]
    /\ old' = [old EXCEPT ![p] = <<>>]
    /\ new' = [new EXCEPT ![p] = <<>>]
    /\ pos' = [pos EXCEPT ![p] = 0]
    /\ fails' = [fails EXCEPT ![p] = 0]

\* A system call of p failed.
Failed(p) == fails' = [fails EXCEPT ![p] = @ + 1]

-----------------------------------------------------------------------------
(* openFile and closeFile. *)

\* Mutant: O_TRUNC is passed on to os.OpenFile.
BeginTruncating(p, o, v) ==
    /\ pc[p] = "idle"
    /\ Goto(p, "flock")
    /\ op' = [op EXCEPT ![p] = o]
    /\ new' = [new EXCEPT ![p] = IF o = "Write" THEN v ELSE <<>>]
    /\ file' = IF Truncates(o) THEN <<>> ELSE file
    /\ UNCHANGED <<locks, old, pos, fails, committed, damaged>>

\* os.OpenFile without O_TRUNC; v is the content argument of Write.
Begin(p, o, v) ==
    /\ pc[p] = "idle"
    /\ Goto(p, "flock")
    /\ op' = [op EXCEPT ![p] = o]
    /\ new' = [new EXCEPT ![p] = IF o = "Write" THEN v ELSE <<>>]
    /\ UNCHANGED <<file, locks, old, pos, fails, committed, damaged>>

\* What follows a granted lock.
AfterLock(o) ==
    CASE Truncates(o) -> "truncate"
      [] IsHandle(o) /\ ~Truncates(o) -> "handle"
      [] OTHER -> "read"

\* Mutant: an interrupted flock(2) is taken for a granted one.
FlockInterrupted(p) ==
    /\ pc[p] = "flock"
    /\ locks' = [locks EXCEPT ![p] = Mode(op[p])]
    /\ Goto(p, AfterLock(op[p]))
    /\ UNCHANGED <<file, op, old, new, pos, fails, committed, damaged>>

\* filelock.Lock / filelock.RLock returned nil.
Flock(p) ==
    /\ pc[p] = "flock"
    /\ Grantable(p, Mode(op[p]))
    /\ locks' = [locks EXCEPT ![p] = Mode(op[p])]
    /\ Goto(p, AfterLock(op[p]))
    /\ UNCHANGED <<file, op, old, new, pos, fails, committed, damaged>>

\* The lock call failed: openFile closes the descriptor and returns.
FlockFails(p) ==
    /\ pc[p] = "flock"
    /\ Return(p)
    /\ UNCHANGED <<file, committed, damaged>>

\* f.Truncate(0) under the lock.
Truncate(p) ==
    /\ pc[p] = "truncate"
    /\ file' = <<>>
    /\ Goto(p, IF IsHandle(op[p]) THEN "handle" ELSE "copy")
    /\ UNCHANGED <<locks, op, old, new, pos, fails, committed, damaged>>

\* f.Truncate(0) failed on a regular file: Unlock, Close, return the error.
TruncateFails(p) ==
    /\ pc[p] = "truncate"
    /\ Return(p)
    /\ UNCHANGED <<file, committed, damaged>>

\* What the caller is told the file now holds: a handle leaves whatever its
\* user wrote, Write and Transform the new contents if they return nil.
Commits(p) ==
    \/ op[p] \in {"Create", "Edit"}
    \/ op[p] \in {"Write", "Transform"} /\ fails[p] = 0

\* File.Close: closeFile unlocks, then closes the descriptor.
Close(p) ==
    /\ pc[p] = "close"
    /\ Return(p)
    /\ committed' = IF ~Commits(p) THEN committed
                    ELSE IF IsHandle(op[p]) THEN file ELSE new[p]
    /\ damaged' = (damaged /\ ~Commits(p))
    /\ UNCHANGED file

-----------------------------------------------------------------------------
(* Read, and the reading half of Transform: io.ReadAll, byte by byte. *)

ReadByte(p) ==
    /\ pc[p] = "read"
    /\ pos[p] < Len(file)
    /\ old' = [old EXCEPT ![p] = Append(@, file[pos[p] + 1])]
    /\ pos' = [pos EXCEPT ![p] = @ + 1]
    /\ UNCHANGED <<file, locks, pc, op, new, fails, committed, damaged>>

ReadEOF(p) ==
    /\ pc[p] = "read"
    /\ pos[p] >= Len(file)
    /\ Goto(p, IF op[p] = "Read" THEN "close" ELSE "call")
    /\ UNCHANGED <<file, locks, op, old, new, pos, fails, committed, damaged>>

\* read(2) failed: the deferred Close runs.
ReadFails(p) ==
    /\ pc[p] = "read"
    /\ Failed(p)
    /\ Goto(p, "close")
    /\ UNCHANGED <<file, locks, op, old, new, pos, committed, damaged>>

-----------------------------------------------------------------------------
(* Write: io.Copy to the truncated file, byte by byte. *)

CopyByte(p) ==
    /\ pc[p] = "copy"
    /\ pos[p] < Len(new[p])
    /\ file' = Pwrite(file, <<new[p][pos[p] + 1]>>, pos[p], 1)
    /\ pos' = [pos EXCEPT ![p] = @ + 1]
    /\ UNCHANGED <<locks, pc, op, old, new, fails, committed, damaged>>

CopyDone(p) ==
    /\ pc[p] = "copy"
    /\ pos[p] = Len(new[p])
    /\ Goto(p, "close")
    /\ UNCHANGED <<file, locks, op, old, new, pos, fails, committed, damaged>>

\* The content reader or write(2) failed: the file keeps what was copied.
CopyFails(p) ==
    /\ pc[p] = "copy"
    /\ Failed(p)
    /\ damaged' = TRUE
    /\ Goto(p, "close")
    /\ UNCHANGED <<file, locks, op, old, new, pos, committed>>

-----------------------------------------------------------------------------
(* Transform. *)

\* t(old) returned v.
CallT(p, v) ==
    /\ pc[p] = "call"
    /\ new' = [new EXCEPT ![p] = v]
    /\ Goto(p, IF Len(v) > Len(old[p]) THEN "tail" ELSE "overwrite")
    /\ UNCHANGED <<file, locks, op, old, pos, fails, committed, damaged>>

\* t(old) returned an error: nothing has been written.
CallTFails(p) ==
    /\ pc[p] = "call"
    /\ Failed(p)
    /\ Goto(p, "close")
    /\ UNCHANGED <<file, locks, op, old, new, pos, committed, damaged>>

\* The bytes behind the old size are written first.
WriteTail(p) ==
    /\ pc[p] = "tail"
    /\ LET b == TailOf(new[p], Len(old[p]))
       IN  file' = Pwrite(file, b, Len(old[p]), Len(b))
    /\ Goto(p, "overwrite")
    /\ UNCHANGED <<locks, op, old, new, pos, fails, committed, damaged>>

\* ... and that write stopped after k bytes.
WriteTailFails(p, k) ==
    /\ pc[p] = "tail"
    /\ k < Len(new[p]) - Len(old[p])
    /\ file' = Pwrite(file, TailOf(new[p], Len(old[p])), Len(old[p]), k)
    /\ Failed(p)
    /\ Goto(p, "untail")
    /\ UNCHANGED <<locks, op, old, new, pos, committed, damaged>>

\* f.Truncate(len(old)), "a best effort to remove the incomplete tail".
RemoveTail(p) ==
    /\ pc[p] = "untail"
    /\ file' = Ftruncate(file, Len(old[p]))
    /\ Goto(p, "close")
    /\ UNCHANGED <<locks, op, old, new, pos, fails, committed, damaged>>

RemoveTailFails(p) ==
    /\ pc[p] = "untail"
    /\ Failed(p)
    /\ damaged' = TRUE
    /\ Goto(p, "close")
    /\ UNCHANGED <<file, locks, op, old, new, pos, committed>>

\* How much of new goes over the old contents.
OverwriteLen(p) ==
    IF Len(new[p]) >= Len(old[p]) THEN Len(old[p]) ELSE Len(new[p])

Overwrite(p) ==
    /\ pc[p] = "overwrite"
    /\ file' = Pwrite(file, new[p], 0, OverwriteLen(p))
    /\ Goto(p, IF Len(new[p]) >= Len(old[p]) THEN "close" ELSE "shrink")
    /\ UNCHANGED <<locks, op, old, new, pos, fails, committed, damaged>>

OverwriteFails(p, k) ==
    /\ pc[p] = "overwrite"
    /\ k < OverwriteLen(p)
    /\ file' = Pwrite(file, new[p], 0, k)
    /\ Failed(p)
    /\ Goto(p, "rollback")
    /\ UNCHANGED <<locks, op, old, new, pos, committed, damaged>>

Shrink(p) ==
    /\ pc[p] = "shrink"
    /\ file' = Ftruncate(file, Len(new[p]))
    /\ Goto(p, "close")
    /\ UNCHANGED <<locks, op, old, new, pos, fails, committed, damaged>>

ShrinkFails(p) ==
    /\ pc[p] = "shrink"
    /\ Failed(p)
    /\ Goto(p, "rollback")
    /\ UNCHANGED <<file, locks, op, old, new, pos, committed, damaged>>

\* Mutant: the rollback forgets the truncation.
RollbackOnly(p) ==
    /\ pc[p] = "rollback"
    /\ file' = Pwrite(file, old[p], 0, Len(old[p]))
    /\ Goto(p, "close")
    /\ UNCHANGED <<locks, op, old, new, pos, fails, committed, damaged>>

\* The deferred rollback: WriteAt(old, 0), and only if that worked Truncate.
Rollback(p) ==
    /\ pc[p] = "rollback"
    /\ file' = Pwrite(file, old[p], 0, Len(old[p]))
    /\ Goto(p, "retruncate")
    /\ UNCHANGED <<locks, op, old, new, pos, fails, committed, damaged>>

RollbackFails(p, k) ==
    /\ pc[p] = "rollback"
    /\ k < Len(old[p])
    /\ file' = Pwrite(file, old[p], 0, k)
    /\ Failed(p)
    /\ damaged' = TRUE
    /\ Goto(p, "close")
    /\ UNCHANGED <<locks, op, old, new, pos, committed>>

Retruncate(p) ==
    /\ pc[p] = "retruncate"
    /\ file' = Ftruncate(file, Len(old[p]))
    /\ Goto(p, "close")
    /\ UNCHANGED <<locks, op, old, new, pos, fails, committed, damaged>>

RetruncateFails(p) ==
    /\ pc[p] = "retruncate"
    /\ Failed(p)
    /\ damaged' = TRUE
    /\ Goto(p, "close")
    /\ UNCHANGED <<file, locks, op, old, new, pos, committed>>

-----------------------------------------------------------------------------
(* Handles (Open, Create, Edit) and crashes. *)

\* The holder of a write-locked File stores v through the embedded os.File.
HandleWrite(p, v) ==
    /\ pc[p] = "handle"
    /\ op[p] # "Open"
    /\ file' = v
    /\ UNCHANGED <<locks, pc, op, old, new, pos, fails, committed, damaged>>

HandleDone(p) ==
    /\ pc[p] = "handle"
    /\ Goto(p, "close")
    /\ UNCHANGED <<file, locks, op, old, new, pos, fails, committed, damaged>>

\* The process is killed: the kernel closes its descriptor, which releases
\* the lock; the file stays as it is, in the middle of being changed unless
\* the process had not come to its first write.
Kill(p) ==
    /\ pc[p] # "idle"
    /\ Return(p)
    /\ damaged' = (damaged \/ (locks[p] = "ex" /\ pc[p] \notin Unwritten))
    /\ UNCHANGED <<file, committed>>

-----------------------------------------------------------------------------
OpenStep(p) ==
    \/ Flock(p) \/ FlockFails(p) \/ Truncate(p) \/ TruncateFails(p) \/ Close(p)

ReadStep(p) == ReadByte(p) \/ ReadEOF(p) \/ ReadFails(p)

WriteStep(p) == CopyByte(p) \/ CopyDone(p) \/ CopyFails(p)

TransformStep(p) ==
    \/ \E v \in Contents : CallT(p, v)
    \/ CallTFails(p)
    \/ WriteTail(p) \/ RemoveTail(p) \/ RemoveTailFails(p)
    \/ \E k \in 0..Len(new[p]) : WriteTailFails(p, k) \/ OverwriteFails(p, k)
    \/ Overwrite(p) \/ Shrink(p) \/ ShrinkFails(p)
    \/ Rollback(p) \/ Retruncate(p) \/ RetruncateFails(p)
    \/ \E k \in 0..Len(old[p]) : RollbackFails(p, k)

HandleStep(p) == HandleDone(p) \/ \E v \in Contents : HandleWrite(p, v)

Next ==
    \E p \in Procs :
        \/ \E o \in Ops, v \in Contents : Begin(p, o, v)
        \/ OpenStep(p) \/ ReadStep(p) \/ WriteStep(p)
        \/ TransformStep(p) \/ HandleStep(p) \/ Kill(p)

Spec == Init /\ [][Next]_vars

-----------------------------------------------------------------------------
(* Properties. *)

\* The values every variable keeps.
TypeOK ==
    /\ file \in Seq(Bytes)
    /\ committed \in Seq(Bytes)
    /\ locks \in [Procs -> {"none", "sh", "ex"}]
    /\ pc \in [Procs -> PCs]
    /\ op \in [Procs -> Ops]
    /\ old \in [Procs -> Seq(Bytes)]
    /\ new \in [Procs -> Seq(Bytes)]
    /\ pos \in [Procs -> Nat]
    /\ fails \in [Procs -> Nat]
    /\ damaged \in BOOLEAN

\* Processes inside the package that have a locked descriptor.
Inside(p) == pc[p] \notin {"idle", "flock"}

\* Every function of the package does its I/O under the lock openFile chose
\* for it, and keeps it until Close: nobody is inside while a process that
\* may write is inside (the promise of the comments of Open, Create, Edit).
WritersAlone ==
    \A p, q \in Procs :
        (p # q /\ Inside(p) /\ Inside(q)) => op[p] \in {"Read", "Open"}

\* Transform and Write are atomic, and one failing I/O call does not change
\* that: whenever nobody holds the write lock, the file is exactly what the
\* last operation that reported success stored.  Only a copy that fails in
\* Write, a rollback that fails too, or a killed writer can break it, and
\* the next success repairs it.
Atomicity ==
    (~damaged /\ \A p \in Procs : locks[p] # "ex") => file = committed

\* What Read returns, and what Transform hands to its callback t, is the
\* contents stored by the last successful operation, neither a mixture nor
\* stale, and it stays the latest until the lock is given up: no update is
\* lost between the read and the write of a Transform.
ReadsLatest ==
    \A p \in Procs :
        (/\ ~damaged
         /\ op[p] \in {"Read", "Transform"}
         /\ pc[p] \notin {"idle", "flock", "read"}
         /\ pc[p] = "close" => fails[p] = 0)
        => old[p] = committed

\* The flock table of the path behaves as a readers-writer lock.
Lock == INSTANCE RWLock WITH
            readers <- {p \in Procs : locks[p] = "sh"},
            writers <- {p \in Procs : locks[p] = "ex"}

\* Every step of the package takes or gives up the lock the way the abstract
\* readers-writer lock allows, or leaves it alone.
ImplementsRWLock == Lock!RWSpec
=============================================================================
