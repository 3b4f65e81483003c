------------------------------- MODULE RWLock -------------------------------
(***************************************************************************)
(* What package lockedfile promises about one locked path: a readers-      *)
(* writer lock.  filelock.go says it in prose (comments of Lock and RLock):*)
(* a granted write lock shuts everybody else out, a granted read lock      *)
(* shuts writers out, until the holder unlocks, closes or dies.            *)
(* This is the abstract specification that LockedFile is shown to          *)
(* implement.                                                              *)
(***************************************************************************)
CONSTANT Procs

VARIABLES readers,   \* the holders of a shared lock
          writers    \* the holders of an exclusive lock

rwVars == <<readers, writers>>

RWInit == readers = {} /\ writers = {}

AcquireRead(p) ==
    /\ writers = {}
    /\ p \notin readers
    /\ readers' = readers \cup {p}
    /\ UNCHANGED writers

AcquireWrite(p) ==
    /\ writers = {} /\ readers = {}
    /\ writers' = {p}
    /\ UNCHANGED readers

\* Any set of holders may let go in one step: a process that dies releases
\* everything its threads held.
Release(S) ==
    /\ readers' = readers \ S
    /\ writers' = writers \ S

RWNext ==
    \/ \E p \in Procs : AcquireRead(p) \/ AcquireWrite(p)
    \/ \E S \in SUBSET Procs : Release(S)

RWSpec == RWInit /\ [][RWNext]_rwVars

\* At most one writer, and never a writer beside a reader.
Exclusive ==
    /\ \A p, q \in writers : p = q
    /\ writers # {} => readers = {}
=============================================================================
