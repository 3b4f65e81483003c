---------------------------- MODULE LockedMutex -----------------------------
(***************************************************************************)
(* lockedfile.Mutex: mutual exclusion within and across processes.  A      *)
(* Mutex pairs an in-memory sync.RWMutex (field mu) with the flock of the  *)
(* file at Path.  Threads (goroutines) of several processes call Lock,     *)
(* RLock, TryLock, TryRLock, LockTimeout and RLockTimeout on Mutex values  *)
(* that all name ONE path, and later the unlock function they got.         *)
(* OpenFile is one step here, granted when the kernel grants the flock;    *)
(* LockedFile has its details.                                             *)
(***************************************************************************)
EXTENDS Integers

CONSTANTS
  Threads,       \* goroutines
  Mutexes,       \* Mutex values in memory
  Processes,
  MuOf,          \* the Mutex a thread uses
  ProcOf,        \* the process a Mutex lives in
  Calls,         \* how the calls of a thread wait: "block" for Lock and RLock, "once" for
                 \* TryLock and TryRLock, "timed" and "forever" for
                 \* LockTimeout and RLockTimeout with a timeout and with 0
  OpenFailures   \* the modes in which OpenFile may fail: "sh" (no such file,
                 \* RLock does not create it; permissions), "ex" (permissions)

ASSUME MuOfAssumption == MuOf \in [Threads -> Mutexes]
ASSUME ProcOfAssumption == ProcOf \in [Mutexes -> Processes]
ASSUME CallsAssumption == Calls \in [Threads -> SUBSET {"block", "once", "timed", "forever"}]
ASSUME OpenFailuresAssumption == OpenFailures \subseteq {"sh", "ex"}

NoThread == "none"
ASSUME NoThreadAssumption == NoThread \notin Threads

VARIABLES
  pc,        \* where each thread is
  mode,      \* what its call is for: "sh" (RLock...) or "ex" (Lock...)
  patience,  \* how its call waits, see Patiences
  writer,    \* sync.RWMutex: the thread that has the writer mutex w
  readers,   \* sync.RWMutex: the threads inside as readers
  leaked,    \* sync.RWMutex: a reader is counted that will never leave
  flocks     \* the flock each thread's descriptor holds

vars == <<pc, mode, patience, writer, readers, leaked, flocks>>

\* A timed call is "late" once its deadline has passed.
Patiences == {"block", "once", "timed", "late", "forever"}

Init ==
    /\ pc = [t \in Threads |-> "idle"]
    /\ mode = [t \in Threads |-> "sh"]
    /\ patience = [t \in Threads |-> "block"]
    /\ writer = [m \in Mutexes |-> NoThread]
    /\ readers = [m \in Mutexes |-> {}]
    /\ leaked = [m \in Mutexes |-> FALSE]
    /\ flocks = [t \in Threads |-> "none"]

Goto(t, label) == pc' = [pc EXCEPT ![t] = label] /\ UNCHANGED <<mode, patience>>

\* The call, or the critical section, of t is over.
Return(t) ==
    /\ pc' = [pc EXCEPT ![t] = "idle"]
    /\ mode' = [mode EXCEPT ![t] = "sh"]
    /\ patience' = [patience EXCEPT ![t] = "block"]

-----------------------------------------------------------------------------
(* sync.RWMutex, as the runtime implements it: a writer takes w, which shuts *)
(* new readers out, and then waits for the readers inside to leave.          *)

TakeW(t) == writer' = [writer EXCEPT ![MuOf[t]] = t]
DropW(t) == writer' = [writer EXCEPT ![MuOf[t]] = NoThread]
AddReader(t) == readers' = [readers EXCEPT ![MuOf[t]] = @ \cup {t}]
DropReader(t) == readers' = [readers EXCEPT ![MuOf[t]] = @ \ {t}]

FreeForWriter(t) == writer[MuOf[t]] = NoThread
FreeForReader(t) == writer[MuOf[t]] = NoThread
Drained(t) == readers[MuOf[t]] = {} /\ ~leaked[MuOf[t]]

\* Release mu.mu the way the call of t took it.
ReleaseMu(t) ==
    IF mode[t] = "ex" THEN DropW(t) /\ UNCHANGED readers
                      ELSE DropReader(t) /\ UNCHANGED writer

-----------------------------------------------------------------------------
\* A call of one of the six methods.
Call(t, m, w) ==
    /\ pc[t] = "idle"
    /\ mode' = [mode EXCEPT ![t] = m]
    /\ patience' = [patience EXCEPT ![t] = w]
    /\ pc' = [pc EXCEPT ![t] = IF w # "block" THEN "try"
                               ELSE IF m = "ex" THEN "wlock" ELSE "rlock"]
    /\ UNCHANGED <<writer, readers, leaked, flocks>>

\* mu.mu.Lock(): first w, then the readers leave.
LockW(t) ==
    /\ pc[t] = "wlock" /\ FreeForWriter(t)
    /\ TakeW(t) /\ Goto(t, "drain")
    /\ UNCHANGED <<readers, leaked, flocks>>

LockDrained(t) ==
    /\ pc[t] = "drain" /\ Drained(t)
    /\ Goto(t, "open")
    /\ UNCHANGED <<writer, readers, leaked, flocks>>

\* mu.mu.RLock().
RLock(t) ==
    /\ pc[t] = "rlock" /\ FreeForReader(t)
    /\ AddReader(t) /\ Goto(t, "open")
    /\ UNCHANGED <<writer, leaked, flocks>>

\* mu.mu.TryLock() / TryRLock() in the call of t succeeds.
TrySucceeds(t) ==
    /\ pc[t] = "try"
    /\ \/ mode[t] = "ex" /\ FreeForWriter(t) /\ Drained(t) /\ TakeW(t) /\ UNCHANGED readers
       \/ mode[t] = "sh" /\ FreeForReader(t) /\ AddReader(t) /\ UNCHANGED writer
    /\ Goto(t, "open")
    /\ UNCHANGED <<leaked, flocks>>

\* Mutant: the loop of the Timeout methods never looks at the clock.
ErrorLoops(t) ==
    IF patience[t] \in {"timed", "late", "forever"} THEN Goto(t, "try") ELSE Return(t)

\* What a call does with an error of TryLock / TryRLock, or of OpenFile: sleep
\* and try again in the loop of a Timeout method, return it otherwise.
Error(t) == IF patience[t] \in {"timed", "forever"} THEN Goto(t, "try") ELSE Return(t)

\* The in-memory lock is taken.
TryFails(t) ==
    /\ pc[t] = "try"
    /\ IF mode[t] = "ex" THEN ~(FreeForWriter(t) /\ Drained(t)) ELSE ~FreeForReader(t)
    /\ Error(t)
    /\ UNCHANGED <<writer, readers, leaked, flocks>>

\* time.Now().After(timeoutAt) becomes true.
Deadline(t) ==
    /\ patience[t] = "timed" /\ pc[t] \in {"try", "open"}
    /\ patience' = [patience EXCEPT ![t] = "late"]
    /\ UNCHANGED <<pc, mode, writer, readers, leaked, flocks>>

\* flock(2) grants mode m to t.
Grantable(t, m) ==
    \A u \in Threads \ {t} :
        IF m = "ex" THEN flocks[u] = "none" ELSE flocks[u] # "ex"

\* Mutant: Lock opens the file for reading only.
OpenFileReadOnly(t) ==
    /\ pc[t] = "open" /\ Grantable(t, "sh")
    /\ flocks' = [flocks EXCEPT ![t] = "sh"]
    /\ Goto(t, "held")
    /\ UNCHANGED <<writer, readers, leaked>>

\* OpenFile returns a locked File.
OpenFile(t) ==
    /\ pc[t] = "open" /\ Grantable(t, mode[t])
    /\ flocks' = [flocks EXCEPT ![t] = mode[t]]
    /\ Goto(t, "held")
    /\ UNCHANGED <<writer, readers, leaked>>

\* Mutant: the error path forgets mu.mu.Unlock().
OpenFailsLocked(t) ==
    /\ pc[t] = "open" /\ "ex" \in OpenFailures /\ mode[t] = "ex"
    /\ Error(t)
    /\ UNCHANGED <<writer, readers, leaked, flocks>>

\* OpenFile fails in Lock or TryLock: mu.mu.Unlock() and the error.
OpenFails(t) ==
    /\ pc[t] = "open" /\ "ex" \in OpenFailures /\ mode[t] = "ex"
    /\ DropW(t) /\ Error(t)
    /\ UNCHANGED <<readers, leaked, flocks>>

\* The process ends: its threads are gone, the kernel drops their flocks, its
\* memory (the Mutex values included) is no more.
Gone(p, t) == ProcOf[MuOf[t]] = p
End(p) ==
    /\ pc' = [t \in Threads |-> IF Gone(p, t) THEN "dead" ELSE pc[t]]
    /\ flocks' = [t \in Threads |-> IF Gone(p, t) THEN "none" ELSE flocks[t]]
    /\ writer' = [m \in Mutexes |-> IF ProcOf[m] = p THEN NoThread ELSE writer[m]]
    /\ readers' = [m \in Mutexes |-> IF ProcOf[m] = p THEN {} ELSE readers[m]]
    /\ leaked' = [m \in Mutexes |-> ProcOf[m] # p /\ leaked[m]]
    /\ mode' = [t \in Threads |-> IF Gone(p, t) THEN "sh" ELSE mode[t]]
    /\ patience' = [t \in Threads |-> IF Gone(p, t) THEN "block" ELSE patience[t]]

\* OpenFile fails in RLock or TryRLock: mu.mu.Unlock(), though the call holds
\* mu.mu for reading.  Without a writer that has w the runtime aborts the
\* process ("sync: Unlock of unlocked RWMutex").
RLockOpenFailsFatal(t) ==
    /\ pc[t] = "open" /\ "sh" \in OpenFailures /\ mode[t] = "sh"
    /\ writer[MuOf[t]] = NoThread
    /\ End(ProcOf[MuOf[t]])

\* ... with a writer u waiting for the readers to leave, the Unlock is taken
\* for that writer's: w is free again, t stays counted as a reader for good,
\* and u waits for a reader that never leaves.
RLockOpenFailsLeak(t) ==
    /\ pc[t] = "open" /\ "sh" \in OpenFailures /\ mode[t] = "sh"
    /\ writer[MuOf[t]] # NoThread
    /\ DropW(t) /\ DropReader(t)
    /\ leaked' = [leaked EXCEPT ![MuOf[t]] = TRUE]
    /\ pc' = [pc EXCEPT ![t] = IF patience[t] \in {"timed", "forever"} THEN "try" ELSE "idle",
                        ![writer[MuOf[t]]] = "stuck"]
    /\ UNCHANGED <<mode, patience, flocks>>

\* unlock(): f.Close() gives the flock up ...
UnlockFile(t) ==
    /\ pc[t] = "held"
    /\ flocks' = [flocks EXCEPT ![t] = "none"]
    /\ Goto(t, "closing")
    /\ UNCHANGED <<writer, readers, leaked>>

\* ... filelock.Unlock(f) fails on the closed file, unnoticed, and mu.mu is
\* released.
UnlockMu(t) ==
    /\ pc[t] = "closing"
    /\ ReleaseMu(t) /\ Return(t)
    /\ UNCHANGED <<leaked, flocks>>

\* A process is killed.
Kill(p) ==
    /\ \E t \in Threads : Gone(p, t) /\ pc[t] # "dead"
    /\ End(p)

-----------------------------------------------------------------------------
\* The steps inside a call, which the scheduler will not put off for ever.
Step(t) ==
    \/ LockW(t) \/ LockDrained(t) \/ RLock(t) \/ TrySucceeds(t) \/ TryFails(t)
    \/ Deadline(t) \/ OpenFile(t) \/ OpenFails(t)
    \/ RLockOpenFailsFatal(t) \/ RLockOpenFailsLeak(t) \/ UnlockMu(t)

Next ==
    \/ \E t \in Threads :
         \/ \E m \in {"sh", "ex"}, w \in Calls[t] : Call(t, m, w)
         \/ Step(t)
         \/ UnlockFile(t)
    \/ \E p \in Processes : Kill(p)

Spec == Init /\ [][Next]_vars

\* Timers fire, runnable goroutines run; the Go mutexes and the kernel's flock
\* queue serve every waiter in the end.
Scheduled ==
    \A t \in Threads :
        /\ WF_vars(TrySucceeds(t) \/ TryFails(t)) /\ WF_vars(Deadline(t))
        /\ WF_vars(LockDrained(t)) /\ WF_vars(UnlockMu(t))
        /\ SF_vars(LockW(t)) /\ SF_vars(RLock(t)) /\ SF_vars(OpenFile(t))

\* ... and every holder calls its unlock function.
Polite == \A t \in Threads : WF_vars(UnlockFile(t))

FairSpec == Spec /\ Scheduled
PoliteSpec == FairSpec /\ Polite

-----------------------------------------------------------------------------
(* Properties. *)

\* "A Mutex provides mutual exclusion within and across processes" (comment of
\* type Mutex): whoever got an unlock function of Lock is alone, whoever got
\* one of RLock shares only with readers.  The flock is taken after mu.mu and given up before it: a thread with a flock
\* has its Mutex's in-memory lock in the same mode, alone if it writes.
Exclusion ==
    /\ \A t, u \in Threads :
         (t # u /\ pc[t] = "held" /\ pc[u] = "held") => mode[t] = "sh" /\ mode[u] = "sh"
    /\ \A t \in Threads :
         /\ flocks[t] = "ex" => writer[MuOf[t]] = t /\ readers[MuOf[t]] = {}
         /\ flocks[t] = "sh" => t \in readers[MuOf[t]]

\* No error path of a Lock method and no unlock leaves anything locked: when no
\* call on a Mutex is under way and no unlock is owed, its in-memory lock is
\* free, and no descriptor holds a flock.  (The error path of the RLock methods
\* does leave a reader behind: see RLockOpenFailsLeak.)
NothingLeaks ==
    \A m \in Mutexes :
        (\A t \in Threads : MuOf[t] = m => pc[t] \in {"idle", "dead"})
        => /\ writer[m] = NoThread /\ readers[m] = {}
           /\ \A t \in Threads : MuOf[t] = m => flocks[t] = "none"

\* As long as holders unlock, a call of Lock or RLock comes back, with the lock
\* or an error, and so does one with a timeout -- provided readers do not hand
\* the flock on to each other without a gap, which starves a writer: flock(2)
\* admits readers past a waiting writer, though sync.RWMutex does not -- and no
\* failed RLock has left a reader behind.
LockReturns ==
    []<>(\A u \in Threads : flocks[u] # "sh") =>
    \A t \in Threads :
        (pc[t] \in {"wlock", "rlock", "try"} /\ patience[t] # "forever")
            ~> pc[t] \in {"held", "idle", "dead"} \/ leaked[MuOf[t]]
=============================================================================
