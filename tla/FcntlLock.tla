----------------------------- MODULE FcntlLock ------------------------------
(***************************************************************************)
(* Package filelock on aix and solaris, where a lock is a POSIX record     *)
(* lock: it belongs to a (process, inode) pair, not to a descriptor, and   *)
(* the process loses it when it closes ANY descriptor of the inode.  The   *)
(* package therefore keeps, in each process, an owner and a queue of       *)
(* waiting descriptors per inode.  A thread locks the files of its plan    *)
(* one after the other, each through a descriptor of its own, as openFile  *)
(* does, and then closes them, last first, as closeFile does: filelock's   *)
(* unlock, then close(2).                                                  *)
(*                                                                         *)
(* A setlkw that reports EDEADLK sleeps and tries again (the retry loop of *)
(* lock); a thread that waits in setlkw and one that sleeps are both just  *)
(* not granted yet, so the retry is no step of its own.  A File is locked  *)
(* once, as lockedfile does it: the owner == f branch of lock is not taken.*)
(***************************************************************************)
EXTENDS Integers, Sequences

CONSTANTS
  Lockers,       \* threads
  LockProcs,     \* processes
  Inodes,
  HomeOf,        \* the process of a thread
  Plans,         \* what is tried: the inodes each thread locks, in order
  LockErrors     \* may setlkw fail with an error other than EDEADLK?

NoLocker == "none"

ASSUME HomeOfAssumption == HomeOf \in [Lockers -> LockProcs]
ASSUME PlansAssumption == \A p \in Plans, t \in Lockers : p[t] \in Seq(Inodes) /\ p[t] # <<>>
\* (A thread that opened a file twice would wait for itself.)
ASSUME DistinctAssumption == \A p \in Plans, t \in Lockers : \A j, k \in 1..Len(p[t]) : p[t][j] = p[t][k] => j = k
ASSUME NoLockerAssumption == NoLocker \notin Lockers
ASSUME FlagsAssumption == LockErrors \in BOOLEAN

VARIABLES
  plan,    \* one of Plans
  fpc,     \* where each thread is
  nth,     \* how far it has come in its plan
  lockType, \* it asks for: "rd" or "wr"
  inodes,  \* the package's map inodes: the descriptors <<t, i>> it knows
  owner,   \* the package's locks[i].owner in each process
  queue,   \* the package's locks[i].queue in each process
  posix    \* the kernel's record lock of each process on each inode

fcntlVars == <<plan, fpc, nth, lockType, inodes, owner, queue, posix>>

Here(t) == plan[t][nth[t]]            \* the inode t is working on
Slot(t) == <<HomeOf[t], Here(t)>>     \* its entry in the process's table

FcntlInit ==
    /\ plan \in Plans
    /\ fpc = [t \in Lockers |-> "idle"]
    /\ nth = [t \in Lockers |-> 1]
    /\ lockType = [t \in Lockers |-> "rd"]
    /\ inodes = {}
    /\ owner = [s \in LockProcs \X Inodes |-> NoLocker]
    /\ queue = [s \in LockProcs \X Inodes |-> <<>>]
    /\ posix = [s \in LockProcs \X Inodes |-> "none"]

GoesTo(t, label) == fpc' = [fpc EXCEPT ![t] = label]

-----------------------------------------------------------------------------
\* A thread sets out to lock the files of its plan.
Start(t, m) ==
    /\ fpc[t] = "idle"
    /\ lockType' = [lockType EXCEPT ![t] = m]
    /\ GoesTo(t, "lock")
    /\ UNCHANGED <<plan, nth, inodes, owner, queue, posix>>

\* lock, its first half, under mu: become the owner or queue up.
Lock(t) ==
    /\ fpc[t] = "lock"
    /\ inodes' = inodes \cup {<<t, Here(t)>>}
    /\ IF owner[Slot(t)] = NoLocker
         THEN /\ owner' = [owner EXCEPT ![Slot(t)] = t]
              /\ GoesTo(t, "setlkw")
              /\ UNCHANGED queue
         ELSE /\ queue' = [queue EXCEPT ![Slot(t)] = Append(@, t)]
              /\ GoesTo(t, "wait")
              /\ UNCHANGED owner
    /\ UNCHANGED <<plan, nth, lockType, posix>>

\* lock's f.Stat fails: lock returns before it touched the tables, and openFile
\* closes f.
StatFails(t) ==
    /\ fpc[t] = "lock" /\ LockErrors
    /\ GoesTo(t, "close")
    /\ UNCHANGED <<plan, nth, lockType, inodes, owner, queue, posix>>

\* Does the kernel let the process of t have the lock?
Allows(t) ==
    \A p \in LockProcs \ {HomeOf[t]} :
        IF lockType[t] = "wr" THEN posix[<<p, Here(t)>>] = "none"
                              ELSE posix[<<p, Here(t)>>] # "wr"

\* Mutant: EDEADLK is taken for success.
SetlkwAnyway(t) ==
    /\ fpc[t] = "setlkw"
    /\ posix' = [posix EXCEPT ![Slot(t)] = lockType[t]]
    /\ IF nth[t] < Len(plan[t])
         THEN nth' = [nth EXCEPT ![t] = @ + 1] /\ GoesTo(t, "lock")
         ELSE GoesTo(t, "held") /\ UNCHANGED nth
    /\ UNCHANGED <<plan, lockType, inodes, owner, queue>>

\* setlkw succeeds: lock returns nil, and the next file of the plan is due.
Setlkw(t) ==
    /\ fpc[t] = "setlkw" /\ Allows(t)
    /\ posix' = [posix EXCEPT ![Slot(t)] = lockType[t]]
    /\ IF nth[t] < Len(plan[t])
         THEN nth' = [nth EXCEPT ![t] = @ + 1] /\ GoesTo(t, "lock")
         ELSE GoesTo(t, "held") /\ UNCHANGED nth
    /\ UNCHANGED <<plan, lockType, inodes, owner, queue>>

\* setlkw fails: lock calls unlock(f) itself, and openFile closes f.
SetlkwFails(t) ==
    /\ fpc[t] = "setlkw" /\ LockErrors
    /\ GoesTo(t, "unlock")
    /\ UNCHANGED <<plan, nth, lockType, inodes, owner, queue, posix>>

\* The user of the files is done.
Finish(t) ==
    /\ fpc[t] = "held"
    /\ GoesTo(t, "unlock")
    /\ UNCHANGED <<plan, nth, lockType, inodes, owner, queue, posix>>

\* unlock, its first half: the caller must be the owner.
Unlock(t) ==
    /\ fpc[t] = "unlock"
    /\ GoesTo(t, IF <<t, Here(t)>> \in inodes /\ owner[Slot(t)] = t THEN "unlck" ELSE "panic")
    /\ UNCHANGED <<plan, nth, lockType, inodes, owner, queue, posix>>

\* setlkw(F_UNLCK).
Unlck(t) ==
    /\ fpc[t] = "unlck"
    /\ posix' = [posix EXCEPT ![Slot(t)] = "none"]
    /\ GoesTo(t, "handoff")
    /\ UNCHANGED <<plan, nth, lockType, inodes, owner, queue>>

\* Mutant: the map entry is removed although threads wait.
HandoffDropsQueue(t) ==
    /\ fpc[t] = "handoff"
    /\ inodes' = inodes \ {<<t, Here(t)>>}
    /\ owner' = [owner EXCEPT ![Slot(t)] = NoLocker]
    /\ queue' = [queue EXCEPT ![Slot(t)] = <<>>]
    /\ GoesTo(t, "close")
    /\ UNCHANGED <<plan, nth, lockType, posix>>

\* unlock, its second half, under mu: the first waiter, which is sending its
\* file, becomes the owner and goes on to setlkw.
Handoff(t) ==
    /\ fpc[t] = "handoff"
    /\ inodes' = inodes \ {<<t, Here(t)>>}
    /\ IF queue[Slot(t)] = <<>>
         THEN /\ owner' = [owner EXCEPT ![Slot(t)] = NoLocker]
              /\ GoesTo(t, "close")
              /\ UNCHANGED queue
         ELSE LET next == Head(queue[Slot(t)])
              IN  /\ owner' = [owner EXCEPT ![Slot(t)] = next]
                  /\ queue' = [queue EXCEPT ![Slot(t)] = Tail(@)]
                  /\ fpc' = [fpc EXCEPT ![t] = "close", ![next] = "setlkw"]
    /\ UNCHANGED <<plan, nth, lockType, posix>>

\* The rest of the plan, last file first.
AfterClose(t) == IF nth[t] > 1 THEN "unlock" ELSE "idle"

\* close(2): the kernel drops the process's lock on the inode, whichever
\* descriptor it was taken through.
Close(t) ==
    /\ fpc[t] = "close"
    /\ posix' = [posix EXCEPT ![Slot(t)] = "none"]
    /\ GoesTo(t, AfterClose(t))
    /\ nth' = [nth EXCEPT ![t] = IF @ > 1 THEN @ - 1 ELSE @]
    /\ UNCHANGED <<plan, lockType, inodes, owner, queue>>

-----------------------------------------------------------------------------
FcntlStep(t) ==
    \/ Lock(t) \/ StatFails(t) \/ Setlkw(t) \/ SetlkwFails(t) \/ Finish(t)
    \/ Unlock(t) \/ Unlck(t) \/ Handoff(t) \/ Close(t)

FcntlNext == \E t \in Lockers : FcntlStep(t) \/ \E m \in {"rd", "wr"} : Start(t, m)

\* Lockers run, users close their files, and a process that keeps asking for a
\* record lock gets it when it is often enough free.
FcntlFairness ==
    \A t \in Lockers :
        /\ WF_fcntlVars(Lock(t) \/ Finish(t) \/ Unlock(t) \/ Unlck(t) \/ Handoff(t) \/ Close(t))
        /\ SF_fcntlVars(Setlkw(t))

FcntlSpec == FcntlInit /\ [][FcntlNext]_fcntlVars /\ FcntlFairness

-----------------------------------------------------------------------------
(* Properties. *)

\* Does lock(f) for inode i, once called by t, stand as granted and not yet
\* given up?
Has(t, i) ==
    \E k \in 1..Len(plan[t]) :
        /\ plan[t][k] = i
        /\ \/ k < nth[t] /\ fpc[t] # "idle"
           \/ k = nth[t] /\ fpc[t] = "held"

\* "If Lock returns nil, no other process will be able to place a read or write
\* lock on the file until this process exits, closes f, or calls Unlock on it"
\* (comment of filelock.Lock).  It holds for a file that only one thread of the
\* process uses: closeFile closes its descriptor after unlock handed the lock
\* to the next thread of the process, and that close drops it.
Only(t, i) ==
    \A u \in Lockers \ {t} : HomeOf[u] = HomeOf[t] => \A k \in 1..Len(plan[u]) : plan[u][k] # i
NoOtherProcess ==
    \A t, u \in Lockers, i \in Inodes :
        (HomeOf[t] # HomeOf[u] /\ Has(t, i) /\ Has(u, i) /\ Only(t, i) /\ Only(u, i))
        => lockType[t] = "rd" /\ lockType[u] = "rd"

\* The tables agree: whoever has or awaits an inode is registered for it, an
\* entry in the queue is a thread that waits for that inode, in one queue only,
\* and an inode with waiters has an owner, which is not one of them.  The panic
\* "unlock called on a file that is not locked" is never reached.
TablesAgree ==
    /\ \A s \in LockProcs \X Inodes :
         /\ queue[s] # <<>> => owner[s] # NoLocker
         /\ owner[s] # NoLocker => <<owner[s], s[2]>> \in inodes /\ ~(fpc[owner[s]] = "wait" /\ Slot(owner[s]) = s)
         /\ \A k \in 1..Len(queue[s]) :
              /\ fpc[queue[s][k]] = "wait" /\ Slot(queue[s][k]) = s
              /\ \A j \in 1..Len(queue[s]) : queue[s][j] = queue[s][k] => j = k
    /\ \A t \in Lockers :
         fpc[t] = "wait" => \E k \in 1..Len(queue[Slot(t)]) : queue[Slot(t)][k] = t
    /\ (\A t \in Lockers : fpc[t] = "idle") => inodes = {}
    /\ \A t \in Lockers : fpc[t] # "panic"

\* Processes exclude each other, and the owners and queues that lock and unlock
\* keep for the threads of a process agree.
InodesGuarded == NoOtherProcess /\ TablesAgree

\* The retry loop and the queues introduce no livelock (the argument at the end
\* of the comment in lock): every call of lock comes to an end.
EveryLockReturns ==
    \A t \in Lockers : fpc[t] = "lock" ~> fpc[t] \in {"held", "unlock", "idle"}
=============================================================================
