----------------------------- MODULE LockProofs -----------------------------
(***************************************************************************)
(* Proofs about the two ways in which lockedfile excludes.  The record     *)
(* locks of filelock, for any number of threads, processes and files, and  *)
(* any plans: the tables kept beside them agree, unlock never panics, and  *)
(* processes exclude each other.  A Mutex, for any number of goroutines:   *)
(* it excludes, and its error paths and unlock functions leave nothing     *)
(* locked.                                                                 *)
(***************************************************************************)
EXTENDS FcntlLock, LockedMutex, TLAPS

-----------------------------------------------------------------------------
(* FcntlLock: the inductive invariant.                                     *)

Slots == LockProcs \X Inodes
Labels == {"idle", "lock", "wait", "setlkw", "held", "unlock", "unlck", "handoff", "close"}

\* Where a thread has become the owner of the inode it is at.
Working == {"setlkw", "held", "unlock", "unlck", "handoff"}

\* t has become, and still is, the owner of i.
Owns(t, i) == \E k \in 1..nth[t] : plan[t][k] = i /\ (k < nth[t] \/ fpc[t] \in Working)

Typed ==
    /\ plan \in Plans
    /\ fpc \in [Lockers -> Labels]
    /\ nth \in [Lockers -> Nat]
    /\ \A t \in Lockers : nth[t] \in 1..Len(plan[t]) /\ (fpc[t] = "idle" => nth[t] = 1)
    /\ lockType \in [Lockers -> {"rd", "wr"}]
    /\ inodes \subseteq Lockers \X Inodes
    /\ owner \in [Slots -> Lockers \cup {NoLocker}]
    /\ queue \in [Slots -> Seq(Lockers)]
    /\ posix \in [Slots -> {"none", "rd", "wr"}]

\* The owners are those that the calls of lock and unlock say, and the known
\* descriptors are theirs and those of the threads that wait.
Owners ==
    /\ \A t \in Lockers, i \in Inodes : owner[<<HomeOf[t], i>>] = t <=> Owns(t, i)
    /\ \A s \in Slots : owner[s] # NoLocker => HomeOf[owner[s]] = s[1]
    /\ \A t \in Lockers, i \in Inodes : <<t, i>> \in inodes <=> Owns(t, i) \/ (fpc[t] = "wait" /\ Here(t) = i)

\* The queues hold the threads that wait, each once, behind an owner.
Queues ==
    /\ \A s \in Slots : queue[s] # <<>> => owner[s] # NoLocker
    /\ \A s \in Slots : \A k \in 1..Len(queue[s]) : fpc[queue[s][k]] = "wait" /\ Slot(queue[s][k]) = s
    /\ \A s \in Slots : \A j, k \in 1..Len(queue[s]) : queue[s][j] = queue[s][k] => j = k
    /\ \A t \in Lockers : fpc[t] = "wait" => \E k \in 1..Len(queue[Slot(t)]) : queue[Slot(t)][k] = t

\* The kernel keeps a writing process alone, and a lock that no other thread of
\* the process can drop is still there.
Records ==
    /\ \A p, q \in LockProcs, i \in Inodes : p # q /\ posix[<<p, i>>] = "wr" => posix[<<q, i>>] = "none"
    /\ \A t \in Lockers, i \in Inodes : Has(t, i) /\ Only(t, i) => posix[<<HomeOf[t], i>>] = lockType[t]

FInv == Typed /\ Owners /\ Queues /\ Records

-----------------------------------------------------------------------------
(* Facts about the place a thread has in its plan.                         *)

\* A thread is at a place of its plan, which names an inode once.
LEMMA PlanOf ==
  ASSUME Typed, NEW t \in Lockers
  PROVE  /\ plan[t] \in Seq(Inodes) /\ Len(plan[t]) \in Nat /\ nth[t] \in Nat
         /\ nth[t] >= 1 /\ nth[t] <= Len(plan[t])
         /\ Here(t) \in Inodes /\ HomeOf[t] \in LockProcs
         /\ Slot(t) \in Slots /\ Slot(t)[1] = HomeOf[t] /\ Slot(t)[2] = Here(t)
         /\ \A j, k \in 1..Len(plan[t]) : plan[t][j] = plan[t][k] => j = k
<1>1. plan[t] \in Seq(Inodes) /\ nth[t] \in 1..Len(plan[t])
  BY PlansAssumption, Zenon DEF Typed
<1>2. Len(plan[t]) \in Nat /\ nth[t] \in Nat /\ nth[t] >= 1 /\ nth[t] <= Len(plan[t])
  BY <1>1 DEF Typed
<1>3. Here(t) \in Inodes
  BY <1>1 DEF Here
<1>4. HomeOf[t] \in LockProcs
  BY HomeOfAssumption
<1>5. \A j, k \in 1..Len(plan[t]) : plan[t][j] = plan[t][k] => j = k
  BY DistinctAssumption, Zenon DEF Typed
<1> QED BY <1>1, <1>2, <1>3, <1>4, <1>5, Zenon DEF Slot, Slots

\* t owns the inode it is at exactly if it works on it.
LEMMA OwnsHere ==
  ASSUME Typed, NEW t \in Lockers
  PROVE  Owns(t, Here(t)) <=> fpc[t] \in Working
<1>1. ASSUME NEW k \in 1..nth[t], plan[t][k] = Here(t) PROVE k = nth[t]
  BY <1>1, PlanOf DEF Here
<1> QED BY <1>1, PlanOf DEF Owns, Here

-----------------------------------------------------------------------------
\* At the start nobody owns, waits for or holds anything.
LEMMA FInitHolds == FcntlInit => FInv
<1> SUFFICES ASSUME FcntlInit
             PROVE  FInv
  OBVIOUS
<1>1. Typed
  BY PlansAssumption DEF FcntlInit, Typed, Labels, Slots
<1>2. \A t \in Lockers, i \in Inodes : ~Owns(t, i)
  BY DEF FcntlInit, Owns, Working
<1>3. Owners
  BY <1>2, NoLockerAssumption, HomeOfAssumption, Zenon DEF FcntlInit, Owners, Slots
<1>4. Queues
  BY DEF FcntlInit, Queues, Slots
<1>5. \A t \in Lockers, i \in Inodes : ~Has(t, i)
  BY DEF FcntlInit, Has
<1>6. Records
  BY <1>5, Zenon DEF FcntlInit, Records
<1> QED BY <1>1, <1>3, <1>4, <1>6 DEF FInv

\* A step that changes no table and no ownership, and moves no waiting thread,
\* keeps the tables right.
LEMMA QuietStep ==
  ASSUME FInv, UNCHANGED <<plan, inodes, owner, queue>>,
         \A u \in Lockers, i \in Inodes : Owns(u, i)' <=> Owns(u, i),
         \A u \in Lockers : (fpc'[u] = "wait" <=> fpc[u] = "wait") /\ (fpc[u] = "wait" => nth'[u] = nth[u])
  PROVE  Owners' /\ Queues'
<1>1. \A u \in Lockers : fpc[u] = "wait" => Here(u)' = Here(u) /\ Slot(u)' = Slot(u)
  BY Zenon DEF Here, Slot
<1>2. Owners'
  BY <1>1 DEF FInv, Owners
<1>3. \A s \in Slots : \A k \in 1..Len(queue[s]) : queue[s][k] \in Lockers
  BY DEF FInv, Typed
<1>4. Queues'
  BY <1>1, <1>3 DEF FInv, Queues
<1> QED BY <1>2, <1>4, Zenon

\* A step after which a thread has no locks it did not have, and which changes
\* neither the record locks nor the type of the locks that are held.
LEMMA QuietRecords ==
  ASSUME FInv, UNCHANGED <<plan, posix>>,
         \A u \in Lockers, i \in Inodes : Has(u, i)' => Has(u, i) /\ lockType'[u] = lockType[u]
  PROVE  Records'
<1>1. \A u \in Lockers, i \in Inodes : Only(u, i)' <=> Only(u, i)
  BY DEF Only
<1> QED BY <1>1 DEF FInv, Records

-----------------------------------------------------------------------------
(* The steps of one thread that leave the tables alone.                    *)

\* The labels and places of the other threads stay.
LEMMA OthersStay ==
  ASSUME Typed, NEW t \in Lockers, NEW l, GoesTo(t, l)
  PROVE  fpc'[t] = l /\ \A u \in Lockers \ {t} : fpc'[u] = fpc[u]
BY DEF GoesTo, Typed

\* t stays at its place, at work before and after, or neither.
LEMMA StaysAt ==
  ASSUME Typed, NEW t \in Lockers, NEW l, GoesTo(t, l), UNCHANGED <<plan, nth>>,
         fpc[t] \in Working <=> l \in Working
  PROVE  \A u \in Lockers, i \in Inodes : Owns(u, i)' <=> Owns(u, i)
<1>1. fpc'[t] = l /\ \A u \in Lockers \ {t} : fpc'[u] = fpc[u]
  BY OthersStay
<1> QED BY <1>1 DEF Owns

\* openFile begins.
LEMMA StartKeeps ==
  ASSUME FInv, NEW t \in Lockers, NEW m \in {"rd", "wr"}, Start(t, m)
  PROVE  FInv'
<1>1. fpc[t] = "idle" /\ GoesTo(t, "lock") /\ UNCHANGED <<plan, nth, inodes, owner, queue, posix>> /\ nth[t] = 1
  BY Zenon DEF Start, FInv, Typed
<1>2. fpc'[t] = "lock" /\ \A u \in Lockers \ {t} : fpc'[u] = fpc[u] /\ lockType'[u] = lockType[u]
  BY <1>1, OthersStay, Zenon DEF FInv, Typed, Start
<1>3. Typed'
  BY <1>1, <1>2 DEF Start, FInv, Typed, GoesTo, Labels
<1>4. Owners' /\ Queues'
  <2>1. \A u \in Lockers, i \in Inodes : Owns(u, i)' <=> Owns(u, i)
    BY <1>1, StaysAt, Zenon DEF FInv, Working
  <2> QED BY <1>1, <1>2, <2>1, QuietStep, Zenon
<1>5. Records'
  <2>1. \A i \in Inodes : ~Has(t, i)'
    BY <1>1, <1>2 DEF Has
  <2>2. \A u \in Lockers \ {t}, i \in Inodes : Has(u, i)' => Has(u, i)
    BY <1>1, <1>2 DEF Has
  <2> QED BY <1>1, <1>2, <2>1, <2>2, QuietRecords, Zenon
<1> QED BY <1>3, <1>4, <1>5 DEF FInv

\* Whoever gets to unlock is registered, and is the owner: its panic is not reached.
LEMMA UnlockNeverPanics ==
  ASSUME FInv, NEW t \in Lockers, fpc[t] = "unlock"
  PROVE  <<t, Here(t)>> \in inodes /\ owner[Slot(t)] = t
<1>1. Owns(t, Here(t)) /\ Here(t) \in Inodes
  BY OwnsHere, PlanOf, Zenon DEF FInv, Working
<1> QED BY <1>1 DEF FInv, Owners, Slot

\* Errors of f.Stat and setlkw, the end of the use, and the check of unlock change
\* no table.
LEMMA LabelKeeps ==
  ASSUME FInv, NEW t \in Lockers, StatFails(t) \/ SetlkwFails(t) \/ Finish(t) \/ Unlock(t)
  PROVE  FInv'
<1>1. PICK l \in Labels :
        /\ GoesTo(t, l) /\ l \notin {"wait", "idle", "held"}
        /\ fpc[t] # "wait" /\ (fpc[t] \in Working <=> l \in Working)
        /\ UNCHANGED <<plan, nth, lockType, inodes, owner, queue, posix>> /\ fpc[t] # "idle"
  <2>1. CASE StatFails(t)
    BY <2>1, Zenon DEF StatFails, Labels, Working
  <2>2. CASE SetlkwFails(t) \/ Finish(t)
    BY <2>2, Zenon DEF SetlkwFails, Finish, Labels, Working
  <2>3. CASE Unlock(t)
    BY <2>3, UnlockNeverPanics, Zenon DEF Unlock, Labels, Working
  <2> QED BY <2>1, <2>2, <2>3, Zenon
<1>2. fpc'[t] = l /\ \A u \in Lockers \ {t} : fpc'[u] = fpc[u]
  BY <1>1, OthersStay, Zenon DEF FInv
<1>3. Typed'
  BY <1>1, <1>2, Zenon DEF FInv, Typed, GoesTo
<1>4. Owners' /\ Queues'
  <2>1. \A u \in Lockers, i \in Inodes : Owns(u, i)' <=> Owns(u, i)
    BY <1>1, StaysAt, Zenon DEF FInv
  <2> QED BY <1>1, <1>2, <2>1, QuietStep, Zenon
<1>5. Records'
  <2>1. \A u \in Lockers, i \in Inodes : Has(u, i)' => Has(u, i)
    BY <1>1, <1>2 DEF Has
  <2> QED BY <1>1, <2>1, QuietRecords, Zenon
<1> QED BY <1>3, <1>4, <1>5 DEF FInv

-----------------------------------------------------------------------------
(* The record locks.                                                       *)

\* What is dropped or set at the slot of t is nobody else's, if nobody else of
\* the process uses the inode.
LEMMA NobodyElse ==
  ASSUME FInv, NEW t \in Lockers, NEW u \in Lockers, NEW i \in Inodes,
         Only(u, i), <<HomeOf[u], i>> = Slot(t)
  PROVE  u = t /\ i = Here(t)
<1>1. HomeOf[u] = HomeOf[t] /\ i = Here(t)
  BY DEF Slot
<1>2. nth[t] \in 1..Len(plan[t]) /\ plan[t][nth[t]] = i
  BY <1>1, PlanOf DEF FInv, Here
<1> QED BY <1>1, <1>2, Zenon DEF Only

\* The record lock is granted.
LEMMA SetlkwKeeps ==
  ASSUME FInv, NEW t \in Lockers, Setlkw(t)
  PROVE  FInv'
<1>1. PICK l \in {"lock", "held"} :
        /\ GoesTo(t, l) /\ fpc[t] = "setlkw" /\ Allows(t)
        /\ posix' = [posix EXCEPT ![Slot(t)] = lockType[t]]
        /\ IF l = "lock" THEN nth[t] < Len(plan[t]) /\ nth' = [nth EXCEPT ![t] = nth[t] + 1]
                         ELSE nth' = nth
        /\ UNCHANGED <<plan, lockType, inodes, owner, queue>>
  BY Zenon DEF Setlkw
<1>2. fpc'[t] = l /\ \A u \in Lockers \ {t} : fpc'[u] = fpc[u] /\ nth'[u] = nth[u]
  BY <1>1, OthersStay DEF FInv, Typed
<1>3. nth'[t] = IF l = "lock" THEN nth[t] + 1 ELSE nth[t]
  BY <1>1, Zenon DEF FInv, Typed
<1>4. nth[t] \in Nat /\ nth[t] >= 1 /\ nth[t] <= Len(plan[t]) /\ Len(plan[t]) \in Nat /\ Slot(t) \in Slots
  BY PlanOf, Zenon DEF FInv
<1>5. Typed'
  <2>1. fpc' \in [Lockers -> Labels]
    BY <1>1, Zenon DEF FInv, Typed, GoesTo, Labels
  <2>4. nth' \in [Lockers -> Nat]
    <3>1. nth \in [Lockers -> Nat] /\ nth[t] + 1 \in Nat
      BY <1>4 DEF FInv, Typed
    <3>2. nth' = nth \/ nth' = [nth EXCEPT ![t] = nth[t] + 1]
      BY <1>1, Zenon
    <3> QED BY ONLY <3>1, <3>2
  <2>2. \A u \in Lockers : nth'[u] \in 1..Len(plan[u]) /\ (fpc'[u] = "idle" => nth'[u] = 1)
    BY <1>1, <1>2, <1>3, <1>4 DEF FInv, Typed
  <2>3. posix' \in [Slots -> {"none", "rd", "wr"}]
    BY <1>1, Zenon DEF FInv, Typed
  <2> QED BY <1>1, <2>1, <2>2, <2>3, <2>4, Zenon DEF FInv, Typed
<1>6. Owners' /\ Queues'
  <2>1. \A u \in Lockers \ {t}, i \in Inodes : Owns(u, i)' <=> Owns(u, i)
    BY <1>1, <1>2, Zenon DEF Owns
  <2>2. \A i \in Inodes : Owns(t, i)' <=> Owns(t, i)
    <3>1. CASE l = "held"
      BY <1>1, <1>2, <1>3, <3>1, Zenon DEF Owns, Working
    <3>2. CASE l = "lock"
      BY <1>1, <1>2, <1>3, <1>4, <3>2 DEF Owns, Working
    <3> QED BY <3>1, <3>2
  <2> QED BY <1>1, <1>2, <2>1, <2>2, QuietStep, Zenon
<1>7. Records'
  <2>1. \A s \in Slots : posix'[s] = IF s = Slot(t) THEN lockType[t] ELSE posix[s]
    BY <1>1, Zenon DEF FInv, Typed
  <2>2. \A p, q \in LockProcs, i \in Inodes : p # q /\ posix'[<<p, i>>] = "wr" => posix'[<<q, i>>] = "none"
    <3> SUFFICES ASSUME NEW p \in LockProcs, NEW q \in LockProcs, NEW i \in Inodes, p # q, posix'[<<p, i>>] = "wr"
                 PROVE  posix'[<<q, i>>] = "none"
      OBVIOUS
    <3>1. <<p, i>> \in Slots /\ <<q, i>> \in Slots
      BY DEF Slots
    <3>2. CASE <<p, i>> = Slot(t)
      BY <1>1, <2>1, <3>1, <3>2 DEF Allows, Slot
    <3>3. CASE <<q, i>> = Slot(t)
      BY <1>1, <2>1, <3>1, <3>3, Zenon DEF Allows, Slot, FInv, Typed
    <3>4. CASE <<p, i>> # Slot(t) /\ <<q, i>> # Slot(t)
      BY <2>1, <3>1, <3>4 DEF FInv, Records
    <3> QED BY <3>2, <3>3, <3>4
  <2>3. ASSUME NEW u \in Lockers, NEW i \in Inodes, Has(u, i)', Only(u, i)'
        PROVE  posix'[<<HomeOf[u], i>>] = lockType'[u]
    <3>1. Only(u, i) /\ <<HomeOf[u], i>> \in Slots
      BY <1>1, <2>3, HomeOfAssumption, Zenon DEF Only, Slots
    <3>2. CASE <<HomeOf[u], i>> = Slot(t)
      BY <1>1, <2>1, <3>1, <3>2, NobodyElse, Zenon
    <3>3. CASE <<HomeOf[u], i>> # Slot(t)
      <4>1. u = t => i # Here(t)
        BY <3>3 DEF Slot
      <4>2. u # t => Has(u, i)
        BY <1>1, <1>2, <2>3, Zenon DEF Has
      <4>3. u = t => Has(u, i)
        BY <1>1, <1>2, <1>3, <1>4, <2>3, <4>1 DEF Has, Here
      <4> QED BY <1>1, <2>1, <3>1, <3>3, <4>2, <4>3, Zenon DEF FInv, Records
    <3> QED BY <3>2, <3>3
  <2> QED BY <2>2, <2>3, Zenon DEF Records
<1> QED BY <1>5, <1>6, <1>7 DEF FInv

\* unlock and close(2) drop the record lock at the place of t.
LEMMA DropKeeps ==
  ASSUME FInv, NEW t \in Lockers, Unlck(t) \/ Close(t)
  PROVE  FInv'
<1>1. PICK l \in {"handoff", "unlock", "idle"}, n \in Nat :
        /\ GoesTo(t, l) /\ posix' = [posix EXCEPT ![Slot(t)] = "none"]
        /\ nth' = [nth EXCEPT ![t] = n]
        /\ \/ l = "handoff" /\ fpc[t] = "unlck" /\ n = nth[t]
           \/ l = "unlock" /\ fpc[t] = "close" /\ nth[t] > 1 /\ n = nth[t] - 1
           \/ l = "idle" /\ fpc[t] = "close" /\ nth[t] = 1 /\ n = 1
        /\ UNCHANGED <<plan, lockType, inodes, owner, queue>>
  <2>1. nth[t] \in Nat /\ nth[t] >= 1 /\ nth = [nth EXCEPT ![t] = nth[t]]
    BY PlanOf DEF FInv, Typed
  <2>2. CASE Unlck(t)
    BY <2>1, <2>2, Zenon DEF Unlck
  <2>3. CASE Close(t) /\ nth[t] > 1
    <3>1. nth[t] - 1 \in Nat /\ GoesTo(t, "unlock")
      BY <2>1, <2>3 DEF Close, AfterClose
    <3>2. nth' = [nth EXCEPT ![t] = nth[t] - 1]
      <4>1. nth' = [nth EXCEPT ![t] = IF nth[t] > 1 THEN nth[t] - 1 ELSE nth[t]]
        BY <2>3, Zenon DEF Close
      <4>2. (IF nth[t] > 1 THEN nth[t] - 1 ELSE nth[t]) = nth[t] - 1
        BY <2>1, <2>3
      <4> QED BY <4>1, <4>2, Zenon
    <3> QED BY <2>3, <3>1, <3>2, Zenon DEF Close
  <2>4. CASE Close(t) /\ nth[t] = 1
    <3>1. nth' = [nth EXCEPT ![t] = 1] /\ GoesTo(t, "idle")
      BY <2>1, <2>4 DEF Close, AfterClose
    <3> QED BY <2>4, <3>1, Zenon DEF Close
  <2> QED BY <2>1, <2>2, <2>3, <2>4
<1>2. fpc'[t] = l /\ nth'[t] = n /\ \A u \in Lockers \ {t} : fpc'[u] = fpc[u] /\ nth'[u] = nth[u]
  BY <1>1, OthersStay, Zenon DEF FInv, Typed
<1>3. nth[t] \in Nat /\ nth[t] >= 1 /\ nth[t] <= Len(plan[t]) /\ Len(plan[t]) \in Nat /\ Slot(t) \in Slots
  BY PlanOf, Zenon DEF FInv
<1>4. Typed'
  <2>1. fpc' \in [Lockers -> Labels] /\ nth' \in [Lockers -> Nat]
    BY <1>1, Zenon DEF FInv, Typed, GoesTo, Labels
  <2>2. \A u \in Lockers : nth'[u] \in 1..Len(plan[u]) /\ (fpc'[u] = "idle" => nth'[u] = 1)
    BY <1>1, <1>2, <1>3 DEF FInv, Typed
  <2>3. posix' \in [Slots -> {"none", "rd", "wr"}]
    BY <1>1, Zenon DEF FInv, Typed
  <2> QED BY <1>1, <2>1, <2>2, <2>3, Zenon DEF FInv, Typed
<1>5. Owners' /\ Queues'
  <2>1. \A u \in Lockers \ {t}, i \in Inodes : Owns(u, i)' <=> Owns(u, i)
    BY <1>1, <1>2, Zenon DEF Owns
  <2>2. \A i \in Inodes : Owns(t, i)' <=> Owns(t, i)
    BY <1>1, <1>2, <1>3 DEF Owns, Working
  <2> QED BY <1>1, <1>2, <2>1, <2>2, QuietStep, Zenon
<1>6. Records'
  <2>1. \A s \in Slots : posix'[s] = IF s = Slot(t) THEN "none" ELSE posix[s]
    BY <1>1, Zenon DEF FInv, Typed
  <2>2. \A p, q \in LockProcs, i \in Inodes : p # q /\ posix'[<<p, i>>] = "wr" => posix'[<<q, i>>] = "none"
    BY <2>1 DEF FInv, Records, Slots
  <2>3. ASSUME NEW u \in Lockers, NEW i \in Inodes, Has(u, i)', Only(u, i)'
        PROVE  posix'[<<HomeOf[u], i>>] = lockType'[u]
    <3>1. Only(u, i) /\ <<HomeOf[u], i>> \in Slots
      BY <1>1, <2>3, HomeOfAssumption, Zenon DEF Only, Slots
    <3>2. Has(u, i)
      <4>1. plan' = plan
        BY <1>1, Zenon
      <4>2. CASE u # t
        BY <1>2, <2>3, <4>1, <4>2, Zenon DEF Has
      <4>3. CASE u = t
        <5>1. l # "held" /\ n \in Nat /\ n <= nth[t] /\ fpc[t] \in {"unlck", "close"} /\ fpc'[t] = l /\ nth'[t] = n
          BY <1>1, <1>2, <1>3
        <5>2. PICK k \in 1..Len(plan[t]) : plan[t][k] = i /\ k < n
          BY <2>3, <4>1, <4>3, <5>1 DEF Has
        <5>3. k < nth[t] /\ fpc[t] # "idle"
          BY <1>3, <5>1, <5>2
        <5> QED BY <4>3, <5>2, <5>3 DEF Has
      <4> QED BY <4>2, <4>3
    <3>3. <<HomeOf[u], i>> # Slot(t)
      <4> SUFFICES ASSUME <<HomeOf[u], i>> = Slot(t)
                   PROVE  FALSE
        OBVIOUS
      <4>1. u = t /\ i = Here(t)
        BY <3>1, NobodyElse
      <4>2. \A j, k \in 1..Len(plan[t]) : plan[t][j] = plan[t][k] => j = k
        BY PlanOf, Zenon DEF FInv
      <4> QED BY <1>1, <1>2, <1>3, <2>3, <4>1, <4>2 DEF Has, Here
    <3> QED BY <1>1, <2>1, <3>1, <3>2, <3>3, Zenon DEF FInv, Records
  <2> QED BY <2>2, <2>3, Zenon DEF Records
<1> QED BY <1>4, <1>5, <1>6 DEF FInv

-----------------------------------------------------------------------------
(* The tables.                                                             *)

\* The inode is free: t becomes its owner.
LEMMA LockOwnsKeeps ==
  ASSUME FInv, NEW t \in Lockers, Lock(t), owner[Slot(t)] = NoLocker
  PROVE  FInv'
<1>1. /\ fpc[t] = "lock" /\ GoesTo(t, "setlkw")
      /\ owner' = [owner EXCEPT ![Slot(t)] = t]
      /\ inodes' = inodes \cup {<<t, Here(t)>>}
      /\ UNCHANGED <<plan, nth, lockType, queue, posix>>
  BY Zenon DEF Lock
<1>2. fpc'[t] = "setlkw" /\ \A u \in Lockers \ {t} : fpc'[u] = fpc[u]
  BY <1>1, OthersStay, Zenon DEF FInv
<1>3. nth[t] \in Nat /\ nth[t] >= 1 /\ Here(t) \in Inodes /\ Slot(t) \in Slots
  BY PlanOf, Zenon DEF FInv
<1>4. Typed'
  BY <1>1, <1>2, <1>3 DEF FInv, Typed, GoesTo, Labels
<1>5. \A u \in Lockers \ {t}, i \in Inodes : Owns(u, i)' <=> Owns(u, i)
  BY <1>1, <1>2, Zenon DEF Owns
<1>6. \A i \in Inodes : Owns(t, i)' <=> Owns(t, i) \/ i = Here(t)
  BY <1>1, <1>2, <1>3 DEF Owns, Working, Here
<1>7. \A u \in Lockers : Here(u)' = Here(u) /\ Slot(u)' = Slot(u)
  BY <1>1, Zenon DEF Here, Slot
<1>8. \A s \in Slots : owner'[s] = IF s = Slot(t) THEN t ELSE owner[s]
  BY <1>1, Zenon DEF FInv, Typed
<1>9. Owners'
  <2>1. \A u \in Lockers, i \in Inodes : owner'[<<HomeOf[u], i>>] = u <=> Owns(u, i)'
    <3> SUFFICES ASSUME NEW u \in Lockers, NEW i \in Inodes
                 PROVE  owner'[<<HomeOf[u], i>>] = u <=> Owns(u, i)'
      OBVIOUS
    <3>1. <<HomeOf[u], i>> \in Slots /\ (owner[<<HomeOf[u], i>>] = u <=> Owns(u, i))
      BY HomeOfAssumption, Zenon DEF FInv, Owners, Slots
    <3>2. u = t => (<<HomeOf[u], i>> = Slot(t) <=> i = Here(t))
      BY DEF Slot
    <3> QED BY <1>5, <1>6, <1>8, <3>1, <3>2, NoLockerAssumption, Zenon
  <2>2. \A s \in Slots : owner'[s] # NoLocker => HomeOf[owner'[s]] = s[1]
    BY <1>8 DEF FInv, Owners, Slot
  <2>3. \A u \in Lockers, i \in Inodes : <<u, i>> \in inodes' <=> Owns(u, i)' \/ (fpc'[u] = "wait" /\ Here(u)' = i)
    <3>1. \A u \in Lockers, i \in Inodes : <<u, i>> \in inodes' <=> <<u, i>> \in inodes \/ (u = t /\ i = Here(t))
      BY <1>1, Zenon
    <3>2. \A u \in Lockers, i \in Inodes : <<u, i>> \in inodes <=> Owns(u, i) \/ (fpc[u] = "wait" /\ Here(u) = i)
      BY DEF FInv, Owners
    <3>3. ASSUME NEW u \in Lockers \ {t}, NEW i \in Inodes
          PROVE  <<u, i>> \in inodes' <=> Owns(u, i)' \/ (fpc'[u] = "wait" /\ Here(u)' = i)
      BY <1>2, <1>5, <1>7, <3>1, <3>2, Zenon
    <3>4. ASSUME NEW i \in Inodes
          PROVE  <<t, i>> \in inodes' <=> Owns(t, i)' \/ (fpc'[t] = "wait" /\ Here(t)' = i)
      <4>1. fpc[t] # "wait" /\ fpc'[t] # "wait"
        BY <1>1, <1>2, Zenon
      <4> QED BY <1>6, <3>1, <3>2, <4>1, Zenon
    <3> QED BY <3>3, <3>4
  <2> QED BY <2>1, <2>2, <2>3, Zenon DEF Owners
<1>10. Queues'
  <2>1. \A s \in Slots : \A k \in 1..Len(queue[s]) : queue[s][k] \in Lockers \ {t}
    BY <1>1 DEF FInv, Typed, Queues
  <2>2. \A s \in Slots : queue'[s] # <<>> => owner'[s] # NoLocker
    <3>1. queue' = queue /\ t # NoLocker
      BY <1>1, NoLockerAssumption
    <3>2. \A s \in Slots : queue[s] # <<>> => owner[s] # NoLocker
      BY Zenon DEF FInv, Queues
    <3> QED BY <1>8, <3>1, <3>2
  <2>3. \A s \in Slots : \A k \in 1..Len(queue[s]) : fpc'[queue[s][k]] = "wait" /\ Slot(queue[s][k])' = s
    <3> SUFFICES ASSUME NEW s \in Slots, NEW k \in 1..Len(queue[s])
                 PROVE  fpc'[queue[s][k]] = "wait" /\ Slot(queue[s][k])' = s
      BY Zenon
    <3>1. PICK u \in Lockers \ {t} : u = queue[s][k] /\ u = queue'[s][k]
      BY <1>1, <2>1, Zenon
    <3>2. fpc[queue[s][k]] = "wait" /\ Slot(queue[s][k]) = s
      BY Zenon DEF FInv, Queues
    <3>3. fpc[u] = "wait" /\ Slot(u) = s
      BY <3>1, <3>2, Zenon DEF Slot, Here
    <3> QED BY <1>1, <1>2, <1>7, <3>1, <3>3, Zenon DEF Slot, Here
  <2>4. queue' = queue
    BY <1>1
  <2>5. \A s \in Slots : \A j, k \in 1..Len(queue[s]) : queue[s][j] = queue[s][k] => j = k
    BY Zenon DEF FInv, Queues
  <2>6. ASSUME NEW u \in Lockers, fpc'[u] = "wait"
        PROVE  (\E k \in 1..Len(queue[Slot(u)]) : queue[Slot(u)][k] = u)'
    <3>1. fpc[u] = "wait" /\ Slot(u)' = Slot(u)
      BY <1>2, <1>7, <2>6
    <3>2. \E k \in 1..Len(queue[Slot(u)]) : queue[Slot(u)][k] = u
      BY <3>1, Zenon DEF FInv, Queues
    <3> QED BY <2>4, <3>1, <3>2
  <2> QED BY <2>2, <2>3, <2>4, <2>5, <2>6 DEF Queues
<1>11. Records'
  <2>1. \A u \in Lockers, i \in Inodes : Has(u, i)' => Has(u, i)
    BY <1>1, <1>2 DEF Has
  <2> QED BY <1>1, <2>1, QuietRecords, Zenon
<1> QED BY <1>4, <1>9, <1>10, <1>11 DEF FInv

\* The inode has an owner: t queues up behind it.
LEMMA LockWaitsKeeps ==
  ASSUME FInv, NEW t \in Lockers, Lock(t), owner[Slot(t)] # NoLocker
  PROVE  FInv'
<1>1. /\ fpc[t] = "lock" /\ GoesTo(t, "wait")
      /\ queue' = [queue EXCEPT ![Slot(t)] = Append(queue[Slot(t)], t)]
      /\ inodes' = inodes \cup {<<t, Here(t)>>}
      /\ UNCHANGED <<plan, nth, lockType, owner, posix>>
  BY Zenon DEF Lock
<1>2. fpc'[t] = "wait" /\ \A u \in Lockers \ {t} : fpc'[u] = fpc[u]
  BY <1>1, OthersStay, Zenon DEF FInv
<1>3. Here(t) \in Inodes /\ Slot(t) \in Slots
  BY PlanOf, Zenon DEF FInv
<1>4. queue[Slot(t)] \in Seq(Lockers)
  BY <1>3, Zenon DEF FInv, Typed
<1>5. Typed'
  BY <1>1, <1>2, <1>3, <1>4 DEF FInv, Typed, GoesTo, Labels
<1>6. \A u \in Lockers, i \in Inodes : Owns(u, i)' <=> Owns(u, i)
  BY <1>1, StaysAt, Zenon DEF FInv, Working
<1>7. \A u \in Lockers : Here(u)' = Here(u) /\ Slot(u)' = Slot(u)
  BY <1>1, Zenon DEF Here, Slot
<1>8. Owners'
  <2>1. \A u \in Lockers, i \in Inodes : <<u, i>> \in inodes' <=> <<u, i>> \in inodes \/ (u = t /\ i = Here(t))
    BY <1>1, Zenon
  <2>2. \A u \in Lockers, i \in Inodes : <<u, i>> \in inodes <=> Owns(u, i) \/ (fpc[u] = "wait" /\ Here(u) = i)
    BY DEF FInv, Owners
  <2>3. ASSUME NEW u \in Lockers \ {t}, NEW i \in Inodes
        PROVE  <<u, i>> \in inodes' <=> Owns(u, i)' \/ (fpc'[u] = "wait" /\ Here(u)' = i)
    BY <1>2, <1>6, <1>7, <2>1, <2>2
  <2>4. ASSUME NEW i \in Inodes
        PROVE  <<t, i>> \in inodes' <=> Owns(t, i)' \/ (fpc'[t] = "wait" /\ Here(t)' = i)
    <3>1. fpc[t] # "wait"
      BY <1>1, Zenon
    <3> QED BY <1>2, <1>6, <1>7, <2>1, <2>2, <3>1, Zenon
  <2> QED BY <1>1, <1>6, <2>3, <2>4 DEF FInv, Owners
<1>9. Queues'
  <2> DEFINE q == queue[Slot(t)]
  <2>1. /\ \A s \in Slots : s # Slot(t) => queue'[s] = queue[s]
        /\ queue'[Slot(t)] = Append(q, t)
    BY <1>1, <1>3, Zenon DEF FInv, Typed
  <2>2. /\ Len(Append(q, t)) = Len(q) + 1 /\ Len(q) \in Nat /\ Append(q, t)[Len(q) + 1] = t
        /\ \A k \in 1..Len(q) : Append(q, t)[k] = q[k]
    BY <1>4
  <2>3. \A s \in Slots : queue'[s] # <<>> => owner'[s] # NoLocker
    BY <1>1, <2>1, Zenon DEF FInv, Queues
  <2>4. \A s \in Slots : \A k \in 1..Len(queue[s]) : queue[s][k] \in Lockers \ {t} /\ fpc[queue[s][k]] = "wait" /\ Slot(queue[s][k]) = s
    BY <1>1 DEF FInv, Typed, Queues
  <2>5. ASSUME NEW s \in Slots, NEW k \in 1..Len(queue'[s])
        PROVE  (fpc[queue[s][k]] = "wait" /\ Slot(queue[s][k]) = s)'
    <3>1. CASE s = Slot(t) /\ k = Len(q) + 1
      <4>1. queue'[s][k] = t
        BY <2>1, <2>2, <3>1, Zenon
      <4> QED BY <1>1, <1>2, <1>7, <3>1, <4>1, Zenon DEF Slot, Here
    <3>2. CASE ~(s = Slot(t) /\ k = Len(q) + 1)
      <4>1. k \in 1..Len(queue[s]) /\ queue'[s][k] = queue[s][k]
        <5>1. CASE s # Slot(t)
          BY <2>1, <5>1, Zenon
        <5>2. CASE s = Slot(t)
          <6>1. k \in 1..Len(Append(q, t)) /\ k # Len(q) + 1
            BY <2>1, <3>2, <5>2, Zenon
          <6>2. k \in 1..Len(q)
            BY ONLY <2>2, <6>1
          <6> QED BY <2>1, <2>2, <5>2, <6>2, Zenon
        <5> QED BY <5>1, <5>2, Zenon
      <4>2. PICK u \in Lockers \ {t} : u = queue[s][k]
        BY <2>4, <4>1, Zenon
      <4>3. fpc[queue[s][k]] = "wait" /\ Slot(queue[s][k]) = s
        BY <2>4, <4>1, Zenon
      <4>4. fpc[u] = "wait" /\ Slot(u) = s
        BY <4>2, <4>3, Zenon DEF Slot, Here
      <4> QED BY <1>1, <1>2, <1>7, <4>1, <4>2, <4>4, Zenon DEF Slot, Here
    <3> QED BY <3>1, <3>2, Zenon
  <2>6. ASSUME NEW s \in Slots, NEW j \in 1..Len(queue'[s]), NEW k \in 1..Len(queue'[s]), queue'[s][j] = queue'[s][k]
        PROVE  j = k
    <3>1. CASE s # Slot(t)
      BY <2>1, <2>6, <3>1, Zenon DEF FInv, Queues
    <3>2. CASE s = Slot(t)
      <4>1. \A x, y \in 1..Len(q) : q[x] = q[y] => x = y
        BY <1>3, Zenon DEF FInv, Queues
      <4>2. \A x \in 1..Len(q) : q[x] # t
        BY <1>3, <2>4, Zenon
      <4>3. /\ j \in 1..Len(Append(q, t)) /\ k \in 1..Len(Append(q, t))
            /\ Append(q, t)[j] = Append(q, t)[k]
        BY <2>1, <2>6, <3>2, Zenon
      <4> HIDE DEF q
      <4> QED BY ONLY <2>2, <4>1, <4>2, <4>3
    <3> QED BY <3>1, <3>2
  <2>7. ASSUME NEW u \in Lockers, fpc'[u] = "wait"
        PROVE  (\E k \in 1..Len(queue[Slot(u)]) : queue[Slot(u)][k] = u)'
    <3>1. Slot(u) \in Slots /\ Slot(u)' = Slot(u)
      BY <1>7, PlanOf, Zenon DEF FInv
    <3>2. CASE u = t
      BY <2>1, <2>2, <3>1, <3>2
    <3>3. CASE u # t
      <4>1. PICK k \in 1..Len(queue[Slot(u)]) : queue[Slot(u)][k] = u
        BY <1>2, <2>7, <3>3, Zenon DEF FInv, Queues
      <4>2. k \in 1..Len(queue'[Slot(u)]) /\ queue'[Slot(u)][k] = u
        BY <2>1, <2>2, <3>1, <4>1
      <4> QED BY <3>1, <4>2
    <3> QED BY <3>2, <3>3
  <2> QED BY <2>3, <2>5, <2>6, <2>7, Zenon DEF Queues
<1>10. Records'
  <2>1. \A u \in Lockers, i \in Inodes : Has(u, i)' => Has(u, i)
    BY <1>1, <1>2 DEF Has
  <2> QED BY <1>1, <2>1, QuietRecords, Zenon
<1> QED BY <1>5, <1>8, <1>9, <1>10 DEF FInv

-----------------------------------------------------------------------------
(* The owner gives the inode up.                                           *)

\* t, which is done with the inode it is at, owns the others of its plan.
LEMMA GivesUp ==
  ASSUME Typed, NEW t \in Lockers, fpc[t] = "handoff", fpc'[t] = "close", UNCHANGED <<plan, nth>>
  PROVE  \A i \in Inodes : Owns(t, i)' <=> Owns(t, i) /\ i # Here(t)
<1>1. ASSUME NEW k \in 1..nth[t], plan[t][k] = Here(t) PROVE k = nth[t]
  BY <1>1, PlanOf DEF Here
<1>2. nth[t] \in Nat /\ nth[t] >= 1
  BY PlanOf, Zenon
<1>3. \A i : Owns(t, i) <=> \E k \in 1..nth[t] : plan[t][k] = i
  BY <1>2, Zenon DEF Owns, Working
<1>4. \A i : Owns(t, i)' <=> \E k \in 1..nth[t] : plan[t][k] = i /\ k < nth[t]
  BY <1>2 DEF Owns, Working
<1> QED BY <1>1, <1>2, <1>3, <1>4 DEF Here

\* u, which waited, owns the inode it is at as well.
LEMMA TakesOver ==
  ASSUME Typed, NEW u \in Lockers, fpc[u] = "wait", fpc'[u] = "setlkw", UNCHANGED <<plan, nth>>
  PROVE  \A i \in Inodes : Owns(u, i)' <=> Owns(u, i) \/ i = Here(u)
BY PlanOf DEF Owns, Here, Working

\* Nobody waits: the entry is deleted.
LEMMA HandoffToNobodyKeeps ==
  ASSUME FInv, NEW t \in Lockers, Handoff(t), queue[Slot(t)] = <<>>
  PROVE  FInv'
<1>1. /\ fpc[t] = "handoff" /\ GoesTo(t, "close")
      /\ owner' = [owner EXCEPT ![Slot(t)] = NoLocker]
      /\ inodes' = inodes \ {<<t, Here(t)>>}
      /\ UNCHANGED <<plan, nth, lockType, queue, posix>>
  BY Zenon DEF Handoff
<1>2. fpc'[t] = "close" /\ \A u \in Lockers \ {t} : fpc'[u] = fpc[u]
  BY <1>1, OthersStay, Zenon DEF FInv
<1>3. /\ Here(t) \in Inodes /\ Slot(t) \in Slots
      /\ Slot(t)[1] = HomeOf[t] /\ Slot(t)[2] = Here(t)
  BY PlanOf, Zenon DEF FInv
<1>4. Typed'
  BY <1>1, <1>2, Zenon DEF FInv, Typed, GoesTo, Labels
<1>5. \A u \in Lockers : Here(u)' = Here(u) /\ Slot(u)' = Slot(u)
  BY <1>1, Zenon DEF Here, Slot
<1>6. /\ owner'[Slot(t)] = NoLocker
      /\ \A s \in Slots : s # Slot(t) => owner'[s] = owner[s]
  BY <1>1, <1>3, Zenon DEF FInv, Typed
<1>7. owner[Slot(t)] = t
  <2>1. Owns(t, Here(t))
    BY <1>1, OwnsHere, Zenon DEF FInv, Working
  <2> QED BY <1>3, <2>1 DEF FInv, Owners, Slot
<1>8. \A u \in Lockers \ {t}, i \in Inodes : Owns(u, i)' <=> Owns(u, i)
  BY <1>1, <1>2, Zenon DEF Owns
<1>9. \A i \in Inodes : Owns(t, i)' <=> Owns(t, i) /\ i # Here(t)
  BY <1>1, <1>2, GivesUp, Zenon DEF FInv
<1>10. Owners'
  <2>1. ASSUME NEW u \in Lockers, NEW i \in Inodes
        PROVE  owner'[<<HomeOf[u], i>>] = u <=> Owns(u, i)'
    <3>1. <<HomeOf[u], i>> \in Slots
      BY HomeOfAssumption DEF Slots
    <3>2. owner[<<HomeOf[u], i>>] = u <=> Owns(u, i)
      BY Zenon DEF FInv, Owners
    <3>3. CASE u = t
      <4>1. <<HomeOf[u], i>> = Slot(t) <=> i = Here(t)
        BY <3>3 DEF Slot
      <4> QED BY <1>6, <1>9, <3>1, <3>2, <3>3, <4>1, NoLockerAssumption
    <3>4. CASE u # t
      <4>1. CASE <<HomeOf[u], i>> = Slot(t)
        BY <1>6, <1>7, <1>8, <3>2, <3>4, <4>1, NoLockerAssumption
      <4>2. CASE <<HomeOf[u], i>> # Slot(t)
        BY <1>6, <1>8, <3>1, <3>2, <3>4, <4>2
      <4> QED BY <4>1, <4>2, Zenon
    <3> QED BY <3>3, <3>4
  <2>2. \A s \in Slots : owner'[s] # NoLocker => HomeOf[owner'[s]] = s[1]
    BY <1>6 DEF FInv, Owners
  <2>3. \A u \in Lockers, i \in Inodes : <<u, i>> \in inodes <=> Owns(u, i) \/ (fpc[u] = "wait" /\ Here(u) = i)
    BY DEF FInv, Owners
  <2>4. \A u \in Lockers, i \in Inodes : <<u, i>> \in inodes' <=> <<u, i>> \in inodes /\ ~(u = t /\ i = Here(t))
    BY <1>1
  <2>5. ASSUME NEW u \in Lockers, NEW i \in Inodes
        PROVE  <<u, i>> \in inodes' <=> Owns(u, i)' \/ (fpc'[u] = "wait" /\ Here(u)' = i)
    <3>1. CASE u = t
      BY <1>1, <1>2, <1>9, <2>3, <2>4, <3>1, Zenon
    <3>2. CASE u # t
      BY <1>2, <1>5, <1>8, <2>3, <2>4, <3>2
    <3> QED BY <3>1, <3>2
  <2> QED BY <2>1, <2>2, <2>5, Zenon DEF Owners
<1>11. Queues'
  <2>1. \A s \in Slots : queue[s] # <<>> => owner'[s] # NoLocker
    BY <1>6 DEF FInv, Queues
  <2>2. \A u \in Lockers : fpc'[u] = "wait" <=> fpc[u] = "wait"
    BY <1>1, <1>2, Zenon
  <2>3. \A s \in Slots : \A k \in 1..Len(queue[s]) : queue[s][k] \in Lockers
    BY DEF FInv, Typed
  <2> QED BY <1>1, <1>5, <2>1, <2>2, <2>3 DEF FInv, Queues
<1>12. Records'
  <2>1. \A u \in Lockers, i \in Inodes : Has(u, i)' => Has(u, i)
    BY <1>1, <1>2 DEF Has
  <2> QED BY <1>1, <2>1, QuietRecords, Zenon
<1> QED BY <1>4, <1>10, <1>11, <1>12 DEF FInv

\* The first of the queue becomes the owner.
LEMMA HandoffToNextKeeps ==
  ASSUME FInv, NEW t \in Lockers, Handoff(t), queue[Slot(t)] # <<>>
  PROVE  FInv'
<1>1. /\ Here(t) \in Inodes /\ Slot(t) \in Slots
      /\ Slot(t)[1] = HomeOf[t] /\ Slot(t)[2] = Here(t)
  BY PlanOf, Zenon DEF FInv
<1>2. queue[Slot(t)] \in Seq(Lockers) /\ queue[Slot(t)] # <<>> /\ 1 \in 1..Len(queue[Slot(t)])
  BY <1>1 DEF FInv, Typed
<1>3. PICK n \in Lockers : n = Head(queue[Slot(t)]) /\ n = queue[Slot(t)][1]
  BY <1>2
<1>4. /\ fpc[t] = "handoff" /\ fpc' = [fpc EXCEPT ![t] = "close", ![n] = "setlkw"]
      /\ owner' = [owner EXCEPT ![Slot(t)] = n]
      /\ queue' = [queue EXCEPT ![Slot(t)] = Tail(queue[Slot(t)])]
      /\ inodes' = inodes \ {<<t, Here(t)>>}
      /\ UNCHANGED <<plan, nth, lockType, posix>>
  BY <1>3, Zenon DEF Handoff
<1>5. fpc[n] = "wait" /\ Slot(n) = Slot(t)
  <2>1. fpc[queue[Slot(t)][1]] = "wait" /\ Slot(queue[Slot(t)][1]) = Slot(t)
    BY <1>1, <1>2, Zenon DEF FInv, Queues
  <2> QED BY <1>3, <2>1, Zenon DEF Slot, Here
<1>6. n # t /\ HomeOf[n] = HomeOf[t] /\ Here(n) = Here(t)
  BY <1>4, <1>5, Zenon DEF Slot
<1>7. fpc'[t] = "close" /\ fpc'[n] = "setlkw" /\ \A u \in Lockers \ {t, n} : fpc'[u] = fpc[u]
  BY <1>4, <1>6, Zenon DEF FInv, Typed
<1>8. Typed'
  <2>1. fpc' \in [Lockers -> Labels]
    BY <1>4, Zenon DEF FInv, Typed, Labels
  <2>2. queue' \in [Slots -> Seq(Lockers)] /\ owner' \in [Slots -> Lockers \cup {NoLocker}]
    <3>1. Tail(queue[Slot(t)]) \in Seq(Lockers)
      BY <1>2
    <3> QED BY <1>4, <3>1, Zenon DEF FInv, Typed
  <2>3. \A u \in Lockers : fpc'[u] = "idle" => fpc[u] = "idle"
    BY <1>7
  <2> QED BY <1>4, <2>1, <2>2, <2>3, Zenon DEF FInv, Typed
<1>9. \A u \in Lockers : Here(u)' = Here(u) /\ Slot(u)' = Slot(u)
  BY <1>4, Zenon DEF Here, Slot
<1>10. /\ owner'[Slot(t)] = n
       /\ \A s \in Slots : s # Slot(t) => owner'[s] = owner[s]
  BY <1>1, <1>4, Zenon DEF FInv, Typed
<1>11. owner[Slot(t)] = t
  <2>1. Owns(t, Here(t))
    BY <1>4, OwnsHere, Zenon DEF FInv, Working
  <2> QED BY <1>1, <2>1, Zenon DEF FInv, Owners, Slot
<1>12. /\ \A u \in Lockers \ {t, n}, i \in Inodes : Owns(u, i)' <=> Owns(u, i)
       /\ \A i \in Inodes : Owns(t, i)' <=> Owns(t, i) /\ i # Here(t)
       /\ \A i \in Inodes : Owns(n, i)' <=> Owns(n, i) \/ i = Here(n)
  <2>1. \A u \in Lockers \ {t, n}, i \in Inodes : Owns(u, i)' <=> Owns(u, i)
    BY <1>4, <1>7, Zenon DEF Owns
  <2>2. \A i \in Inodes : Owns(t, i)' <=> Owns(t, i) /\ i # Here(t)
    BY <1>4, <1>7, GivesUp, Zenon DEF FInv
  <2>3. \A i \in Inodes : Owns(n, i)' <=> Owns(n, i) \/ i = Here(n)
    BY <1>4, <1>5, <1>7, TakesOver, Zenon DEF FInv
  <2> QED BY <2>1, <2>2, <2>3, Zenon
<1>13. Owners'
  <2>1. ASSUME NEW u \in Lockers, NEW i \in Inodes
        PROVE  owner'[<<HomeOf[u], i>>] = u <=> Owns(u, i)'
    <3>1. <<HomeOf[u], i>> \in Slots
      BY HomeOfAssumption DEF Slots
    <3>2. owner[<<HomeOf[u], i>>] = u <=> Owns(u, i)
      BY Zenon DEF FInv, Owners
    <3>3. CASE u = t
      <4>1. <<HomeOf[u], i>> = Slot(t) <=> i = Here(t)
        BY <3>3 DEF Slot
      <4> QED BY <1>6, <1>10, <1>12, <3>1, <3>2, <3>3, <4>1, Zenon
    <3>4. CASE u = n
      <4>1. <<HomeOf[u], i>> = Slot(t) <=> i = Here(n)
        BY <1>6, <3>4 DEF Slot
      <4> QED BY <1>6, <1>10, <1>11, <1>12, <3>1, <3>2, <3>4, <4>1, Zenon
    <3>5. CASE u # t /\ u # n
      <4>1. Owns(u, i)' <=> Owns(u, i)
        BY <1>12, <3>5
      <4>2. CASE <<HomeOf[u], i>> = Slot(t)
        BY <1>10, <1>11, <3>2, <3>5, <4>1, <4>2
      <4>3. CASE <<HomeOf[u], i>> # Slot(t)
        BY <1>10, <3>1, <3>2, <4>1, <4>3
      <4> QED BY <4>2, <4>3, Zenon
    <3> QED BY <3>3, <3>4, <3>5
  <2>2. \A s \in Slots : owner'[s] # NoLocker => HomeOf[owner'[s]] = s[1]
    <3>1. \A s \in Slots : owner[s] # NoLocker => HomeOf[owner[s]] = s[1]
      BY Zenon DEF FInv, Owners
    <3> QED BY <1>1, <1>6, <1>10, <3>1, Zenon
  <2>3. \A u \in Lockers, i \in Inodes : <<u, i>> \in inodes <=> Owns(u, i) \/ (fpc[u] = "wait" /\ Here(u) = i)
    BY DEF FInv, Owners
  <2>4. \A u \in Lockers, i \in Inodes : <<u, i>> \in inodes' <=> <<u, i>> \in inodes /\ ~(u = t /\ i = Here(t))
    BY <1>4, Zenon
  <2>5. ASSUME NEW u \in Lockers, NEW i \in Inodes
        PROVE  <<u, i>> \in inodes' <=> Owns(u, i)' \/ (fpc'[u] = "wait" /\ Here(u)' = i)
    <3>1. CASE u = t
      BY <1>4, <1>7, <1>12, <2>3, <2>4, <3>1, Zenon
    <3>2. CASE u = n
      BY <1>5, <1>6, <1>7, <1>12, <2>3, <2>4, <3>2, Zenon
    <3>3. CASE u # t /\ u # n
      <4>1. (Owns(u, i)' <=> Owns(u, i)) /\ fpc'[u] = fpc[u]
        BY <1>7, <1>12, <3>3, Zenon
      <4> QED BY <1>9, <2>3, <2>4, <3>3, <4>1
    <3> QED BY <3>1, <3>2, <3>3
  <2> QED BY <2>1, <2>2, <2>5, Zenon DEF Owners
<1>14. PICK q \in Seq(Lockers) : q = queue[Slot(t)]
  BY <1>2
<1>15. /\ Len(q) \in Nat /\ Len(q) >= 1 /\ q[1] = n
       /\ Tail(q) \in Seq(Lockers) /\ Len(Tail(q)) = Len(q) - 1
       /\ \A k \in 1..Len(q) - 1 : Tail(q)[k] = q[k + 1]
  BY <1>2, <1>3, <1>14
<1>16. /\ queue'[Slot(t)] = Tail(q)
       /\ \A s \in Slots : s # Slot(t) => queue'[s] = queue[s]
  BY <1>1, <1>4, <1>14, Zenon DEF FInv, Typed
\* What is in a queue afterwards was in it before, further on in that of the inode.
<1>17. ASSUME NEW s \in Slots, NEW k \in 1..Len(queue'[s])
       PROVE  \E j \in 1..Len(queue[s]) : /\ j = IF s = Slot(t) THEN k + 1 ELSE k
                                          /\ queue'[s][k] = queue[s][j]
  <2>1. CASE s = Slot(t)
    <3>1. k \in 1..Len(Tail(q))
      BY <1>16, <2>1, Zenon
    <3>2. k + 1 \in 1..Len(q) /\ Tail(q)[k] = q[k + 1]
      BY ONLY <1>15, <3>1
    <3> QED BY <1>14, <1>16, <2>1, <3>2, Zenon
  <2>2. CASE s # Slot(t)
    BY <1>16, <2>2, Zenon
  <2> QED BY <2>1, <2>2, Zenon
<1>18. \A j, k \in 1..Len(q) : q[j] = q[k] => j = k
  BY <1>1, <1>14, Zenon DEF FInv, Queues
\* The threads that still wait are those that did, and n no longer.
<1>19. \A u \in Lockers : fpc'[u] = "wait" <=> fpc[u] = "wait" /\ u # n
  BY <1>4, <1>7, Zenon
<1>20. Queues'
  <2>1. \A s \in Slots : queue'[s] # <<>> => owner'[s] # NoLocker
    BY <1>10, <1>16, NoLockerAssumption DEF FInv, Queues
  <2>2. ASSUME NEW s \in Slots, NEW k \in 1..Len(queue'[s])
        PROVE  (fpc[queue[s][k]] = "wait" /\ Slot(queue[s][k]) = s)'
    <3>1. PICK j \in 1..Len(queue[s]) : (j = IF s = Slot(t) THEN k + 1 ELSE k) /\ queue'[s][k] = queue[s][j]
      BY <1>17
    <3>2. PICK u \in Lockers : u = queue[s][j]
      BY DEF FInv, Typed
    <3>3. fpc[queue[s][j]] = "wait" /\ Slot(queue[s][j]) = s
      BY Zenon DEF FInv, Queues
    <3>4. fpc[u] = "wait" /\ Slot(u) = s
      BY <3>2, <3>3, Zenon DEF Slot, Here
    <3>5. u # n
      <4>1. CASE s = Slot(t)
        <5>1. j = k + 1 /\ k \in Nat /\ k >= 1 /\ j \in 1..Len(q) /\ u = q[j]
          BY <1>14, <1>15, <1>16, <3>1, <3>2, <4>1
        <5> QED BY ONLY <1>15, <1>18, <5>1
      <4>2. CASE s # Slot(t)
        BY <1>5, <3>4, <4>2
      <4> QED BY <4>1, <4>2
    <3>6. fpc'[u] = "wait" /\ Slot(u)' = s
      BY <1>9, <1>19, <3>4, <3>5
    <3> QED BY <3>1, <3>2, <3>6, Zenon DEF Slot, Here
  <2>3. ASSUME NEW s \in Slots, NEW j \in 1..Len(queue'[s]), NEW k \in 1..Len(queue'[s]), queue'[s][j] = queue'[s][k]
        PROVE  j = k
    <3>1. PICK x \in 1..Len(queue[s]) : (x = IF s = Slot(t) THEN j + 1 ELSE j) /\ queue'[s][j] = queue[s][x]
      BY <1>17, Zenon
    <3>2. PICK y \in 1..Len(queue[s]) : (y = IF s = Slot(t) THEN k + 1 ELSE k) /\ queue'[s][k] = queue[s][y]
      BY <1>17, Zenon
    <3>3. x = y
      <4>1. \A a, b \in 1..Len(queue[s]) : queue[s][a] = queue[s][b] => a = b
        BY Zenon DEF FInv, Queues
      <4>2. queue[s][x] = queue[s][y]
        BY <2>3, <3>1, <3>2, Zenon
      <4> QED BY <4>1, <4>2
    <3>4. j \in Nat /\ k \in Nat
      OBVIOUS
    <3>5. CASE s = Slot(t)
      <4>1. j + 1 = k + 1
        BY <3>1, <3>2, <3>3, <3>5
      <4>2. \A a, b \in Nat : a + 1 = b + 1 => a = b
        OBVIOUS
      <4> QED BY ONLY <3>4, <4>1, <4>2, Zenon
    <3>6. CASE s # Slot(t)
      <4>1. x = j /\ y = k
        BY <3>1, <3>2, <3>6
      <4> QED BY ONLY <3>3, <4>1, Zenon
    <3> QED BY <3>5, <3>6
  <2>4. ASSUME NEW u \in Lockers, fpc'[u] = "wait"
        PROVE  (\E k \in 1..Len(queue[Slot(u)]) : queue[Slot(u)][k] = u)'
    <3>1. Slot(u) \in Slots /\ Slot(u)' = Slot(u) /\ u # n
      BY <1>9, <1>19, <2>4, PlanOf, Zenon DEF FInv
    <3>2. PICK k \in 1..Len(queue[Slot(u)]) : queue[Slot(u)][k] = u
      BY <1>19, <2>4, Zenon DEF FInv, Queues
    <3>3. CASE Slot(u) = Slot(t)
      <4>1. k \in 1..Len(q) /\ q[k] = u
        BY <1>14, <3>2, <3>3
      <4>2. k - 1 \in 1..Len(Tail(q)) /\ Tail(q)[k - 1] = u
        BY ONLY <1>15, <3>1, <4>1
      <4> QED BY <1>16, <3>1, <3>3, <4>2, Zenon
    <3>4. CASE Slot(u) # Slot(t)
      BY <1>16, <3>1, <3>2, <3>4
    <3> QED BY <3>3, <3>4
  <2> QED BY <2>1, <2>2, <2>3, <2>4, Zenon DEF Queues
<1>21. Records'
  <2>1. \A u \in Lockers, i \in Inodes : Has(u, i)' => Has(u, i)
    BY <1>4, <1>5, <1>7 DEF Has
  <2> QED BY <1>4, <2>1, QuietRecords, Zenon
<1> QED BY <1>8, <1>13, <1>20, <1>21 DEF FInv

-----------------------------------------------------------------------------
\* Every step keeps the invariant.
LEMMA FStepKeeps == FInv /\ [FcntlNext]_fcntlVars => FInv'
<1> SUFFICES ASSUME FInv, [FcntlNext]_fcntlVars
             PROVE  FInv'
  OBVIOUS
<1>1. CASE UNCHANGED fcntlVars
  <2>1. UNCHANGED <<plan, fpc, nth, lockType, inodes, owner, queue, posix>>
    BY <1>1 DEF fcntlVars
  <2>2. \A u \in Lockers, i \in Inodes : (Owns(u, i)' <=> Owns(u, i)) /\ (Has(u, i)' <=> Has(u, i))
    BY <2>1 DEF Owns, Has
  <2>3. Typed'
    BY <2>1, Zenon DEF FInv, Typed
  <2> QED BY <2>1, <2>2, <2>3, QuietStep, QuietRecords, Zenon DEF FInv
<1>2. CASE FcntlNext
  <2>1. PICK t \in Lockers : FcntlStep(t) \/ \E m \in {"rd", "wr"} : Start(t, m)
    BY <1>2 DEF FcntlNext
  <2>2. CASE \E m \in {"rd", "wr"} : Start(t, m)
    BY <2>2, StartKeeps
  <2>3. CASE Lock(t)
    BY <2>3, LockOwnsKeeps, LockWaitsKeeps
  <2>4. CASE StatFails(t) \/ SetlkwFails(t) \/ Finish(t) \/ Unlock(t)
    BY <2>4, LabelKeeps
  <2>5. CASE Setlkw(t)
    BY <2>5, SetlkwKeeps
  <2>6. CASE Unlck(t) \/ Close(t)
    BY <2>6, DropKeeps
  <2>7. CASE Handoff(t)
    BY <2>7, HandoffToNobodyKeeps, HandoffToNextKeeps
  <2> QED BY <2>1, <2>2, <2>3, <2>4, <2>5, <2>6, <2>7 DEF FcntlStep
<1> QED BY <1>1, <1>2

\* A thread that has a file keeps the process's record lock on it if no other
\* thread of the process uses the file, so two processes have it only for reading.
LEMMA FInvExcludes == FInv => NoOtherProcess
<1> SUFFICES ASSUME FInv, NEW t \in Lockers, NEW u \in Lockers, NEW i \in Inodes,
                    HomeOf[t] # HomeOf[u], Has(t, i), Has(u, i), Only(t, i), Only(u, i)
             PROVE  lockType[t] = "rd" /\ lockType[u] = "rd"
  BY DEF NoOtherProcess
<1>1. posix[<<HomeOf[t], i>>] = lockType[t] /\ posix[<<HomeOf[u], i>>] = lockType[u]
  BY Zenon DEF FInv, Records
<1>2. lockType[t] \in {"rd", "wr"} /\ lockType[u] \in {"rd", "wr"}
  BY DEF FInv, Typed
<1>3. HomeOf[t] \in LockProcs /\ HomeOf[u] \in LockProcs
  BY HomeOfAssumption
<1> QED BY <1>1, <1>2, <1>3 DEF FInv, Records

\* The owners and queues agree, and nobody panics.
LEMMA FInvAgrees == FInv => TablesAgree
<1> SUFFICES ASSUME FInv
             PROVE  TablesAgree
  OBVIOUS
<1>1. ASSUME NEW s \in LockProcs \X Inodes, owner[s] # NoLocker
      PROVE  <<owner[s], s[2]>> \in inodes /\ ~(fpc[owner[s]] = "wait" /\ Slot(owner[s]) = s)
  <2>1. PICK u \in Lockers : u = owner[s]
    BY <1>1, Zenon DEF FInv, Typed, Slots
  <2>2. HomeOf[u] = s[1] /\ s = <<s[1], s[2]>> /\ s[2] \in Inodes
    BY <1>1, <2>1 DEF FInv, Owners, Slots
  <2>3. Owns(u, s[2]) /\ <<u, s[2]>> \in inodes
    BY <2>1, <2>2 DEF FInv, Owners
  <2>4. ASSUME fpc[u] = "wait", Slot(u) = s PROVE FALSE
    <3>1. s[2] = Here(u)
      BY <2>4, PlanOf, Zenon DEF FInv
    <3> QED BY <2>3, <2>4, <3>1, OwnsHere DEF FInv, Working
  <2>5. ~(fpc[u] = "wait" /\ Slot(u) = s)
    BY <2>4
  <2> QED BY <2>1, <2>3, <2>5, Zenon DEF Slot, Here
<1>2. ASSUME \A t \in Lockers : fpc[t] = "idle" PROVE inodes = {}
  <2>1. \A t \in Lockers, i \in Inodes : ~Owns(t, i)
    BY <1>2 DEF FInv, Typed, Owns, Working
  <2> QED BY <1>2, <2>1 DEF FInv, Typed, Owners
<1>3. \A t \in Lockers : fpc[t] # "panic"
  BY DEF FInv, Typed, Labels
<1> QED BY <1>1, <1>2, <1>3 DEF TablesAgree, FInv, Queues, Slots

\* On aix and solaris, for any threads, processes and files and any plans that
\* name no file twice: the owners and queues of lock and unlock agree and unlock
\* never panics, and two processes whose files are not shared among their own
\* threads have a file together only for reading.
THEOREM ProcessesAreGuarded == FcntlSpec => []InodesGuarded
<1>1. FInv => InodesGuarded
  BY FInvExcludes, FInvAgrees DEF InodesGuarded
<1> QED BY <1>1, FInitHolds, FStepKeeps, PTL DEF FcntlSpec

-----------------------------------------------------------------------------
(* LockedMutex: the inductive invariant.                                   *)

MutexLabels == {"idle", "wlock", "drain", "rlock", "try", "open", "held", "closing", "stuck", "dead"}

MutexTyped ==
    /\ pc \in [Threads -> MutexLabels]
    /\ mode \in [Threads -> {"sh", "ex"}]
    /\ patience \in [Threads -> Patiences]
    /\ writer \in [Mutexes -> Threads \cup {NoThread}]
    /\ readers \in [Mutexes -> SUBSET Threads]
    /\ leaked \in [Mutexes -> BOOLEAN]
    /\ flocks \in [Threads -> {"none", "sh", "ex"}]

\* Where a call has mu.mu, for writing or for reading.
HasW(t) == mode[t] = "ex" /\ pc[t] \in {"drain", "open", "held", "closing"}
HasR(t) == mode[t] = "sh" /\ pc[t] \in {"open", "held", "closing"}

\* The label of a call goes with its mode.
InMode(t) == (pc[t] \in {"wlock", "drain"} => mode[t] = "ex") /\ (pc[t] = "rlock" => mode[t] = "sh")

\* The state of sync.RWMutex is that of the calls on it: who has w, who is
\* inside, and that a writer that came past "drain" is alone.
InMemory ==
    /\ \A t \in Threads, m \in Mutexes : writer[m] = t <=> MuOf[t] = m /\ HasW(t)
    /\ \A t \in Threads, m \in Mutexes : t \in readers[m] <=> MuOf[t] = m /\ HasR(t)
    /\ \A t \in Threads : HasW(t) /\ pc[t] # "drain" => readers[MuOf[t]] = {}
    /\ \A t \in Threads : InMode(t)

\* The flocks are those of the calls that have returned a lock, and the kernel
\* keeps a writer alone.
OnFile ==
    /\ \A t \in Threads : flocks[t] = IF pc[t] = "held" THEN mode[t] ELSE "none"
    /\ \A t, u \in Threads : t # u /\ flocks[t] = "ex" => flocks[u] = "none"

IInv == MutexTyped /\ InMemory /\ OnFile

-----------------------------------------------------------------------------
(* The step of one call.                                                   *)

Elsewhere(t) == \A x \in Threads \ {t} : pc'[x] = pc[x] /\ mode'[x] = mode[x]

\* Going on to a label moves the call alone.
LEMMA GotoMoves ==
  ASSUME MutexTyped, NEW t \in Threads, NEW l, Goto(t, l)
  PROVE  Elsewhere(t) /\ pc'[t] = l /\ mode' = mode /\ patience' = patience
BY Zenon DEF MutexTyped, Goto, Elsewhere

\* A return moves the call alone.
LEMMA ReturnMoves ==
  ASSUME MutexTyped, NEW t \in Threads, Return(t)
  PROVE  Elsewhere(t) /\ pc'[t] = "idle" /\ mode'[t] = "sh"
BY Zenon DEF MutexTyped, Return, Elsewhere

\* An error moves the call alone, to its next try or out.
LEMMA ErrorMoves ==
  ASSUME MutexTyped, NEW t \in Threads, Error(t)
  PROVE  Elsewhere(t) /\ pc'[t] \in {"try", "idle"}
BY GotoMoves, ReturnMoves, Zenon DEF Error

\* Going on, a return and an error keep the types.
LEMMA MovesTyped ==
  ASSUME MutexTyped, NEW t \in Threads, (\E l \in MutexLabels : Goto(t, l)) \/ Return(t)
  PROVE  /\ pc' \in [Threads -> MutexLabels]
         /\ mode' \in [Threads -> {"sh", "ex"}]
         /\ patience' \in [Threads -> Patiences]
<1>1. CASE \E l \in MutexLabels : Goto(t, l)
  BY <1>1, Zenon DEF MutexTyped, Goto
<1>2. CASE Return(t)
  <2>1. "idle" \in MutexLabels /\ "block" \in Patiences
    BY Zenon DEF MutexLabels, Patiences
  <2> QED BY <1>2, <2>1, Zenon DEF MutexTyped, Return
<1> QED BY <1>1, <1>2

\* What the step of t does to mu.mu is what InMemory says of t.
OneCall(t) ==
    /\ Elsewhere(t)
    /\ \A x \in Threads \ {t}, m \in Mutexes : writer'[m] = x <=> writer[m] = x
    /\ \A x \in Threads \ {t}, m \in Mutexes : x \in readers'[m] <=> x \in readers[m]
    /\ \A m \in Mutexes : writer'[m] = t <=> MuOf[t] = m /\ HasW(t)'
    /\ \A m \in Mutexes : t \in readers'[m] <=> MuOf[t] = m /\ HasR(t)'
    /\ HasW(t)' /\ pc'[t] # "drain" => readers'[MuOf[t]] = {}
    /\ HasR(t)' /\ ~HasR(t) => writer[MuOf[t]] = NoThread
    /\ InMode(t)'

\* Such a step keeps InMemory: a reader comes in only where nobody has w.
LEMMA OneCallKeeps ==
  ASSUME MutexTyped, InMemory, MutexTyped', NEW t \in Threads, OneCall(t)
  PROVE  InMemory'
<1>1. \A x \in Threads \ {t} : (HasW(x)' <=> HasW(x)) /\ (HasR(x)' <=> HasR(x)) /\ (InMode(x)' <=> InMode(x))
  BY Zenon DEF OneCall, Elsewhere, HasW, HasR, InMode
<1>2. \A x \in Threads, m \in Mutexes : writer'[m] = x <=> MuOf[x] = m /\ HasW(x)'
  BY <1>1 DEF OneCall, InMemory
<1>3. \A x \in Threads, m \in Mutexes : x \in readers'[m] <=> MuOf[x] = m /\ HasR(x)'
  BY <1>1 DEF OneCall, InMemory
<1>4. ASSUME NEW x \in Threads, HasW(x)', pc'[x] # "drain"
      PROVE  readers'[MuOf[x]] = {}
  <2>1. CASE x = t
    BY <1>4, <2>1, Zenon DEF OneCall
  <2>2. CASE x # t
    <3>1. HasW(x) /\ pc[x] # "drain" /\ MuOf[x] \in Mutexes
      BY <1>1, <1>4, <2>2, MuOfAssumption, Zenon DEF OneCall, Elsewhere
    <3>2. writer[MuOf[x]] = x /\ readers[MuOf[x]] = {} /\ x # NoThread
      BY <3>1, NoThreadAssumption, Zenon DEF InMemory
    <3>3. t \notin readers'[MuOf[x]]
      BY <3>1, <3>2 DEF OneCall, InMemory
    <3>4. readers'[MuOf[x]] \subseteq Threads
      BY <3>1, Zenon DEF MutexTyped
    <3> QED BY <3>1, <3>2, <3>3, <3>4 DEF OneCall
  <2> QED BY <2>1, <2>2
<1>5. \A x \in Threads : InMode(x)'
  BY <1>1, Zenon DEF OneCall, InMemory
<1> QED BY <1>2, <1>3, <1>4, <1>5, Zenon DEF InMemory

\* A step that leaves mu.mu alone, and t with what it has of it.
LEMMA SameHolders ==
  ASSUME MutexTyped, InMemory, MutexTyped', NEW t \in Threads, Elsewhere(t), UNCHANGED <<writer, readers>>,
         HasW(t)' <=> HasW(t), HasR(t)' <=> HasR(t), InMode(t)',
         HasW(t)' /\ pc'[t] # "drain" => pc[t] # "drain" \/ readers[MuOf[t]] = {}
  PROVE  InMemory'
<1>1. OneCall(t)
  BY Zenon DEF OneCall, InMemory
<1> QED BY <1>1, OneCallKeeps

\* A step in which t takes or gives up w.
LEMMA WriterMoves ==
  ASSUME MutexTyped, InMemory, MutexTyped', NEW t \in Threads, Elsewhere(t), readers' = readers,
         NEW w \in {t, NoThread}, writer' = [writer EXCEPT ![MuOf[t]] = w],
         writer[MuOf[t]] \in {t, NoThread}, HasW(t)' <=> w = t, ~HasR(t), ~HasR(t)', InMode(t)',
         HasW(t)' /\ pc'[t] # "drain" => readers[MuOf[t]] = {}
  PROVE  InMemory'
<1>1. MuOf[t] \in Mutexes /\ t # NoThread
  BY MuOfAssumption, NoThreadAssumption, Zenon
<1>2. writer'[MuOf[t]] = w /\ \A m \in Mutexes \ {MuOf[t]} : writer'[m] = writer[m]
  BY <1>1, Zenon DEF MutexTyped
<1>3. \A x \in Threads \ {t}, m \in Mutexes : writer'[m] = x <=> writer[m] = x
  BY <1>2, NoThreadAssumption
<1>4. \A m \in Mutexes : writer'[m] = t <=> MuOf[t] = m /\ HasW(t)'
  BY <1>1, <1>2 DEF InMemory
<1>5. OneCall(t)
  BY <1>3, <1>4, Zenon DEF OneCall, InMemory
<1> QED BY <1>5, OneCallKeeps, Zenon

\* A step in which t comes in or leaves as a reader.
LEMMA ReaderMoves ==
  ASSUME MutexTyped, InMemory, MutexTyped', NEW t \in Threads, Elsewhere(t), writer' = writer,
         \/ readers' = [readers EXCEPT ![MuOf[t]] = @ \cup {t}] /\ HasR(t)' /\ writer[MuOf[t]] = NoThread
         \/ readers' = [readers EXCEPT ![MuOf[t]] = @ \ {t}] /\ ~HasR(t)',
         ~HasW(t), ~HasW(t)', InMode(t)', HasR(t)' \/ HasR(t)
  PROVE  InMemory'
<1>1. MuOf[t] \in Mutexes
  BY MuOfAssumption, Zenon
<1>2. \A m \in Mutexes \ {MuOf[t]} : readers'[m] = readers[m]
  BY Zenon DEF MutexTyped
<1>3. \/ readers'[MuOf[t]] = readers[MuOf[t]] \cup {t} /\ HasR(t)'
      \/ readers'[MuOf[t]] = readers[MuOf[t]] \ {t} /\ ~HasR(t)'
  BY <1>1, Zenon DEF MutexTyped
<1>4. \A x \in Threads \ {t}, m \in Mutexes : x \in readers'[m] <=> x \in readers[m]
  BY <1>2, <1>3, Zenon
<1>5. \A m \in Mutexes : t \in readers'[m] <=> MuOf[t] = m /\ HasR(t)'
  BY <1>2, <1>3 DEF InMemory
<1>6. HasR(t)' /\ ~HasR(t) => writer[MuOf[t]] = NoThread
  BY Zenon
<1>7. OneCall(t)
  BY <1>4, <1>5, <1>6, Zenon DEF OneCall, InMemory
<1> QED BY <1>7, OneCallKeeps, Zenon

\* The locks taken and dropped keep the types.
LEMMA LocksTyped ==
  ASSUME MutexTyped, NEW t \in Threads
  PROVE  /\ UNCHANGED writer \/ TakeW(t) \/ DropW(t) => writer' \in [Mutexes -> Threads \cup {NoThread}]
         /\ UNCHANGED readers \/ AddReader(t) \/ DropReader(t) => readers' \in [Mutexes -> SUBSET Threads]
<1>1. ASSUME UNCHANGED writer \/ TakeW(t) \/ DropW(t)
      PROVE  writer' \in [Mutexes -> Threads \cup {NoThread}]
  BY <1>1, Zenon DEF MutexTyped, TakeW, DropW
<1>2. ASSUME UNCHANGED readers \/ AddReader(t) \/ DropReader(t)
      PROVE  readers' \in [Mutexes -> SUBSET Threads]
  BY <1>2 DEF MutexTyped, AddReader, DropReader
<1> QED BY <1>1, <1>2

-----------------------------------------------------------------------------
\* At the start no lock is held.
LEMMA InitHolds == Init => IInv
<1> SUFFICES ASSUME Init
             PROVE  IInv
  OBVIOUS
<1>1. \A t \in Threads : pc[t] = "idle" /\ ~HasW(t) /\ ~HasR(t) /\ InMode(t)
  BY DEF Init, HasW, HasR, InMode
<1>2. \A t \in Threads, m \in Mutexes : writer[m] # t /\ readers[m] = {}
  BY NoThreadAssumption DEF Init
<1>3. InMemory
  BY <1>1, <1>2, Zenon DEF InMemory
<1>4. MutexTyped
  BY DEF Init, MutexTyped, MutexLabels, Patiences
<1>5. OnFile
  BY DEF Init, OnFile
<1> QED BY <1>3, <1>4, <1>5 DEF IInv

\* A call of Lock or RLock begins.
LEMMA CallKeeps ==
  ASSUME IInv, NEW t \in Threads, NEW m \in {"sh", "ex"}, NEW w \in Calls[t], Call(t, m, w)
  PROVE  IInv'
<1>1. w \in Patiences
  BY CallsAssumption DEF Patiences
<1>2. MutexTyped'
  BY <1>1, Zenon DEF IInv, MutexTyped, Call, MutexLabels
<1>3. InMemory'
  <2>1. Elsewhere(t) /\ UNCHANGED <<writer, readers>> /\ mode'[t] = m
    BY Zenon DEF IInv, MutexTyped, Call, Elsewhere
  <2>2. pc[t] = "idle" /\ pc'[t] = IF w # "block" THEN "try" ELSE IF m = "ex" THEN "wlock" ELSE "rlock"
    BY Zenon DEF IInv, MutexTyped, Call
  <2>3. ~HasW(t) /\ ~HasR(t) /\ ~HasW(t)' /\ ~HasR(t)' /\ InMode(t)'
    BY <2>1, <2>2 DEF HasW, HasR, InMode
  <2> QED BY <1>2, <2>1, <2>3, SameHolders, Zenon DEF IInv
<1>4. OnFile'
  BY DEF IInv, MutexTyped, OnFile, Call
<1> QED BY <1>2, <1>3, <1>4 DEF IInv

\* mu.mu is taken.
LEMMA LockKeeps ==
  ASSUME IInv, NEW t \in Threads, LockW(t) \/ LockDrained(t) \/ RLock(t) \/ TrySucceeds(t)
  PROVE  IInv'
<1>1. PICK l \in {"drain", "open"} : Goto(t, l)
  BY Zenon DEF LockW, LockDrained, RLock, TrySucceeds
<1>2. Elsewhere(t) /\ pc'[t] = l /\ mode' = mode
  BY <1>1, GotoMoves, Zenon DEF IInv
<1>3. UNCHANGED <<leaked, flocks>> /\ pc[t] \in {"wlock", "drain", "rlock", "try"}
  BY Zenon DEF LockW, LockDrained, RLock, TrySucceeds
<1>4. MutexTyped'
  <2>1. (UNCHANGED writer \/ TakeW(t)) /\ (UNCHANGED readers \/ AddReader(t))
    BY Zenon DEF LockW, LockDrained, RLock, TrySucceeds
  <2>2. l \in MutexLabels
    BY DEF MutexLabels
  <2> QED BY <1>1, <1>3, <2>1, <2>2, MovesTyped, LocksTyped, Zenon DEF IInv, MutexTyped
<1>5. mode[t] \in {"sh", "ex"} /\ InMode(t) /\ MuOf[t] \in Mutexes
  BY MuOfAssumption DEF IInv, MutexTyped, InMemory
<1>6. InMemory'
  <2>1. CASE LockDrained(t)
    <3>1. UNCHANGED <<writer, readers>> /\ readers[MuOf[t]] = {} /\ pc[t] = "drain" /\ l = "open"
      BY <1>2, <2>1, GotoMoves, Zenon DEF IInv, LockDrained, Drained
    <3>2. HasW(t) /\ HasW(t)' /\ ~HasR(t) /\ ~HasR(t)' /\ InMode(t)'
      BY <1>2, <1>5, <3>1, Zenon DEF HasW, HasR, InMode
    <3> QED BY <1>2, <1>4, <3>1, <3>2, SameHolders, Zenon DEF IInv
  <2>2. CASE LockW(t) \/ (TrySucceeds(t) /\ mode[t] = "ex")
    <3>1. TakeW(t) /\ readers' = readers /\ writer[MuOf[t]] = NoThread /\ mode[t] = "ex"
      BY <1>5, <2>2, Zenon DEF LockW, TrySucceeds, FreeForWriter, InMode
    <3>2. l # "drain" => readers[MuOf[t]] = {}
      BY <1>2, <2>2, GotoMoves, Zenon DEF IInv, LockW, TrySucceeds, Drained
    <3>3. HasW(t)' /\ ~HasR(t) /\ ~HasR(t)' /\ InMode(t)'
      BY <1>2, <3>1 DEF HasW, HasR, InMode
    <3> QED BY <1>2, <1>4, <3>1, <3>2, <3>3, WriterMoves, Zenon DEF IInv, TakeW
  <2>3. CASE RLock(t) \/ (TrySucceeds(t) /\ mode[t] # "ex")
    <3>1. AddReader(t) /\ writer' = writer /\ writer[MuOf[t]] = NoThread /\ mode[t] = "sh" /\ l = "open"
      BY <1>2, <1>5, <2>3, GotoMoves, Zenon DEF IInv, RLock, TrySucceeds, FreeForReader, InMode
    <3>2. HasR(t)' /\ ~HasW(t) /\ ~HasW(t)' /\ InMode(t)'
      BY <1>2, <3>1 DEF HasW, HasR, InMode
    <3> QED BY <1>2, <1>4, <3>1, <3>2, ReaderMoves, Zenon DEF IInv, AddReader
  <2> QED BY <2>1, <2>2, <2>3
<1>7. OnFile'
  <2>1. \A x \in Threads : (pc'[x] = "held" <=> pc[x] = "held") /\ mode'[x] = mode[x]
    BY <1>2, <1>3 DEF Elsewhere
  <2> QED BY <1>3, <2>1 DEF IInv, OnFile
<1> QED BY <1>4, <1>6, <1>7 DEF IInv

\* A try fails, a deadline passes, or OpenFile fails: what was locked is given up.
LEMMA ErrorKeeps ==
  ASSUME IInv, NEW t \in Threads, TryFails(t) \/ Deadline(t) \/ OpenFails(t)
  PROVE  IInv'
<1>1. UNCHANGED <<readers, leaked, flocks>> /\ (UNCHANGED writer \/ DropW(t)) /\ pc[t] \in {"try", "open"}
  BY Zenon DEF TryFails, Deadline, OpenFails
<1>2. MutexTyped'
  <2>1. CASE Deadline(t)
    BY <1>1, <2>1, LocksTyped, Zenon DEF IInv, MutexTyped, Deadline, Patiences
  <2>2. CASE ~Deadline(t)
    <3>1. Error(t) /\ "try" \in MutexLabels
      BY <2>2 DEF TryFails, OpenFails, MutexLabels
    <3>2. (\E l \in MutexLabels : Goto(t, l)) \/ Return(t)
      BY <3>1, Zenon DEF Error
    <3> QED BY <1>1, <3>2, MovesTyped, LocksTyped, Zenon DEF IInv, MutexTyped
  <2> QED BY <2>1, <2>2
<1>3. Elsewhere(t) /\ (Deadline(t) \/ pc'[t] \in {"try", "idle"})
  BY ErrorMoves, Zenon DEF IInv, TryFails, Deadline, OpenFails, Elsewhere
<1>4. InMemory'
  <2>1. CASE Deadline(t)
    <3>1. UNCHANGED <<pc, mode, writer, readers>> /\ InMode(t)
      BY <2>1, Zenon DEF IInv, InMemory, Deadline
    <3>2. (HasW(t)' <=> HasW(t)) /\ (HasR(t)' <=> HasR(t)) /\ InMode(t)'
      BY <3>1, Zenon DEF HasW, HasR, InMode
    <3> QED BY <1>2, <1>3, <3>1, <3>2, SameHolders, Zenon DEF IInv
  <2>2. CASE ~Deadline(t)
    <3>1. ~HasW(t)' /\ ~HasR(t)' /\ InMode(t)'
      BY <1>3, <2>2 DEF HasW, HasR, InMode
    <3>2. CASE TryFails(t)
      <4>1. UNCHANGED <<writer, readers>> /\ ~HasW(t) /\ ~HasR(t)
        BY <3>2 DEF TryFails, HasW, HasR
      <4> QED BY <1>2, <1>3, <3>1, <4>1, SameHolders, Zenon DEF IInv
    <3>3. CASE OpenFails(t)
      <4>1. DropW(t) /\ readers' = readers /\ HasW(t) /\ ~HasR(t)
        BY <3>3 DEF OpenFails, HasW, HasR
      <4>2. writer[MuOf[t]] = t /\ t # NoThread
        BY <4>1, MuOfAssumption, NoThreadAssumption, Zenon DEF IInv, InMemory
      <4> QED BY <1>2, <1>3, <3>1, <4>1, <4>2, WriterMoves, Zenon DEF IInv, DropW
    <3> QED BY <2>2, <3>2, <3>3
  <2> QED BY <2>1, <2>2
<1>5. OnFile'
  <2>1. pc'[t] # "held" /\ pc[t] # "held"
    BY <1>1, <1>3 DEF Deadline
  <2>2. \A x \in Threads : (pc'[x] = "held" <=> pc[x] = "held") /\ (pc[x] = "held" => mode'[x] = mode[x])
    BY <1>3, <2>1, Zenon DEF Elsewhere
  <2> QED BY <1>1, <2>2 DEF IInv, OnFile
<1> QED BY <1>2, <1>4, <1>5 DEF IInv

\* OpenFile returns with the flock, and the unlock function gives it and mu.mu up.
LEMMA FileKeeps ==
  ASSUME IInv, NEW t \in Threads, OpenFile(t) \/ UnlockFile(t) \/ UnlockMu(t)
  PROVE  IInv'
<1>1. MuOf[t] \in Mutexes /\ mode[t] \in {"sh", "ex"} /\ t # NoThread
  BY MuOfAssumption, NoThreadAssumption, Zenon DEF IInv, MutexTyped
<1>2. CASE OpenFile(t) \/ UnlockFile(t)
  <2>1. PICK l \in {"held", "closing"} : Goto(t, l)
    BY <1>2, Zenon DEF OpenFile, UnlockFile
  <2>2. Elsewhere(t) /\ pc'[t] = l /\ mode' = mode
    BY <2>1, GotoMoves, Zenon DEF IInv
  <2>3. UNCHANGED <<writer, readers, leaked>> /\ pc[t] \in {"open", "held"}
    BY <1>2, Zenon DEF OpenFile, UnlockFile
  <2>4. PICK f \in {"none", "sh", "ex"} : flocks' = [flocks EXCEPT ![t] = f]
    BY <1>1, <1>2, Zenon DEF OpenFile, UnlockFile
  <2>5. MutexTyped'
    <3>1. flocks' \in [Threads -> {"none", "sh", "ex"}] /\ l \in MutexLabels
      BY <2>4 DEF IInv, MutexTyped, MutexLabels
    <3> QED BY <2>1, <2>3, <3>1, MovesTyped, Zenon DEF IInv, MutexTyped
  <2>6. InMemory'
    <3>1. (HasW(t)' <=> HasW(t)) /\ (HasR(t)' <=> HasR(t)) /\ InMode(t)'
      BY <2>2, <2>3 DEF HasW, HasR, InMode
    <3>2. pc[t] # "drain"
      BY <2>3
    <3> QED BY <2>2, <2>3, <2>5, <3>1, <3>2, SameHolders, Zenon DEF IInv
  <2>7. OnFile'
    <3>1. f = (IF l = "held" THEN mode[t] ELSE "none") /\ (l = "held" => Grantable(t, f))
      BY <1>2, <2>2, <2>4, GotoMoves DEF IInv, MutexTyped, OpenFile, UnlockFile
    <3>2. flocks'[t] = f /\ \A x \in Threads \ {t} : flocks'[x] = flocks[x]
      BY <2>4 DEF IInv, MutexTyped
    <3>3. \A x \in Threads : flocks'[x] = IF pc'[x] = "held" THEN mode'[x] ELSE "none"
      BY <2>2, <3>1, <3>2 DEF IInv, OnFile, Elsewhere
    <3>4. \A x, u \in Threads : x # u /\ flocks'[x] = "ex" => flocks'[u] = "none"
      BY <3>1, <3>2, <1>1 DEF IInv, MutexTyped, OnFile, Grantable
    <3> QED BY <3>3, <3>4 DEF OnFile
  <2> QED BY <2>5, <2>6, <2>7 DEF IInv
<1>3. CASE UnlockMu(t)
  <2>1. Elsewhere(t) /\ pc'[t] = "idle" /\ mode'[t] = "sh" /\ Return(t)
    BY <1>3, ReturnMoves, Zenon DEF IInv, UnlockMu
  <2>2. UNCHANGED <<leaked, flocks>> /\ pc[t] = "closing" /\ ReleaseMu(t)
    BY <1>3, Zenon DEF UnlockMu
  <2>3. MutexTyped'
    <3>1. (UNCHANGED writer \/ DropW(t)) /\ (UNCHANGED readers \/ DropReader(t))
      BY <2>2, Zenon DEF ReleaseMu
    <3> QED BY <2>1, <2>2, <3>1, MovesTyped, LocksTyped, Zenon DEF IInv, MutexTyped
  <2>4. ~HasW(t)' /\ ~HasR(t)' /\ InMode(t)'
    BY <2>1 DEF HasW, HasR, InMode
  <2>5. InMemory'
    <3>1. CASE mode[t] = "ex"
      <4>1. DropW(t) /\ readers' = readers /\ HasW(t) /\ ~HasR(t)
        BY <2>2, <3>1 DEF ReleaseMu, HasW, HasR
      <4>2. writer[MuOf[t]] = t
        BY <1>1, <4>1, Zenon DEF IInv, InMemory
      <4> QED BY <1>1, <2>1, <2>3, <2>4, <4>1, <4>2, WriterMoves, Zenon DEF IInv, DropW
    <3>2. CASE mode[t] # "ex"
      <4>1. DropReader(t) /\ writer' = writer /\ HasR(t) /\ ~HasW(t)
        BY <1>1, <2>2, <3>2 DEF ReleaseMu, HasW, HasR
      <4> QED BY <2>1, <2>3, <2>4, <4>1, ReaderMoves, Zenon DEF IInv, DropReader
    <3> QED BY <3>1, <3>2
  <2>6. OnFile'
    <3>1. \A x \in Threads : (pc'[x] = "held" <=> pc[x] = "held") /\ (pc[x] = "held" => mode'[x] = mode[x])
      BY <2>1, <2>2 DEF Elsewhere
    <3> QED BY <2>2, <3>1 DEF IInv, OnFile
  <2> QED BY <2>3, <2>5, <2>6 DEF IInv
<1> QED BY <1>2, <1>3

\* The failing RLock that takes another call's writer out: that writer is still
\* waiting for the readers, because the failing call is one of them.
LEMMA LeakKeeps ==
  ASSUME IInv, NEW t \in Threads, RLockOpenFailsLeak(t)
  PROVE  IInv'
<1> DEFINE M == MuOf[t]
<1>1. HasR(t) /\ t \in readers[M] /\ M \in Mutexes
  BY MuOfAssumption, Zenon DEF IInv, RLockOpenFailsLeak, HasR, InMemory
<1>2. PICK u \in Threads : u = writer[M]
  BY <1>1, Zenon DEF IInv, RLockOpenFailsLeak, MutexTyped
<1>3. MuOf[u] = M /\ HasW(u) /\ pc[u] = "drain"
  BY <1>1, <1>2 DEF IInv, InMemory
<1>4. u # t
  BY <1>1, <1>3 DEF HasW, HasR
<1>5. PICK l \in {"try", "idle"} : pc' = [pc EXCEPT ![t] = l, ![u] = "stuck"]
  BY <1>2, Zenon DEF RLockOpenFailsLeak
<1>6. UNCHANGED <<mode, patience, flocks>>
  BY Zenon DEF RLockOpenFailsLeak
<1>7. pc'[u] = "stuck" /\ pc'[t] = l /\ \A x \in Threads \ {t, u} : pc'[x] = pc[x]
  BY <1>4, <1>5 DEF IInv, MutexTyped
<1>8. writer'[M] = NoThread /\ \A m \in Mutexes \ {M} : writer'[m] = writer[m]
  BY <1>1, Zenon DEF IInv, MutexTyped, RLockOpenFailsLeak, DropW
<1>9. readers'[M] = readers[M] \ {t} /\ \A m \in Mutexes \ {M} : readers'[m] = readers[m]
  BY <1>1, Zenon DEF IInv, MutexTyped, RLockOpenFailsLeak, DropReader
<1>10. MutexTyped'
  <2>1. pc' \in [Threads -> MutexLabels]
    BY <1>5 DEF IInv, MutexTyped, MutexLabels
  <2>2. leaked' \in [Mutexes -> BOOLEAN] /\ DropW(t) /\ DropReader(t)
    BY Zenon DEF IInv, RLockOpenFailsLeak, MutexTyped
  <2> QED BY <1>6, <2>1, <2>2, LocksTyped, Zenon DEF IInv, MutexTyped
<1> HIDE DEF M
<1>11. InMemory'
  <2>1. \A x \in Threads \ {t, u} : (HasW(x)' <=> HasW(x)) /\ (HasR(x)' <=> HasR(x)) /\ (InMode(x)' <=> InMode(x))
    BY <1>6, <1>7, Zenon DEF HasW, HasR, InMode
  <2>2. ~HasW(t)' /\ ~HasR(t)' /\ InMode(t)' /\ ~HasW(u)' /\ ~HasR(u)' /\ InMode(u)'
    BY <1>7 DEF HasW, HasR, InMode
  <2>3. ~HasW(t) /\ ~HasR(u) /\ MuOf[t] = M
    BY <1>1, <1>3, Zenon DEF HasW, HasR, M
  <2>4. \A x \in Threads, m \in Mutexes : writer'[m] = x <=> MuOf[x] = m /\ HasW(x)'
    <3>1. \A x \in Threads : HasW(x)' => MuOf[x] # M
      BY <1>1, <1>2, <2>1, <2>2 DEF IInv, InMemory
    <3>2. \A m \in Mutexes \ {M} : writer[m] # t /\ writer[m] # u
      BY <1>3, <2>3 DEF IInv, InMemory
    <3>3. \A x \in Threads, m \in Mutexes \ {M} : writer'[m] = x <=> MuOf[x] = m /\ HasW(x)'
      BY <1>3, <1>8, <2>1, <2>2, <2>3, <3>2 DEF IInv, InMemory
    <3> QED BY <1>8, <3>1, <3>3, NoThreadAssumption
  <2>5. \A x \in Threads, m \in Mutexes : x \in readers'[m] <=> MuOf[x] = m /\ HasR(x)'
    <3>1. \A x \in Threads, m \in Mutexes : x \in readers'[m] <=> x # t /\ x \in readers[m]
      BY <1>9, <2>3 DEF IInv, InMemory
    <3> QED BY <2>1, <2>2, <2>3, <3>1 DEF IInv, InMemory
  <2>6. ASSUME NEW x \in Threads, HasW(x)', pc'[x] # "drain"
        PROVE  readers'[MuOf[x]] = {}
    <3>1. x \notin {t, u} /\ MuOf[x] \in Mutexes
      BY <2>2, <2>6, MuOfAssumption, Zenon
    <3>2. HasW(x) /\ pc[x] # "drain"
      BY <1>7, <2>1, <2>6, <3>1, Zenon
    <3>3. readers[MuOf[x]] = {}
      BY <3>2, Zenon DEF IInv, InMemory
    <3> QED BY <1>9, <3>1, <3>3
  <2>7. \A x \in Threads : InMode(x)'
    BY <2>1, <2>2 DEF IInv, InMemory
  <2> QED BY <2>4, <2>5, <2>6, <2>7, Zenon DEF InMemory
<1>12. OnFile'
  <2>1. pc[t] # "held" /\ pc[u] # "held" /\ pc'[t] # "held" /\ pc'[u] # "held"
    BY <1>3, <1>7, Zenon DEF RLockOpenFailsLeak
  <2>2. \A x \in Threads : pc'[x] = "held" <=> pc[x] = "held"
    BY <1>7, <2>1, Zenon
  <2> QED BY <1>6, <2>2 DEF IInv, OnFile
<1> QED BY <1>10, <1>11, <1>12 DEF IInv

\* The end of a process takes all calls on its Mutex values with it.
LEMMA EndKeeps ==
  ASSUME IInv, NEW p \in Processes, End(p)
  PROVE  IInv'
<1>1. MutexTyped'
  BY Zenon DEF IInv, MutexTyped, End, MutexLabels, Patiences
<1>2. \A t \in Threads : Gone(p, t) => pc'[t] = "dead" /\ mode'[t] = "sh" /\ flocks'[t] = "none"
  BY Zenon DEF End
<1>3. \A t \in Threads : ~Gone(p, t) => pc'[t] = pc[t] /\ mode'[t] = mode[t] /\ flocks'[t] = flocks[t]
  BY Zenon DEF End
<1>4. \A m \in Mutexes : ProcOf[m] = p => writer'[m] = NoThread /\ readers'[m] = {}
  BY Zenon DEF End
<1>5. \A m \in Mutexes : ProcOf[m] # p => writer'[m] = writer[m] /\ readers'[m] = readers[m]
  BY Zenon DEF End
<1>6. InMemory'
  <2>1. \A t \in Threads : Gone(p, t) => ~HasW(t)' /\ ~HasR(t)' /\ InMode(t)'
    BY <1>2 DEF HasW, HasR, InMode
  <2>2. \A t \in Threads : ~Gone(p, t) => (HasW(t)' <=> HasW(t)) /\ (HasR(t)' <=> HasR(t)) /\ (InMode(t)' <=> InMode(t))
    BY <1>3, Zenon DEF HasW, HasR, InMode
  <2>3. ASSUME NEW t \in Threads, NEW m \in Mutexes
        PROVE  (writer'[m] = t <=> MuOf[t] = m /\ HasW(t)') /\ (t \in readers'[m] <=> MuOf[t] = m /\ HasR(t)')
    <3>1. CASE ProcOf[m] = p
      BY <1>4, <2>1, <3>1, NoThreadAssumption DEF Gone
    <3>2. CASE ProcOf[m] # p
      BY <1>5, <2>1, <2>2, <3>2 DEF IInv, InMemory, Gone
    <3> QED BY <3>1, <3>2
  <2>4. ASSUME NEW t \in Threads, HasW(t)', pc'[t] # "drain"
        PROVE  readers'[MuOf[t]] = {}
    <3>1. ~Gone(p, t) /\ HasW(t) /\ pc[t] # "drain" /\ MuOf[t] \in Mutexes
      BY <1>3, <2>1, <2>2, <2>4, MuOfAssumption, Zenon
    <3> QED BY <1>5, <3>1 DEF IInv, InMemory, Gone
  <2>5. \A t \in Threads : InMode(t)'
    BY <2>1, <2>2, Zenon DEF IInv, InMemory
  <2> QED BY <2>3, <2>4, <2>5, Zenon DEF InMemory
<1>7. OnFile'
  <2>1. \A t \in Threads : flocks'[t] = IF pc'[t] = "held" THEN mode'[t] ELSE "none"
    BY <1>2, <1>3 DEF IInv, OnFile
  <2>2. \A t, u \in Threads : t # u /\ flocks'[t] = "ex" => flocks'[u] = "none"
    BY <1>2, <1>3 DEF IInv, OnFile
  <2> QED BY <2>1, <2>2 DEF OnFile
<1> QED BY <1>1, <1>6, <1>7 DEF IInv

\* Every step keeps the invariant.
LEMMA StepKeeps == IInv /\ [Next]_vars => IInv'
<1> SUFFICES ASSUME IInv, [Next]_vars
             PROVE  IInv'
  OBVIOUS
<1>1. CASE UNCHANGED vars
  <2>1. MutexTyped' /\ OnFile'
    BY <1>1, Zenon DEF vars, IInv, MutexTyped, OnFile
  <2>2. InMemory'
    BY <1>1 DEF vars, IInv, InMemory, HasW, HasR, InMode
  <2> QED BY <2>1, <2>2 DEF IInv
<1>2. ASSUME NEW t \in Threads, Step(t)
      PROVE  IInv'
  <2>1. CASE RLockOpenFailsFatal(t)
    <3>1. ProcOf[MuOf[t]] \in Processes
      BY MuOfAssumption, ProcOfAssumption, Zenon
    <3> QED BY <2>1, <3>1, EndKeeps, Zenon DEF RLockOpenFailsFatal
  <2> QED BY <1>2, <2>1, LockKeeps, ErrorKeeps, FileKeeps, LeakKeeps, Zenon DEF Step
<1>3. ASSUME NEW t \in Threads, UnlockFile(t)
      PROVE  IInv'
  BY <1>3, FileKeeps, Zenon
<1>4. ASSUME NEW p \in Processes, Kill(p)
      PROVE  IInv'
  BY <1>4, EndKeeps, Zenon DEF Kill
<1> QED BY <1>1, <1>2, <1>3, <1>4, CallKeeps, Zenon DEF Next

-----------------------------------------------------------------------------
\* A Mutex excludes, across goroutines and processes, whatever fails and whoever
\* is killed (mutex.go: Lock, RLock, the Try and Timeout methods).
THEOREM MutexExcludes == Spec => []Exclusion
<1>1. IInv => Exclusion
  <2> SUFFICES ASSUME IInv
               PROVE  Exclusion
    OBVIOUS
  <2>1. \A t \in Threads : MuOf[t] \in Mutexes /\ mode[t] \in {"sh", "ex"}
    BY MuOfAssumption, Zenon DEF IInv, MutexTyped
  <2>2. \A t, u \in Threads : t # u /\ pc[t] = "held" /\ pc[u] = "held" => mode[t] = "sh" /\ mode[u] = "sh"
    BY <2>1 DEF IInv, OnFile
  <2>3. \A t \in Threads : flocks[t] # "none" => pc[t] = "held" /\ mode[t] = flocks[t]
    BY DEF IInv, OnFile
  <2>4. \A t \in Threads : flocks[t] = "ex" => HasW(t) /\ pc[t] # "drain"
    BY <2>3 DEF HasW
  <2>5. \A t \in Threads : flocks[t] = "sh" => HasR(t)
    BY <2>3 DEF HasR
  <2>6. \A t \in Threads : flocks[t] = "ex" => writer[MuOf[t]] = t /\ readers[MuOf[t]] = {}
    BY <2>1, <2>4, Zenon DEF IInv, InMemory
  <2>7. \A t \in Threads : flocks[t] = "sh" => t \in readers[MuOf[t]]
    BY <2>1, <2>5, Zenon DEF IInv, InMemory
  <2> QED BY <2>2, <2>6, <2>7, Zenon DEF Exclusion
<1> QED BY <1>1, InitHolds, StepKeeps, PTL DEF Spec

\* A Mutex on which no call is under way is free, in memory and on disk
\* (mutex.go: the error paths, the unlock functions).
THEOREM NothingIsLeaked == Spec => []NothingLeaks
<1>1. IInv => NothingLeaks
  <2> SUFFICES ASSUME IInv, NEW m \in Mutexes, \A t \in Threads : MuOf[t] = m => pc[t] \in {"idle", "dead"}
               PROVE  /\ writer[m] = NoThread /\ readers[m] = {}
                      /\ \A t \in Threads : MuOf[t] = m => flocks[t] = "none"
    BY Zenon DEF NothingLeaks
  <2>1. \A t \in Threads : MuOf[t] = m => ~HasW(t) /\ ~HasR(t) /\ pc[t] # "held"
    BY DEF HasW, HasR
  <2>2. writer[m] \in Threads \cup {NoThread} /\ readers[m] \subseteq Threads
    BY Zenon DEF IInv, MutexTyped
  <2>3. writer[m] = NoThread /\ readers[m] = {}
    BY <2>1, <2>2 DEF IInv, InMemory
  <2>4. \A t \in Threads : MuOf[t] = m => flocks[t] = "none"
    BY <2>1 DEF IInv, OnFile
  <2> QED BY <2>3, <2>4
<1> QED BY <1>1, InitHolds, StepKeeps, PTL DEF Spec
=============================================================================
