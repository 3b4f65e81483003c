-------------------------- MODULE LockedFileProofs --------------------------
(***************************************************************************)
(* For every set of processes and every set of contents: the package's I/O *)
(* is done under the right lock, and Write and Transform are atomic.       *)
(***************************************************************************)
EXTENDS LockedFile, TLAPS

-----------------------------------------------------------------------------
(* The system calls on the bytes of the file. *)

\* s begins with t.
HasPrefix(s, t) == Len(t) <= Len(s) /\ \A i \in 1..Len(t) : s[i] = t[i]

\* Two files of the same size with the same bytes are the same file.
LEMMA SameBytes ==
  ASSUME NEW s \in Seq(Bytes), NEW t \in Seq(Bytes), Len(s) = Len(t),
         \A i \in 1..Len(s) : s[i] = t[i]
  PROVE  s = t
OBVIOUS

\* w is s after the first k bytes of c went to offset off: size and bytes.
Written(w, s, c, off, k) ==
    /\ w \in Seq(Bytes)
    /\ Len(w) = IF off + k > Len(s) THEN off + k ELSE Len(s)
    /\ \A i \in 1..Len(w) :
         w[i] = IF off < i /\ i <= off + k THEN c[i - off] ELSE s[i]

\* pwrite inside or at the end of the file.
LEMMA PwriteBytes ==
  ASSUME NEW s \in Seq(Bytes), NEW c \in Seq(Bytes),
         NEW off \in 0..Len(s), NEW k \in 0..Len(c)
  PROVE  Written(Pwrite(s, c, off, k), s, c, off, k)
<1> DEFINE n == IF off + k > Len(s) THEN off + k ELSE Len(s)
           g(i) == IF off < i /\ i <= off + k THEN c[i - off] ELSE s[i]
<1>1. n \in Nat
  OBVIOUS
<1>2. \A i \in 1..n : g(i) \in Bytes
  OBVIOUS
<1>3. Pwrite(s, c, off, k) = [i \in 1..n |-> g(i)]
  BY DEF Pwrite
<1>4. [i \in 1..n |-> g(i)] \in Seq(Bytes) /\ Len([i \in 1..n |-> g(i)]) = n
  <2> HIDE DEF n, g
  <2> QED BY <1>1, <1>2
<1> QED BY <1>1, <1>3, <1>4, Zenon DEF Written

\* What ftruncate leaves.
LEMMA FtruncateBytes ==
  ASSUME NEW s \in Seq(Bytes), NEW n \in 0..Len(s)
  PROVE  /\ Ftruncate(s, n) \in Seq(Bytes)
         /\ Len(Ftruncate(s, n)) = n
         /\ \A i \in 1..n : Ftruncate(s, n)[i] = s[i]
BY DEF Ftruncate

\* Cutting a file to the size of a prefix leaves the prefix.
LEMMA TruncateToPrefix ==
  ASSUME NEW s \in Seq(Bytes), NEW t \in Seq(Bytes), HasPrefix(s, t)
  PROVE  Ftruncate(s, Len(t)) = t
<1>1. Len(t) \in 0..Len(s)
  BY DEF HasPrefix
<1>2. /\ Ftruncate(s, Len(t)) \in Seq(Bytes)
      /\ Len(Ftruncate(s, Len(t))) = Len(t)
      /\ \A i \in 1..Len(t) : Ftruncate(s, Len(t))[i] = s[i]
  BY ONLY <1>1, FtruncateBytes, s \in Seq(Bytes)
<1> QED BY <1>2, SameBytes, Zenon DEF HasPrefix

\* The bytes behind the old size.
LEMMA TailBytes ==
  ASSUME NEW s \in Seq(Bytes), NEW n \in 0..Len(s)
  PROVE  /\ TailOf(s, n) \in Seq(Bytes)
         /\ Len(TailOf(s, n)) = Len(s) - n
         /\ \A i \in 1..(Len(s) - n) : TailOf(s, n)[i] = s[n + i]
BY DEF TailOf
-----------------------------------------------------------------------------
(* The inductive invariant. *)

\* The lock a process holds is the one its operation asked for, and the
\* flock table is that of a readers-writer lock.
Locking ==
    /\ \A p \in Procs :
         locks[p] = IF Inside(p) THEN Mode(op[p]) ELSE "none"
    /\ \A p, q \in Procs : (p # q /\ locks[p] = "ex") => locks[q] = "none"

\* The labels that belong to each operation, and where no call has failed.
OpOf(l) ==
    CASE l = "truncate" -> {"Write", "Create"}
      [] l = "copy" -> {"Write"}
      [] l = "handle" -> {"Open", "Create", "Edit"}
      [] l = "read" -> {"Read", "Transform"}
      [] l \in {"call", "tail", "untail", "overwrite", "shrink", "rollback",
                "retruncate"} -> {"Transform"}
      [] OTHER -> Ops

\* What the label of a process says about its variables and the file while it
\* is inside: how far a Write or Transform has come.
Local(p) ==
    /\ op[p] \in OpOf(pc[p])
    /\ pc[p] \notin {"untail", "rollback", "retruncate", "close"} => fails[p] = 0
    /\ pc[p] \in {"untail", "rollback", "retruncate"} => fails[p] > 0
    /\ pc[p] = "truncate" => pos[p] = 0
    /\ pc[p] = "read" => HasPrefix(file, old[p]) /\ pos[p] = Len(old[p])
    /\ pc[p] \in {"call", "tail"} => file = old[p]
    /\ pc[p] = "tail" => Len(new[p]) > Len(old[p])
    /\ pc[p] \in {"untail", "retruncate"} => HasPrefix(file, old[p])
    /\ pc[p] = "rollback" => Len(file) >= Len(old[p])
    /\ pc[p] = "overwrite" =>
         IF Len(new[p]) > Len(old[p])
         THEN /\ Len(file) = Len(new[p])
              /\ \A i \in 1..Len(new[p]) : i > Len(old[p]) => file[i] = new[p][i]
         ELSE file = old[p]
    /\ pc[p] = "shrink" => /\ Len(new[p]) < Len(old[p])
                           /\ Len(file) = Len(old[p])
                           /\ HasPrefix(file, new[p])
    /\ pc[p] = "copy" => HasPrefix(new[p], file) /\ pos[p] = Len(file)
    /\ (pc[p] = "close" /\ op[p] \in {"Write", "Transform"} /\ fails[p] = 0)
         => file = new[p]
    /\ (pc[p] = "close" /\ op[p] = "Read" /\ fails[p] = 0) => file = old[p]
    /\ (pc[p] = "close" /\ op[p] = "Write" /\ fails[p] > 0) => damaged

\* While p is inside, how its variables and the file relate to the last
\* reported contents: what it read is the latest, and the file is intact
\* before the first write and after a failure that was undone.
Fresh(p) ==
    /\ pc[p] \in Unwritten => file = committed
    /\ Mode(op[p]) = "sh" => file = committed
    /\ (op[p] \in {"Read", "Transform"} /\ pc[p] # "read"
        /\ (pc[p] = "close" => fails[p] = 0)) => old[p] = committed
    /\ (pc[p] = "close" /\ op[p] = "Transform" /\ fails[p] > 0)
         => file = committed

\* Outside, the variables of an operation are fresh.
Blank == \A p \in Procs :
    ~Inside(p) => old[p] = <<>> /\ pos[p] = 0 /\ fails[p] = 0

IInv ==
    /\ TypeOK
    /\ Locking
    /\ Blank
    /\ \A p \in Procs : Inside(p) => Local(p)
    /\ ~damaged => \A p \in Procs : Inside(p) => Fresh(p)
    /\ Atomicity
\* Only the variables of p change in a step of p.
Own(p) ==
    \A q \in Procs \ {p} :
        /\ pc'[q] = pc[q] /\ op'[q] = op[q] /\ locks'[q] = locks[q]
        /\ old'[q] = old[q] /\ new'[q] = new[q]
        /\ pos'[q] = pos[q] /\ fails'[q] = fails[q]

\* Only a process that holds the write lock touches the file.
Guarded(p) == locks[p] = "ex" \/ UNCHANGED <<file, committed, damaged>>

-----------------------------------------------------------------------------
(* Steps seen from the other processes. *)

\* A guarded step of p disturbs nothing that holds of another process: either
\* the file stays, or p has the write lock and nobody else is inside.
LEMMA Others ==
  ASSUME IInv, NEW p \in Procs, Own(p), Guarded(p),
         NEW q \in Procs \ {p}, Inside(q)'
  PROVE  Local(q)' /\ (~damaged' => Fresh(q)')
<1>1. Inside(q)
  BY DEF Own, Inside
<1>2. locks[p] # "ex"
  BY <1>1 DEF IInv, Locking, Mode
<1>3. UNCHANGED <<file, committed, damaged>>
  BY <1>2 DEF Guarded
<1>4. Local(q) /\ (~damaged => Fresh(q))
  BY <1>1 DEF IInv
<1>5. Local(q)'
  BY <1>3, <1>4 DEF Own, Local, HasPrefix
<1>6. ~damaged' => Fresh(q)'
  BY <1>3, <1>4, Zenon DEF Own, Fresh
<1> QED BY <1>5, <1>6

\* A step inside the package: the lock stays as it is.
LEMMA StepInside ==
  ASSUME IInv, NEW p \in Procs, Own(p), Guarded(p), TypeOK',
         Inside(p), Inside(p)', UNCHANGED <<locks, op>>,
         Local(p)', ~damaged' => Fresh(p)'
  PROVE  IInv'
<1>1. Locking'
  BY DEF IInv, Locking, Own, Inside
<1>2. \A q \in Procs : Inside(q)' => Local(q)' /\ (~damaged' => Fresh(q)')
  BY Others
<1>3. Atomicity'
  BY DEF IInv, Atomicity, Guarded
<1>4. Blank'
  BY DEF IInv, Blank, Own, Inside
<1> QED BY <1>1, <1>2, <1>3, <1>4, Zenon DEF IInv

\* A step that leaves the package and gives up the lock.
LEMMA StepOut ==
  ASSUME IInv, NEW p \in Procs, Return(p), Guarded(p), TypeOK', Atomicity'
  PROVE  IInv'
<1>1. Own(p) /\ pc'[p] = "idle" /\ locks'[p] = "none"
  BY DEF Return, Goto, Own, IInv, TypeOK
<1>2. Locking'
  BY <1>1 DEF IInv, Locking, Own, Inside
<1>3. \A q \in Procs : Inside(q)' => Local(q)' /\ (~damaged' => Fresh(q)')
  BY <1>1, Others, Zenon DEF Inside
<1>4. Blank'
  BY <1>1 DEF IInv, TypeOK, Blank, Own, Inside, Return
<1> QED BY <1>2, <1>3, <1>4 DEF IInv

\* Return keeps the types.
LEMMA ReturnTypes ==
  ASSUME TypeOK, NEW p \in Procs, Return(p),
         file' \in Seq(Bytes), committed' \in Seq(Bytes), damaged' \in BOOLEAN
  PROVE  TypeOK'
<1>1. <<>> \in Seq(Bytes)
  OBVIOUS
<1> QED BY <1>1, Zenon DEF TypeOK, Return, Goto, PCs, Ops

-----------------------------------------------------------------------------
(* openFile and closeFile. *)

\* os.OpenFile takes no lock and changes no file.
LEMMA BeginStep ==
  ASSUME IInv, NEW p \in Procs, NEW o \in Ops, NEW v \in Contents, Begin(p, o, v)
  PROVE  IInv'
<1>1. TypeOK'
  BY ContentsAssumption DEF Begin, Goto, IInv, TypeOK, PCs
<1>2. Own(p) /\ Guarded(p) /\ ~Inside(p) /\ ~Inside(p)'
  BY Zenon DEF Begin, Goto, Own, Guarded, Inside, IInv, TypeOK
<1>3. Locking'
  BY <1>2 DEF Begin, Own, IInv, Locking, Inside
<1>4. \A q \in Procs : Inside(q)' => Local(q)' /\ (~damaged' => Fresh(q)')
  BY <1>2, Others
<1>5. Atomicity'
  BY Zenon DEF Begin, IInv, Atomicity
<1>6. Blank'
  BY <1>2, Zenon DEF Begin, Own, IInv, Blank, Inside
<1> QED BY <1>1, <1>3, <1>4, <1>5, <1>6 DEF IInv
\* A granted flock: the file is what the last operation reported.
LEMMA FlockStep ==
  ASSUME IInv, NEW p \in Procs, Flock(p)
  PROVE  IInv'
<1>1. TypeOK'
  BY Zenon DEF Flock, Goto, IInv, TypeOK, PCs, AfterLock, Mode
<1>2. Own(p) /\ Guarded(p) /\ ~Inside(p)
  BY Zenon DEF Flock, Goto, Own, Guarded, Inside, IInv, TypeOK
<1>3. /\ pc'[p] = AfterLock(op[p]) /\ locks'[p] = Mode(op[p])
      /\ UNCHANGED <<file, op, old, new, pos, fails, committed, damaged>>
      /\ op[p] \in Ops /\ Inside(p)'
  BY Zenon DEF Flock, Goto, IInv, TypeOK, Inside, AfterLock
<1>4. Locking'
  <2>1. \A q \in Procs \ {p} :
          /\ Mode(op[p]) = "ex" => locks[q] = "none"
          /\ locks[q] # "ex"
    BY Zenon DEF Flock, Grantable, Mode
  <2> QED BY <1>2, <1>3, <2>1 DEF Own, IInv, Locking, Inside, Mode
<1>5. old[p] = <<>> /\ pos[p] = 0 /\ fails[p] = 0
  BY <1>2 DEF IInv, Blank
<1>6. Local(p)'
  BY <1>3, <1>5 DEF Local, AfterLock, OpOf, Ops, HasPrefix, IsHandle, Truncates,
     IInv, TypeOK
<1>7. ~damaged' => file = committed
  BY <1>2, <1>3 DEF Flock, Grantable, IInv, Atomicity, Locking, Mode
<1>8. ~damaged' => Fresh(p)'
  BY <1>3, <1>7, Zenon DEF Fresh, AfterLock, IsHandle, Truncates
<1>9. Atomicity'
  BY <1>3, <1>7, Zenon DEF Atomicity
<1>10. Blank'
  BY <1>2, <1>3, Zenon DEF Own, IInv, Blank, Inside
<1> QED BY <1>1, <1>2, <1>4, <1>6, <1>8, <1>9, <1>10, Others DEF IInv
\* What a process knows while it is inside.
LEMMA Knows ==
  ASSUME IInv, NEW p \in Procs, Inside(p)
  PROVE  /\ Local(p) /\ (~damaged => Fresh(p))
         /\ locks[p] = Mode(op[p])
         /\ op[p] \in Ops /\ op[p] \in OpOf(pc[p])
         /\ file \in Seq(Bytes) /\ committed \in Seq(Bytes)
         /\ old[p] \in Seq(Bytes) /\ new[p] \in Seq(Bytes)
         /\ pos[p] \in Nat /\ fails[p] \in Nat /\ damaged \in BOOLEAN
BY Zenon DEF IInv, TypeOK, Locking, Local

\* A failed flock or truncate leaves file and history as they were.
LEMMA GiveUpStep ==
  ASSUME IInv, NEW p \in Procs, FlockFails(p) \/ TruncateFails(p)
  PROVE  IInv'
<1>1. Return(p) /\ Guarded(p) /\ UNCHANGED <<file, committed, damaged>>
  BY DEF FlockFails, TruncateFails, Guarded
<1>2. TypeOK'
  BY <1>1, ReturnTypes, Zenon DEF IInv, TypeOK
<1>3. Atomicity'
  <2>1. CASE FlockFails(p)
    <3>1. locks[p] = "none"
      BY <2>1, Zenon DEF FlockFails, Inside, IInv, Locking
    <3> QED BY <1>1, <3>1, Zenon DEF Return, IInv, TypeOK, Atomicity
  <2>2. CASE TruncateFails(p)
    <3>1. ~damaged => file = committed
      BY <2>2, Knows, Zenon DEF TruncateFails, Inside, Fresh, Unwritten
    <3> QED BY <1>1, <3>1 DEF Atomicity
  <2> QED BY <2>1, <2>2
<1> QED BY <1>1, <1>2, <1>3, StepOut

\* openFile's truncation happens under the write lock.
LEMMA TruncateStep ==
  ASSUME IInv, NEW p \in Procs, Truncate(p)
  PROVE  IInv'
<1>1. Inside(p) /\ Inside(p)' /\ Own(p) /\ UNCHANGED <<locks, op>>
  BY Zenon DEF Truncate, Goto, Inside, Own, IInv, TypeOK
<1>2. op[p] \in {"Write", "Create"} /\ Local(p) /\ locks[p] = "ex"
  BY <1>1, Knows, Zenon DEF Truncate, OpOf, Mode
<1>3. TypeOK'
  BY DEF Truncate, Goto, IInv, TypeOK, PCs
<1>4. Local(p)'
  BY <1>2, <1>3 DEF Truncate, Goto, Local, OpOf, HasPrefix, IsHandle, TypeOK, IInv
<1>5. ~damaged' => Fresh(p)'
  BY <1>2, Zenon DEF Truncate, Goto, Fresh, Unwritten, Mode, IsHandle, IInv, TypeOK
<1> QED BY <1>1, <1>2, <1>3, <1>4, <1>5, StepInside DEF Guarded

\* Close: what the caller is told is what the file holds.
LEMMA CloseStep ==
  ASSUME IInv, NEW p \in Procs, Close(p)
  PROVE  IInv'
<1>1. Inside(p) /\ Return(p) /\ UNCHANGED file
  BY DEF Close, Inside
<1>2. Local(p) /\ (~damaged => Fresh(p)) /\ locks[p] = Mode(op[p]) /\ op[p] \in Ops
  BY <1>1, Knows, Zenon
<1>3. Guarded(p)
  BY <1>2, Zenon DEF Close, Commits, Guarded, Mode, IInv, TypeOK
<1>4. TypeOK'
  <2>1. committed' \in Seq(Bytes) /\ damaged' \in BOOLEAN
    BY Zenon DEF Close, IInv, TypeOK
  <2> QED BY <1>1, <2>1, ReturnTypes, Zenon DEF IInv, TypeOK
<1>5. Atomicity'
  <2>1. CASE Commits(p)
    <3>1. file' = committed'
      BY <2>1, <1>1, <1>2, Zenon DEF Close, Commits, Local, IsHandle
    <3> QED BY <3>1 DEF Atomicity
  <2>2. CASE ~Commits(p)
    <3>1. ~damaged => file = committed
      BY <2>2, <1>2, Knows, <1>1, SMTT(40)
         DEF Close, Commits, Fresh, Local, Mode, Ops, Unwritten
    <3>2. UNCHANGED <<file, committed, damaged>>
      BY <2>2, Zenon DEF Close, IInv, TypeOK
    <3> QED BY <3>1, <3>2 DEF Atomicity
  <2> QED BY <2>1, <2>2
<1> QED BY <1>1, <1>3, <1>4, <1>5, StepOut

\* A killed process: unless it was in the middle of writing, nothing is lost.
LEMMA KillStep ==
  ASSUME IInv, NEW p \in Procs, Kill(p)
  PROVE  IInv'
<1>1. Return(p) /\ UNCHANGED <<file, committed>>
  BY DEF Kill
<1>2. Guarded(p)
  BY Zenon DEF Kill, Guarded, IInv, TypeOK
<1>3. TypeOK'
  <2>1. damaged' \in BOOLEAN
    BY DEF Kill
  <2> QED BY <1>1, <2>1, ReturnTypes, Zenon DEF IInv, TypeOK
<1>4. Atomicity'
  <2>1. CASE Inside(p)
    <3>1. (~damaged /\ ~(locks[p] = "ex" /\ pc[p] \notin Unwritten)) => file = committed
      BY <2>1, Knows, Zenon DEF Fresh, Mode
    <3> QED BY <1>1, <3>1, Zenon DEF Kill, Atomicity
  <2>2. CASE ~Inside(p)
    <3>1. locks[p] = "none"
      BY <2>2, Zenon DEF IInv, Locking
    <3> QED BY <1>1, <3>1, Zenon DEF Kill, Return, IInv, TypeOK, Atomicity
  <2> QED BY <2>1, <2>2
<1> QED BY <1>1, <1>2, <1>3, <1>4, StepOut
-----------------------------------------------------------------------------
(* Read and Write. *)

\* io.ReadAll: what has been read is a prefix of a file that cannot change.
LEMMA ReadStepInv ==
  ASSUME IInv, NEW p \in Procs, ReadStep(p)
  PROVE  IInv'
<1>1. Inside(p) /\ Inside(p)' /\ Own(p) /\ Guarded(p) /\ UNCHANGED <<locks, op>>
  BY DEF ReadStep, ReadByte, ReadEOF, ReadFails, Goto, Failed, Inside, Own,
     Guarded, IInv, TypeOK
<1>2. /\ op[p] \in {"Read", "Transform"} /\ pc[p] = "read"
      /\ Local(p) /\ (~damaged => Fresh(p))
      /\ HasPrefix(file, old[p]) /\ pos[p] = Len(old[p]) /\ fails[p] = 0
      /\ file \in Seq(Bytes) /\ old[p] \in Seq(Bytes)
      /\ ~damaged => file = committed
  BY <1>1, Knows, Zenon DEF ReadStep, ReadByte, ReadEOF, ReadFails, OpOf, Local, Fresh,
     Unwritten
<1>3. CASE ReadByte(p)
  <2>1. TypeOK'
    BY <1>2, <1>3 DEF ReadByte, IInv, TypeOK
  <2>2. Local(p)'
    <3>1. old'[p] = Append(old[p], file[pos[p] + 1]) /\ pos'[p] = pos[p] + 1
      BY <1>3, Zenon DEF ReadByte, IInv, TypeOK
    <3>2. HasPrefix(file, old'[p]) /\ pos'[p] = Len(old'[p])
      BY <1>2, <1>3, <3>1 DEF HasPrefix, ReadByte
    <3> QED BY <1>2, <1>3, <3>2, Zenon DEF ReadByte, Local, HasPrefix
  <2>3. ~damaged' => Fresh(p)'
    BY <1>2, <1>3, Zenon DEF ReadByte, Fresh
  <2> QED BY <1>1, <2>1, <2>2, <2>3, StepInside
<1>4. CASE ReadEOF(p)
  <2>1. TypeOK'
    BY <1>4, Zenon DEF ReadEOF, Goto, IInv, TypeOK, PCs
  <2>2. old[p] = file
    BY <1>2, <1>4, SameBytes DEF ReadEOF, HasPrefix
  <2>3. pc'[p] = IF op[p] = "Read" THEN "close" ELSE "call"
    BY <1>4, Zenon DEF ReadEOF, Goto, IInv, TypeOK
  <2>4. Local(p)'
    BY <1>2, <1>4, <2>2, <2>3, Zenon DEF ReadEOF, Local, OpOf, Ops
  <2>5. ~damaged' => Fresh(p)'
    BY <1>2, <1>4, <2>2, <2>3, Zenon DEF ReadEOF, Fresh
  <2> QED BY <1>1, <2>1, <2>4, <2>5, StepInside
<1>5. CASE ReadFails(p)
  <2>1. TypeOK'
    BY <1>5 DEF ReadFails, Goto, Failed, IInv, TypeOK, PCs
  <2>2. pc'[p] = "close" /\ fails'[p] = 1
    BY <1>2, <1>5 DEF ReadFails, Goto, Failed, IInv, TypeOK
  <2>3. Local(p)'
    BY <1>2, <1>5, <2>2 DEF ReadFails, Local, OpOf, Ops
  <2>4. ~damaged' => Fresh(p)'
    BY <1>2, <1>5, <2>2 DEF ReadFails, Fresh
  <2> QED BY <1>1, <2>1, <2>3, <2>4, StepInside
<1> QED BY <1>3, <1>4, <1>5 DEF ReadStep

\* io.Copy: the file is a prefix of the new contents, all of them at the end.
LEMMA WriteStepInv ==
  ASSUME IInv, NEW p \in Procs, WriteStep(p)
  PROVE  IInv'
<1>1. Inside(p) /\ Inside(p)' /\ Own(p) /\ UNCHANGED <<locks, op>>
  BY Zenon DEF WriteStep, CopyByte, CopyDone, CopyFails, Goto, Failed, Inside, Own,
     IInv, TypeOK
<1>2. /\ op[p] = "Write" /\ pc[p] = "copy" /\ locks[p] = "ex"
      /\ HasPrefix(new[p], file) /\ pos[p] = Len(file) /\ fails[p] = 0
      /\ file \in Seq(Bytes) /\ new[p] \in Seq(Bytes)
  BY <1>1, Knows, Zenon DEF WriteStep, CopyByte, CopyDone, CopyFails, OpOf, Local, Mode
<1>3. Guarded(p)
  BY <1>2 DEF Guarded
<1>4. CASE CopyByte(p)
  <2> DEFINE c == <<new[p][pos[p] + 1]>>
  <2>1. c \in Seq(Bytes) /\ Len(c) = 1 /\ c[1] = new[p][pos[p] + 1]
    BY <1>2, <1>4 DEF CopyByte
  <2>2. /\ file' \in Seq(Bytes) /\ Len(file') = Len(file) + 1
        /\ \A i \in 1..Len(file) : file'[i] = file[i]
        /\ file'[Len(file) + 1] = new[p][Len(file) + 1]
    <3>1. file' = Pwrite(file, c, Len(file), 1)
      BY <1>2, <1>4, Zenon DEF CopyByte
    <3> HIDE DEF c
    <3>2. Len(file) \in 0..Len(file) /\ 1 \in 0..Len(c)
      BY <1>2, <2>1
    <3>3. Written(file', file, c, Len(file), 1)
      <4>1. file \in Seq(Bytes) /\ c \in Seq(Bytes)
        BY <1>2, <2>1, Zenon
      <4>2. Written(Pwrite(file, c, Len(file), 1), file, c, Len(file), 1)
        BY ONLY <4>1, <3>2, PwriteBytes
      <4> QED BY <3>1, <4>2
    <3>4. Len(file) \in Nat /\ Len(file') = Len(file) + 1
      BY <1>2, <3>3 DEF Written
    <3>5. file'[Len(file) + 1] = c[1]
      BY <3>3, <3>4 DEF Written
    <3> QED BY <1>2, <2>1, <3>3, <3>4, <3>5 DEF Written
  <2>3. HasPrefix(new[p], file') /\ pos'[p] = Len(file')
    <3>1. pos'[p] = Len(file) + 1 /\ Len(file) < Len(new[p])
      BY <1>2, <1>4, Zenon DEF CopyByte, IInv, TypeOK
    <3>2. Len(file) \in Nat /\ Len(new[p]) \in Nat
      BY <1>2
    <3>3. \A i \in 1..Len(file) : file[i] = new[p][i]
      BY <1>2, Zenon DEF HasPrefix
    <3>4. \A i \in 1..(Len(file) + 1) : new[p][i] = file'[i]
      BY <2>2, <3>2, <3>3
    <3> QED BY <2>2, <3>1, <3>2, <3>4 DEF HasPrefix
  <2>4. TypeOK'
    BY <1>4, <2>2 DEF CopyByte, IInv, TypeOK
  <2>5. Local(p)'
    BY <1>2, <1>4, <2>3, Zenon DEF CopyByte, Local, OpOf, HasPrefix
  <2>6. Fresh(p)'
    BY <1>2, <1>4, Zenon DEF CopyByte, Fresh, Unwritten, Mode
  <2> QED BY <1>1, <1>3, <2>4, <2>5, <2>6, StepInside
<1>5. CASE CopyDone(p)
  <2>1. TypeOK'
    BY <1>5, Zenon DEF CopyDone, Goto, IInv, TypeOK, PCs
  <2>2. file = new[p] /\ pc'[p] = "close"
    BY <1>2, <1>5, SameBytes, Zenon DEF CopyDone, Goto, HasPrefix, IInv, TypeOK
  <2>3. Local(p)'
    BY <1>2, <1>5, <2>2 DEF CopyDone, Local, OpOf, Ops
  <2>4. Fresh(p)'
    BY <1>2, <1>5, <2>2, Zenon DEF CopyDone, Fresh, Unwritten, Mode
  <2> QED BY <1>1, <1>3, <2>1, <2>3, <2>4, StepInside
<1>6. CASE CopyFails(p)
  <2>1. TypeOK'
    BY <1>6 DEF CopyFails, Goto, Failed, IInv, TypeOK, PCs
  <2>2. damaged' /\ pc'[p] = "close" /\ fails'[p] = 1
    BY <1>2, <1>6 DEF CopyFails, Goto, Failed, IInv, TypeOK
  <2>3. Local(p)'
    BY <1>2, <1>6, <2>2 DEF CopyFails, Local, OpOf, Ops
  <2> QED BY <1>1, <1>3, <2>1, <2>2, <2>3, StepInside
<1> QED BY <1>4, <1>5, <1>6 DEF WriteStep

\* A user's I/O through a write-locked File.
LEMMA HandleStepInv ==
  ASSUME IInv, NEW p \in Procs, HandleStep(p)
  PROVE  IInv'
<1>1. Inside(p) /\ Inside(p)' /\ Own(p) /\ UNCHANGED <<locks, op>>
  BY Zenon DEF HandleStep, HandleDone, HandleWrite, Goto, Inside, Own, IInv, TypeOK
<1>2. /\ op[p] \in {"Open", "Create", "Edit"} /\ pc[p] = "handle"
      /\ locks[p] = Mode(op[p]) /\ fails[p] = 0
      /\ ~damaged => Fresh(p)
  BY <1>1, Knows, Zenon DEF HandleStep, HandleDone, HandleWrite, OpOf, Local
<1>3. Guarded(p)
  BY <1>2, Zenon DEF HandleStep, HandleDone, HandleWrite, Guarded, Mode
<1>4. TypeOK'
  BY ContentsAssumption, Zenon
     DEF HandleStep, HandleDone, HandleWrite, Goto, IInv, TypeOK, PCs
<1>5. Local(p)'
  BY <1>2 DEF HandleStep, HandleDone, HandleWrite, Goto, Local, OpOf, Ops, IInv,
     TypeOK
<1>6. ~damaged' => Fresh(p)'
  BY <1>2, Zenon DEF HandleStep, HandleDone, HandleWrite, Goto, Fresh, Mode, Unwritten,
     IInv, TypeOK
<1> QED BY <1>1, <1>3, <1>4, <1>5, <1>6, StepInside
-----------------------------------------------------------------------------
(* Transform.  Every step is taken under the write lock. *)

\* The setting of every step of Transform.
LEMMA InTransform ==
  ASSUME IInv, NEW p \in Procs,
         pc[p] \in {"call", "tail", "untail", "overwrite", "shrink", "rollback",
                    "retruncate"}
  PROVE  /\ Inside(p) /\ op[p] = "Transform" /\ locks[p] = "ex"
         /\ Guarded(p) /\ Local(p) /\ (~damaged => old[p] = committed)
         /\ file \in Seq(Bytes) /\ old[p] \in Seq(Bytes) /\ new[p] \in Seq(Bytes)
         /\ Len(file) \in Nat /\ Len(old[p]) \in Nat /\ Len(new[p]) \in Nat
         /\ fails[p] \in Nat
<1>1. Inside(p)
  BY DEF Inside
<1>2. op[p] = "Transform"
  BY <1>1, Knows, Zenon DEF OpOf
<1> QED BY <1>1, <1>2, Knows DEF Guarded, Fresh, Mode

\* t(old) returned: nothing written yet.
LEMMA CallStep ==
  ASSUME IInv, NEW p \in Procs,
         (\E v \in Contents : CallT(p, v)) \/ CallTFails(p)
  PROVE  IInv'
<1>1. pc[p] = "call" /\ Inside(p)' /\ Own(p) /\ UNCHANGED <<file, locks, op, old, committed, damaged>>
  BY Zenon DEF CallT, CallTFails, Goto, Failed, Inside, Own, IInv, TypeOK
<1>2. /\ op[p] = "Transform" /\ Inside(p) /\ Guarded(p) /\ fails[p] = 0
      /\ file = old[p] /\ (~damaged => old[p] = committed)
  BY <1>1, InTransform, Zenon DEF Local
<1>3. CASE \E v \in Contents : CallT(p, v)
  <2>1. PICK v \in Contents : CallT(p, v)
    BY <1>3
  <2>2. v \in Seq(Bytes)
    BY ContentsAssumption
  <2>3. TypeOK'
    BY <2>1, <2>2, Zenon DEF CallT, Goto, IInv, TypeOK, PCs
  <2>4. /\ new'[p] = v /\ fails'[p] = 0
        /\ pc'[p] = IF Len(v) > Len(old[p]) THEN "tail" ELSE "overwrite"
    BY <2>1, <1>2, Zenon DEF CallT, Goto, IInv, TypeOK
  <2>5. Local(p)'
    BY <1>1, <1>2, <2>4, Zenon DEF Local, OpOf
  <2>6. ~damaged' => Fresh(p)'
    BY <1>1, <1>2, <2>4, Zenon DEF Fresh, Mode
  <2> QED BY <1>1, <1>2, <2>3, <2>5, <2>6, StepInside, Zenon
<1>4. CASE CallTFails(p)
  <2>1. TypeOK'
    BY <1>4 DEF CallTFails, Goto, Failed, IInv, TypeOK, PCs
  <2>2. pc'[p] = "close" /\ fails'[p] = 1
    BY <1>2, <1>4 DEF CallTFails, Goto, Failed, IInv, TypeOK
  <2>3. Local(p)'
    BY <1>1, <1>2, <2>2 DEF Local, OpOf, Ops
  <2>4. ~damaged' => Fresh(p)'
    BY <1>1, <1>2, <2>2, Zenon DEF Fresh, Mode, Unwritten
  <2> QED BY <1>1, <1>2, <2>1, <2>3, <2>4, StepInside
<1> QED BY <1>3, <1>4

\* The tail of a longer content, complete or not: the old bytes are untouched.
LEMMA TailStep ==
  ASSUME IInv, NEW p \in Procs,
         WriteTail(p) \/ \E k \in 0..Len(new[p]) : WriteTailFails(p, k)
  PROVE  IInv'
<1> DEFINE n == Len(old[p])
           c == TailOf(new[p], n)
<1>1. pc[p] = "tail" /\ Inside(p)' /\ Own(p) /\ UNCHANGED <<locks, op, old, new, committed, damaged>>
  BY Zenon DEF WriteTail, WriteTailFails, Goto, Failed, Inside, Own, IInv, TypeOK
<1>2. /\ op[p] = "Transform" /\ Inside(p) /\ Guarded(p) /\ fails[p] = 0
      /\ file = old[p] /\ (~damaged => old[p] = committed)
      /\ file \in Seq(Bytes) /\ new[p] \in Seq(Bytes)
      /\ n \in Nat /\ Len(new[p]) \in Nat /\ Len(new[p]) > n /\ Len(file) = n
  BY <1>1, InTransform, Zenon DEF Local
<1>3. /\ c \in Seq(Bytes) /\ Len(c) = Len(new[p]) - n
      /\ \A i \in 1..(Len(new[p]) - n) : c[i] = new[p][n + i]
  <2>1. new[p] \in Seq(Bytes) /\ n \in 0..Len(new[p])
    BY <1>2
  <2> QED BY ONLY <2>1, TailBytes, Zenon
<1> HIDE DEF c, n
<1>4. ASSUME NEW k \in 0..(Len(new[p]) - n)
      PROVE  LET w == Pwrite(file, c, n, k)
             IN  /\ w \in Seq(Bytes) /\ Len(w) = n + k
                 /\ \A i \in 1..n : w[i] = file[i]
                 /\ \A i \in (n + 1)..(n + k) : w[i] = new[p][i]
  <2>1. n \in 0..Len(file) /\ k \in 0..Len(c)
    BY <1>2, <1>3
  <2>2. Written(Pwrite(file, c, n, k), file, c, n, k)
    BY ONLY <1>2, <1>3, <2>1, PwriteBytes, Zenon
  <2>3. DEFINE w == Pwrite(file, c, n, k)
  <2>4. w \in Seq(Bytes) /\ Len(w) = n + k
    BY <1>2, <2>2 DEF Written
  <2>5. \A i \in 1..n : w[i] = file[i]
    BY <1>2, <2>2, <2>4 DEF Written
  <2>6. ASSUME NEW i \in (n + 1)..(n + k) PROVE w[i] = new[p][i]
    <3>1. n < i /\ i <= n + k /\ i \in 1..Len(w) /\ i \in Int
      BY <1>2, <2>4
    <3>2. w[i] = c[i - n]
      BY ONLY <2>2, <3>1, Zenon DEF Written
    <3>3. i - n \in 1..(Len(new[p]) - n) /\ n + (i - n) = i
      BY <1>2, <3>1
    <3> QED BY <1>3, <3>2, <3>3, Zenon
  <2> QED BY <2>4, <2>5, <2>6, Zenon
<1>5. CASE WriteTail(p)
  <2>1. file' = Pwrite(file, c, n, Len(new[p]) - n) /\ fails'[p] = 0 /\ pc'[p] = "overwrite"
    BY <1>2, <1>3, <1>5, Zenon DEF WriteTail, Goto, c, n, IInv, TypeOK
  <2>2. /\ file' \in Seq(Bytes) /\ Len(file') = Len(new[p])
        /\ \A i \in 1..Len(new[p]) : i > n => file'[i] = new[p][i]
    <3>1. Len(new[p]) - n \in 0..(Len(new[p]) - n) /\ n + (Len(new[p]) - n) = Len(new[p])
      BY <1>2
    <3>2. /\ file' \in Seq(Bytes) /\ Len(file') = Len(new[p])
          /\ \A i \in (n + 1)..Len(new[p]) : file'[i] = new[p][i]
      BY <1>4, <2>1, <3>1
    <3> QED BY <1>2, <3>2, SMTT(40)
  <2>3. TypeOK'
    BY <1>5, <2>2, Zenon DEF WriteTail, Goto, IInv, TypeOK, PCs
  <2>4. Local(p)'
    BY <1>1, <1>2, <2>1, <2>2, Zenon DEF Local, OpOf, n
  <2>5. ~damaged' => Fresh(p)'
    BY <1>1, <1>2, <2>1, Zenon DEF Fresh, Mode, Unwritten
  <2> QED BY <1>1, <1>2, <2>3, <2>4, <2>5, StepInside, Zenon
<1>6. ASSUME NEW k \in 0..Len(new[p]), WriteTailFails(p, k) PROVE IInv'
  <2>1. file' = Pwrite(file, c, n, k) /\ fails'[p] = 1 /\ pc'[p] = "untail"
    BY <1>2, <1>6 DEF WriteTailFails, Goto, Failed, c, n, IInv, TypeOK
  <2>2. k \in 0..(Len(new[p]) - n)
    <3>1. k < Len(new[p]) - n
      BY <1>6, Zenon DEF WriteTailFails, n
    <3> QED BY <1>2, <3>1
  <2>3. file' \in Seq(Bytes) /\ HasPrefix(file', old[p])
    BY <1>2, <1>4, <2>1, <2>2 DEF HasPrefix, n
  <2>4. TypeOK'
    BY <1>6, <2>3 DEF WriteTailFails, Goto, Failed, IInv, TypeOK, PCs
  <2>5. Local(p)'
    BY <1>1, <1>2, <2>1, <2>3 DEF Local, OpOf, HasPrefix
  <2>6. ~damaged' => Fresh(p)'
    BY <1>1, <1>2, <2>1, Zenon DEF Fresh, Mode, Unwritten
  <2> QED BY <1>1, <1>2, <2>4, <2>5, <2>6, StepInside, Zenon
<1> QED BY <1>5, <1>6
\* f.Truncate(len(old)) after an incomplete tail restores the old contents;
\* if that fails too, the damage is recorded.
LEMMA RemoveTailStep ==
  ASSUME IInv, NEW p \in Procs, RemoveTail(p) \/ RemoveTailFails(p)
  PROVE  IInv'
<1>1. pc[p] = "untail" /\ Inside(p)' /\ Own(p) /\ UNCHANGED <<locks, op, old, committed>>
  BY Zenon DEF RemoveTail, RemoveTailFails, Goto, Failed, Inside, Own, IInv, TypeOK
<1>2. /\ op[p] = "Transform" /\ Inside(p) /\ Guarded(p) /\ fails[p] \in Nat
      /\ fails[p] > 0 /\ (~damaged => old[p] = committed)
      /\ file \in Seq(Bytes) /\ old[p] \in Seq(Bytes) /\ HasPrefix(file, old[p])
  BY <1>1, InTransform, Zenon DEF Local
<1>3. CASE RemoveTail(p)
  <2>1. pc'[p] = "close" /\ fails'[p] > 0 /\ damaged' = damaged
    BY <1>2, <1>3, Zenon DEF RemoveTail, Goto, IInv, TypeOK
  <2>2. file' = old[p]
    BY <1>2, <1>3, TruncateToPrefix, Zenon DEF RemoveTail
  <2>3. TypeOK'
    BY <1>2, <1>3, <2>2, Zenon DEF RemoveTail, Goto, IInv, TypeOK, PCs
  <2>4. Local(p)'
    BY <1>1, <1>2, <2>1 DEF Local, OpOf, Ops
  <2>5. ~damaged' => Fresh(p)'
    BY <1>1, <1>2, <2>1, <2>2, Zenon DEF Fresh, Mode, Unwritten
  <2> QED BY <1>1, <1>2, <2>3, <2>4, <2>5, StepInside, Zenon
<1>4. CASE RemoveTailFails(p)
  <2>1. pc'[p] = "close" /\ fails'[p] > 0 /\ damaged'
    BY <1>2, <1>4 DEF RemoveTailFails, Goto, Failed, IInv, TypeOK
  <2>2. TypeOK'
    BY <1>4 DEF RemoveTailFails, Goto, Failed, IInv, TypeOK, PCs
  <2>3. Local(p)'
    BY <1>1, <1>2, <2>1 DEF Local, OpOf, Ops
  <2> QED BY <1>1, <1>2, <2>1, <2>2, <2>3, StepInside, Zenon
<1> QED BY <1>3, <1>4

\* A write of the first k bytes of c over the beginning of a file that is not
\* shorter keeps the size.
LEMMA WriteOver ==
  ASSUME NEW s \in Seq(Bytes), NEW c \in Seq(Bytes),
         NEW k \in 0..Len(c), k <= Len(s)
  PROVE  /\ Pwrite(s, c, 0, k) \in Seq(Bytes)
         /\ Len(Pwrite(s, c, 0, k)) = Len(s)
         /\ \A i \in 1..Len(s) :
              Pwrite(s, c, 0, k)[i] = IF i <= k THEN c[i] ELSE s[i]
<1>1. 0 \in 0..Len(s)
  OBVIOUS
<1>2. Written(Pwrite(s, c, 0, k), s, c, 0, k)
  BY ONLY <1>1, PwriteBytes, s \in Seq(Bytes), c \in Seq(Bytes), k \in 0..Len(c)
<1>3. Len(s) \in Nat /\ k \in Nat /\ \A i \in 1..Len(s) : 0 < i /\ i - 0 = i
  OBVIOUS
<1> QED BY <1>2, <1>3 DEF Written

\* The new bytes go over the old ones; with that a content that is not
\* shorter is complete.
LEMMA OverwriteStep ==
  ASSUME IInv, NEW p \in Procs,
         Overwrite(p) \/ \E k \in 0..Len(new[p]) : OverwriteFails(p, k)
  PROVE  IInv'
<1>1. pc[p] = "overwrite" /\ Inside(p)' /\ Own(p) /\ UNCHANGED <<locks, op, old, new, committed, damaged>>
  BY Zenon DEF Overwrite, OverwriteFails, Goto, Failed, Inside, Own, IInv, TypeOK
<1>2. /\ op[p] = "Transform" /\ Inside(p) /\ Guarded(p) /\ fails[p] = 0
      /\ (~damaged => old[p] = committed)
      /\ file \in Seq(Bytes) /\ new[p] \in Seq(Bytes)
      /\ Len(file) \in Nat /\ Len(old[p]) \in Nat /\ Len(new[p]) \in Nat
      /\ Len(file) >= Len(old[p])
      /\ Len(new[p]) >= Len(old[p]) => Len(file) = Len(new[p])
      /\ Len(new[p]) < Len(old[p]) => Len(file) = Len(old[p])
      /\ \A i \in 1..Len(new[p]) : i > Len(old[p]) => file[i] = new[p][i]
  <2>1. /\ op[p] = "Transform" /\ Inside(p) /\ Guarded(p) /\ Local(p)
        /\ (~damaged => old[p] = committed)
        /\ file \in Seq(Bytes) /\ new[p] \in Seq(Bytes)
        /\ Len(file) \in Nat /\ Len(old[p]) \in Nat /\ Len(new[p]) \in Nat
    BY <1>1, InTransform, Zenon
  <2>2. fails[p] = 0
    BY <1>1, <2>1, Zenon DEF Local
  <2>3. IF Len(new[p]) > Len(old[p])
        THEN /\ Len(file) = Len(new[p])
             /\ \A i \in 1..Len(new[p]) : i > Len(old[p]) => file[i] = new[p][i]
        ELSE file = old[p]
    BY <1>1, <2>1, Zenon DEF Local
  <2>4. CASE Len(new[p]) > Len(old[p])
    BY ONLY <2>1, <2>2, <2>3, <2>4
  <2>5. CASE ~(Len(new[p]) > Len(old[p]))
    <3>1. Len(file) = Len(old[p]) /\ \A i \in 1..Len(new[p]) : ~(i > Len(old[p]))
      BY ONLY <2>1, <2>3, <2>5
    <3> QED BY ONLY <2>1, <2>2, <2>5, <3>1
  <2> QED BY ONLY <2>4, <2>5, Zenon
<1>3. /\ OverwriteLen(p) \in 0..Len(new[p]) /\ OverwriteLen(p) <= Len(file)
      /\ Len(new[p]) >= Len(old[p]) => OverwriteLen(p) = Len(old[p])
      /\ Len(new[p]) < Len(old[p]) => OverwriteLen(p) = Len(new[p])
  BY <1>2 DEF OverwriteLen
<1>4. CASE Overwrite(p)
  <2> DEFINE k == OverwriteLen(p)
  <2>1. /\ file' = Pwrite(file, new[p], 0, k) /\ fails'[p] = 0
        /\ pc'[p] = IF Len(new[p]) >= Len(old[p]) THEN "close" ELSE "shrink"
    BY <1>2, <1>4, Zenon DEF Overwrite, Goto, IInv, TypeOK
  <2> HIDE DEF k
  <2>2. k \in 0..Len(new[p]) /\ k <= Len(file)
    BY <1>3 DEF k
  <2>3. /\ file' \in Seq(Bytes) /\ Len(file') = Len(file)
        /\ \A i \in 1..Len(file) : file'[i] = IF i <= k THEN new[p][i] ELSE file[i]
    <3>1. file \in Seq(Bytes) /\ new[p] \in Seq(Bytes)
      BY <1>2, Zenon
    <3>2. /\ Pwrite(file, new[p], 0, k) \in Seq(Bytes)
          /\ Len(Pwrite(file, new[p], 0, k)) = Len(file)
          /\ \A i \in 1..Len(file) : Pwrite(file, new[p], 0, k)[i] =
                                       IF i <= k THEN new[p][i] ELSE file[i]
      BY ONLY <2>2, <3>1, WriteOver
    <3> QED BY ONLY <2>1, <3>2, Zenon
  <2>4. TypeOK'
    BY <1>4, <2>3, Zenon DEF Overwrite, Goto, IInv, TypeOK, PCs
  <2>5. CASE Len(new[p]) >= Len(old[p])
    <3>1. \A i \in 1..Len(new[p]) : file'[i] = new[p][i]
      <4>1. /\ Len(file) = Len(new[p]) /\ k \in Nat
            /\ \A i \in 1..Len(new[p]) : i > k => file[i] = new[p][i]
        BY <1>2, <1>3, <2>5, Zenon DEF k
      <4> QED BY ONLY <2>3, <4>1, SMTT(40)
    <3>2. file' = new[p]
      BY <1>2, <2>3, <2>5, <3>1, SameBytes
    <3>3. Local(p)'
      BY <1>1, <1>2, <2>1, <2>5, <3>2, Zenon DEF Local, OpOf, Ops
    <3>4. ~damaged' => Fresh(p)'
      BY <1>1, <1>2, <2>1, <2>5, SMTT(40) DEF Fresh, Mode, Unwritten
    <3> QED BY <1>1, <1>2, <2>4, <3>3, <3>4, StepInside, Zenon
  <2>6. CASE Len(new[p]) < Len(old[p])
    <3>1. Len(file') = Len(old[p]) /\ HasPrefix(file', new[p])
      BY <1>2, <1>3, <2>3, <2>6, SMTT(40) DEF k, HasPrefix
    <3>2. pc'[p] = "shrink"
      BY <1>2, <2>1, <2>6
    <3>3. Local(p)'
      BY <1>1, <1>2, <2>1, <2>6, <3>1, <3>2, Zenon DEF Local, OpOf, HasPrefix
    <3>4. ~damaged' => Fresh(p)'
      BY <1>1, <1>2, <3>2, Zenon DEF Fresh, Mode, Unwritten
    <3> QED BY <1>1, <1>2, <2>4, <3>3, <3>4, StepInside, Zenon
  <2> QED BY <1>2, <2>5, <2>6
<1>5. ASSUME NEW k \in 0..Len(new[p]), OverwriteFails(p, k) PROVE IInv'
  <2>1. /\ file' = Pwrite(file, new[p], 0, k) /\ fails'[p] = 1
        /\ pc'[p] = "rollback" /\ k < OverwriteLen(p)
    BY <1>2, <1>5, SMTT(40) DEF OverwriteFails, Goto, Failed, IInv, TypeOK
  <2>2. k <= Len(file)
    BY <1>2, <1>3, <2>1, SMTT(40)
  <2>3. file' \in Seq(Bytes) /\ Len(file') = Len(file)
    BY <1>2, <2>1, <2>2, WriteOver
  <2>4. TypeOK'
    BY <1>5, <2>3 DEF OverwriteFails, Goto, Failed, IInv, TypeOK, PCs
  <2>5. Local(p)'
    BY <1>1, <1>2, <2>1, <2>3 DEF Local, OpOf
  <2>6. ~damaged' => Fresh(p)'
    BY <1>1, <1>2, <2>1, Zenon DEF Fresh, Mode, Unwritten
  <2> QED BY <1>1, <1>2, <2>4, <2>5, <2>6, StepInside, Zenon
<1> QED BY <1>4, <1>5
\* Truncate(len(new)) completes a shorter content.
LEMMA ShrinkStep ==
  ASSUME IInv, NEW p \in Procs, Shrink(p) \/ ShrinkFails(p)
  PROVE  IInv'
<1>1. pc[p] = "shrink" /\ Inside(p)' /\ Own(p) /\ UNCHANGED <<locks, op, old, new, committed, damaged>>
  BY Zenon DEF Shrink, ShrinkFails, Goto, Failed, Inside, Own, IInv, TypeOK
<1>2. /\ op[p] = "Transform" /\ Inside(p) /\ Guarded(p) /\ fails[p] = 0
      /\ (~damaged => old[p] = committed)
      /\ file \in Seq(Bytes) /\ new[p] \in Seq(Bytes)
      /\ HasPrefix(file, new[p]) /\ Len(file) = Len(old[p]) /\ Len(file) \in Nat
  BY <1>1, InTransform, Zenon DEF Local
<1>3. CASE Shrink(p)
  <2>1. pc'[p] = "close" /\ fails'[p] = 0
    BY <1>2, <1>3, Zenon DEF Shrink, Goto, IInv, TypeOK
  <2>2. file' = new[p]
    BY <1>2, <1>3, TruncateToPrefix, Zenon DEF Shrink
  <2>3. TypeOK'
    BY <1>2, <1>3, <2>2, Zenon DEF Shrink, Goto, IInv, TypeOK, PCs
  <2>4. Local(p)'
    BY <1>1, <1>2, <2>1, <2>2 DEF Local, OpOf, Ops
  <2>5. ~damaged' => Fresh(p)'
    BY <1>1, <1>2, <2>1 DEF Fresh, Mode, Unwritten
  <2> QED BY <1>1, <1>2, <2>3, <2>4, <2>5, StepInside, Zenon
<1>4. CASE ShrinkFails(p)
  <2>1. pc'[p] = "rollback" /\ fails'[p] = 1 /\ file' = file
    BY <1>2, <1>4 DEF ShrinkFails, Goto, Failed, IInv, TypeOK
  <2>2. TypeOK'
    BY <1>4 DEF ShrinkFails, Goto, Failed, IInv, TypeOK, PCs
  <2>3. Local(p)'
    BY <1>1, <1>2, <2>1 DEF Local, OpOf
  <2>4. ~damaged' => Fresh(p)'
    BY <1>1, <1>2, <2>1, Zenon DEF Fresh, Mode, Unwritten
  <2> QED BY <1>1, <1>2, <2>2, <2>3, <2>4, StepInside, Zenon
<1> QED BY <1>3, <1>4

\* The deferred rollback: the old contents over the beginning of the file ...
LEMMA RollbackStep ==
  ASSUME IInv, NEW p \in Procs,
         Rollback(p) \/ \E k \in 0..Len(old[p]) : RollbackFails(p, k)
  PROVE  IInv'
<1>1. pc[p] = "rollback" /\ Inside(p)' /\ Own(p) /\ UNCHANGED <<locks, op, old, new, committed>>
  BY Zenon DEF Rollback, RollbackFails, Goto, Failed, Inside, Own, IInv, TypeOK
<1>2. /\ op[p] = "Transform" /\ Inside(p) /\ Guarded(p) /\ fails[p] \in Nat
      /\ fails[p] > 0 /\ (~damaged => old[p] = committed)
      /\ file \in Seq(Bytes) /\ old[p] \in Seq(Bytes)
      /\ Len(file) \in Nat /\ Len(old[p]) \in Nat /\ Len(file) >= Len(old[p])
  BY <1>1, InTransform, Zenon DEF Local
<1>3. ASSUME NEW k \in 0..Len(old[p])
      PROVE  /\ Pwrite(file, old[p], 0, k) \in Seq(Bytes)
             /\ Len(Pwrite(file, old[p], 0, k)) = Len(file)
             /\ \A i \in 1..Len(file) : Pwrite(file, old[p], 0, k)[i] =
                                          IF i <= k THEN old[p][i] ELSE file[i]
  <2>1. file \in Seq(Bytes) /\ old[p] \in Seq(Bytes) /\ k <= Len(file)
    BY <1>2
  <2> QED BY ONLY <2>1, k \in 0..Len(old[p]), WriteOver
<1>4. CASE Rollback(p)
  <2>1. /\ file' = Pwrite(file, old[p], 0, Len(old[p])) /\ fails'[p] = fails[p]
        /\ pc'[p] = "retruncate" /\ damaged' = damaged
    BY <1>2, <1>4, Zenon DEF Rollback, Goto, IInv, TypeOK
  <2>2. Len(old[p]) \in 0..Len(old[p])
    BY <1>2
  <2>3. file' \in Seq(Bytes) /\ HasPrefix(file', old[p])
    <3>1. /\ file' \in Seq(Bytes) /\ Len(file') = Len(file)
          /\ \A i \in 1..Len(file) : file'[i] = IF i <= Len(old[p]) THEN old[p][i] ELSE file[i]
      BY ONLY <1>3, <2>1, <2>2, Zenon
    <3>2. Len(file) \in Nat /\ Len(old[p]) \in Nat /\ Len(old[p]) <= Len(file)
      BY ONLY <1>2
    <3>3. \A i \in 1..Len(old[p]) : file'[i] = old[p][i]
      BY ONLY <3>1, <3>2
    <3> QED BY ONLY <3>1, <3>2, <3>3 DEF HasPrefix
  <2>4. TypeOK'
    BY <1>4, <2>3, Zenon DEF Rollback, Goto, IInv, TypeOK, PCs
  <2>5. Local(p)'
    BY <1>1, <1>2, <2>1, <2>3, Zenon DEF Local, OpOf, HasPrefix
  <2>6. ~damaged' => Fresh(p)'
    BY <1>1, <1>2, <2>1, Zenon DEF Fresh, Mode, Unwritten
  <2> QED BY <1>1, <1>2, <2>4, <2>5, <2>6, StepInside
<1>5. ASSUME NEW k \in 0..Len(old[p]), RollbackFails(p, k) PROVE IInv'
  <2>1. /\ file' = Pwrite(file, old[p], 0, k) /\ fails'[p] > 0
        /\ pc'[p] = "close" /\ damaged'
    BY <1>2, <1>5 DEF RollbackFails, Goto, Failed, IInv, TypeOK
  <2>2. file' \in Seq(Bytes)
    BY <1>3, <2>1, Zenon
  <2>3. TypeOK'
    BY <1>5, <2>2 DEF RollbackFails, Goto, Failed, IInv, TypeOK, PCs
  <2>4. Local(p)'
    BY <1>1, <1>2, <2>1 DEF Local, OpOf, Ops
  <2> QED BY <1>1, <1>2, <2>1, <2>3, <2>4, StepInside, Zenon
<1> QED BY <1>4, <1>5

\* ... and the truncation to their size.
LEMMA RetruncateStep ==
  ASSUME IInv, NEW p \in Procs, Retruncate(p) \/ RetruncateFails(p)
  PROVE  IInv'
<1>1. pc[p] = "retruncate" /\ Inside(p)' /\ Own(p) /\ UNCHANGED <<locks, op, old, committed>>
  BY Zenon DEF Retruncate, RetruncateFails, Goto, Failed, Inside, Own, IInv, TypeOK
<1>2. /\ op[p] = "Transform" /\ Inside(p) /\ Guarded(p) /\ fails[p] \in Nat
      /\ fails[p] > 0 /\ (~damaged => old[p] = committed)
      /\ file \in Seq(Bytes) /\ old[p] \in Seq(Bytes) /\ HasPrefix(file, old[p])
  BY <1>1, InTransform, Zenon DEF Local
<1>3. CASE Retruncate(p)
  <2>1. pc'[p] = "close" /\ fails'[p] > 0 /\ damaged' = damaged
    BY <1>2, <1>3, Zenon DEF Retruncate, Goto, IInv, TypeOK
  <2>2. file' = old[p]
    BY <1>2, <1>3, TruncateToPrefix, Zenon DEF Retruncate
  <2>3. TypeOK'
    BY <1>2, <1>3, <2>2, Zenon DEF Retruncate, Goto, IInv, TypeOK, PCs
  <2>4. Local(p)'
    BY <1>1, <1>2, <2>1 DEF Local, OpOf, Ops
  <2>5. ~damaged' => Fresh(p)'
    BY <1>1, <1>2, <2>1, <2>2, Zenon DEF Fresh, Mode, Unwritten
  <2> QED BY <1>1, <1>2, <2>3, <2>4, <2>5, StepInside
<1>4. CASE RetruncateFails(p)
  <2>1. pc'[p] = "close" /\ fails'[p] > 0 /\ damaged'
    BY <1>2, <1>4 DEF RetruncateFails, Goto, Failed, IInv, TypeOK
  <2>2. TypeOK'
    BY <1>4 DEF RetruncateFails, Goto, Failed, IInv, TypeOK, PCs
  <2>3. Local(p)'
    BY <1>1, <1>2, <2>1 DEF Local, OpOf, Ops
  <2> QED BY <1>1, <1>2, <2>1, <2>2, <2>3, StepInside, Zenon
<1> QED BY <1>3, <1>4
-----------------------------------------------------------------------------
(* The theorems. *)

\* A quiet package and an intact file.
LEMMA InitIInv == Init => IInv
<1> SUFFICES ASSUME Init PROVE IInv
  OBVIOUS
<1>1. <<>> \in Seq(Bytes) /\ file \in Seq(Bytes)
  BY ContentsAssumption DEF Init
<1>2. TypeOK
  BY <1>1, Zenon DEF Init, TypeOK, PCs, Ops
<1>3. \A p \in Procs : ~Inside(p)
  BY DEF Init, Inside
<1> QED BY <1>2, <1>3 DEF Init, IInv, Locking, Blank, Atomicity

\* The invariant is a state predicate over the variables of the module.
LEMMA StutterIInv == IInv /\ UNCHANGED vars => IInv'
<1> SUFFICES ASSUME IInv, UNCHANGED vars PROVE IInv'
  OBVIOUS
<1>1. TypeOK'
  BY Zenon DEF vars, IInv, TypeOK
<1>2. Locking' /\ Blank'
  BY Zenon DEF vars, IInv, Locking, Blank, Inside
<1>3. Atomicity' /\ damaged' = damaged
  BY DEF vars, IInv, Atomicity
<1>4. ASSUME NEW p \in Procs
      PROVE  /\ Inside(p)' <=> Inside(p)
             /\ Local(p) => Local(p)'
             /\ Fresh(p) => Fresh(p)'
  <2>1. Inside(p)' <=> Inside(p)
    BY DEF vars, Inside
  <2>2. Local(p) => Local(p)'
    BY DEF vars, Local, HasPrefix
  <2>3. Fresh(p) => Fresh(p)'
    BY Zenon DEF vars, Fresh
  <2> QED BY <2>1, <2>2, <2>3
<1> QED BY <1>1, <1>2, <1>3, <1>4 DEF IInv

\* Every call of every process keeps the invariant.
LEMMA NextIInv == IInv /\ [Next]_vars => IInv'
<1> SUFFICES ASSUME IInv, [Next]_vars PROVE IInv'
  OBVIOUS
<1>1. CASE UNCHANGED vars
  BY <1>1, StutterIInv
<1>2. ASSUME NEW p \in Procs, NEW o \in Ops, NEW v \in Contents, Begin(p, o, v)
      PROVE  IInv'
  BY <1>2, BeginStep
<1>3. ASSUME NEW p \in Procs, OpenStep(p) PROVE IInv'
  BY <1>3, FlockStep, GiveUpStep, TruncateStep, CloseStep DEF OpenStep
<1>4. ASSUME NEW p \in Procs, TransformStep(p) PROVE IInv'
  BY <1>4, CallStep, TailStep, RemoveTailStep, OverwriteStep, ShrinkStep,
     RollbackStep, RetruncateStep, Zenon DEF TransformStep
<1>5. ASSUME NEW p \in Procs, ReadStep(p) \/ WriteStep(p) \/ HandleStep(p) \/ Kill(p)
      PROVE  IInv'
  BY <1>5, ReadStepInv, WriteStepInv, HandleStepInv, KillStep
<1> QED BY <1>1, <1>2, <1>3, <1>4, <1>5 DEF Next

\* The inductive invariant holds in every reachable state.
LEMMA Invariance == Spec => []IInv
BY InitIInv, NextIInv, PTL DEF Spec

\* Type correctness.
THEOREM TypeCorrect == Spec => []TypeOK
<1>1. IInv => TypeOK
  BY DEF IInv
<1> QED BY <1>1, Invariance, PTL

\* However many processes use the path, a process that may write is alone
\* between openFile's lock and Close.
THEOREM WritersAreAlone == Spec => []WritersAlone
<1>1. IInv => WritersAlone
  BY DEF IInv, Locking, WritersAlone, Mode
<1> QED BY <1>1, Invariance, PTL

\* Transform and Write are atomic, one failing I/O call included, whatever the
\* number of processes and the contents.
THEOREM TransformIsAtomic == Spec => []Atomicity
<1>1. IInv => Atomicity
  BY DEF IInv
<1> QED BY <1>1, Invariance, PTL

\* Read returns, and Transform works on, the latest reported contents.
THEOREM ReadsAreLatest == Spec => []ReadsLatest
<1>1. IInv => ReadsLatest
  BY Zenon DEF IInv, ReadsLatest, Inside, Fresh
<1> QED BY <1>1, Invariance, PTL

\* A step of the package is a step of the abstract readers-writer lock, or
\* leaves it alone.
LEMMA LockSimulation ==
  IInv /\ [Next]_vars => [Lock!RWNext]_(Lock!rwVars)
<1> DEFINE R == {p \in Procs : locks[p] = "sh"}
           W == {p \in Procs : locks[p] = "ex"}
<1> SUFFICES ASSUME IInv, [Next]_vars PROVE [Lock!RWNext]_(Lock!rwVars)
  OBVIOUS
<1>1. CASE locks' = locks
  BY <1>1 DEF Lock!rwVars
<1>2. ASSUME NEW p \in Procs, Flock(p) PROVE Lock!RWNext
  <2>1. locks' = [locks EXCEPT ![p] = Mode(op[p])] /\ Grantable(p, Mode(op[p]))
    BY <1>2, Zenon DEF Flock
  <2>2. locks[p] = "none" /\ locks \in [Procs -> {"none", "sh", "ex"}]
    BY <1>2, Zenon DEF Flock, IInv, Locking, Inside, TypeOK
  <2>3. CASE Mode(op[p]) = "sh"
    <3>1. W = {} /\ p \notin R /\ R' = R \cup {p} /\ W' = W
      BY <2>1, <2>2, <2>3 DEF Grantable
    <3>2. Lock!AcquireRead(p)
      BY <3>1, Zenon DEF Lock!AcquireRead
    <3> QED BY <3>2 DEF Lock!RWNext
  <2>4. CASE Mode(op[p]) = "ex"
    <3>1. W = {} /\ R = {} /\ R' = R /\ W' = {p}
      BY <2>1, <2>2, <2>4 DEF Grantable
    <3>2. Lock!AcquireWrite(p)
      BY <3>1 DEF Lock!AcquireWrite
    <3> QED BY <3>2 DEF Lock!RWNext
  <2> QED BY <2>3, <2>4 DEF Mode
<1>3. ASSUME NEW p \in Procs, Return(p) PROVE Lock!RWNext
  <2>1. R' = R \ {p} /\ W' = W \ {p}
    BY <1>3, Zenon DEF Return, IInv, TypeOK
  <2>2. Lock!Release({p})
    BY <2>1 DEF Lock!Release
  <2> QED BY <2>2 DEF Lock!RWNext
<1>4. locks' = locks \/ \E p \in Procs : Flock(p) \/ Return(p)
  <2>1. CASE UNCHANGED vars
    BY <2>1 DEF vars
  <2>2. ASSUME NEW p \in Procs, TransformStep(p) PROVE locks' = locks \/ Return(p)
    BY <2>2, Zenon DEF TransformStep, CallT, CallTFails, WriteTail, WriteTailFails, RemoveTail,
       RemoveTailFails, Overwrite, OverwriteFails, Shrink, ShrinkFails, Rollback,
       RollbackFails, Retruncate, RetruncateFails
  <2>3. ASSUME NEW p \in Procs, OpenStep(p) PROVE locks' = locks \/ Flock(p) \/ Return(p)
    BY <2>3, Zenon DEF OpenStep, FlockFails, Truncate, TruncateFails, Close
  <2>4. ASSUME NEW p \in Procs, ReadStep(p) \/ WriteStep(p) \/ HandleStep(p) \/ Kill(p)
        PROVE  locks' = locks \/ Return(p)
    BY <2>4, Zenon DEF ReadStep, ReadByte, ReadEOF, ReadFails, WriteStep, CopyByte, CopyDone,
       CopyFails, HandleStep, HandleDone, HandleWrite, Kill
  <2>5. ASSUME NEW p \in Procs, NEW o \in Ops, NEW v \in Contents, Begin(p, o, v)
        PROVE  locks' = locks
    BY <2>5 DEF Begin
  <2> QED BY <2>1, <2>2, <2>3, <2>4, <2>5 DEF Next
<1> QED BY <1>1, <1>2, <1>3, <1>4

\* lockedfile implements the readers-writer lock its comments promise.
THEOREM LockedFileImplementsRWLock == Spec => ImplementsRWLock
<1>1. Init => Lock!RWInit
  BY DEF Init, Lock!RWInit
<1> QED BY <1>1, LockSimulation, Invariance, PTL
        DEF Spec, ImplementsRWLock, Lock!RWSpec
=============================================================================
