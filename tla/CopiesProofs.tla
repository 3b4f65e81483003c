---------------------------- MODULE CopiesProofs ----------------------------
(***************************************************************************)
(* Proofs about CopyRotate: whatever fails, and for every size, number and *)
(* age of the backups, a line that the application wrote is in the log or  *)
(* in a backup, unless it came between the copy and the truncation or its  *)
(* backup was removed; and as long as nothing fails the backups and the log *)
(* follow each other in time, and there are no more of them than           *)
(* RotateLogCheck was told to keep.                                        *)
(***************************************************************************)
EXTENDS CopyRotate, FiniteSetTheorems, WellFoundedInduction, TLAPS

-----------------------------------------------------------------------------
(* The inductive invariant. *)

Gz(f) == <<f[1], "gz">>

\* The name g has the stamps of f, and more.
Below(g, f) == Len(f[1]) < Len(g[1]) /\ \A i \in 1..Len(f[1]) : g[1][i] = f[1][i]

Holds(f, m) == f \in DOMAIN disk /\ \E i \in DOMAIN disk[f] : disk[f][i] = m

CNames == Seq(Nat) \X {"log", "gz"}
PCs == {"idle", "stopped", "stat", "copy", "truncate", "list", "work", "zip", "unlink"}

Typed ==
    /\ lines \in Nat /\ clock \in Nat
    /\ DOMAIN disk \subseteq CNames /\ disk \in [DOMAIN disk -> Seq(Nat)]
    /\ chk \in [pc : PCs, files : SUBSET CNames, file : CNames, backup : CNames,
                remove : SUBSET CNames, compress : SUBSET CNames]

\* Only the log has a name without a stamp.
Named == \A f \in DOMAIN disk : f[2] = "gz" => f[1] # <<>>

\* The backup is the beginning of the file; once it is complete the rest of the
\* file is late.
Copied ==
    chk.pc \in {"copy", "truncate"} =>
        /\ chk.file \in DOMAIN disk /\ chk.backup \in DOMAIN disk
        /\ Below(chk.backup, chk.file) /\ chk.backup[2] = "log"
        /\ Len(disk[chk.backup]) <= Len(disk[chk.file])
        /\ \A i \in 1..Len(disk[chk.backup]) : disk[chk.backup][i] = disk[chk.file][i]
        /\ chk.pc = "truncate" =>
              \A i \in 1..Len(disk[chk.file]) : i <= Len(disk[chk.backup]) \/ disk[chk.file][i] \in late

\* What is to be removed or compressed is there, and the source of a finished
\* compression is removed after it.
Chosen ==
    /\ chk.remove \subseteq DOMAIN disk /\ chk.compress \subseteq DOMAIN disk
    /\ chk.remove \cap chk.compress = {}
    /\ \A f \in chk.compress : f[2] = "log" /\ f[1] # <<>>
    /\ chk.pc \in {"zip", "unlink"} =>
          /\ chk.remove = {} /\ chk.backup \notin chk.compress
          /\ chk.backup \in DOMAIN disk /\ Gz(chk.backup) \in DOMAIN disk
          /\ chk.backup[2] = "log" /\ chk.backup[1] # <<>>
    /\ chk.pc = "unlink" => disk[Gz(chk.backup)] = disk[chk.backup]

\* What a compressed file holds beside its source is in the source, or in the
\* backups that were made of the source.
Doubled ==
    \A f \in DOMAIN disk : f[2] = "log" /\ Gz(f) \in DOMAIN disk =>
        \A m \in Nat \ {0} : Holds(Gz(f), m) =>
            m \in late \cup dropped \/ \E g \in DOMAIN disk : (g = f \/ Below(g, f)) /\ Holds(g, m)

Kept == \A m \in 1..lines : m \in late \cup dropped \/ \E f \in DOMAIN disk : Holds(f, m)

CInv == Typed /\ Named /\ Copied /\ Chosen /\ Doubled /\ Kept

\* Where the lines of file g go in a step: they stay, or go to a backup of g, or
\* to its sibling if g is removed or is itself a compressed file.
Goes(g, h) == h = g \/ Below(h, g) \/ (h[1] = g[1] /\ (g \notin DOMAIN disk' \/ g[2] = "gz"))

-----------------------------------------------------------------------------
(* Lemmas about names and files. *)

\* A backup of a backup of a file is a backup of the file.
LEMMA BelowBelow ==
    ASSUME NEW f \in CNames, NEW g \in CNames, NEW h \in CNames, Below(g, f), Below(h, g) \/ h[1] = g[1]
    PROVE  Below(h, f)
<1>1. f[1] \in Seq(Nat) /\ g[1] \in Seq(Nat) /\ h[1] \in Seq(Nat)
    BY DEF CNames
<1>2. Len(f[1]) \in Nat /\ Len(g[1]) \in Nat /\ Len(h[1]) \in Nat
    BY <1>1
<1>. QED BY <1>2 DEF Below

\* The lines of TheLog, of a backup and of its compressed copy are three files.
LEMMA NamesDiffer ==
    ASSUME NEW f \in CNames
    PROVE  /\ Gz(f) \in CNames /\ Gz(f)[1] = f[1] /\ Gz(f)[2] = "gz"
           /\ TheLog \in CNames /\ TheLog[1] = <<>> /\ TheLog[2] = "log"
           /\ f[1] = <<>> /\ f[2] = "log" => f = TheLog
           /\ f[1] \in Seq(Nat) /\ f[2] \in {"log", "gz"}
<1>1. f[1] \in Seq(Nat) /\ f[2] \in {"log", "gz"} /\ f = <<f[1], f[2]>>
    BY DEF CNames
<1>2. TheLog[1] = <<>> /\ TheLog[2] = "log" /\ Gz(f)[1] = f[1] /\ Gz(f)[2] = "gz"
    BY DEF Gz, TheLog
<1>3. <<>> \in Seq(Nat)
    OBVIOUS
<1>4. TheLog \in CNames
    BY <1>3, Zenon DEF TheLog, CNames
<1>5. Gz(f) \in CNames
    BY <1>1 DEF Gz, CNames
<1>6. f[1] = <<>> /\ f[2] = "log" => f = TheLog
    BY <1>1 DEF TheLog
<1>. QED BY <1>1, <1>2, <1>4, <1>5, <1>6

\* What writing a file changes.
LEMMA PutFacts ==
    ASSUME NEW f, NEW s, disk' = Put(f, s)
    PROVE  /\ DOMAIN disk' = DOMAIN disk \cup {f}
           /\ disk'[f] = s
           /\ \A g \in DOMAIN disk : g # f => disk'[g] = disk[g]
BY DEF Put

\* What removing a file changes.
LEMMA UnlinkFacts ==
    ASSUME NEW f, disk' = Unlink(f)
    PROVE  /\ DOMAIN disk' = DOMAIN disk \ {f}
           /\ \A g \in DOMAIN disk' : disk'[g] = disk[g]
BY DEF Unlink

\* Files keep their type when one of them is written.
LEMMA PutTyped ==
    ASSUME DOMAIN disk \subseteq CNames, disk \in [DOMAIN disk -> Seq(Nat)],
           NEW f \in CNames, NEW s \in Seq(Nat), disk' = Put(f, s)
    PROVE  DOMAIN disk' \subseteq CNames /\ disk' \in [DOMAIN disk' -> Seq(Nat)]
BY DEF Put

\* A step in which the lines go where Goes says, and in which a compressed file
\* gets nothing that its source does not hold, keeps the lines.
LEMMA Carried ==
    ASSUME Doubled, Kept, DOMAIN disk \subseteq CNames, DOMAIN disk' \subseteq CNames,
           lines \in Nat,
           late \subseteq late', dropped \subseteq dropped',
           \A m \in 1..lines' : m \in 1..lines \/ \E f \in DOMAIN disk' : Holds(f, m)',
           \A g \in DOMAIN disk, m \in Nat \ {0} : Holds(g, m) =>
               m \in late' \cup dropped' \/ \E h \in DOMAIN disk' : Goes(g, h) /\ Holds(h, m)',
           \A f \in DOMAIN disk', m \in Nat \ {0} :
               f[2] = "log" /\ Gz(f) \in DOMAIN disk' /\ Holds(Gz(f), m)' =>
               Holds(f, m)' \/ (f \in DOMAIN disk /\ Holds(Gz(f), m))
    PROVE  Doubled' /\ Kept'
<1>1. Kept'
  <2>1. SUFFICES ASSUME NEW m \in 1..lines', m \in 1..lines
                 PROVE  m \in late' \cup dropped' \/ \E f \in DOMAIN disk' : Holds(f, m)'
      BY Zenon DEF Kept
  <2>2. m \in Nat \ {0}
      BY <2>1
  <2>3. m \in late \cup dropped \/ \E f \in DOMAIN disk : Holds(f, m)
      BY <2>1, Zenon DEF Kept
  <2>. QED BY <2>2, <2>3
<1>2. Doubled'
  <2>1. SUFFICES ASSUME NEW f \in DOMAIN disk', f[2] = "log", Gz(f) \in DOMAIN disk',
                        NEW m \in Nat \ {0}, Holds(Gz(f), m)', ~Holds(f, m)', m \notin late' \cup dropped'
                 PROVE  \E g \in DOMAIN disk' : Below(g, f) /\ Holds(g, m)'
      BY Zenon DEF Doubled
  <2>2. f \in DOMAIN disk /\ Holds(Gz(f), m)
      BY <2>1, Zenon
  <2>3. Gz(f) \in DOMAIN disk
      BY <2>2, Zenon DEF Holds
  <2>4. PICK g \in DOMAIN disk : (g = f \/ Below(g, f)) /\ Holds(g, m)
      BY <2>1, <2>2, <2>3, Zenon DEF Doubled
  <2>5. PICK h \in DOMAIN disk' : Goes(g, h) /\ Holds(h, m)'
      BY <2>1, <2>4, Zenon
  <2>6. CASE g = f
    <3>1. h # f
        BY <2>1, <2>5, Zenon
    <3>2. Below(h, f)
        BY <2>1, <2>5, <2>6, <3>1, Zenon DEF Goes
    <3>. QED BY <2>5, <3>2
  <2>7. CASE Below(g, f)
    <3>1. h = g \/ Below(h, g) \/ h[1] = g[1]
        BY <2>5, Zenon DEF Goes
    <3>2. Below(h, f)
        BY <2>7, <3>1, BelowBelow, Zenon
    <3>. QED BY <2>5, <3>2
  <2>. QED BY <2>4, <2>6, <2>7, Zenon
<1>. QED BY <1>1, <1>2

\* A step that leaves the files alone keeps them as they are.
LEMMA Unmoved ==
    ASSUME Named, Doubled, Kept, UNCHANGED <<lines, disk, late, dropped>>
    PROVE  Named' /\ Doubled' /\ Kept'
BY DEF Named, Doubled, Kept, Holds

-----------------------------------------------------------------------------
(* The steps that leave the files alone. *)

\* After the end of a check, or of a file, nothing is in hand.
LEMMA RestingHolds ==
    ASSUME CInv, UNCHANGED <<lines, disk, clock, late, dropped>>,
           NEW p \in {"idle", "stat"}, NEW S \in SUBSET CNames,
           chk' = [pc |-> p, files |-> S, file |-> TheLog, backup |-> TheLog, remove |-> {}, compress |-> {}]
    PROVE  CInv'
<1>1. TheLog \in CNames
  <2>1. <<>> \in Seq(Nat)
      OBVIOUS
  <2>. QED BY <2>1, Zenon DEF TheLog, CNames
<1>2. chk'.pc \in {"idle", "stat"} /\ chk'.remove = {} /\ chk'.compress = {}
    BY Zenon
<1>3. Copied'
    BY <1>2, Zenon DEF Copied
<1>4. Chosen'
  <2>1. chk'.remove \subseteq DOMAIN disk' /\ chk'.compress \subseteq DOMAIN disk' /\ chk'.remove \cap chk'.compress = {}
      BY <1>2
  <2>2. chk'.pc \notin {"zip", "unlink"} /\ chk'.pc # "unlink" /\ \A f \in chk'.compress : FALSE
      BY <1>2
  <2>. QED BY <2>1, <2>2, Zenon DEF Chosen
<1>5. Typed'
    BY <1>1, Zenon DEF CInv, Typed, PCs
<1>. QED BY <1>3, <1>4, <1>5, Unmoved DEF CInv

\* Between two files.
LEMMA NextFileKeeps ==
    ASSUME CInv, NextFile, UNCHANGED <<lines, disk, clock, late, dropped>>
    PROVE  CInv'
<1>1. chk.files \ {First} \in SUBSET CNames
    BY DEF CInv, Typed
<1>2. PICK S \in SUBSET CNames : S = chk.files \ {First}
    BY <1>1, Zenon
<1>3. chk' = [pc |-> "stat", files |-> S, file |-> TheLog, backup |-> TheLog, remove |-> {}, compress |-> {}]
    BY <1>2, Zenon DEF NextFile, Resting
<1>. QED BY <1>3, RestingHolds

\* Looking for files.
LEMMA CheckKeeps ==
    ASSUME CInv, Check \/ CheckCrash \/ CheckStops \/ NothingToDo
    PROVE  CInv'
<1>1. CASE Check
  <2>1. TheLog \in CNames
    <3>1. <<>> \in Seq(Nat)
        OBVIOUS
    <3>. QED BY <3>1, Zenon DEF TheLog, CNames
  <2>2. PICK S \in SUBSET CNames : chk' = [Resting EXCEPT !.pc = "stat", !.files = S]
      BY <1>1, <2>1, Zenon DEF Check, GetOriginLogFiles, CInv, Typed
  <2>3. chk' = [pc |-> "stat", files |-> S, file |-> TheLog, backup |-> TheLog, remove |-> {}, compress |-> {}]
      BY <2>2, Zenon DEF Resting
  <2>. QED BY <1>1, <2>3, RestingHolds, Zenon DEF Check
<1>2. ASSUME chk' = Resting, UNCHANGED <<lines, disk, clock, late, dropped>>
      PROVE  CInv'
  <2>1. chk' = [pc |-> "idle", files |-> {}, file |-> TheLog, backup |-> TheLog, remove |-> {}, compress |-> {}]
      BY <1>2 DEF Resting
  <2>. QED BY <1>2, <2>1, RestingHolds
<1>3. CASE CheckCrash
    BY <1>2, <1>3 DEF CheckCrash
<1>4. CASE CheckStops
  <2>1. Copied' /\ Chosen' /\ Typed'
      BY <1>4, Zenon DEF CheckStops, CInv, Typed, Copied, Chosen, PCs
  <2>. QED BY <1>4, <2>1, Unmoved DEF CInv, CheckStops
<1>5. CASE NothingToDo
    BY <1>2, <1>5, NextFileKeeps DEF NothingToDo
<1>. QED BY <1>1, <1>3, <1>4, <1>5

\* The steps that only move the goroutine on.
LEMMA MovesOnKeeps ==
    ASSUME CInv, CopyEnds \/ BackupFails \/ ListOld \/ ListFails \/ ZipFails \/ CheckDone \/ CopyTick
    PROVE  CInv'
<1>1. CASE CopyEnds
  <2>1. /\ chk.pc = "copy" /\ Len(disk[chk.backup]) = Len(disk[chk.file])
        /\ UNCHANGED <<lines, disk, clock, late, dropped>>
        /\ chk' = [chk EXCEPT !.pc = "truncate"]
      BY <1>1 DEF CopyEnds
  <2>2. chk'.pc = "truncate" /\ UNCHANGED <<chk.file, chk.backup, chk.remove, chk.compress>>
      BY <2>1 DEF CInv, Typed
  <2>3. Len(disk[chk.file]) \in Nat
      BY <2>1 DEF CInv, Typed, Copied
  <2>4. Copied'
      BY <2>1, <2>2, <2>3 DEF CInv, Copied
  <2>5. Chosen'
      BY <2>1, <2>2 DEF CInv, Chosen
  <2>6. Typed'
      BY <2>1, Zenon DEF CInv, Typed, PCs
  <2>. QED BY <2>1, <2>4, <2>5, <2>6, Unmoved DEF CInv
<1>2. CASE BackupFails \/ ListFails \/ CheckDone
    BY <1>2, NextFileKeeps, Zenon DEF BackupFails, ListFails, CheckDone
<1>3. CASE ListOld
  <2>1. PICK R \in SUBSET DOMAIN disk, Z \in SUBSET getOldLogFiles(chk.file) :
            /\ chk' = [chk EXCEPT !.pc = "work", !.remove = R, !.compress = Z]
            /\ R \cap Z = {} /\ \A g \in Z : g[2] = "log"
    <3>. DEFINE old == getOldLogFiles(chk.file)
                many == {g \in old : maxBackups > 0 /\ Cardinality(Newer(chk.file, StampOf(g))) > maxBackups}
                aged == {g \in old \ many : maxAge > 0 /\ StampOf(g) < clock - maxAge}
                zips == {g \in old \ (many \cup aged) : g[2] = "log"}
    <3>1. chk' = [chk EXCEPT !.pc = "work", !.remove = many \cup aged, !.compress = zips]
        BY <1>3 DEF ListOld
    <3>2. many \cup aged \in SUBSET DOMAIN disk
        BY Zenon DEF getOldLogFiles
    <3>3. zips \in SUBSET old /\ (many \cup aged) \cap zips = {} /\ \A g \in zips : g[2] = "log"
        BY Zenon
    <3>. HIDE DEF old, many, aged, zips
    <3>4. zips \in SUBSET getOldLogFiles(chk.file)
        BY <3>3 DEF old
    <3>. QED BY <3>1, <3>2, <3>3, <3>4, Zenon
  <2>2. \A g \in Z : g \in DOMAIN disk /\ g[1] # <<>>
    <3>1. SUFFICES ASSUME NEW g \in Z
                   PROVE  g \in DOMAIN disk /\ g[1] # <<>>
        OBVIOUS
    <3>2. g \in DOMAIN disk /\ Len(g[1]) = Len(chk.file[1]) + 1
        BY <3>1 DEF getOldLogFiles
    <3>3. chk.file[1] \in Seq(Nat)
        BY DEF CInv, Typed, CNames
    <3>4. Len(chk.file[1]) \in Nat
        BY <3>3
    <3>. QED BY <3>2, <3>4
  <2>3. Copied' /\ Chosen' /\ Typed'
    <3>1. chk'.pc = "work" /\ chk'.remove = R /\ chk'.compress = Z
        BY <2>1 DEF CInv, Typed
    <3>2. Copied'
        BY <3>1 DEF Copied
    <3>3. Chosen'
        BY <1>3, <2>1, <2>2, <3>1, Zenon DEF Chosen, ListOld
    <3>4. Typed'
      <4>1. Z \in SUBSET CNames /\ R \in SUBSET CNames
          BY <2>1, <2>2 DEF CInv, Typed
      <4>2. UNCHANGED <<lines, disk, clock>>
          BY <1>3, Zenon DEF ListOld
      <4>. QED BY <2>1, <4>1, <4>2, Zenon DEF CInv, Typed, PCs
    <3>. QED BY <3>2, <3>3, <3>4
  <2>. QED BY <1>3, <2>3, Unmoved, Zenon DEF CInv, ListOld
<1>4. CASE ZipFails
  <2>1. Copied' /\ Chosen' /\ Typed'
      BY <1>4, Zenon DEF ZipFails, CInv, Typed, Copied, Chosen, PCs
  <2>. QED BY <1>4, <2>1, Unmoved DEF CInv, ZipFails
<1>5. CASE CopyTick
  <2>1. Copied' /\ Chosen' /\ Typed'
      BY <1>5 DEF CopyTick, CInv, Typed, Copied, Chosen, PCs
  <2>. QED BY <1>5, <2>1, Unmoved DEF CInv, CopyTick
<1>. QED BY <1>1, <1>2, <1>3, <1>4, <1>5

-----------------------------------------------------------------------------
(* The steps that write or remove a file. *)

\* The application appends.
LEMMA AppendKeeps ==
    ASSUME CInv, AppendLine
    PROVE  CInv'
<1>. DEFINE old == IF TheLog \in DOMAIN disk THEN disk[TheLog] ELSE <<>>
<1>1. /\ lines' = lines + 1 /\ disk' = Put(TheLog, Append(old, lines + 1))
      /\ late' = IF chk.pc = "truncate" /\ chk.file = TheLog THEN late \cup {lines + 1} ELSE late
      /\ UNCHANGED <<chk, clock, dropped>>
    BY DEF AppendLine
<1>2. old \in Seq(Nat) /\ lines + 1 \in Nat
    BY DEF CInv, Typed
<1>3. TheLog \in CNames /\ TheLog[1] = <<>> /\ TheLog[2] = "log"
  <2>1. <<>> \in Seq(Nat)
      OBVIOUS
  <2>. QED BY <2>1, Zenon DEF TheLog, CNames
<1>4. PICK s \in Seq(Nat) : /\ disk' = Put(TheLog, s) /\ Len(s) = Len(old) + 1 /\ s[Len(s)] = lines + 1
                            /\ \A i \in 1..Len(old) : s[i] = old[i]
  <2>1. Append(old, lines + 1) \in Seq(Nat)
      BY <1>2
  <2>2. Len(Append(old, lines + 1)) = Len(old) + 1
      BY <1>2
  <2>3. Append(old, lines + 1)[Len(old) + 1] = lines + 1 /\ \A i \in 1..Len(old) : Append(old, lines + 1)[i] = old[i]
      BY <1>2
  <2>. QED BY <1>1, <2>1, <2>2, <2>3, Zenon
<1>5. /\ DOMAIN disk' = DOMAIN disk \cup {TheLog} /\ disk'[TheLog] = s
      /\ \A g \in DOMAIN disk : g # TheLog => disk'[g] = disk[g]
    BY <1>4, PutFacts, Zenon
<1>6. Typed'
    BY <1>1, <1>2, <1>3, <1>4, PutTyped, Zenon DEF CInv, Typed
<1>7. Named'
    BY <1>3, <1>5 DEF CInv, Named
<1>8. late \subseteq late' /\ dropped \subseteq dropped'
    BY <1>1
<1>9. Len(old) \in Nat /\ DOMAIN s = 1..(Len(old) + 1) /\ DOMAIN old = 1..Len(old)
  <2>1. Len(old) \in Nat /\ DOMAIN old = 1..Len(old)
      BY <1>2
  <2>. HIDE DEF old
  <2>. QED BY <1>4, <2>1
<1>10. \A m \in 1..lines' : m \in 1..lines \/ \E f \in DOMAIN disk' : Holds(f, m)'
  <2>1. PICK n \in Nat : n = lines + 1
      BY <1>2
  <2>2. Len(s) \in DOMAIN s /\ s[Len(s)] = n
      BY <1>4, <1>9, <2>1
  <2>3. Holds(TheLog, n)'
      BY <1>5, <2>2 DEF Holds
  <2>4. \A m \in 1..lines' : m \in 1..lines \/ m = n
      BY <1>1, <2>1 DEF CInv, Typed
  <2>. QED BY <1>5, <2>3, <2>4
<1>11. ASSUME NEW g \in DOMAIN disk, NEW m \in Nat \ {0}, Holds(g, m)
       PROVE  \E h \in DOMAIN disk' : Goes(g, h) /\ Holds(h, m)'
  <2>1. CASE g = TheLog
    <3>1. PICK i \in DOMAIN disk[TheLog] : disk[TheLog][i] = m
        BY <1>11, <2>1 DEF Holds
    <3>2. old = disk[TheLog]
        BY <1>11, <2>1
    <3>3. i \in DOMAIN s /\ s[i] = m
        BY SMTT(20), <1>4, <1>9, <3>1, <3>2
    <3>. QED BY <1>5, <2>1, <3>3 DEF Holds, Goes
  <2>2. CASE g # TheLog
      BY <1>5, <1>11, <2>2 DEF Holds, Goes
  <2>. QED BY <2>1, <2>2
<1>12. ASSUME NEW f \in DOMAIN disk', NEW m \in Nat \ {0}, f[2] = "log", Gz(f) \in DOMAIN disk', Holds(Gz(f), m)'
       PROVE  f \in DOMAIN disk /\ Holds(Gz(f), m)
  <2>1. f \in CNames
      BY <1>6 DEF Typed
  <2>2. Gz(f) # TheLog /\ Gz(f)[1] = f[1] /\ Gz(f)[2] = "gz"
      BY <2>1, NamesDiffer
  <2>3. Gz(f) \in DOMAIN disk /\ disk'[Gz(f)] = disk[Gz(f)]
      BY <1>5, <1>12, <2>2
  <2>4. f # TheLog
      BY <1>3, <2>2, <2>3 DEF CInv, Named
  <2>. QED BY <1>5, <1>12, <2>3, <2>4 DEF Holds
<1>13. Doubled' /\ Kept'
    BY <1>6, <1>8, <1>10, <1>11, <1>12, Carried, Zenon DEF CInv, Typed
<1>14. Copied'
  <2>1. SUFFICES ASSUME chk.pc \in {"copy", "truncate"}
                 PROVE  Copied'
      BY <1>1, Zenon DEF Copied
  <2>2. /\ chk.file \in DOMAIN disk /\ chk.backup \in DOMAIN disk
        /\ Below(chk.backup, chk.file) /\ chk.backup[2] = "log"
        /\ Len(disk[chk.backup]) <= Len(disk[chk.file])
        /\ \A i \in 1..Len(disk[chk.backup]) : disk[chk.backup][i] = disk[chk.file][i]
        /\ chk.pc = "truncate" =>
              \A i \in 1..Len(disk[chk.file]) : i <= Len(disk[chk.backup]) \/ disk[chk.file][i] \in late
      BY <2>1, Zenon DEF CInv, Copied
  <2>3. chk.backup # TheLog
    <3>1. chk.file[1] \in Seq(Nat)
        BY DEF CInv, Typed, CNames
    <3>2. Len(chk.file[1]) \in Nat /\ Len(<<>>) = 0
        BY <3>1
    <3>. QED BY <1>3, <2>2, <3>2 DEF Below
  <2>4. disk'[chk.backup] = disk[chk.backup]
      BY <1>5, <2>2, <2>3
  <2>5. Len(disk[chk.backup]) \in Nat /\ Len(disk[chk.file]) \in Nat
      BY <2>2 DEF CInv, Typed
  <2>6. CASE chk.file # TheLog
    <3>1. disk'[chk.file] = disk[chk.file]
        BY <1>5, <2>2, <2>6
    <3>. QED BY <1>1, <1>5, <1>8, <2>2, <2>4, <3>1 DEF Copied
  <2>7. CASE chk.file = TheLog
    <3>1. old = disk[chk.file] /\ disk'[chk.file] = s
        BY <1>5, <2>2, <2>7
    <3>2. Len(s) = Len(disk[chk.file]) + 1 /\ \A i \in 1..Len(disk[chk.file]) : s[i] = disk[chk.file][i]
        BY <1>4, <3>1, Zenon
    <3>3. Len(disk[chk.backup]) <= Len(s) /\ \A i \in 1..Len(disk[chk.backup]) : disk[chk.backup][i] = s[i]
        BY <2>2, <2>5, <3>2
    <3>4. chk.pc = "truncate" => \A i \in 1..Len(s) : i <= Len(disk[chk.backup]) \/ s[i] \in late'
        BY SMTT(20), <1>1, <1>4, <2>2, <2>5, <2>7, <3>2
    <3>. QED BY SMTT(20), <1>1, <1>5, <2>2, <2>4, <3>1, <3>3, <3>4 DEF Copied
  <2>. QED BY <2>6, <2>7
<1>15. Chosen'
  <2>1. chk.pc \in {"zip", "unlink"} => chk.backup # TheLog /\ Gz(chk.backup) # TheLog
      BY <1>3, Zenon DEF CInv, Chosen, Gz, TheLog
  <2>2. chk.pc = "unlink" => disk'[Gz(chk.backup)] = disk'[chk.backup]
      BY <1>5, <2>1, Zenon DEF CInv, Chosen
  <2>. QED BY <1>1, <1>5, <2>2, Zenon DEF CInv, Chosen
<1>. QED BY <1>6, <1>7, <1>13, <1>14, <1>15 DEF CInv

\* copyFile creates the backup, a new and empty file.
LEMMA CreateKeeps ==
    ASSUME CInv, CreateBackup
    PROVE  CInv'
<1>0. PICK f \in DOMAIN disk :
        LET backup == <<Append(f[1], clock), "log">>
        IN  /\ backup \notin DOMAIN disk /\ <<backup[1], "gz">> \notin DOMAIN disk
            /\ disk' = Put(backup, <<>>)
            /\ chk' = [chk EXCEPT !.pc = "copy", !.file = f, !.backup = backup]
            /\ UNCHANGED <<lines, clock, late, dropped>>
    BY Zenon DEF CreateBackup
<1>1. PICK backup :
          /\ backup = <<Append(f[1], clock), "log">>
          /\ backup \notin DOMAIN disk /\ <<backup[1], "gz">> \notin DOMAIN disk
          /\ disk' = Put(backup, <<>>)
          /\ chk' = [chk EXCEPT !.pc = "copy", !.file = f, !.backup = backup]
          /\ UNCHANGED <<lines, clock, late, dropped>>
    BY <1>0, Zenon
<1>2. f \in CNames /\ f[1] \in Seq(Nat) /\ clock \in Nat
    BY DEF CInv, Typed, CNames
<1>3. backup \in CNames /\ backup[1] = Append(f[1], clock) /\ backup[2] = "log" /\ Below(backup, f)
  <2>1. /\ Append(f[1], clock) \in Seq(Nat) /\ Len(Append(f[1], clock)) = Len(f[1]) + 1 /\ Len(f[1]) \in Nat
        /\ \A i \in 1..Len(f[1]) : Append(f[1], clock)[i] = f[1][i]
      BY <1>2
  <2>2. backup \in CNames /\ backup[1] = Append(f[1], clock) /\ backup[2] = "log"
      BY <1>1, <2>1, Zenon DEF CNames
  <2>. QED BY <2>1, <2>2 DEF Below
<1>4. /\ DOMAIN disk' = DOMAIN disk \cup {backup} /\ disk'[backup] = <<>>
      /\ \A g \in DOMAIN disk : disk'[g] = disk[g]
    BY <1>1, PutFacts, Zenon
<1>5. /\ chk'.pc = "copy" /\ chk'.file = f /\ chk'.backup = backup
      /\ UNCHANGED <<chk.remove, chk.compress>>
    BY <1>1, Zenon DEF CInv, Typed
<1>6. <<>> \in Seq(Nat) /\ Len(<<>>) = 0
    OBVIOUS
<1>7. Typed'
  <2>1. DOMAIN disk' \subseteq CNames /\ disk' \in [DOMAIN disk' -> Seq(Nat)]
      BY <1>1, <1>3, <1>6, PutTyped, Zenon DEF CInv, Typed
  <2>. QED BY <1>1, <1>2, <1>3, <2>1, Zenon DEF CInv, Typed, PCs
<1>8. Named'
    BY <1>3, <1>4 DEF CInv, Named
<1>9. ASSUME NEW g \in DOMAIN disk, NEW m \in Nat \ {0}, Holds(g, m)
      PROVE  \E h \in DOMAIN disk' : Goes(g, h) /\ Holds(h, m)'
    BY <1>4, <1>9 DEF Holds, Goes
<1>10. ASSUME NEW x \in DOMAIN disk', NEW m \in Nat \ {0}, x[2] = "log", Gz(x) \in DOMAIN disk', Holds(Gz(x), m)'
       PROVE  x \in DOMAIN disk /\ Holds(Gz(x), m)
  <2>1. x \in CNames
      BY <1>7 DEF Typed
  <2>2. Gz(x) # backup
      BY <1>3, <2>1, NamesDiffer
  <2>3. Gz(x) \in DOMAIN disk /\ disk'[Gz(x)] = disk[Gz(x)]
      BY <1>4, <1>10, <2>2
  <2>4. x # backup
      BY <1>1, <2>3, Zenon DEF Gz
  <2>. QED BY <1>4, <1>10, <2>3, <2>4 DEF Holds
<1>11. Doubled' /\ Kept'
    BY <1>1, <1>7, <1>9, <1>10, Carried, Zenon DEF CInv, Typed
<1>12. Copied'
  <2>1. disk[f] \in Seq(Nat)
      BY DEF CInv, Typed
  <2>2. Len(disk[f]) \in Nat
      BY <2>1
  <2>. QED BY <1>3, <1>4, <1>5, <1>6, <2>2 DEF Copied
<1>13. Chosen'
    BY <1>4, <1>5, Zenon DEF CInv, Chosen
<1>. QED BY SMTT(20), <1>7, <1>8, <1>11, <1>12, <1>13 DEF CInv

\* copyFile copies one more line.
LEMMA CopyLineKeeps ==
    ASSUME CInv, CopyLine
    PROVE  CInv'
<1>1. /\ chk.pc = "copy" /\ Len(disk[chk.backup]) < Len(disk[chk.file])
      /\ disk' = Put(chk.backup, Append(disk[chk.backup], disk[chk.file][Len(disk[chk.backup]) + 1]))
      /\ UNCHANGED <<lines, chk, clock, late, dropped>>
    BY Zenon DEF CopyLine
<1>2. PICK b \in DOMAIN disk, f \in DOMAIN disk : b = chk.backup /\ f = chk.file
    BY <1>1, Zenon DEF CInv, Copied
<1>3. /\ Below(b, f) /\ b[2] = "log" /\ b \in CNames /\ f \in CNames
      /\ \A i \in 1..Len(disk[b]) : disk[b][i] = disk[f][i]
    BY <1>1, <1>2, Zenon DEF CInv, Copied, Typed
<1>4. PICK old \in Seq(Nat), new \in Seq(Nat) : old = disk[b] /\ new = disk[f]
    BY DEF CInv, Typed
<1>5. Len(old) \in Nat /\ Len(new) \in Nat /\ DOMAIN old = 1..Len(old) /\ DOMAIN new = 1..Len(new) /\ Len(old) < Len(new)
    BY <1>1, <1>2, <1>4
<1>6. PICK s \in Seq(Nat) : /\ disk' = Put(b, s) /\ Len(s) = Len(old) + 1 /\ DOMAIN s = 1..Len(s)
                            /\ \A i \in 1..Len(s) : s[i] = new[i]
                            /\ \A i \in 1..Len(old) : s[i] = old[i]
  <2>1. new[Len(old) + 1] \in Nat
      BY <1>5
  <2>2. PICK x \in Nat : x = new[Len(old) + 1]
      BY <2>1
  <2>3. /\ Append(old, x) \in Seq(Nat) /\ Len(Append(old, x)) = Len(old) + 1 /\ Append(old, x)[Len(old) + 1] = x
        /\ \A i \in 1..Len(old) : Append(old, x)[i] = old[i]
      OBVIOUS
  <2>4. disk' = Put(b, Append(old, x))
      BY <1>1, <1>2, <1>4, <2>2, Zenon
  <2>5. \A i \in 1..(Len(old) + 1) : Append(old, x)[i] = new[i]
      BY <1>3, <1>4, <1>5, <2>2, <2>3
  <2>6. DOMAIN Append(old, x) = 1..Len(Append(old, x))
      BY <2>3
  <2>. QED BY <2>3, <2>4, <2>5, <2>6, Zenon
<1>7. f # b
    BY <1>3 DEF Below
<1>8. /\ DOMAIN disk' = DOMAIN disk /\ disk'[b] = s
      /\ \A g \in DOMAIN disk : g # b => disk'[g] = disk[g]
  <2>1. DOMAIN disk \cup {b} = DOMAIN disk
      BY <1>2, Zenon
  <2>. QED BY <1>6, <2>1, PutFacts, Zenon
<1>9. Typed'
  <2>1. DOMAIN disk' \subseteq CNames /\ disk' \in [DOMAIN disk' -> Seq(Nat)]
      BY <1>3, <1>6, PutTyped, Zenon DEF CInv, Typed
  <2>. QED BY <1>1, <2>1, Zenon DEF CInv, Typed
<1>10. Named'
    BY <1>8 DEF CInv, Named
<1>11. ASSUME NEW g \in DOMAIN disk, NEW m \in Nat \ {0}, Holds(g, m)
       PROVE  \E h \in DOMAIN disk' : Goes(g, h) /\ Holds(h, m)'
  <2>1. CASE g = b
    <3>1. PICK i \in 1..Len(old) : old[i] = m
        BY <1>4, <1>5, <1>11, <2>1 DEF Holds
    <3>2. i \in DOMAIN s /\ s[i] = m
        BY <1>5, <1>6, <3>1
    <3>. QED BY <1>8, <2>1, <3>2 DEF Holds, Goes
  <2>2. CASE g # b
      BY <1>8, <1>11, <2>2 DEF Holds, Goes
  <2>. QED BY <2>1, <2>2
<1>12. ASSUME NEW x \in DOMAIN disk', NEW m \in Nat \ {0}, x[2] = "log", Gz(x) \in DOMAIN disk', Holds(Gz(x), m)'
       PROVE  x \in DOMAIN disk /\ Holds(Gz(x), m)
  <2>1. x \in CNames
      BY <1>9 DEF Typed
  <2>2. Gz(x) # b
      BY SMTT(20), <1>3, <2>1, NamesDiffer
  <2>. QED BY <1>8, <1>12, <2>2 DEF Holds
<1>13. Doubled' /\ Kept'
    BY <1>1, <1>9, <1>11, <1>12, Carried, Zenon DEF CInv, Typed
<1>14. Copied'
  <2>1. disk'[f] = new /\ Len(s) <= Len(new)
      BY <1>4, <1>5, <1>6, <1>7, <1>8
  <2>. QED BY <1>1, <1>2, <1>3, <1>6, <1>8, <2>1, Zenon DEF Copied
<1>15. Chosen'
    BY <1>1, <1>8, Zenon DEF CInv, Chosen
<1>. QED BY <1>9, <1>10, <1>13, <1>14, <1>15 DEF CInv

\* The log is emptied: its lines are in the backup, or late.
LEMMA TruncateKeeps ==
    ASSUME CInv, TruncateLog
    PROVE  CInv'
<1>1. /\ chk.pc = "truncate" /\ disk' = Put(chk.file, <<>>) /\ chk' = [chk EXCEPT !.pc = "list"]
      /\ UNCHANGED <<lines, clock, late, dropped>>
    BY DEF TruncateLog
<1>2. PICK b \in DOMAIN disk, f \in DOMAIN disk : b = chk.backup /\ f = chk.file
    BY <1>1, Zenon DEF CInv, Copied
<1>3. /\ Below(b, f) /\ b \in CNames /\ f \in CNames
      /\ \A i \in 1..Len(disk[b]) : disk[b][i] = disk[f][i]
      /\ \A i \in 1..Len(disk[f]) : i <= Len(disk[b]) \/ disk[f][i] \in late
    BY <1>1, <1>2, Zenon DEF CInv, Copied, Typed
<1>4. f # b
    BY <1>3 DEF Below
<1>5. /\ DOMAIN disk' = DOMAIN disk /\ disk'[f] = <<>>
      /\ \A g \in DOMAIN disk : g # f => disk'[g] = disk[g]
  <2>1. DOMAIN disk \cup {f} = DOMAIN disk
      BY <1>2
  <2>. QED BY <1>1, <1>2, <2>1, PutFacts, Zenon
<1>6. /\ chk'.pc = "list" /\ UNCHANGED <<chk.remove, chk.compress>>
    BY <1>1 DEF CInv, Typed
<1>7. Typed'
  <2>1. <<>> \in Seq(Nat)
      OBVIOUS
  <2>2. DOMAIN disk' \subseteq CNames /\ disk' \in [DOMAIN disk' -> Seq(Nat)]
      BY <1>1, <1>2, <1>3, <2>1, PutTyped, Zenon DEF CInv, Typed
  <2>. QED BY <1>1, <2>2, Zenon DEF CInv, Typed, PCs
<1>8. Named'
    BY <1>5 DEF CInv, Named
<1>9. ASSUME NEW g \in DOMAIN disk, NEW m \in Nat \ {0}, Holds(g, m)
      PROVE  m \in late' \cup dropped' \/ \E h \in DOMAIN disk' : Goes(g, h) /\ Holds(h, m)'
  <2>1. CASE g = f
    <3>1. disk[f] \in Seq(Nat) /\ disk[b] \in Seq(Nat)
        BY DEF CInv, Typed
    <3>2. PICK i \in 1..Len(disk[f]) : disk[f][i] = m
        BY <1>9, <2>1, <3>1 DEF Holds
    <3>3. Len(disk[f]) \in Nat /\ Len(disk[b]) \in Nat /\ DOMAIN disk[b] = 1..Len(disk[b])
        BY <3>1
    <3>4. CASE i <= Len(disk[b])
      <4>1. i \in DOMAIN disk[b] /\ disk[b][i] = m
          BY <1>3, <3>2, <3>3, <3>4
      <4>2. Holds(b, m)'
          BY <1>4, <1>5, <4>1 DEF Holds
      <4>. QED BY <1>3, <1>5, <2>1, <4>2 DEF Goes
    <3>5. CASE disk[f][i] \in late
        BY <1>1, <3>2, <3>5
    <3>. QED BY <1>3, <3>2, <3>4, <3>5
  <2>2. CASE g # f
      BY <1>5, <1>9, <2>2 DEF Holds, Goes
  <2>. QED BY <2>1, <2>2
<1>10. ASSUME NEW x \in DOMAIN disk', NEW m \in Nat \ {0}, x[2] = "log", Gz(x) \in DOMAIN disk', Holds(Gz(x), m)'
       PROVE  x \in DOMAIN disk /\ Holds(Gz(x), m)
  <2>1. DOMAIN <<>> = {}
      OBVIOUS
  <2>2. Gz(x) # f
      BY <1>5, <1>10, <2>1 DEF Holds
  <2>. QED BY <1>5, <1>10, <2>2 DEF Holds
<1>11. Doubled' /\ Kept'
    BY <1>1, <1>7, <1>9, <1>10, Carried, Zenon DEF CInv, Typed
<1>12. Copied'
    BY <1>6 DEF Copied
<1>13. Chosen'
    BY <1>5, <1>6, Zenon DEF CInv, Chosen
<1>. QED BY <1>7, <1>8, <1>11, <1>12, <1>13 DEF CInv

\* An old backup is removed, or is not.
LEMMA RemoveKeeps ==
    ASSUME CInv, NEW f \in chk.remove, RemoveOld(f)
    PROVE  CInv'
<1>1. chk.pc = "work" /\ chk' = [chk EXCEPT !.remove = @ \ {f}] /\ UNCHANGED <<lines, clock, late>>
    BY DEF RemoveOld
<1>2. chk'.pc = "work" /\ chk'.remove = chk.remove \ {f} /\ chk'.compress = chk.compress
    BY <1>1 DEF CInv, Typed
<1>3. Copied'
    BY <1>2 DEF Copied
<1>4. f \in DOMAIN disk /\ f \notin chk.compress
    BY Zenon DEF CInv, Chosen
<1>5. CASE UNCHANGED <<disk, dropped>>
  <2>1. Typed'
      BY <1>1, <1>5 DEF CInv, Typed
  <2>2. Chosen'
      BY <1>2, <1>5, Zenon DEF CInv, Chosen
  <2>. QED BY <1>1, <1>3, <1>5, <2>1, <2>2, Unmoved DEF CInv
<1>6. CASE disk' = Unlink(f) /\ dropped' = dropped \cup Range(disk[f])
  <2>1. /\ DOMAIN disk' = DOMAIN disk \ {f}
        /\ \A g \in DOMAIN disk' : disk'[g] = disk[g]
      BY <1>6, UnlinkFacts
  <2>2. Typed'
    <3>1. DOMAIN disk' \subseteq CNames /\ disk' \in [DOMAIN disk' -> Seq(Nat)]
        BY <1>6 DEF CInv, Typed, Unlink
    <3>. QED BY <1>1, <3>1, Zenon DEF CInv, Typed
  <2>3. Chosen'
      BY <1>2, <1>4, <2>1, Zenon DEF CInv, Chosen
  <2>4. Named'
      BY <2>1 DEF CInv, Named
  <2>5. ASSUME NEW g \in DOMAIN disk, NEW m \in Nat \ {0}, Holds(g, m)
        PROVE  m \in late' \cup dropped' \/ \E h \in DOMAIN disk' : Goes(g, h) /\ Holds(h, m)'
    <3>1. CASE g = f
        BY <1>6, <2>5, <3>1 DEF Holds, Range
    <3>2. CASE g # f
        BY <2>1, <2>5, <3>2 DEF Holds, Goes
    <3>. QED BY <3>1, <3>2
  <2>6. ASSUME NEW x \in DOMAIN disk', NEW m \in Nat \ {0}, x[2] = "log", Gz(x) \in DOMAIN disk', Holds(Gz(x), m)'
        PROVE  x \in DOMAIN disk /\ Holds(Gz(x), m)
      BY <2>1, <2>6 DEF Holds
  <2>7. Doubled' /\ Kept'
      BY <1>1, <1>6, <2>2, <2>5, <2>6, Carried, Zenon DEF CInv, Typed
  <2>. QED BY <1>3, <2>2, <2>3, <2>4, <2>7 DEF CInv
<1>. QED BY <1>5, <1>6 DEF RemoveOld

\* A compressed file is written beside its source.
LEMMA GzWritten ==
    ASSUME CInv, NEW b \in DOMAIN disk, b[2] = "log", b[1] # <<>>, NEW s \in Seq(Nat),
           \A i \in DOMAIN s : s[i] = 0 \/ Holds(b, s[i]),
           disk' = Put(Gz(b), s), UNCHANGED <<lines, late, dropped>>
    PROVE  /\ DOMAIN disk' \subseteq CNames /\ disk' \in [DOMAIN disk' -> Seq(Nat)]
           /\ DOMAIN disk' = DOMAIN disk \cup {Gz(b)}
           /\ disk'[b] = disk[b] /\ disk'[Gz(b)] = s
           /\ Named' /\ Doubled' /\ Kept'
<1>1. b \in CNames /\ Gz(b) \in CNames /\ Gz(b)[1] = b[1] /\ Gz(b)[2] = "gz"
    BY NamesDiffer, Zenon DEF CInv, Typed
<1>2. DOMAIN disk' \subseteq CNames /\ disk' \in [DOMAIN disk' -> Seq(Nat)]
    BY <1>1, PutTyped DEF CInv, Typed
<1>3. /\ DOMAIN disk' = DOMAIN disk \cup {Gz(b)} /\ disk'[Gz(b)] = s
      /\ \A g \in DOMAIN disk : g # Gz(b) => disk'[g] = disk[g]
    BY PutFacts, Zenon
<1>4. Gz(b) # b
    BY <1>1
<1>5. Named'
    BY <1>1, <1>3 DEF CInv, Named
<1>6. ASSUME NEW g \in DOMAIN disk, NEW m \in Nat \ {0}, Holds(g, m)
      PROVE  m \in late' \cup dropped' \/ \E h \in DOMAIN disk' : Goes(g, h) /\ Holds(h, m)'
  <2>1. CASE g = Gz(b)
    <3>1. m \in late \cup dropped \/ \E h \in DOMAIN disk : (h = b \/ Below(h, b)) /\ Holds(h, m)
        BY <1>6, <2>1 DEF CInv, Doubled
    <3>2. SUFFICES ASSUME NEW h \in DOMAIN disk, h = b \/ Below(h, b), Holds(h, m)
                   PROVE  Goes(g, h) /\ Holds(h, m)'
        BY <1>3, <3>1
    <3>3. h # Gz(b)
      <4>1. Len(b[1]) \in Nat
          BY <1>1 DEF CNames
      <4>. QED BY <1>1, <1>4, <3>2, <4>1 DEF Below
    <3>4. Holds(h, m)'
        BY <1>3, <3>2, <3>3 DEF Holds
    <3>5. Goes(g, h)
        BY <1>1, <2>1, <3>2, Zenon DEF Goes, Below
    <3>. QED BY <3>4, <3>5
  <2>2. CASE g # Gz(b)
      BY <1>3, <1>6, <2>2 DEF Holds, Goes
  <2>. QED BY <2>1, <2>2
<1>7. ASSUME NEW x \in DOMAIN disk', NEW m \in Nat \ {0}, x[2] = "log", Gz(x) \in DOMAIN disk', Holds(Gz(x), m)'
      PROVE  Holds(x, m)' \/ (x \in DOMAIN disk /\ Holds(Gz(x), m))
  <2>1. x \in CNames /\ Gz(x)[1] = x[1] /\ Gz(x)[2] = "gz"
      BY <1>2, NamesDiffer
  <2>2. x \in DOMAIN disk
      BY <1>1, <1>3, <1>7
  <2>3. CASE Gz(x) = Gz(b)
    <3>1. x = b
      <4>1. x = <<x[1], x[2]>> /\ b = <<b[1], b[2]>>
          BY <1>1, <2>1 DEF CNames
      <4>2. x[1] = b[1]
          BY <1>1, <2>1, <2>3
      <4>. QED BY <1>7, <4>1, <4>2
    <3>2. Holds(b, m)
        BY <1>3, <1>7, <2>3 DEF Holds
    <3>. QED BY <1>3, <1>4, <3>1, <3>2 DEF Holds
  <2>4. CASE Gz(x) # Gz(b)
      BY <1>3, <1>7, <2>2, <2>4, Zenon DEF Holds
  <2>. QED BY <2>3, <2>4
<1>8. Doubled' /\ Kept'
    BY <1>2, <1>6, <1>7, Carried, Zenon DEF CInv, Typed
<1>. QED BY <1>2, <1>3, <1>4, <1>5, <1>8

\* GzipFile, from the creation of the compressed file to the removal of the source.
LEMMA ZipKeeps ==
    ASSUME CInv, (\E f \in chk.compress : ZipStarts(f)) \/ ZipFills \/ ZipEnds
    PROVE  CInv'
<1>1. ASSUME NEW f \in chk.compress, ZipStarts(f)
      PROVE  CInv'
  <2>1. /\ chk.pc = "work" /\ chk.remove = {} /\ disk' = Put(Gz(f), <<0>>)
        /\ chk' = [chk EXCEPT !.pc = "zip", !.backup = f, !.compress = @ \ {f}]
        /\ UNCHANGED <<lines, clock, late, dropped>>
      BY <1>1, Zenon DEF ZipStarts, Gz, Unfinished
  <2>2. f \in DOMAIN disk /\ f[2] = "log" /\ f[1] # <<>> /\ f \in CNames
      BY Zenon DEF CInv, Chosen, Typed
  <2>3. <<0>> \in Seq(Nat) /\ \A i \in DOMAIN <<0>> : <<0>>[i] = 0
      OBVIOUS
  <2>4. /\ DOMAIN disk' \subseteq CNames /\ disk' \in [DOMAIN disk' -> Seq(Nat)]
        /\ DOMAIN disk' = DOMAIN disk \cup {Gz(f)}
        /\ Named' /\ Doubled' /\ Kept'
      BY <2>1, <2>2, <2>3, GzWritten, Zenon
  <2>5. /\ chk'.pc = "zip" /\ chk'.backup = f /\ chk'.compress = chk.compress \ {f} /\ chk'.remove = {}
      BY <2>1 DEF CInv, Typed
  <2>6. Typed'
      BY <2>1, <2>2, <2>4, Zenon DEF CInv, Typed, PCs
  <2>7. Copied'
      BY <2>5 DEF Copied
  <2>8. Chosen'
      BY <2>2, <2>4, <2>5, Zenon DEF CInv, Chosen
  <2>. QED BY <2>4, <2>6, <2>7, <2>8 DEF CInv
<1>2. CASE ZipFills
  <2>1. PICK b \in DOMAIN disk : /\ b = chk.backup /\ b[2] = "log" /\ b[1] # <<>>
      BY <1>2 DEF ZipFills, CInv, Chosen
  <2>2. /\ chk.pc = "zip" /\ disk' = Put(Gz(b), disk[b])
        /\ chk' = [chk EXCEPT !.pc = "unlink"]
        /\ UNCHANGED <<lines, clock, late, dropped>>
      BY <1>2, <2>1 DEF ZipFills, Gz
  <2>3. PICK s \in Seq(Nat) : s = disk[b]
      BY DEF CInv, Typed
  <2>4. \A i \in DOMAIN s : Holds(b, s[i])
      BY <2>3 DEF Holds
  <2>5. /\ DOMAIN disk' \subseteq CNames /\ disk' \in [DOMAIN disk' -> Seq(Nat)]
        /\ DOMAIN disk' = DOMAIN disk \cup {Gz(b)} /\ disk'[b] = disk[b] /\ disk'[Gz(b)] = s
        /\ Named' /\ Doubled' /\ Kept'
      BY <2>1, <2>2, <2>3, <2>4, GzWritten, Zenon
  <2>6. /\ chk'.pc = "unlink" /\ UNCHANGED <<chk.backup, chk.compress, chk.remove>>
      BY <2>2 DEF CInv, Typed
  <2>7. Typed'
      BY <2>2, <2>5, Zenon DEF CInv, Typed, PCs
  <2>8. Copied'
      BY <2>6 DEF Copied
  <2>9. Chosen'
      BY <2>1, <2>2, <2>3, <2>5, <2>6 DEF CInv, Chosen
  <2>. QED BY <2>5, <2>7, <2>8, <2>9 DEF CInv
<1>3. CASE ZipEnds
  <2>1. PICK b \in DOMAIN disk : /\ b = chk.backup /\ b[2] = "log" /\ Gz(b) \in DOMAIN disk /\ disk[Gz(b)] = disk[b]
                                 /\ b \notin chk.compress /\ chk.remove = {}
      BY <1>3 DEF ZipEnds, CInv, Chosen
  <2>2. /\ disk' = Unlink(b) /\ chk' = [chk EXCEPT !.pc = "work"]
        /\ UNCHANGED <<lines, clock, late, dropped>>
      BY <1>3, <2>1 DEF ZipEnds
  <2>3. /\ DOMAIN disk' = DOMAIN disk \ {b}
        /\ \A g \in DOMAIN disk' : disk'[g] = disk[g]
      BY <2>2, UnlinkFacts, Zenon
  <2>4. Typed'
    <3>1. DOMAIN disk' \subseteq CNames /\ disk' \in [DOMAIN disk' -> Seq(Nat)]
        BY <2>2 DEF CInv, Typed, Unlink
    <3>. QED BY <2>2, <3>1, Zenon DEF CInv, Typed, PCs
  <2>5. /\ chk'.pc = "work" /\ UNCHANGED <<chk.compress, chk.remove>>
      BY <2>2 DEF CInv, Typed
  <2>6. Copied'
      BY <2>5 DEF Copied
  <2>7. Chosen'
      BY <2>1, <2>3, <2>5, Zenon DEF CInv, Chosen
  <2>8. Named'
      BY <2>3 DEF CInv, Named
  <2>9. b \in CNames /\ Gz(b) # b /\ Gz(b)[1] = b[1]
      BY <2>1, NamesDiffer DEF CInv, Typed
  <2>10. ASSUME NEW g \in DOMAIN disk, NEW m \in Nat \ {0}, Holds(g, m)
         PROVE  \E h \in DOMAIN disk' : Goes(g, h) /\ Holds(h, m)'
    <3>1. CASE g = b
      <4>1. Holds(Gz(b), m)
          BY <2>1, <2>10, <3>1 DEF Holds
      <4>2. PICK h : h = Gz(b)
          OBVIOUS
      <4>3. h \in DOMAIN disk' /\ Holds(h, m)'
          BY <2>1, <2>3, <2>9, <4>1, <4>2, Zenon DEF Holds
      <4>4. Goes(g, h)
          BY <2>3, <2>9, <3>1, <4>2 DEF Goes
      <4>. QED BY <4>3, <4>4
    <3>2. CASE g # b
        BY <2>3, <2>10, <3>2 DEF Holds, Goes
    <3>. QED BY <3>1, <3>2
  <2>11. ASSUME NEW x \in DOMAIN disk', NEW m \in Nat \ {0}, x[2] = "log", Gz(x) \in DOMAIN disk', Holds(Gz(x), m)'
         PROVE  x \in DOMAIN disk /\ Holds(Gz(x), m)
      BY <2>3, <2>11 DEF Holds
  <2>12. Doubled' /\ Kept'
      BY <2>2, <2>4, <2>10, <2>11, Carried, Zenon DEF CInv, Typed
  <2>. QED BY <2>4, <2>6, <2>7, <2>8, <2>12 DEF CInv
<1>. QED BY <1>1, <1>2, <1>3

-----------------------------------------------------------------------------
(* The theorem. *)

\* What the invariant says of the lines is LinesKept.
LEMMA KeptSays == Kept => LinesKept
<1>1. SUFFICES ASSUME Kept, NEW m \in 1..lines
               PROVE  m \in (UNION {Range(disk[f]) : f \in DOMAIN disk}) \cup late \cup dropped
    BY DEF LinesKept
<1>2. m \in late \cup dropped \/ \E f \in DOMAIN disk : Holds(f, m)
    BY <1>1 DEF Kept
<1>3. ASSUME NEW f \in DOMAIN disk, Holds(f, m)
      PROVE  m \in UNION {Range(disk[g]) : g \in DOMAIN disk}
    BY <1>3 DEF Holds, Range
<1>. QED BY <1>2, <1>3

\* Every step keeps the invariant.
LEMMA StepKeeps == CInv /\ [CopyNext]_copyVars => CInv'
<1>1. SUFFICES ASSUME CInv, [CopyNext]_copyVars
               PROVE  CInv'
    OBVIOUS
<1>2. CASE CopyNext
    BY <1>1, <1>2, AppendKeeps, CheckKeeps, MovesOnKeeps, CreateKeeps, CopyLineKeeps, TruncateKeeps, RemoveKeeps, ZipKeeps
    DEF CopyNext, RotateLogCheck
<1>3. CASE UNCHANGED copyVars
  <2>1. Typed' /\ Copied' /\ Chosen'
      BY <1>1, <1>3, Zenon DEF CInv, Typed, Copied, Chosen, copyVars
  <2>. QED BY <1>1, <1>3, <2>1, Unmoved DEF CInv, copyVars
<1>. QED BY <1>1, <1>2, <1>3

\* The invariant holds of the empty directory.
LEMMA StartsKept == CopyInit => CInv
<1>1. SUFFICES ASSUME CopyInit
               PROVE  CInv
    OBVIOUS
<1>2. DOMAIN disk = {} /\ disk \in [DOMAIN disk -> Seq(Nat)] /\ lines = 0 /\ clock = 0
    BY <1>1 DEF CopyInit
<1>3. chk = [pc |-> "idle", files |-> {}, file |-> TheLog, backup |-> TheLog, remove |-> {}, compress |-> {}]
    BY <1>1 DEF CopyInit, Resting
<1>4. TheLog \in CNames
  <2>1. <<>> \in Seq(Nat)
      OBVIOUS
  <2>. QED BY <2>1, Zenon DEF TheLog, CNames
<1>5. Typed
    BY <1>2, <1>3, <1>4 DEF Typed, PCs
<1>6. Copied /\ Named /\ Doubled
    BY <1>2, <1>3, Zenon DEF Copied, Named, Doubled
<1>7. Chosen
    BY <1>2, <1>3 DEF Chosen
<1>8. Kept
    BY <1>2 DEF Kept
<1>. QED BY <1>5, <1>6, <1>7, <1>8 DEF CInv

\* For every size, number and age of the backups, east and west of Greenwich,
\* and whatever fails or crashes: a line of the log is lost only between the end
\* of the copy and os.Truncate, or with a backup that RotateLogCheck removes.
THEOREM NoLineIsLost == CopySpec => []LinesKept
<1>1. CInv => LinesKept
    BY KeptSays DEF CInv
<1>. QED BY <1>1, StartsKept, StepKeeps, PTL DEF CopySpec

-----------------------------------------------------------------------------
(* As long as nothing failed. *)

\* The stamps from t on of the files with names in D.
BackupStamps(D, t) == {f[1][1] : f \in {g \in D : g[1] # <<>> /\ g[1][1] >= t}}

\* A backup has one stamp, which is not after now, and is a backup of the log.
OneStamp ==
    /\ \A f \in DOMAIN disk : f[1] # <<>> => Len(f[1]) = 1 /\ f[1][1] <= clock
    /\ chk.file = TheLog /\ chk.files \subseteq {TheLog}

\* The one backup that is not compressed yet is the one in hand.
Zipping ==
    /\ \A f \in DOMAIN disk : f[1] # <<>> /\ f[2] = "log" =>
          /\ f = chk.backup /\ chk.pc \in {"copy", "truncate", "list", "work", "zip", "unlink"}
          /\ chk.pc = "work" => f \in chk.remove \cup chk.compress
    /\ chk.pc \in {"zip", "unlink"} => chk.compress = {}

\* The backup being made is the latest, and no line is from the future.
Latest ==
    /\ chk.pc \in {"copy", "truncate"} =>
          \A g \in DOMAIN disk : g[1] # <<>> /\ g # chk.backup => g[1][1] < chk.backup[1][1]
    /\ \A f \in DOMAIN disk : \A i \in DOMAIN disk[f] : disk[f][i] <= lines

\* Few backups, or those beyond the number are about to be removed.
Few ==
    maxBackups > 0 =>
        /\ chk.pc \in {"idle", "stopped", "stat"} => Cardinality(BackupStamps(DOMAIN disk, 0)) <= maxBackups
        /\ chk.pc \in {"work", "zip", "unlink"} =>
              \A f \in DOMAIN disk \ chk.remove :
                  f[1] # <<>> => Cardinality(BackupStamps(DOMAIN disk, f[1][1])) <= maxBackups

TInv == OneStamp /\ Zipping /\ Latest /\ InTurn /\ Few
RInv == mishaps \in Nat /\ (mishaps = 0 => TInv)

-----------------------------------------------------------------------------
(* Lemmas about stamps. *)

\* A name with one stamp is that stamp and its suffix.
LEMMA OneName ==
    ASSUME NEW f \in CNames, Len(f[1]) = 1
    PROVE  /\ f[1] # <<>> /\ f[1][1] \in Nat /\ f[1] = <<f[1][1]>> /\ f = <<f[1], f[2]>>
           /\ f[1][Len(f[1])] = f[1][1] /\ SubSeq(f[1], 1, 0) = <<>>
<1>1. f[1] \in Seq(Nat) /\ f = <<f[1], f[2]>>
    BY DEF CNames
<1>2. f[1] # <<>> /\ f[1][1] \in Nat
    BY <1>1
<1>3. f[1] = <<f[1][1]>>
    BY <1>1
<1>4. f[1][Len(f[1])] = f[1][1]
    OBVIOUS
<1>5. SubSeq(f[1], 1, 0) = <<>>
    BY <1>1
<1>. QED BY <1>1, <1>2, <1>3, <1>4, <1>5

\* Stamps up to now are finitely many.
LEMMA StampsFinite ==
    ASSUME NEW D, NEW n \in Nat, \A f \in D : f[1] # <<>> => f[1][1] \in Nat /\ f[1][1] <= n, NEW t
    PROVE  IsFiniteSet(BackupStamps(D, t))
<1>0. 0 \in Int /\ n \in Int
    OBVIOUS
<1>1. IsFiniteSet(0..n)
    BY <1>0, FS_Interval
<1>2. BackupStamps(D, t) \subseteq 0..n
    BY DEF BackupStamps
<1>. QED BY <1>1, <1>2, FS_Subset

\* Fewer names, fewer stamps.
LEMMA StampsFewer ==
    ASSUME NEW D, NEW E, NEW t, NEW n \in Nat,
           \A f \in D : f[1] # <<>> => f[1][1] \in Nat /\ f[1][1] <= n,
           \A f \in E : f[1] # <<>> => \E g \in D : g[1] = f[1]
    PROVE  /\ Cardinality(BackupStamps(E, t)) \in Nat /\ Cardinality(BackupStamps(D, t)) \in Nat
           /\ Cardinality(BackupStamps(E, t)) <= Cardinality(BackupStamps(D, t))
<1>1. BackupStamps(E, t) \subseteq BackupStamps(D, t)
    BY DEF BackupStamps
<1>2. IsFiniteSet(BackupStamps(D, t))
    BY StampsFinite
<1>3. IsFiniteSet(BackupStamps(E, t)) /\ Cardinality(BackupStamps(E, t)) <= Cardinality(BackupStamps(D, t))
    BY <1>1, <1>2, FS_Subset
<1>. QED BY <1>2, <1>3, FS_CardinalityType

\* If there are few from each backup on, there are few.
LEMMA AllFew ==
    ASSUME NEW D, NEW n \in Nat, NEW b \in Nat,
           \A f \in D : f[1] # <<>> => f[1][1] \in Nat /\ f[1][1] <= n,
           \A f \in D : f[1] # <<>> => Cardinality(BackupStamps(D, f[1][1])) <= b
    PROVE  Cardinality(BackupStamps(D, 0)) <= b
<1>. DEFINE S == BackupStamps(D, 0)
<1>1. CASE S = {}
    BY <1>1, FS_EmptySet
<1>2. CASE S # {}
  <2>1. S \subseteq Nat
      BY Zenon DEF BackupStamps
  <2>2. \E x \in S : \A y \in S : ~(<<y, x>> \in OpToRel(<, Nat))
      BY <1>2, <2>1, WFMin, NatLessThanWellFounded, Zenon
  <2>3. PICK x \in S : \A y \in S : ~(y < x)
      BY <2>1, <2>2, Zenon DEF OpToRel
  <2>4. x \in Nat /\ \A y \in S : y \in Nat /\ y >= x
    <3>. HIDE DEF S
    <3>. QED BY <2>1, <2>3
  <2>5. PICK f \in D : f[1] # <<>> /\ f[1][1] = x
      BY Zenon DEF BackupStamps
  <2>6. S = BackupStamps(D, x)
    <3>1. \A y : y \in S <=> \E g \in D : g[1] # <<>> /\ g[1][1] >= 0 /\ y = g[1][1]
        BY Zenon DEF BackupStamps
    <3>2. \A y : y \in BackupStamps(D, x) <=> \E g \in D : g[1] # <<>> /\ g[1][1] >= x /\ y = g[1][1]
        BY Zenon DEF BackupStamps
    <3>3. \A y \in S : y \in BackupStamps(D, x)
        BY <2>4, <3>1, <3>2
    <3>4. \A y \in BackupStamps(D, x) : y \in S
        BY SMTT(20), <2>4, <3>1, <3>2
    <3>. QED BY <3>3, <3>4, Zenon
  <2>. QED BY <2>5, <2>6
<1>. QED BY <1>1, <1>2

\* The backups of the log that getOldLogFiles finds are the files with a stamp.
LEMMA OldOnes ==
    ASSUME DOMAIN disk \subseteq CNames, \A f \in DOMAIN disk : f[1] # <<>> => Len(f[1]) = 1
    PROVE  /\ getOldLogFiles(TheLog) = {f \in DOMAIN disk : f[1] # <<>>}
           /\ \A f \in getOldLogFiles(TheLog) : StampOf(f) = f[1][1]
           /\ \A t : Newer(TheLog, t) = BackupStamps(DOMAIN disk, t)
<1>1. TheLog[1] = <<>> /\ Len(TheLog[1]) = 0
    BY DEF TheLog
<1>2. \A f \in DOMAIN disk : f[1] # <<>> => SubSeq(f[1], 1, 0) = <<>> /\ f[1][Len(f[1])] = f[1][1]
    BY OneName
<1>3. \A f \in DOMAIN disk : Len(f[1]) = 1 => f[1] # <<>>
    BY OneName
<1>4. \A f \in DOMAIN disk : f \in getOldLogFiles(TheLog) <=> f[1] # <<>>
    BY <1>1, <1>2, <1>3 DEF getOldLogFiles
<1>5. getOldLogFiles(TheLog) = {f \in DOMAIN disk : f[1] # <<>>}
    BY <1>4 DEF getOldLogFiles
<1>6. \A f \in getOldLogFiles(TheLog) : StampOf(f) = f[1][1]
    BY <1>2, <1>5 DEF StampOf
<1>7. ASSUME NEW t
      PROVE  Newer(TheLog, t) = BackupStamps(DOMAIN disk, t)
  <2>1. \A y : y \in Newer(TheLog, t) <=> \E g \in getOldLogFiles(TheLog) : StampOf(g) >= t /\ y = StampOf(g)
      BY DEF Newer
  <2>2. \A y : y \in BackupStamps(DOMAIN disk, t) <=> \E g \in DOMAIN disk : g[1] # <<>> /\ g[1][1] >= t /\ y = g[1][1]
      BY DEF BackupStamps
  <2>3. \A y : y \in Newer(TheLog, t) <=> y \in BackupStamps(DOMAIN disk, t)
      BY <1>5, <1>6, <2>1, <2>2
  <2>. QED BY <2>3, Zenon
<1>. QED BY <1>5, <1>6, <1>7

\* After s come only larger lines in t, if t is complete.
Before(s, t) == \A i \in DOMAIN s, j \in DOMAIN t : s[i] < t[j] \/ t[j] = 0

\* The names f and g that InTurn relates.
Follow(f, g) == f[1] # <<>> /\ (g[1] = <<>> \/ f[1][1] < g[1][1])
Making == chk.pc \in {"copy", "truncate"}

\* InTurn, in these words.
LEMMA TurnIs ==
    /\ InTurn <=> \A f, g \in DOMAIN disk : Follow(f, g) /\ ~(Making /\ f = chk.backup) => Before(disk[f], disk[g])
    /\ InTurn' <=> \A f, g \in DOMAIN disk' :
                      Follow(f, g) /\ ~(chk'.pc \in {"copy", "truncate"} /\ f = chk'.backup) => Before(disk'[f], disk'[g])
BY Zenon DEF InTurn, Follow, Making, Before

\* What OneStamp says of the stamps.
LEMMA StampsAre ==
    ASSUME CInv, OneStamp
    PROVE  \A f \in DOMAIN disk : f[1] # <<>> => Len(f[1]) = 1 /\ f[1][1] \in Nat /\ f[1][1] <= clock
BY OneName, Zenon DEF CInv, Typed, OneStamp

-----------------------------------------------------------------------------
(* What a step must do. *)

\* A step that adds no stamp, and that gives up the removal of no file.
LEMMA FewStays ==
    ASSUME CInv, OneStamp, Few,
           \A f \in DOMAIN disk' : f[1] # <<>> =>
               \E g \in DOMAIN disk : g[1] = f[1] /\ (f \notin chk'.remove => g \notin chk.remove),
           chk'.pc \in {"idle", "stopped", "stat"} => chk.pc \in {"idle", "stopped", "stat"},
           chk'.pc \in {"work", "zip", "unlink"} => chk.pc \in {"work", "zip", "unlink"}
    PROVE  Few'
<1>. DEFINE D == DOMAIN disk
            E == DOMAIN disk'
<1>1. clock \in Nat /\ maxBackups \in Nat
    BY CopyAssumption DEF CInv, Typed
<1>2. \A f \in D : f[1] # <<>> => f[1][1] \in Nat /\ f[1][1] <= clock
    BY StampsAre
<1>3. \A f \in E : f[1] # <<>> => \E g \in D : g[1] = f[1]
    OBVIOUS
<1>4. PICK n \in Nat : n = clock
    BY <1>1
<1>5. \A f \in D : f[1] # <<>> => f[1][1] \in Nat /\ f[1][1] <= n
    BY <1>2, <1>4
<1>6. ASSUME NEW t
      PROVE  /\ Cardinality(BackupStamps(E, t)) \in Nat /\ Cardinality(BackupStamps(D, t)) \in Nat
             /\ Cardinality(BackupStamps(E, t)) <= Cardinality(BackupStamps(D, t))
  <2>. HIDE DEF D, E
  <2>. QED BY <1>3, <1>5, StampsFewer, Zenon
<1>7. SUFFICES ASSUME maxBackups > 0
               PROVE  /\ chk'.pc \in {"idle", "stopped", "stat"} => Cardinality(BackupStamps(E, 0)) <= maxBackups
                      /\ chk'.pc \in {"work", "zip", "unlink"} =>
                            \A f \in E \ chk'.remove :
                                f[1] # <<>> => Cardinality(BackupStamps(E, f[1][1])) <= maxBackups
    BY Zenon DEF Few
<1>8. ASSUME chk'.pc \in {"idle", "stopped", "stat"}
      PROVE  Cardinality(BackupStamps(E, 0)) <= maxBackups
  <2>1. Cardinality(BackupStamps(D, 0)) <= maxBackups
      BY <1>7, <1>8 DEF Few
  <2>2. /\ Cardinality(BackupStamps(E, 0)) \in Nat /\ Cardinality(BackupStamps(D, 0)) \in Nat
        /\ Cardinality(BackupStamps(E, 0)) <= Cardinality(BackupStamps(D, 0))
      BY <1>6
  <2>. HIDE DEF D, E
  <2>. QED BY <1>1, <2>1, <2>2
<1>9. ASSUME chk'.pc \in {"work", "zip", "unlink"}, NEW f \in E \ chk'.remove, f[1] # <<>>
      PROVE  Cardinality(BackupStamps(E, f[1][1])) <= maxBackups
  <2>1. PICK g \in D : g[1] = f[1] /\ g \notin chk.remove
      BY <1>9
  <2>2. Cardinality(BackupStamps(D, g[1][1])) <= maxBackups
      BY <1>7, <1>9, <2>1 DEF Few
  <2>3. PICK t : t = f[1][1]
      OBVIOUS
  <2>4. /\ Cardinality(BackupStamps(E, t)) \in Nat /\ Cardinality(BackupStamps(D, t)) \in Nat
        /\ Cardinality(BackupStamps(E, t)) <= Cardinality(BackupStamps(D, t))
      BY <1>6
  <2>5. Cardinality(BackupStamps(D, t)) <= maxBackups
      BY <2>1, <2>2, <2>3
  <2>. HIDE DEF D, E
  <2>. QED BY <1>1, <2>3, <2>4, <2>5
<1>. QED BY <1>8, <1>9

\* A step that leaves the files alone and neither begins nor ends a copy.
LEMMA TurnStays ==
    ASSUME InTurn, UNCHANGED disk,
           \/ Making /\ chk'.pc \in {"copy", "truncate"} /\ chk'.backup = chk.backup
           \/ ~Making /\ chk'.pc \notin {"copy", "truncate"}
    PROVE  InTurn'
BY TurnIs

-----------------------------------------------------------------------------
(* The steps that leave the files alone. *)

\* A file, or a check, is done with when every backup is compressed and there
\* are few of them.
LEMMA RestingTurn ==
    ASSUME CInv, TInv, UNCHANGED <<lines, disk, clock>>, ~Making,
           \A f \in DOMAIN disk : f[1] # <<>> => f[2] # "log",
           maxBackups > 0 => Cardinality(BackupStamps(DOMAIN disk, 0)) <= maxBackups,
           NEW p \in {"idle", "stat"}, NEW S \in SUBSET {TheLog},
           chk' = [pc |-> p, files |-> S, file |-> TheLog, backup |-> TheLog, remove |-> {}, compress |-> {}]
    PROVE  TInv'
<1>1. chk'.pc = p /\ chk'.files = S /\ chk'.file = TheLog
    OBVIOUS
<1>2. OneStamp'
    BY <1>1, Zenon DEF TInv, OneStamp
<1>3. Zipping'
    BY <1>1, Zenon DEF Zipping
<1>4. Latest'
    BY <1>1, Zenon DEF TInv, Latest
<1>5. InTurn'
    BY <1>1, TurnStays, Zenon DEF TInv
<1>6. Few'
    BY <1>1, Zenon DEF Few
<1>. QED BY SMTT(20), <1>2, <1>3, <1>4, <1>5, <1>6 DEF TInv

\* The file to look at is the log.
LEMMA FirstIsLog ==
    ASSUME OneStamp, chk.files # {}
    PROVE  First = TheLog
<1>1. chk.files = {TheLog}
    BY DEF OneStamp
<1>2. TheLog \in chk.files /\ \A g \in chk.files \ {TheLog} : Sorts(TheLog, g)
    BY <1>1
<1>3. First \in chk.files
    BY <1>2 DEF First
<1>. QED BY <1>1, <1>3

\* Looking for files, and being done with them.
LEMMA CheckTurn ==
    ASSUME CInv, TInv, Check \/ CheckStops \/ NothingToDo \/ CheckDone
    PROVE  TInv'
<1>1. CASE Check
  <2>1. chk.pc = "idle" /\ UNCHANGED <<lines, disk, clock>>
      BY <1>1 DEF Check
  <2>2. \A f \in DOMAIN disk : f[1] # <<>> => f[2] # "log"
      BY <2>1 DEF TInv, Zipping
  <2>3. \A f \in DOMAIN disk : f[1] = <<>> /\ f[2] = "log" => f = TheLog
      BY NamesDiffer DEF CInv, Typed
  <2>4. GetOriginLogFiles \in SUBSET {TheLog}
      BY <2>2, <2>3 DEF GetOriginLogFiles
  <2>5. PICK S \in SUBSET {TheLog} : chk' = [Resting EXCEPT !.pc = "stat", !.files = S]
      BY <1>1, <2>4, Zenon DEF Check
  <2>6. chk' = [pc |-> "stat", files |-> S, file |-> TheLog, backup |-> TheLog, remove |-> {}, compress |-> {}]
      BY <2>5, Zenon DEF Resting
  <2>7. ~Making /\ (maxBackups > 0 => Cardinality(BackupStamps(DOMAIN disk, 0)) <= maxBackups)
      BY <2>1 DEF TInv, Few, Making
  <2>. QED BY <2>1, <2>2, <2>6, <2>7, RestingTurn
<1>2. CASE CheckStops
  <2>1. chk.pc = "idle" /\ chk' = [chk EXCEPT !.pc = "stopped"] /\ UNCHANGED <<lines, disk, clock>>
      BY <1>2 DEF CheckStops
  <2>2. chk'.pc = "stopped" /\ UNCHANGED <<chk.files, chk.file, chk.backup, chk.remove, chk.compress>>
      BY <2>1 DEF CInv, Typed
  <2>3. OneStamp' /\ Zipping' /\ Latest'
      BY <2>1, <2>2 DEF TInv, OneStamp, Zipping, Latest
  <2>4. InTurn'
      BY <2>1, <2>2, TurnStays DEF TInv, Making
  <2>5. Few'
      BY <2>1, <2>2 DEF TInv, Few
  <2>. QED BY <2>3, <2>4, <2>5 DEF TInv
<1>3. CASE NothingToDo
  <2>1. chk.pc = "stat" /\ UNCHANGED <<lines, disk, clock>>
      BY <1>3 DEF NothingToDo
  <2>2. \A f \in DOMAIN disk : f[1] # <<>> => f[2] # "log"
      BY <2>1 DEF TInv, Zipping
  <2>3. ~Making /\ (maxBackups > 0 => Cardinality(BackupStamps(DOMAIN disk, 0)) <= maxBackups)
      BY <2>1 DEF TInv, Few, Making
  <2>4. CASE chk.files = {}
    <3>1. chk' = [pc |-> "idle", files |-> {}, file |-> TheLog, backup |-> TheLog, remove |-> {}, compress |-> {}]
        BY <1>3, <2>4 DEF NothingToDo, Resting
    <3>. QED BY SMTT(20), <2>1, <2>2, <2>3, <3>1, RestingTurn
  <2>5. CASE chk.files # {}
    <3>1. PICK S \in SUBSET {TheLog} : S = chk.files \ {First}
        BY Zenon DEF TInv, OneStamp
    <3>2. chk' = [pc |-> "stat", files |-> S, file |-> TheLog, backup |-> TheLog, remove |-> {}, compress |-> {}]
        BY <1>3, <2>5, <3>1, Zenon DEF NothingToDo, NextFile, Resting
    <3>. QED BY <2>1, <2>2, <2>3, <3>2, RestingTurn
  <2>. QED BY <2>4, <2>5
<1>4. CASE CheckDone
  <2>1. chk.pc = "work" /\ chk.remove = {} /\ chk.compress = {} /\ UNCHANGED <<lines, disk, clock>>
      BY <1>4 DEF CheckDone
  <2>2. \A f \in DOMAIN disk : f[1] # <<>> => f[2] # "log"
      BY <2>1 DEF TInv, Zipping
  <2>3. ASSUME maxBackups > 0
        PROVE  Cardinality(BackupStamps(DOMAIN disk, 0)) <= maxBackups
    <3>1. \A f \in DOMAIN disk : f[1] # <<>> => Cardinality(BackupStamps(DOMAIN disk, f[1][1])) <= maxBackups
        BY <2>1, <2>3 DEF TInv, Few
    <3>2. \A f \in DOMAIN disk : f[1] # <<>> => f[1][1] \in Nat /\ f[1][1] <= clock
        BY StampsAre DEF TInv
    <3>7. PICK D : D = DOMAIN disk
        OBVIOUS
    <3>8. PICK n \in Nat : n = clock
        BY DEF CInv, Typed
    <3>4. maxBackups \in Nat
        BY CopyAssumption
    <3>5. /\ \A f \in D : f[1] # <<>> => Cardinality(BackupStamps(D, f[1][1])) <= maxBackups
          /\ \A f \in D : f[1] # <<>> => f[1][1] \in Nat /\ f[1][1] <= n
        BY <3>1, <3>2, <3>7, <3>8
    <3>6. Cardinality(BackupStamps(D, 0)) <= maxBackups
        BY <3>4, <3>5, AllFew
    <3>. QED BY <3>7, <3>6
  <2>4. PICK S \in SUBSET {TheLog} : S = chk.files \ {First}
      BY Zenon DEF TInv, OneStamp
  <2>5. chk' = [pc |-> "stat", files |-> S, file |-> TheLog, backup |-> TheLog, remove |-> {}, compress |-> {}]
      BY <1>4, <2>4, Zenon DEF CheckDone, NextFile, Resting
  <2>6. ~Making
      BY <2>1 DEF Making
  <2>. QED BY <2>1, <2>2, <2>3, <2>5, <2>6, RestingTurn
<1>. QED BY SMTT(20), <1>1, <1>2, <1>3, <1>4

\* The copy is complete, or time goes by.
LEMMA MovesOnTurn ==
    ASSUME CInv, TInv, CopyEnds \/ CopyTick
    PROVE  TInv'
<1>1. CASE CopyEnds
  <2>1. chk.pc = "copy" /\ chk' = [chk EXCEPT !.pc = "truncate"] /\ UNCHANGED <<lines, disk, clock>>
      BY <1>1 DEF CopyEnds
  <2>2. chk'.pc = "truncate" /\ UNCHANGED <<chk.files, chk.file, chk.backup, chk.remove, chk.compress>>
      BY <2>1 DEF CInv, Typed
  <2>3. OneStamp' /\ Zipping' /\ Latest'
      BY <2>1, <2>2 DEF TInv, OneStamp, Zipping, Latest
  <2>4. InTurn'
      BY <2>1, <2>2, TurnStays DEF TInv, Making
  <2>5. Few'
      BY SMTT(20), <2>2 DEF Few
  <2>. QED BY <2>3, <2>4, <2>5 DEF TInv
<1>2. CASE CopyTick
  <2>1. clock \in Nat /\ clock' = clock + 1 /\ UNCHANGED <<lines, disk, chk>>
      BY <1>2 DEF CopyTick, CInv, Typed
  <2>2. OneStamp'
    <3>1. \A f \in DOMAIN disk : f[1] # <<>> => Len(f[1]) = 1 /\ f[1][1] <= clock + 1
        BY <2>1, StampsAre DEF TInv
    <3>. QED BY <2>1, <3>1 DEF TInv, OneStamp
  <2>. QED BY <2>1, <2>2 DEF TInv, Zipping, Latest, InTurn, Few
<1>. QED BY <1>1, <1>2

\* The old backups are listed: what is not to be removed is few.
LEMMA ListTurn ==
    ASSUME CInv, TInv, ListOld
    PROVE  TInv'
<1>. DEFINE old == getOldLogFiles(TheLog)
            many == {g \in old : maxBackups > 0 /\ Cardinality(Newer(TheLog, StampOf(g))) > maxBackups}
            aged == {g \in old \ many : maxAge > 0 /\ StampOf(g) < clock - maxAge}
            zips == {g \in old \ (many \cup aged) : g[2] = "log"}
<1>1. chk' = [chk EXCEPT !.pc = "work", !.remove = many \cup aged, !.compress = zips]
    BY DEF ListOld, TInv, OneStamp
<1>2. chk.pc = "list" /\ UNCHANGED <<lines, disk, clock>>
    BY DEF ListOld
<1>3. /\ chk'.pc = "work" /\ UNCHANGED <<chk.files, chk.file, chk.backup>>
      /\ chk'.remove = many \cup aged /\ chk'.compress = zips
  <2>. HIDE DEF many, aged, zips
  <2>. QED BY <1>1 DEF CInv, Typed
<1>4. /\ old = {f \in DOMAIN disk : f[1] # <<>>}
      /\ \A f \in old : StampOf(f) = f[1][1]
      /\ \A t : Newer(TheLog, t) = BackupStamps(DOMAIN disk, t)
    BY OldOnes, Zenon DEF TInv, OneStamp, CInv, Typed
<1>5. OneStamp' /\ Latest'
    BY <1>2, <1>3, Zenon DEF TInv, OneStamp, Latest
<1>6. InTurn'
    BY <1>2, <1>3, TurnStays, Zenon DEF TInv, Making
<1>7. Zipping'
  <2>1. \A f \in old : f[2] = "log" => f \in (many \cup aged) \cup zips
      OBVIOUS
  <2>. HIDE DEF many, aged, zips
  <2>. QED BY <1>2, <1>3, <1>4, <2>1, Zenon DEF TInv, Zipping
<1>8. Few'
  <2>1. SUFFICES ASSUME maxBackups > 0, NEW f \in DOMAIN disk, f \notin many, f[1] # <<>>
                 PROVE  Cardinality(BackupStamps(DOMAIN disk, f[1][1])) <= maxBackups
    <3>. HIDE DEF many, aged, zips
    <3>. QED BY <1>2, <1>3 DEF Few
  <2>2. f \in old /\ StampOf(f) = f[1][1]
      BY <1>4, <2>1
  <2>3. ~(Cardinality(Newer(TheLog, StampOf(f))) > maxBackups)
      BY <2>1, <2>2
  <2>4. PICK D, t : D = DOMAIN disk /\ t = f[1][1]
      OBVIOUS
  <2>10. PICK n \in Nat : n = clock
      BY DEF CInv, Typed
  <2>5. \A g \in D : g[1] # <<>> => g[1][1] \in Nat /\ g[1][1] <= n
      BY <2>4, <2>10, StampsAre DEF TInv
  <2>6. Cardinality(BackupStamps(D, t)) \in Nat
      BY <2>5, StampsFinite, FS_CardinalityType
  <2>7. ~(Cardinality(BackupStamps(D, t)) > maxBackups)
      BY <1>4, <2>2, <2>3, <2>4
  <2>8. maxBackups \in Nat
      BY CopyAssumption
  <2>9. Cardinality(BackupStamps(D, t)) <= maxBackups
      BY <2>6, <2>7, <2>8
  <2>. QED BY <2>4, <2>9
<1>. QED BY <1>5, <1>6, <1>7, <1>8 DEF TInv

-----------------------------------------------------------------------------
(* The steps that write or remove a file. *)

\* The application appends: the new line is the largest.
LEMMA AppendTurn ==
    ASSUME CInv, TInv, AppendLine
    PROVE  TInv'
<1>. DEFINE old == IF TheLog \in DOMAIN disk THEN disk[TheLog] ELSE <<>>
<1>1. lines' = lines + 1 /\ disk' = Put(TheLog, Append(old, lines + 1)) /\ UNCHANGED <<chk, clock>>
    BY DEF AppendLine
<1>2. old \in Seq(Nat) /\ lines \in Nat
    BY DEF CInv, Typed
<1>3. PICK s \in Seq(Nat) : /\ disk' = Put(TheLog, s) /\ DOMAIN s = 1..(Len(old) + 1) /\ s[Len(old) + 1] = lines + 1
                            /\ \A i \in 1..Len(old) : s[i] = old[i]
  <2>1. lines + 1 \in Nat
      BY <1>2
  <2>2. PICK x \in Nat : x = lines + 1
      BY <2>1
  <2>. HIDE DEF old
  <2>3. /\ Append(old, x) \in Seq(Nat) /\ Len(Append(old, x)) = Len(old) + 1
        /\ Append(old, x)[Len(old) + 1] = x /\ \A i \in 1..Len(old) : Append(old, x)[i] = old[i]
      BY <1>2
  <2>4. DOMAIN Append(old, x) = 1..(Len(old) + 1)
      BY <2>3
  <2>5. disk' = Put(TheLog, Append(old, x))
      BY <1>1, <2>2
  <2>. QED BY <2>2, <2>3, <2>4, <2>5, Zenon
<1>4. /\ DOMAIN disk' = DOMAIN disk \cup {TheLog} /\ disk'[TheLog] = s
      /\ \A g \in DOMAIN disk : g # TheLog => disk'[g] = disk[g]
    BY <1>3, PutFacts, Zenon
<1>5. TheLog[1] = <<>> /\ TheLog[2] = "log"
    BY DEF TheLog
<1>6. Len(old) \in Nat /\ DOMAIN old = 1..Len(old)
    BY <1>2
<1>7. \A i \in DOMAIN s : (i \in DOMAIN old /\ s[i] = old[i]) \/ s[i] = lines + 1
  <2>. HIDE DEF old
  <2>. QED BY SMTT(20), <1>3, <1>6
<1>8. OneStamp' /\ Zipping'
    BY <1>1, <1>4, <1>5, Zenon DEF TInv, OneStamp, Zipping
<1>9. ASSUME NEW f \in DOMAIN disk
      PROVE  \A i \in DOMAIN disk[f] : disk[f][i] \in Nat /\ disk[f][i] <= lines
    BY DEF TInv, Latest, CInv, Typed
<1>10. Latest'
  <2>1. ASSUME NEW f \in DOMAIN disk', NEW i \in DOMAIN disk'[f]
        PROVE  disk'[f][i] <= lines + 1
    <3>1. CASE f = TheLog
      <4>1. CASE i \in DOMAIN old /\ s[i] = old[i]
        <5>1. TheLog \in DOMAIN disk /\ old = disk[TheLog]
          <6>1. DOMAIN <<>> = {}
              OBVIOUS
          <6>. QED BY <4>1, <6>1
        <5>2. disk[TheLog][i] \in Nat /\ disk[TheLog][i] <= lines
            BY <1>9, <4>1, <5>1
        <5>3. disk'[f][i] = disk[TheLog][i]
            BY <1>4, <3>1, <4>1, <5>1
        <5>. QED BY <1>2, <5>2, <5>3
      <4>2. CASE s[i] = lines + 1
          BY <1>2, <1>4, <3>1, <4>2
      <4>. QED BY <1>4, <1>7, <2>1, <3>1, <4>1, <4>2
    <3>2. CASE f # TheLog
        BY SMTT(20), <1>2, <1>4, <1>9, <2>1, <3>2
    <3>. QED BY <3>1, <3>2
  <2>2. chk'.pc \in {"copy", "truncate"} =>
          \A g \in DOMAIN disk' : g[1] # <<>> /\ g # chk'.backup => g[1][1] < chk'.backup[1][1]
      BY <1>1, <1>4, <1>5 DEF TInv, Latest
  <2>. QED BY <1>1, <2>1, <2>2 DEF Latest
<1>11. InTurn'
  <2>1. SUFFICES ASSUME NEW f \in DOMAIN disk', NEW g \in DOMAIN disk', Follow(f, g), ~(Making /\ f = chk.backup)
                 PROVE  Before(disk'[f], disk'[g])
      BY <1>1, TurnIs DEF Making
  <2>2. f \in DOMAIN disk /\ f # TheLog /\ disk'[f] = disk[f]
      BY SMTT(20), <1>4, <1>5, <2>1 DEF Follow
  <2>3. CASE g = TheLog
    <3>1. SUFFICES ASSUME NEW i \in DOMAIN disk[f], NEW j \in DOMAIN s
                   PROVE  disk[f][i] < s[j] \/ s[j] = 0
        BY <1>4, <2>2, <2>3 DEF Before
    <3>2. CASE j \in DOMAIN old /\ s[j] = old[j]
      <4>1. TheLog \in DOMAIN disk /\ old = disk[TheLog]
        <5>1. DOMAIN <<>> = {}
            BY SMTT(20)
        <5>. QED BY <3>2, <5>1
      <4>2. Before(disk[f], disk[TheLog])
          BY <2>1, <2>2, <2>3, <4>1, TurnIs DEF TInv
      <4>. QED BY <3>1, <3>2, <4>1, <4>2 DEF Before
    <3>3. CASE s[j] = lines + 1
        BY SMTT(20), <1>2, <1>9, <2>2, <3>1, <3>3
    <3>. QED BY SMTT(20), <1>7, <3>1, <3>2, <3>3
  <2>4. CASE g # TheLog
    <3>1. g \in DOMAIN disk /\ disk'[g] = disk[g]
        BY <1>4, <2>1, <2>4
    <3>. QED BY <2>1, <2>2, <3>1, TurnIs DEF TInv
  <2>. QED BY <2>3, <2>4
<1>12. Few'
    BY <1>1, <1>4, <1>5, FewStays DEF TInv
<1>. QED BY <1>8, <1>10, <1>11, <1>12 DEF TInv

\* The backup of the log gets the stamp of now, which no other has.
LEMMA CreateTurn ==
    ASSUME CInv, TInv, CreateBackup
    PROVE  TInv'
<1>1. chk.pc = "stat" /\ chk.files # {} /\ UNCHANGED <<lines, clock>> /\ First = TheLog
    BY FirstIsLog DEF CreateBackup, TInv
<1>2. PICK b : /\ b = <<Append(TheLog[1], clock), "log">>
               /\ b \notin DOMAIN disk /\ <<b[1], "gz">> \notin DOMAIN disk
               /\ disk' = Put(b, <<>>) /\ chk' = [chk EXCEPT !.pc = "copy", !.file = TheLog, !.backup = b]
    BY <1>1, Zenon DEF CreateBackup
<1>3. clock \in Nat /\ Append(<<>>, clock) = <<clock>>
    BY DEF CInv, Typed
<1>4. b = <<<<clock>>, "log">> /\ b[1] = <<clock>> /\ b[2] = "log" /\ b[1] # <<>> /\ Len(b[1]) = 1 /\ b[1][1] = clock
    BY <1>2, <1>3 DEF TheLog
<1>5. /\ DOMAIN disk' = DOMAIN disk \cup {b} /\ disk'[b] = <<>>
      /\ \A g \in DOMAIN disk : disk'[g] = disk[g]
    BY <1>2, PutFacts, Zenon
<1>6. chk'.pc = "copy" /\ chk'.file = TheLog /\ chk'.backup = b /\ chk'.files = chk.files
    BY <1>2, Zenon DEF CInv, Typed
<1>7. OneStamp'
    BY <1>1, <1>3, <1>4, <1>5, <1>6 DEF TInv, OneStamp
<1>8. Zipping'
    BY <1>1, <1>5, <1>6 DEF TInv, Zipping
<1>9. ASSUME NEW g \in DOMAIN disk, g[1] # <<>>
      PROVE  g[1][1] < clock
  <2>1. g \in CNames /\ Len(g[1]) = 1 /\ g[1][1] \in Nat /\ g[1][1] <= clock
      BY <1>9, StampsAre DEF CInv, Typed, TInv
  <2>2. g[1] = <<g[1][1]>> /\ g = <<g[1], g[2]>> /\ g[2] \in {"log", "gz"}
      BY <2>1, OneName, NamesDiffer
  <2>3. g[1][1] # clock
      BY <1>2, <1>4, <2>2
  <2>. QED BY <1>3, <2>1, <2>3
<1>10. Latest'
  <2>1. DOMAIN <<>> = {}
      OBVIOUS
  <2>2. \A f \in DOMAIN disk' : \A i \in DOMAIN disk'[f] : disk'[f][i] <= lines
      BY <1>5, <2>1 DEF TInv, Latest
  <2>3. \A g \in DOMAIN disk' : g[1] # <<>> /\ g # b => g[1][1] < b[1][1]
      BY <1>4, <1>5, <1>9
  <2>. QED BY <1>1, <1>6, <2>2, <2>3 DEF Latest
<1>11. InTurn'
  <2>1. SUFFICES ASSUME NEW f \in DOMAIN disk', NEW g \in DOMAIN disk', Follow(f, g), f # b
                 PROVE  Before(disk'[f], disk'[g])
      BY <1>6, TurnIs
  <2>2. CASE g = b
    <3>1. DOMAIN <<>> = {}
        OBVIOUS
    <3>. QED BY <1>5, <2>2, <3>1 DEF Before
  <2>3. CASE g # b
      BY <1>1, <1>5, <2>1, <2>3, TurnIs DEF TInv, Making
  <2>. QED BY <2>2, <2>3
<1>12. Few'
    BY <1>6 DEF Few
<1>. QED BY <1>7, <1>8, <1>10, <1>11, <1>12 DEF TInv

\* A line is copied: the backup is still the beginning of the log.
LEMMA CopyLineTurn ==
    ASSUME CInv, TInv, CInv', CopyLine
    PROVE  TInv'
<1>1. chk.pc = "copy" /\ UNCHANGED <<lines, chk, clock>> /\ chk.file = TheLog
    BY Zenon DEF CopyLine, TInv, OneStamp
<1>2. PICK b \in DOMAIN disk : b = chk.backup /\ Below(b, TheLog) /\ TheLog \in DOMAIN disk
    BY <1>1, Zenon DEF CInv, Copied
<1>3. b # TheLog /\ TheLog[1] = <<>>
    BY <1>2 DEF Below, TheLog
<1>4. PICK s : disk' = Put(b, s)
    BY <1>2, Zenon DEF CopyLine
<1>5. DOMAIN disk' = DOMAIN disk /\ \A g \in DOMAIN disk : g # b => disk'[g] = disk[g]
  <2>1. DOMAIN disk \cup {b} = DOMAIN disk
      BY <1>2
  <2>. QED BY <1>4, <2>1, PutFacts, Zenon
<1>6. /\ Len(disk'[b]) <= Len(disk'[TheLog])
      /\ \A i \in 1..Len(disk'[b]) : disk'[b][i] = disk'[TheLog][i]
    BY <1>1, <1>2, Zenon DEF CInv, Copied
<1>7. disk'[b] \in Seq(Nat) /\ disk'[TheLog] \in Seq(Nat) /\ disk'[TheLog] = disk[TheLog]
    BY <1>2, <1>3, <1>5 DEF CInv, Typed
<1>8. \A i \in DOMAIN disk'[b] : i \in DOMAIN disk[TheLog] /\ disk'[b][i] = disk[TheLog][i]
  <2>1. PICK u \in Seq(Nat), t \in Seq(Nat) : u = disk'[b] /\ t = disk'[TheLog]
      BY <1>7
  <2>2. /\ Len(u) \in Nat /\ Len(t) \in Nat /\ DOMAIN u = 1..Len(u) /\ DOMAIN t = 1..Len(t)
        /\ Len(u) <= Len(t) /\ \A i \in 1..Len(u) : u[i] = t[i]
      BY <1>6, <2>1
  <2>3. \A i \in DOMAIN u : i \in DOMAIN t /\ u[i] = t[i]
      BY <2>2
  <2>. QED BY <1>7, <2>1, <2>3
<1>9. OneStamp' /\ Zipping'
    BY <1>1, <1>5 DEF TInv, OneStamp, Zipping
<1>10. Latest'
  <2>1. \A f \in DOMAIN disk' : \A i \in DOMAIN disk'[f] : disk'[f][i] <= lines
      BY <1>2, <1>5, <1>8 DEF TInv, Latest
  <2>. QED BY <1>1, <1>5, <2>1, Zenon DEF TInv, Latest
<1>11. InTurn'
  <2>1. SUFFICES ASSUME NEW f \in DOMAIN disk, NEW g \in DOMAIN disk, Follow(f, g), f # b
                 PROVE  Before(disk'[f], disk'[g])
      BY <1>1, <1>2, <1>5, TurnIs
  <2>2. disk'[f] = disk[f]
      BY <1>5, <2>1
  <2>3. CASE g = b
    <3>1. Follow(f, TheLog)
        BY <1>3, <2>1 DEF Follow
    <3>2. Before(disk[f], disk[TheLog])
        BY <1>2, <2>1, <3>1, TurnIs DEF TInv
    <3>. QED BY <1>8, <2>2, <2>3, <3>2 DEF Before
  <2>4. CASE g # b
      BY <1>2, <1>5, <2>1, <2>2, <2>4, TurnIs DEF TInv
  <2>. QED BY SMTT(20), <2>3, <2>4
<1>12. Few'
    BY <1>1 DEF Few
<1>. QED BY <1>9, <1>10, <1>11, <1>12 DEF TInv

\* The log is emptied: the backup now stands for its lines.
LEMMA TruncateTurn ==
    ASSUME CInv, TInv, TruncateLog
    PROVE  TInv'
<1>1. /\ chk.pc = "truncate" /\ UNCHANGED <<lines, clock>> /\ chk.file = TheLog
      /\ disk' = Put(TheLog, <<>>) /\ chk' = [chk EXCEPT !.pc = "list"]
    BY DEF TruncateLog, TInv, OneStamp
<1>2. PICK b \in DOMAIN disk : b = chk.backup /\ TheLog \in DOMAIN disk
    BY <1>1 DEF CInv, Copied
<1>3. TheLog[1] = <<>>
    BY DEF TheLog
<1>4. /\ DOMAIN disk' = DOMAIN disk /\ disk'[TheLog] = <<>>
      /\ \A g \in DOMAIN disk : g # TheLog => disk'[g] = disk[g]
  <2>1. DOMAIN disk \cup {TheLog} = DOMAIN disk
      BY <1>2
  <2>. QED BY <1>1, <2>1, PutFacts, Zenon
<1>5. chk'.pc = "list" /\ UNCHANGED <<chk.files, chk.file, chk.backup, chk.remove, chk.compress>>
    BY <1>1 DEF CInv, Typed
<1>6. DOMAIN <<>> = {}
    OBVIOUS
<1>7. OneStamp' /\ Zipping'
    BY <1>1, <1>4, <1>5 DEF TInv, OneStamp, Zipping
<1>8. Latest'
  <2>1. \A f \in DOMAIN disk' : \A i \in DOMAIN disk'[f] : disk'[f][i] <= lines
      BY <1>4, <1>6 DEF TInv, Latest
  <2>. QED BY <1>1, <1>5, <2>1 DEF Latest
<1>9. InTurn'
  <2>1. SUFFICES ASSUME NEW f \in DOMAIN disk, NEW g \in DOMAIN disk, Follow(f, g)
                 PROVE  Before(disk'[f], disk'[g])
      BY <1>4, TurnIs
  <2>2. CASE g = TheLog
      BY <1>4, <1>6, <2>2 DEF Before
  <2>3. CASE g # TheLog
    <3>1. f # TheLog /\ disk'[f] = disk[f] /\ disk'[g] = disk[g]
        BY <1>3, <1>4, <2>1, <2>3 DEF Follow
    <3>2. g[1] # <<>> /\ f[1] # <<>> /\ f[1][1] < g[1][1]
      <4>1. g[1] = <<>> => g[2] = "log"
          BY NamesDiffer DEF CInv, Named, Typed
      <4>2. g[1] # <<>>
          BY <2>3, <4>1, NamesDiffer DEF CInv, Typed
      <4>. QED BY <2>1, <4>2 DEF Follow
    <3>3. f # b
      <4>1. ASSUME f = b
            PROVE  FALSE
        <5>1. g # b
          <6>1. f[1][1] \in Nat
              BY <3>2, StampsAre DEF TInv
          <6>. QED BY <3>2, <4>1, <6>1
        <5>2. g[1][1] < b[1][1]
            BY <1>1, <1>2, <3>2, <5>1 DEF TInv, Latest
        <5>3. f[1][1] \in Nat /\ g[1][1] \in Nat
            BY <3>2, StampsAre DEF TInv
        <5>. QED BY <3>2, <4>1, <5>2, <5>3
      <4>. QED BY <4>1
    <3>. QED BY <1>2, <2>1, <3>1, <3>3, TurnIs DEF TInv
  <2>. QED BY <2>2, <2>3
<1>10. Few'
    BY <1>5 DEF Few
<1>. QED BY <1>7, <1>8, <1>9, <1>10 DEF TInv

\* A file with a stamp is removed, in a step that begins no copy.
LEMMA RemovedTurn ==
    ASSUME CInv, TInv, NEW x \in DOMAIN disk, disk' = Unlink(x), UNCHANGED <<lines, clock>>,
           chk'.pc = "work", ~Making, UNCHANGED <<chk.files, chk.file>>
    PROVE  OneStamp' /\ Latest' /\ InTurn'
<1>1. DOMAIN disk' = DOMAIN disk \ {x} /\ \A g \in DOMAIN disk' : disk'[g] = disk[g]
    BY SMTT(20), UnlinkFacts
<1>2. OneStamp' /\ Latest'
    BY <1>1, Zenon DEF TInv, OneStamp, Latest
<1>3. InTurn'
    BY <1>1, TurnIs DEF TInv
<1>. QED BY SMTT(20), <1>2, <1>3

\* An old backup is removed.
LEMMA RemoveTurn ==
    ASSUME CInv, TInv, NEW x \in chk.remove, RemoveOld(x), disk' = Unlink(x)
    PROVE  TInv'
<1>1. chk.pc = "work" /\ chk' = [chk EXCEPT !.remove = @ \ {x}] /\ UNCHANGED <<lines, clock>>
    BY DEF RemoveOld
<1>2. /\ chk'.pc = "work" /\ chk'.remove = chk.remove \ {x}
      /\ UNCHANGED <<chk.files, chk.file, chk.backup, chk.compress>>
    BY <1>1 DEF CInv, Typed
<1>3. x \in DOMAIN disk
    BY DEF CInv, Chosen
<1>4. DOMAIN disk' = DOMAIN disk \ {x}
    BY UnlinkFacts, Zenon
<1>5. OneStamp' /\ Latest' /\ InTurn'
    BY <1>1, <1>2, <1>3, RemovedTurn DEF Making
<1>6. Zipping'
    BY <1>1, <1>2, <1>4 DEF TInv, Zipping
<1>7. Few'
    BY <1>1, <1>2, <1>4, FewStays DEF TInv
<1>. QED BY <1>5, <1>6, <1>7 DEF TInv

\* The compressed copy of a backup is written: what it holds is in its place.
LEMMA ZippedTurn ==
    ASSUME CInv, TInv, NEW b \in DOMAIN disk, b[2] = "log", b[1] # <<>>, NEW s \in Seq(Nat),
           \A i \in DOMAIN s : s[i] = 0 \/ Holds(b, s[i]), disk' = Put(Gz(b), s),
           UNCHANGED <<lines, clock>>, ~Making, chk'.pc \in {"zip", "unlink"},
           chk.pc \in {"work", "zip"}, chk.remove = {}, chk'.remove = {}, chk'.compress = {},
           chk'.backup = b, UNCHANGED <<chk.file, chk.files>>
    PROVE  TInv'
<1>1. b \in CNames /\ Gz(b) \in CNames /\ Gz(b)[1] = b[1] /\ Gz(b)[2] = "gz"
    BY NamesDiffer, Zenon DEF CInv, Typed
<1>2. /\ DOMAIN disk' = DOMAIN disk \cup {Gz(b)} /\ disk'[Gz(b)] = s
      /\ \A g \in DOMAIN disk : g # Gz(b) => disk'[g] = disk[g]
  <2>1. disk' = Put(Gz(b), s)
      OBVIOUS
  <2>2. DOMAIN disk' = DOMAIN disk \cup {Gz(b)}
      BY <2>1, Zenon DEF Put
  <2>. QED BY <2>1, <2>2, Zenon DEF Put
<1>3. OneStamp'
  <2>1. \A f \in DOMAIN disk : f[1] # <<>> => Len(f[1]) = 1 /\ f[1][1] <= clock
      BY Zenon DEF TInv, OneStamp
  <2>2. Len(Gz(b)[1]) = 1 /\ Gz(b)[1][1] <= clock
      BY <1>1, <2>1, Zenon
  <2>3. chk'.file = TheLog /\ chk'.files \subseteq {TheLog}
      BY Zenon DEF TInv, OneStamp
  <2>. QED BY <1>2, <2>1, <2>2, <2>3, Zenon DEF OneStamp
<1>4. Zipping'
  <2>1. \A f \in DOMAIN disk : f[1] # <<>> /\ f[2] = "log" => f = b
      BY Zenon DEF TInv, Zipping
  <2>. QED BY <1>1, <1>2, <2>1, Zenon DEF Zipping
<1>5. lines \in Nat /\ \A f \in DOMAIN disk : disk[f] \in Seq(Nat)
    BY Zenon DEF CInv, Typed
<1>6. \A i \in DOMAIN s : s[i] = 0 \/ \E k \in DOMAIN disk[b] : s[i] = disk[b][k]
    BY Zenon DEF Holds
<1>7. Latest'
  <2>1. \A i \in DOMAIN s : s[i] <= lines
      BY SMTT(20), <1>5, <1>6 DEF TInv, Latest
  <2>2. \A f \in DOMAIN disk' : \A i \in DOMAIN disk'[f] : disk'[f][i] <= lines
      BY SMTT(20), <1>2, <2>1 DEF TInv, Latest
  <2>. QED BY <2>2, Zenon DEF Latest
<1>8. InTurn'
  <2>1. SUFFICES ASSUME NEW f \in DOMAIN disk', NEW g \in DOMAIN disk', Follow(f, g)
                 PROVE  Before(disk'[f], disk'[g])
      BY TurnIs
  <2>2. \A x, y \in DOMAIN disk : Follow(x, y) => Before(disk[x], disk[y])
      BY TurnIs, Zenon DEF TInv
  <2>3. CASE f = Gz(b)
    <3>1. g # Gz(b)
      <4>1. b[1][1] \in Nat
          BY StampsAre, Zenon DEF TInv
      <4>. QED BY SMTT(20), <1>1, <2>1, <2>3, <4>1 DEF Follow
    <3>2. g \in DOMAIN disk /\ disk'[g] = disk[g]
        BY <1>2, <3>1, Zenon
    <3>3. Before(disk[b], disk[g])
        BY SMTT(20), <1>1, <2>1, <2>2, <2>3, <3>2 DEF Follow
    <3>4. SUFFICES ASSUME NEW i \in DOMAIN s, NEW j \in DOMAIN disk[g]
                   PROVE  s[i] < disk[g][j] \/ disk[g][j] = 0
        BY SMTT(20), <1>2, <2>3, <3>2 DEF Before
    <3>5. disk[g][j] \in Nat
        BY SMTT(20), <1>5, <3>2
    <3>6. CASE s[i] = 0
        BY SMTT(20), <3>5, <3>6
    <3>7. CASE \E k \in DOMAIN disk[b] : s[i] = disk[b][k]
        BY <3>3, <3>7, Zenon DEF Before
    <3>. QED BY <1>6, <3>6, <3>7, Zenon
  <2>4. CASE f # Gz(b) /\ g = Gz(b)
    <3>1. f \in DOMAIN disk /\ disk'[f] = disk[f]
        BY <1>2, <2>4, Zenon
    <3>2. Before(disk[f], disk[b])
        BY SMTT(20), <1>1, <2>1, <2>2, <2>4, <3>1 DEF Follow
    <3>. QED BY SMTT(20), <1>2, <1>6, <2>4, <3>1, <3>2 DEF Before
  <2>5. CASE f # Gz(b) /\ g # Gz(b)
      BY SMTT(20), <1>2, <2>1, <2>2, <2>5
  <2>. QED BY SMTT(20), <2>3, <2>4, <2>5
<1>9. Few'
  <2>1. \A f \in DOMAIN disk' : \E g \in DOMAIN disk : g[1] = f[1] /\ g \notin chk.remove
      BY <1>1, <1>2
  <2>. QED BY <2>1, FewStays, Zenon DEF TInv
<1>. QED BY <1>3, <1>4, <1>7, <1>8, <1>9 DEF TInv

\* GzipFile, from the creation of the compressed file to the removal of the source.
LEMMA ZipTurn ==
    ASSUME CInv, TInv, (\E f \in chk.compress : ZipStarts(f)) \/ ZipFills \/ ZipEnds
    PROVE  TInv'
<1>1. ASSUME NEW f \in chk.compress, ZipStarts(f)
      PROVE  TInv'
  <2>1. /\ chk.pc = "work" /\ chk.remove = {} /\ disk' = Put(Gz(f), <<0>>)
        /\ chk' = [chk EXCEPT !.pc = "zip", !.backup = f, !.compress = @ \ {f}]
        /\ UNCHANGED <<lines, clock>>
      BY <1>1, Zenon DEF ZipStarts, Gz, Unfinished
  <2>2. f \in DOMAIN disk /\ f[2] = "log" /\ f[1] # <<>>
      BY DEF CInv, Chosen
  <2>3. /\ chk'.pc = "zip" /\ chk'.backup = f /\ chk'.compress = chk.compress \ {f} /\ chk'.remove = {}
        /\ UNCHANGED <<chk.file, chk.files>>
      BY SMTT(20), <2>1 DEF CInv, Typed
  <2>4. chk.compress \ {f} = {}
    <3>1. \A g \in chk.compress : g \in DOMAIN disk /\ g[1] # <<>> /\ g[2] = "log"
        BY Zenon DEF CInv, Chosen
    <3>2. \A g \in chk.compress : g = chk.backup
        BY SMTT(20), <3>1 DEF TInv, Zipping
    <3>. QED BY SMTT(20), <3>2
  <2>8. <<0>> \in Seq(Nat)
      OBVIOUS
  <2>5. PICK s \in Seq(Nat) : s = <<0>>
      BY <2>8, Zenon
  <2>6. \A i \in DOMAIN s : s[i] = 0
      BY <2>5
  <2>7. ~Making /\ disk' = Put(Gz(f), s)
      BY <2>1, <2>5 DEF Making
  <2>. QED BY <2>1, <2>2, <2>3, <2>4, <2>6, <2>7, ZippedTurn
<1>2. CASE ZipFills
  <2>1. PICK b \in DOMAIN disk : b = chk.backup /\ b[2] = "log" /\ b[1] # <<>> /\ chk.remove = {}
      BY <1>2 DEF ZipFills, CInv, Chosen
  <2>2. /\ chk.pc = "zip" /\ disk' = Put(Gz(b), disk[b])
        /\ chk' = [chk EXCEPT !.pc = "unlink"] /\ UNCHANGED <<lines, clock>>
      BY <1>2, <2>1 DEF ZipFills, Gz
  <2>3. PICK s \in Seq(Nat) : s = disk[b]
      BY DEF CInv, Typed
  <2>4. \A i \in DOMAIN s : Holds(b, s[i])
      BY <2>3 DEF Holds
  <2>5. chk'.pc = "unlink" /\ UNCHANGED <<chk.backup, chk.compress, chk.remove, chk.file, chk.files>>
      BY <2>2 DEF CInv, Typed
  <2>6. chk.compress = {} /\ ~Making
      BY <2>2 DEF TInv, Zipping, Making
  <2>7. disk' = Put(Gz(b), s)
      BY <2>2, <2>3
  <2>. QED BY <2>1, <2>2, <2>4, <2>5, <2>6, <2>7, ZippedTurn
<1>3. CASE ZipEnds
  <2>1. PICK b \in DOMAIN disk : b = chk.backup /\ Gz(b) \in DOMAIN disk /\ chk.remove = {} /\ b \in CNames
      BY <1>3 DEF ZipEnds, CInv, Chosen, Typed
  <2>2. /\ chk.pc = "unlink" /\ disk' = Unlink(b) /\ chk' = [chk EXCEPT !.pc = "work"]
        /\ UNCHANGED <<lines, clock>>
      BY <1>3, <2>1 DEF ZipEnds
  <2>3. chk'.pc = "work" /\ UNCHANGED <<chk.backup, chk.compress, chk.remove, chk.file, chk.files>>
      BY <2>2 DEF CInv, Typed
  <2>4. DOMAIN disk' = DOMAIN disk \ {b}
      BY <2>2, UnlinkFacts, Zenon
  <2>5. OneStamp' /\ Latest' /\ InTurn'
      BY <2>2, <2>3, RemovedTurn DEF Making
  <2>6. Zipping'
      BY <2>1, <2>2, <2>3, <2>4 DEF TInv, Zipping
  <2>7. Few'
      BY <2>1, <2>2, <2>3, <2>4, FewStays DEF TInv
  <2>. QED BY <2>5, <2>6, <2>7 DEF TInv
<1>. QED BY <1>1, <1>2, <1>3

-----------------------------------------------------------------------------
(* The theorem. *)

\* What the invariant says of the number of backups is FewBackups.
LEMMA TurnSays ==
    ASSUME CInv, TInv
    PROVE  InTurn /\ FewBackups
<1>1. \A t : Newer(TheLog, t) = BackupStamps(DOMAIN disk, t)
    BY OldOnes DEF TInv, OneStamp, CInv, Typed
<1>2. FewBackups
    BY <1>1 DEF FewBackups, TInv, Few
<1>. QED BY <1>2 DEF TInv

\* Every step keeps the invariant.
LEMMA TurnKept == CInv /\ CInv' /\ RInv /\ [CopyNext]_copyVars => RInv'
<1>1. SUFFICES ASSUME CInv, CInv', RInv, [CopyNext]_copyVars
               PROVE  RInv'
    OBVIOUS
<1>2. ASSUME Mishap
      PROVE  RInv'
    BY <1>1, <1>2 DEF Mishap, RInv
<1>3. ASSUME UNCHANGED mishaps, mishaps = 0 => TInv'
      PROVE  RInv'
    BY <1>1, <1>3 DEF RInv
<1>4. CASE BackupFails \/ ListFails \/ ZipFails \/ CheckCrash
    BY <1>2, <1>4 DEF BackupFails, ListFails, ZipFails, CheckCrash
<1>5. CASE AppendLine
    BY <1>1, <1>3, <1>5, AppendTurn DEF AppendLine, RInv
<1>6. CASE Check \/ CheckStops \/ NothingToDo \/ CheckDone
    BY <1>1, <1>3, <1>6, CheckTurn DEF Check, CheckStops, NothingToDo, CheckDone, RInv
<1>7. CASE CopyEnds \/ CopyTick
    BY <1>1, <1>3, <1>7, MovesOnTurn DEF CopyEnds, CopyTick, RInv
<1>8. CASE ListOld
    BY <1>1, <1>3, <1>8, ListTurn DEF ListOld, RInv
<1>9. CASE CreateBackup
    BY SMTT(20), <1>1, <1>3, <1>9, CreateTurn DEF CreateBackup, RInv
<1>10. CASE CopyLine
    BY <1>1, <1>3, <1>10, CopyLineTurn DEF CopyLine, RInv
<1>11. CASE TruncateLog
    BY <1>1, <1>3, <1>11, TruncateTurn DEF TruncateLog, RInv
<1>12. ASSUME NEW x \in chk.remove, RemoveOld(x)
       PROVE  RInv'
  <2>1. CASE Mishap
      BY <1>2, <2>1
  <2>2. CASE disk' = Unlink(x) /\ UNCHANGED mishaps
      BY <1>1, <1>3, <1>12, <2>2, RemoveTurn DEF RInv
  <2>. QED BY <1>12, <2>1, <2>2 DEF RemoveOld
<1>13. CASE (\E f \in chk.compress : ZipStarts(f)) \/ ZipFills \/ ZipEnds
  <2>1. UNCHANGED mishaps
      BY <1>13, Zenon DEF ZipStarts, ZipFills, ZipEnds
  <2>. QED BY <1>1, <1>3, <1>13, <2>1, ZipTurn DEF RInv
<1>14. CASE UNCHANGED copyVars
  <2>1. UNCHANGED <<lines, disk, chk, clock, mishaps>>
      BY <1>14, SMTT(20) DEF copyVars
  <2>2. OneStamp => OneStamp'
      BY <2>1, SMTT(20) DEF OneStamp
  <2>3. Zipping => Zipping'
      BY <2>1, Zenon DEF Zipping
  <2>4. Latest => Latest'
      BY <2>1, Zenon DEF Latest
  <2>5. InTurn => InTurn'
      BY <2>1, SMTT(20) DEF InTurn
  <2>6. Few => Few'
      BY <2>1, Zenon DEF Few
  <2>. QED BY <1>1, <2>1, <2>2, <2>3, <2>4, <2>5, <2>6, Zenon DEF RInv, TInv
<1>. QED BY <1>1, <1>4, <1>5, <1>6, <1>7, <1>8, <1>9, <1>10, <1>11, <1>12, <1>13, <1>14
    DEF CopyNext, RotateLogCheck

\* The invariant holds of the empty directory.
LEMMA StartsInTurn == CopyInit => RInv
<1>1. SUFFICES ASSUME CopyInit
               PROVE  RInv
    OBVIOUS
<1>2. DOMAIN disk = {} /\ mishaps = 0
    BY <1>1 DEF CopyInit
<1>3. chk.pc = "idle" /\ chk.file = TheLog /\ chk.files = {}
    BY <1>1 DEF CopyInit, Resting
<1>4. OneStamp /\ Zipping /\ Latest /\ InTurn
    BY <1>2, <1>3 DEF OneStamp, Zipping, Latest, InTurn
<1>5. Few
  <2>1. BackupStamps(DOMAIN disk, 0) = {}
      BY <1>2 DEF BackupStamps
  <2>2. Cardinality(BackupStamps(DOMAIN disk, 0)) = 0
      BY <2>1, FS_EmptySet
  <2>. QED BY <1>2, <1>3, <2>2, CopyAssumption DEF Few
<1>. QED BY <1>2, <1>4, <1>5 DEF RInv, TInv

\* For every size, number and age of the backups, east and west of Greenwich:
\* no line is lost but between the end of the copy and os.Truncate or with a
\* removed backup, whatever fails or crashes; and as long as nothing has, the
\* backups and the log follow each other in time, and after each check there
\* are no more backups than RotateLogCheck was told to keep.
THEOREM CopiesStayWhole == CopySpec => []CopiesWhole
<1>1. CInv /\ RInv => CopiesWhole
    BY KeptSays, TurnSays DEF CInv, RInv, CopiesWhole
<1>2. CopyInit => CInv /\ RInv
    BY StartsKept, StartsInTurn
<1>3. CInv /\ RInv /\ [CopyNext]_copyVars => CInv' /\ RInv'
    BY StepKeeps, TurnKept
<1>. QED BY <1>1, <1>2, <1>3, PTL DEF CopySpec
=============================================================================
