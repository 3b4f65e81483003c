--------------------------- MODULE LogRotateProofs ---------------------------
(***************************************************************************)
(* slogrus.LoggerRotate, for every limit, any messages and any times of    *)
(* rotation: the mill misses no backup beyond the limit where chown is a   *)
(* no-op, and the log is whole on every platform.                          *)
(***************************************************************************)
EXTENDS LogRotate, FiniteSetTheorems, WellFoundedInduction, TLAPS

-----------------------------------------------------------------------------
(* The inductive invariant. *)

\* A backup is named after a moment of the past.
Typed ==
    /\ now \in Nat
    /\ \A f \in DOMAIN backups : f[1] \in 0..now

\* The mill compresses, one by one, files that are there and stay; it does so
\* when it has removed all it had to.
Milled ==
    /\ mill = [pc |-> mill.pc, remove |-> mill.remove, compress |-> mill.compress, zip |-> mill.zip]
    /\ mill.pc = "idle" => mill.remove = {}
    /\ mill.compress \subseteq DOMAIN backups /\ mill.compress \cap mill.remove = {}
    /\ mill.pc \in {"fill", "unlink"} =>
         mill.remove = {} /\ mill.zip \in DOMAIN backups \ mill.compress

\* Every file of a backup beyond the limit, compressed or not, is on the list.
\* (On Linux a rotation that fails in chown moves the file and sends no signal.)
Listed ==
    ~faulty /\ ~Linux => \A f \in DOMAIN backups : TooMany(f[1]) => millCh = 1 \/ f \in mill.remove

MInv == Typed /\ Milled /\ Listed

-----------------------------------------------------------------------------
(* The invariant that keeps the log whole. *)

\* What the files and the buffers hold are messages, and only a compressed file
\* may be unfinished.
Numbered ==
    /\ n \in Nat /\ n <= Len(SizeOf)
    /\ buff \in Seq(1..n) /\ batch \in Seq(1..n) /\ Current \in Seq(1..n)
    /\ open => cur # Absent
    /\ \A f \in DOMAIN backups :
         /\ f = <<f[1], f[2]>> /\ f[2] \in {"log", "gz"}
         /\ backups[f] \in Seq(1..n) \/ (backups[f] = Torn /\ f[2] = "gz")

\* The messages under way follow those in the files.
Flowing ==
    /\ Ascending(buff) /\ Ascending(batch) /\ Before(batch, buff)
    /\ Before(Current, batch) /\ Before(Current, buff)
    /\ \A f \in Complete : Before(backups[f], batch) /\ Before(backups[f], buff)

\* The mill compresses log files, and removes one when its copy is complete.
Zipping ==
    /\ \A f \in mill.compress : f[2] = "log"
    /\ mill.pc \in {"fill", "unlink"} => mill.zip[2] = "log"
    /\ mill.pc = "unlink" =>
         Zipped(mill.zip) \in DOMAIN backups /\ backups[Zipped(mill.zip)] = backups[mill.zip]

LInv == Numbered /\ Flowing /\ Zipping /\ LogWhole

-----------------------------------------------------------------------------
\* The stamps are finite in number.
LEMMA StampsFinite ==
    ASSUME Typed
    PROVE  IsFiniteSet(Stamps)
<1>1. Stamps \subseteq 0..now /\ now \in Int /\ 0 \in Int
    BY DEF Typed, Stamps
<1>2. IsFiniteSet(0..now)
    BY <1>1, FS_Interval
<1>. QED BY <1>1, <1>2, FS_Subset, Zenon

\* A backup does not come to be one too many while none is added.
LEMMA FewerStamps ==
    ASSUME Typed, Stamps' \subseteq Stamps, NEW t, TooMany(t)'
    PROVE  TooMany(t)
<1>1. PICK v : v = t
    OBVIOUS
<1>. DEFINE Above == {u \in Stamps : u >= v}
            Later == {u \in Stamps' : u >= v}
<1>2. Later \subseteq Above
    OBVIOUS
<1>3. IsFiniteSet(Above)
    BY StampsFinite, FS_Subset
<1>4. Cardinality(Later) <= Cardinality(Above) /\ Cardinality(Later) \in Nat /\ Cardinality(Above) \in Nat
    BY <1>2, <1>3, FS_Subset, FS_CardinalityType
<1>5. MaxBackups > 0 /\ Cardinality(Later) > MaxBackups
    BY <1>1 DEF TooMany, Rank
<1>6. Cardinality(Above) > MaxBackups
    BY <1>4, <1>5, SizeAssumption
<1>. QED BY <1>1, <1>5, <1>6 DEF TooMany, Rank

\* A step that adds no stamp, and no file the list would have to name, keeps
\* the list complete.
LEMMA StillListed ==
    ASSUME Typed, Listed, UNCHANGED faulty, millCh' = 1 \/ UNCHANGED millCh,
           Stamps' \subseteq Stamps,
           \A f \in DOMAIN backups' :
              \/ f \in DOMAIN backups /\ (f \in mill.remove => f \in mill.remove')
              \/ \E g \in DOMAIN backups \ mill.remove : g[1] = f[1]
    PROVE  Listed'
<1>1. SUFFICES ASSUME ~faulty, ~Linux, NEW f \in DOMAIN backups', TooMany(f[1])', millCh' # 1
               PROVE  f \in mill.remove'
    BY Zenon DEF Listed
<1>2. TooMany(f[1])
    BY <1>1, FewerStamps
<1>3. millCh # 1
    BY <1>1
<1>. HIDE DEF TooMany
<1>4. CASE f \in DOMAIN backups /\ (f \in mill.remove => f \in mill.remove')
    BY <1>1, <1>2, <1>3, <1>4 DEF Listed
<1>5. CASE \E g \in DOMAIN backups \ mill.remove : g[1] = f[1]
    BY <1>1, <1>2, <1>3, <1>5 DEF Listed
<1>. QED BY <1>4, <1>5

\* The writer, the callers of Rotate and Close, and the clock.
LEMMA WritersKeep ==
    ASSUME MInv, UNCHANGED faulty,
           Write \/ WriterStep \/ Rotate \/ CloseLog \/ Tick
    PROVE  MInv'
<1>1. UNCHANGED mill
    BY Zenon DEF Write, WriterStep, TakeAll, TooLarge, AppendBatch, StartFile, Rotate, CloseLog, Tick
<1>2. now' \in Nat /\ now' >= now
  <2>1. now' = now \/ now' = now + 1
      BY Zenon DEF Write, WriterStep, TakeAll, TooLarge, AppendBatch, StartFile, Rotate, CloseLog, Tick
  <2>. QED BY <2>1 DEF MInv, Typed
<1>3. \/ UNCHANGED backups /\ (UNCHANGED millCh \/ millCh' = 1)
      \/ backups' = Moved /\ (millCh' = 1 \/ faulty \/ Linux) /\ UNCHANGED now
  <2>1. CASE Write \/ TakeAll \/ TooLarge \/ CloseLog \/ Tick
      BY <2>1, Zenon DEF Write, TakeAll, TooLarge, CloseLog, Tick
  <2>2. CASE AppendBatch
      BY <2>2 DEF AppendBatch, Signal
  <2>3. CASE StartFile
      BY <2>3, Zenon DEF StartFile, OpenNew, OpenNewFails, ChownFails, Signal
  <2>4. CASE Rotate
      BY <2>4, Zenon DEF Rotate, OpenNew, OpenNewFails, ChownFails, Signal
  <2>. QED BY <2>1, <2>2, <2>3, <2>4 DEF WriterStep
<1>4. CASE UNCHANGED backups /\ (UNCHANGED millCh \/ millCh' = 1)
  <2>1. Typed'
      BY <1>2, <1>4 DEF MInv, Typed
  <2>2. Milled'
      BY <1>1, <1>4, Zenon DEF MInv, Milled
  <2>3. Stamps' \subseteq Stamps
      BY <1>4 DEF Stamps
  <2>4. Listed'
      BY <1>1, <1>4, <2>3, StillListed DEF MInv
  <2>. QED BY <2>1, <2>2, <2>4 DEF MInv
<1>5. CASE backups' = Moved /\ (millCh' = 1 \/ faulty \/ Linux) /\ UNCHANGED now
  <2>1. DOMAIN backups \subseteq DOMAIN backups' /\ DOMAIN backups' \subseteq DOMAIN backups \cup {<<now, "log">>}
      BY <1>5 DEF Moved
  <2>2. Typed'
      BY <1>5, <2>1 DEF MInv, Typed
  <2>3. Milled'
      BY <1>1, <2>1, Zenon DEF MInv, Milled
  <2>4. Listed'
      BY <1>5 DEF Listed
  <2>. QED BY <2>2, <2>3, <2>4 DEF MInv
<1>. QED BY <1>3, <1>4, <1>5

\* The mill takes a signal and makes its lists.
LEMMA TakesKeeps ==
    ASSUME MInv, MillTakes, UNCHANGED faulty
    PROVE  MInv'
<1>. DEFINE remove == {f \in DOMAIN backups : TooMany(f[1]) \/ TooOld(f[1])}
            compress == {f \in DOMAIN backups \ remove : Compress /\ f[2] = "log"}
<1>1. mill' = [pc |-> "work", remove |-> remove, compress |-> compress, zip |-> NoFile]
    BY Zenon DEF MillTakes, Idle
<1>2. UNCHANGED <<backups, now>>
    BY DEF MillTakes
<1>3. Typed'
    BY <1>2 DEF MInv, Typed
<1>4. Milled'
    BY <1>1, <1>2, Zenon DEF Milled
<1>5. Listed'
  <2>1. SUFFICES ASSUME NEW f \in DOMAIN backups', TooMany(f[1])'
                 PROVE  f \in mill'.remove
      BY DEF Listed
  <2>2. Stamps' \subseteq Stamps
      BY <1>2 DEF Stamps
  <2>3. TooMany(f[1])
      BY <2>1, <2>2, FewerStamps DEF MInv
  <2>. QED BY <1>1, <1>2, <2>1, <2>3
<1>. QED BY <1>3, <1>4, <1>5 DEF MInv

\* The mill removes a file, or the source of a compressed one.
LEMMA RemovesKeep ==
    ASSUME MInv, UNCHANGED faulty, MillUnlinks \/ \E f \in mill.remove : MillRemoves(f)
    PROVE  MInv'
<1>1. UNCHANGED <<now, millCh>>
    BY DEF MillUnlinks, MillRemoves
<1>2. PICK f : /\ DOMAIN backups' = DOMAIN backups \ {f}
               /\ mill'.remove = mill.remove \ {f} /\ mill'.compress = mill.compress
               /\ f \notin mill.compress
               /\ mill'.pc = "work"
               /\ mill' = [pc |-> mill'.pc, remove |-> mill'.remove,
                           compress |-> mill'.compress, zip |-> mill'.zip]
  <2>1. CASE MillUnlinks
    <3>1. mill' = [pc |-> "work", remove |-> mill.remove, compress |-> mill.compress, zip |-> NoFile]
        BY <2>1, Zenon DEF MillUnlinks, MInv, Milled
    <3>2. mill.remove = {} /\ mill.zip \notin mill.compress
        BY <2>1 DEF MillUnlinks, MInv, Milled
    <3>3. DOMAIN backups' = DOMAIN backups \ {mill.zip}
        BY <2>1 DEF MillUnlinks, Without
    <3>. QED BY <3>1, <3>2, <3>3
  <2>2. CASE \E f \in mill.remove : MillRemoves(f)
    <3>1. PICK f \in mill.remove : MillRemoves(f)
        BY <2>2
    <3>2. mill' = [pc |-> "work", remove |-> mill.remove \ {f}, compress |-> mill.compress, zip |-> mill.zip]
        BY <3>1, Zenon DEF MillRemoves, MInv, Milled
    <3>3. f \notin mill.compress
        BY <3>1, Zenon DEF MInv, Milled
    <3>4. DOMAIN backups' = DOMAIN backups \ {f}
        BY <3>1 DEF MillRemoves, Without
    <3>. QED BY <3>2, <3>3, <3>4
  <2>. QED BY <2>1, <2>2, Zenon
<1>3. Typed'
    BY <1>1, <1>2, Zenon DEF MInv, Typed
<1>4. Milled'
    BY <1>2, Zenon DEF MInv, Milled
<1>5. Stamps' \subseteq Stamps
    BY <1>2, Zenon DEF Stamps
<1>6. Listed'
    BY <1>1, <1>2, <1>5, StillListed, Zenon DEF MInv
<1>. QED BY <1>3, <1>4, <1>6 DEF MInv

\* The mill writes the compressed file of a backup that stays.
LEMMA WritesKeep ==
    ASSUME MInv, UNCHANGED faulty, MillFills \/ \E f \in mill.compress : MillCreates(f)
    PROVE  MInv'
<1>1. UNCHANGED <<now, millCh>>
    BY Zenon DEF MillFills, MillCreates
<1>2. PICK z : /\ z \in DOMAIN backups /\ mill.remove = {}
               /\ DOMAIN backups' = DOMAIN backups \cup {Zipped(z)}
               /\ mill' = [pc |-> mill'.pc, remove |-> {}, compress |-> mill.compress \ {z}, zip |-> z]
               /\ mill'.pc \in {"fill", "unlink"}
  <2>1. CASE MillFills
    <3>1. mill.remove = {} /\ mill.zip \in DOMAIN backups \ mill.compress
        BY <2>1, Zenon DEF MillFills, MInv, Milled
    <3>2. mill' = [pc |-> "unlink", remove |-> mill.remove, compress |-> mill.compress, zip |-> mill.zip]
        BY <2>1, Zenon DEF MillFills, MInv, Milled
    <3>3. DOMAIN backups' = DOMAIN backups \cup {Zipped(mill.zip)}
        BY <2>1 DEF MillFills, WithFile
    <3>4. mill.compress = mill.compress \ {mill.zip}
        BY <3>1
    <3>. QED BY <3>1, <3>2, <3>3, <3>4, Zenon
  <2>2. CASE \E f \in mill.compress : MillCreates(f)
    <3>1. PICK f \in mill.compress : MillCreates(f)
        BY <2>2
    <3>2. mill' = [pc |-> "fill", remove |-> {}, compress |-> mill.compress \ {f}, zip |-> f]
        BY <3>1, Zenon DEF MillCreates, MInv, Milled
    <3>3. f \in DOMAIN backups /\ mill.remove = {}
        BY <3>1, Zenon DEF MillCreates, MInv, Milled
    <3>4. DOMAIN backups' = DOMAIN backups \cup {Zipped(f)}
        BY <3>1, Zenon DEF MillCreates, WithFile
    <3>. QED BY <3>2, <3>3, <3>4, Zenon
  <2>. QED BY <2>1, <2>2, Zenon
<1>3. Zipped(z)[1] = z[1]
    BY DEF Zipped
<1>4. Typed'
    BY <1>1, <1>2, <1>3 DEF MInv, Typed
<1>5. Milled'
    BY <1>2 DEF MInv, Milled
<1>6. Stamps' \subseteq Stamps
    BY <1>2, <1>3 DEF Stamps
<1>7. Listed'
    BY <1>1, <1>2, <1>3, <1>6, StillListed DEF MInv
<1>. QED BY <1>4, <1>5, <1>7 DEF MInv

\* The mill is done, or gives a file up; the process dies.
LEMMA EndsKeep ==
    ASSUME MInv, UNCHANGED faulty, MillDone \/ MillGivesUp \/ Crash
    PROVE  MInv'
<1>1. UNCHANGED <<now, backups>>
    BY DEF MillDone, MillGivesUp, Crash
<1>2. /\ mill' = [pc |-> mill'.pc, remove |-> mill'.remove, compress |-> mill'.compress, zip |-> mill'.zip]
      /\ mill'.pc \in {"idle", "work"} /\ mill'.remove = {}
      /\ mill'.compress = {} \/ mill'.compress = mill.compress
  <2>1. CASE MillDone \/ Crash
      BY <2>1 DEF MillDone, Crash, Idle
  <2>2. CASE MillGivesUp
    <3>1. mill' = [pc |-> "work", remove |-> {}, compress |-> mill.compress, zip |-> NoFile]
        BY <2>2, Zenon DEF MillGivesUp, MInv, Milled
    <3>. QED BY <3>1
  <2>. QED BY <2>1, <2>2, Zenon
<1>3. Typed'
    BY <1>1 DEF MInv, Typed
<1>4. Milled'
    BY <1>1, <1>2, Zenon DEF MInv, Milled
<1>5. faulty \/ (mill.remove = {} /\ UNCHANGED millCh)
    BY DEF MillDone, MillGivesUp, Crash
<1>6. CASE faulty
    BY <1>3, <1>4, <1>6 DEF MInv, Listed
<1>7. CASE mill.remove = {} /\ UNCHANGED millCh
  <2>1. Stamps' \subseteq Stamps
      BY <1>1 DEF Stamps
  <2>2. Listed'
      BY <1>1, <1>7, <2>1, StillListed DEF MInv
  <2>. QED BY <1>3, <1>4, <2>2 DEF MInv
<1>. QED BY <1>5, <1>6, <1>7

\* The mill's invariant holds on every platform.
LEMMA MillInvariant == LogSpec => []MInv
<1>1. LogInit => MInv
    BY DEF LogInit, NoFiles, Idle, MInv, Typed, Milled, Listed
<1>2. MInv /\ [LogNext]_logVars => MInv'
  <2>1. SUFFICES ASSUME MInv, [LogNext]_logVars
                 PROVE  MInv'
      OBVIOUS
  <2>2. CASE LogNext
      BY <2>1, <2>2, WritersKeep, TakesKeeps, RemovesKeep, WritesKeep, EndsKeep DEF LogNext, MillStep
  <2>3. CASE UNCHANGED logVars
    <3>1. Typed' /\ Milled'
        BY <2>1, <2>3, Zenon DEF logVars, MInv, Typed, Milled
    <3>2. Stamps' \subseteq Stamps
        BY <2>3 DEF logVars, Stamps
    <3>3. Listed'
        BY <2>1, <2>3, <3>2, StillListed DEF logVars, MInv
    <3>. QED BY <3>1, <3>3 DEF MInv
  <2>. QED BY <2>1, <2>2, <2>3
<1>. QED BY <1>1, <1>2, PTL DEF LogSpec

\* Where chown is a no-op, for every limit on number, age and size, any
\* messages, with and without compression: the channel of millRun holds one
\* signal and drops the others, yet a backup beyond MaxBackups is always on the
\* mill's list or announced by a signal the mill has still to take.
THEOREM MillMissesNothing ==
    ASSUME ~Linux
    PROVE  LogSpec => []MillIsTold
<1>1. MInv => MillIsTold
  <2>1. SUFFICES ASSUME MInv, ~faulty, NEW t \in Stamps, TooMany(t), millCh # 1
                 PROVE  \E f \in mill.remove : f[1] = t
      BY DEF MillIsTold
  <2>2. PICK f \in DOMAIN backups : f[1] = t
      BY DEF Stamps
  <2>. QED BY <2>1, <2>2 DEF MInv, Listed
<1>. QED BY <1>1, MillInvariant, PTL
-----------------------------------------------------------------------------
(* Sequences of messages. *)

\* Facts about the empty file.
LEMMA EmptySeq ==
    ASSUME NEW s
    PROVE  /\ Ascending(<<>>) /\ Before(s, <<>>) /\ Before(<<>>, s)
           /\ \A S : <<>> \in Seq(S)
           /\ Range(<<>>) = {}
    BY DEF Ascending, Before, Range

\* The next message goes behind all there are.
LEMMA NextMessage ==
    ASSUME NEW k \in Nat, NEW s \in Seq(1..k)
    PROVE  /\ s \in Seq(1..(k + 1)) /\ Append(s, k + 1) \in Seq(1..(k + 1))
           /\ Ascending(s) => Ascending(Append(s, k + 1))
           /\ \A r \in Seq(1..k) : Before(r, s) => Before(r, Append(s, k + 1))
           /\ Range(Append(s, k + 1)) = Range(s) \cup {k + 1}
<1>1. s \in Seq(1..(k + 1)) /\ Append(s, k + 1) \in Seq(1..(k + 1))
    OBVIOUS
<1>2. /\ Len(s) \in Nat /\ DOMAIN s = 1..Len(s)
      /\ \A i \in DOMAIN s : s[i] \in Nat /\ s[i] < k + 1 /\ Append(s, k + 1)[i] = s[i]
      /\ DOMAIN Append(s, k + 1) = 1..(Len(s) + 1) /\ Append(s, k + 1)[Len(s) + 1] = k + 1
    OBVIOUS
<1>3. \A i \in 1..(Len(s) + 1) : i \in DOMAIN s \/ i = Len(s) + 1
    BY <1>2
<1>4. Ascending(s) => Ascending(Append(s, k + 1))
    BY <1>2, <1>3 DEF Ascending
<1>5. ASSUME NEW r \in Seq(1..k), Before(r, s)
      PROVE  Before(r, Append(s, k + 1))
  <2>1. \A i \in DOMAIN r : r[i] < k + 1
      OBVIOUS
  <2>. QED BY <1>2, <1>3, <1>5, <2>1 DEF Before
<1>6. Range(Append(s, k + 1)) = Range(s) \cup {k + 1}
    BY <1>2, <1>3 DEF Range
<1>. QED BY <1>1, <1>4, <1>5, <1>6

\* A batch goes behind what is in the file.
LEMMA Joined ==
    ASSUME NEW S, NEW s \in Seq(S), NEW t \in Seq(S)
    PROVE  /\ s \o t \in Seq(S)
           /\ Ascending(s) /\ Ascending(t) /\ Before(s, t) => Ascending(s \o t)
           /\ \A r : Before(r, s) /\ Before(r, t) => Before(r, s \o t)
           /\ \A r : Before(s, r) /\ Before(t, r) => Before(s \o t, r)
           /\ Range(s \o t) = Range(s) \cup Range(t)
<1>1. /\ Len(s) \in Nat /\ DOMAIN s = 1..Len(s) /\ Len(t) \in Nat /\ DOMAIN t = 1..Len(t)
      /\ DOMAIN (s \o t) = 1..(Len(s) + Len(t))
      /\ \A i \in DOMAIN s : (s \o t)[i] = s[i]
      /\ \A i \in DOMAIN (s \o t) : i \notin DOMAIN s => i - Len(s) \in DOMAIN t /\ (s \o t)[i] = t[i - Len(s)]
      /\ \A i \in DOMAIN t : Len(s) + i \in DOMAIN (s \o t) /\ (s \o t)[Len(s) + i] = t[i]
    OBVIOUS
<1>2. s \o t \in Seq(S)
    OBVIOUS
<1>3. Ascending(s) /\ Ascending(t) /\ Before(s, t) => Ascending(s \o t)
  <2>1. SUFFICES ASSUME Ascending(s), Ascending(t), Before(s, t),
                        NEW i \in DOMAIN (s \o t), NEW j \in DOMAIN (s \o t), i < j
                 PROVE  (s \o t)[i] < (s \o t)[j]
      BY Zenon DEF Ascending
  <2>2. CASE j \in DOMAIN s
      BY <1>1, <2>1, <2>2 DEF Ascending
  <2>3. CASE i \in DOMAIN s /\ j \notin DOMAIN s
      BY <1>1, <2>1, <2>3, Zenon DEF Before
  <2>4. CASE i \notin DOMAIN s /\ j \notin DOMAIN s
    <3>1. i - Len(s) < j - Len(s) /\ i - Len(s) \in DOMAIN t /\ j - Len(s) \in DOMAIN t
        BY <1>1, <2>1, <2>4
    <3>. QED BY <1>1, <2>1, <2>4, <3>1, Zenon DEF Ascending
  <2>5. i \notin DOMAIN s => j \notin DOMAIN s
      BY <1>1, <2>1
  <2>. QED BY <2>2, <2>3, <2>4, <2>5, Zenon
<1>4. \A r : Before(r, s) /\ Before(r, t) => Before(r, s \o t)
    BY <1>1, Zenon DEF Before
<1>5. \A r : Before(s, r) /\ Before(t, r) => Before(s \o t, r)
    BY <1>1, Zenon DEF Before
<1>6. Range(s \o t) = Range(s) \cup Range(t)
    BY SMTT(20), <1>1 DEF Range
<1>. QED BY <1>2, <1>3, <1>4, <1>5, <1>6

\* The bytes of messages are finite in number.
LEMMA BytesFinite ==
    ASSUME NEW k \in Nat, k <= Len(SizeOf), NEW s \in Seq(1..k)
    PROVE  IsFiniteSet(BytesOf(s)) /\ Size(s) \in Nat
<1>. DEFINE of == [m \in Range(s) |-> {m} \X (1..SizeOf[m])]
            parts == {{m} \X (1..SizeOf[m]) : m \in Range(s)}
<1>1. Range(s) \subseteq 1..k /\ 1 \in Int /\ k \in Int
    BY DEF Range
<1>2. IsFiniteSet(Range(s))
    BY <1>1, FS_Interval, FS_Subset, Zenon
<1>3. of \in Surjection(Range(s), parts)
    BY Zenon DEF Surjection
<1>4. IsFiniteSet(parts)
    BY <1>2, <1>3, FS_Surjection
<1>5. ASSUME NEW m \in Range(s)
      PROVE  IsFiniteSet({m} \X (1..SizeOf[m]))
  <2>1. SizeOf[m] \in Int /\ 1 \in Int
      BY <1>1, SizeAssumption
  <2>2. IsFiniteSet(1..SizeOf[m]) /\ IsFiniteSet({m})
      BY <2>1, FS_Interval, FS_Singleton, Zenon
  <2>. QED BY <2>2, FS_Product, Zenon
<1>6. \A T \in parts : IsFiniteSet(T)
    BY <1>5, Zenon
<1>7. IsFiniteSet(BytesOf(s))
    BY <1>4, <1>6, FS_UNION, Zenon DEF BytesOf
<1>. QED BY <1>7, FS_CardinalityType DEF Size

\* A file grows by no more than the batch.
LEMMA SizeJoined ==
    ASSUME NEW k \in Nat, k <= Len(SizeOf), NEW s \in Seq(1..k), NEW t \in Seq(1..k)
    PROVE  Size(s \o t) <= Size(s) + Size(t)
<1>1. Range(s \o t) = Range(s) \cup Range(t)
    BY Joined
<1>2. BytesOf(s \o t) = BytesOf(s) \cup BytesOf(t)
    BY <1>1 DEF BytesOf
<1>3. IsFiniteSet(BytesOf(s)) /\ IsFiniteSet(BytesOf(t)) /\ Size(s) \in Nat /\ Size(t) \in Nat
    BY BytesFinite
<1>4. Size(s \o t) = Size(s) + Size(t) - Cardinality(BytesOf(s) \cap BytesOf(t))
    BY <1>2, <1>3, FS_Union, Zenon DEF Size
<1>5. IsFiniteSet(BytesOf(s) \cap BytesOf(t))
    BY <1>3, FS_Intersection, Zenon
<1>6. Cardinality(BytesOf(s) \cap BytesOf(t)) \in Nat
    BY <1>5, FS_CardinalityType
<1>. QED BY <1>3, <1>4, <1>6

\* An empty file has no bytes.
LEMMA SizeEmpty ==
    Size(<<>>) = 0
<1>1. BytesOf(<<>>) = {}
    BY EmptySeq DEF BytesOf
<1>. QED BY <1>1, FS_EmptySet DEF Size

-----------------------------------------------------------------------------
(* The steps keep the log whole. *)

\* What a step leaves behind it of the messages under way it puts into gone;
\* the files stay.
LEMMA DropsKeep ==
    ASSUME LInv, UNCHANGED <<n, cur, backups>>, open' => open,
           buff' = buff \/ buff' = <<>>, batch' = batch \/ batch' = <<>>,
           \A m \in Range(buff) : buff' = buff \/ \E g \in gone' : g[1] = m,
           \A m \in Range(batch) : batch' = batch \/ \E g \in gone' : g[1] = m,
           gone \subseteq gone', Zipping'
    PROVE  LInv'
<1>1. Current' = Current /\ Complete' = Complete
    BY DEF Current, Complete
<1>2. Numbered'
    BY <1>1, EmptySeq, Zenon DEF LInv, Numbered
<1>3. Flowing'
    BY <1>1, EmptySeq, Zenon DEF LInv, Flowing
<1>4. InOrder' /\ FileBounded'
    BY <1>1, Zenon DEF LInv, LogWhole, InOrder, FileBounded
<1>5. NothingLost'
  <2>1. SUFFICES ASSUME NEW m \in 1..n
                 PROVE  \/ m \in Range(buff') \cup Range(batch') \cup Range(Current)
                        \/ \E f \in Complete : m \in Range(backups[f])
                        \/ \E g \in gone' : g[1] = m
      BY <1>1, Zenon DEF NothingLost
  <2>2. \/ m \in Range(buff) \cup Range(batch) \cup Range(Current)
        \/ \E f \in Complete : m \in Range(backups[f])
        \/ \E g \in gone : g[1] = m
      BY <2>1, Zenon DEF LInv, LogWhole, NothingLost
  <2>. QED BY <2>2, Zenon
<1>. QED BY <1>2, <1>3, <1>4, <1>5 DEF LInv, LogWhole

\* Write puts the next message into the buffer or drops it.
LEMMA WriteKeeps ==
    ASSUME LInv, Write
    PROVE  LInv'
<1>1. /\ n' = n + 1 /\ buff' = Append(buff, n + 1) /\ n < Len(SizeOf)
      /\ UNCHANGED <<batch, cur, open, backups, mill, gone>>
    BY DEF Write
<1>2. /\ n \in Nat /\ n <= Len(SizeOf) /\ Len(SizeOf) \in Nat
      /\ buff \in Seq(1..n) /\ batch \in Seq(1..n) /\ Current \in Seq(1..n)
    BY SizeAssumption DEF LInv, Numbered
<1>3. Current' = Current /\ Complete' = Complete
    BY <1>1 DEF Current, Complete
<1>4. \A f \in Complete : backups[f] \in Seq(1..n)
    BY DEF LInv, Numbered, Complete
<1>5. Numbered'
  <2>1. n' \in Nat /\ n' <= Len(SizeOf)
      BY <1>1, <1>2
  <2>2. buff' \in Seq(1..n') /\ batch' \in Seq(1..n') /\ Current' \in Seq(1..n')
      BY <1>1, <1>2, <1>3, NextMessage
  <2>3. \A f \in DOMAIN backups :
           /\ f = <<f[1], f[2]>> /\ f[2] \in {"log", "gz"}
           /\ backups[f] \in Seq(1..n') \/ (backups[f] = Torn /\ f[2] = "gz")
    <3>1. \A s \in Seq(1..n) : s \in Seq(1..n')
        BY <1>1, <1>2, NextMessage
    <3>. QED BY <3>1 DEF LInv, Numbered
  <2>4. open' => cur' # Absent
      BY <1>1 DEF LInv, Numbered
  <2>. QED BY <1>1, <2>1, <2>2, <2>3, <2>4 DEF Numbered
<1>6. Flowing'
  <2>1. Ascending(buff') /\ Before(batch, buff') /\ Before(Current, buff')
      BY <1>1, <1>2, NextMessage, Zenon DEF LInv, Flowing
  <2>2. \A f \in Complete : Before(backups[f], buff')
      BY <1>1, <1>2, <1>4, NextMessage DEF LInv, Flowing
  <2>. QED BY <1>1, <1>3, <2>1, <2>2 DEF LInv, Flowing
<1>7. Zipping'
    BY <1>1, Zenon DEF LInv, Zipping
<1>8. InOrder' /\ FileBounded'
    BY <1>1, <1>3, Zenon DEF LInv, LogWhole, InOrder, FileBounded
<1>9. NothingLost'
  <2>1. SUFFICES ASSUME NEW m \in 1..(n + 1)
                 PROVE  \/ m \in Range(buff') \cup Range(batch) \cup Range(Current)
                        \/ \E f \in Complete : m \in Range(backups[f])
                        \/ \E g \in gone : g[1] = m
      BY <1>1, <1>3 DEF NothingLost
  <2>2. Range(buff') = Range(buff) \cup {n + 1}
      BY <1>1, <1>2, NextMessage, Zenon
  <2>3. m \in 1..n \/ m = n + 1
      BY <1>2
  <2>4. CASE m \in 1..n
      BY <2>2, <2>4 DEF LInv, LogWhole, NothingLost
  <2>. QED BY <2>2, <2>3, <2>4
<1>. QED BY <1>5, <1>6, <1>7, <1>8, <1>9 DEF LInv, LogWhole

\* writeFromBuffToFile takes the buffer as its batch.
LEMMA TakeKeeps ==
    ASSUME LInv, TakeAll
    PROVE  LInv'
<1>1. /\ batch = <<>> /\ batch' = buff /\ buff' = <<>>
      /\ UNCHANGED <<n, cur, open, backups, mill, gone>>
    BY DEF TakeAll, NoBatch
<1>2. Current' = Current /\ Complete' = Complete
    BY <1>1 DEF Current, Complete
<1>3. Numbered' /\ Zipping'
    BY <1>1, <1>2, EmptySeq, Zenon DEF LInv, Numbered, Zipping
<1>4. Flowing'
    BY <1>1, <1>2, EmptySeq DEF LInv, Flowing
<1>5. InOrder' /\ FileBounded'
    BY <1>1, <1>2, Zenon DEF LInv, LogWhole, InOrder, FileBounded
<1>6. NothingLost'
  <2>1. Range(buff) \cup Range(batch) = Range(buff') \cup Range(batch')
      BY <1>1, EmptySeq
  <2>. QED BY <1>1, <1>2, <2>1 DEF LInv, LogWhole, NothingLost
<1>. QED BY <1>3, <1>4, <1>5, <1>6 DEF LInv, LogWhole

\* The batch goes behind what is in the log.
LEMMA AppendKeeps ==
    ASSUME LInv, AppendBatch
    PROVE  LInv'
<1>1. /\ cur # Absent /\ cur' = cur \o batch /\ batch' = <<>>
      /\ UNCHANGED <<n, buff, backups, mill, gone>>
    BY Zenon DEF AppendBatch, NoBatch, LInv, Numbered
<1>2. /\ n \in Nat /\ n <= Len(SizeOf)
      /\ batch \in Seq(1..n) /\ cur \in Seq(1..n) /\ Current = cur
    BY <1>1 DEF LInv, Numbered, Current
<1>3. cur' \in Seq(1..n)
    BY <1>1, <1>2, Joined
<1>4. cur' # Absent
  <2>1. \A i \in DOMAIN cur' : cur'[i] # 0
      BY <1>2, <1>3
  <2>2. 1 \in DOMAIN Absent /\ Absent[1] = 0
      BY DEF Absent
  <2>. QED BY <2>1, <2>2
<1>5. Current' = cur \o batch /\ Complete' = Complete
    BY <1>1, <1>4 DEF Current, Complete
<1>6. Numbered' /\ Zipping'
    BY <1>1, <1>3, <1>4, <1>5, EmptySeq, Zenon DEF LInv, Numbered, Zipping
<1>7. Flowing'
  <2>1. Before(cur \o batch, buff)
      BY <1>2, Joined DEF LInv, Flowing
  <2>. QED BY <1>1, <1>5, <2>1, EmptySeq DEF LInv, Flowing
<1>8. InOrder'
  <2>1. Ascending(cur \o batch)
      BY <1>2, Joined, Zenon DEF LInv, Flowing, LogWhole, InOrder
  <2>2. \A f \in Complete : Before(backups[f], cur \o batch)
      BY <1>2, Joined, Zenon DEF LInv, Flowing, LogWhole, InOrder
  <2>. QED BY <1>1, <1>5, <2>1, <2>2, Zenon DEF LInv, LogWhole, InOrder
<1>9. FileBounded'
  <2>1. Size(cur) + Size(batch) <= MaxSize
    <3>1. Size(cur) \in Nat /\ Size(batch) \in Nat /\ MaxSize \in Nat
        BY <1>2, BytesFinite, SizeAssumption
    <3>. QED BY <1>1, <3>1 DEF AppendBatch, MustRotate
  <2>2. Size(cur') <= MaxSize
    <3>1. Size(cur) \in Nat /\ Size(batch) \in Nat /\ Size(cur') \in Nat /\ MaxSize \in Nat
        BY <1>2, <1>3, BytesFinite, SizeAssumption
    <3>2. Size(cur') <= Size(cur) + Size(batch)
        BY <1>1, <1>2, SizeJoined
    <3>. QED BY <2>1, <3>1, <3>2
  <2>. QED BY <1>1, <2>2 DEF LInv, LogWhole, FileBounded
<1>10. NothingLost'
  <2>1. Range(batch) \cup Range(Current) = Range(batch') \cup Range(Current')
    <3>1. Range(cur \o batch) = Range(cur) \cup Range(batch)
        BY <1>2, Joined
    <3>2. Range(batch') = {}
        BY <1>1, EmptySeq
    <3>. QED BY <1>2, <1>5, <3>1, <3>2
  <2>. QED BY <1>1, <1>5, <2>1 DEF LInv, LogWhole, NothingLost
<1>. QED BY <1>6, <1>7, <1>8, <1>9, <1>10 DEF LInv, LogWhole

\* The log file becomes the newest backup, and the new one starts with nothing
\* or with the batch.
LEMMA MovedKeeps ==
    ASSUME LInv, MInv, StampFree, backups' = Moved,
           NEW s, s = batch \/ s = <<>>, Size(s) <= MaxSize,
           cur' = s \/ (cur' = Absent /\ ~open'),
           batch' = <<>> \/ (batch' = batch /\ s = <<>>),
           batch' = batch \/ (cur' = s /\ s = batch) \/ \A m \in Range(batch) : \E g \in gone' : g[1] = m,
           UNCHANGED <<n, buff, mill>>, gone \subseteq gone'
    PROVE  LInv'
<1>. DEFINE new == <<now, "log">>
<1>1. n \in Nat /\ buff \in Seq(1..n) /\ batch \in Seq(1..n) /\ Current \in Seq(1..n)
    BY Zenon DEF LInv, Numbered
<1>2. \A r \in Seq(1..n) : r # Absent /\ r # Torn
  <2>1. \A r \in Seq(1..n) : \A i \in DOMAIN r : r[i] # 0
      BY <1>1
  <2>2. 1 \in DOMAIN <<0>> /\ <<0>>[1] = 0
      OBVIOUS
  <2>. QED BY <2>1, <2>2 DEF Absent, Torn
<1>3. /\ \A f \in DOMAIN backups : f \in DOMAIN backups' /\ backups'[f] = backups[f]
      /\ \A f \in DOMAIN backups' : f \in DOMAIN backups \/ (f = new /\ cur # Absent)
      /\ cur # Absent => new \in DOMAIN backups' /\ backups'[new] = Current
  <2>1. CASE cur = Absent
      BY <2>1 DEF Moved
  <2>2. CASE cur # Absent
    <3>1. new \notin DOMAIN backups
        BY <2>2 DEF StampFree, Stamps
    <3>. QED BY <2>2, <3>1 DEF Moved, Current
  <2>. QED BY <2>1, <2>2, Zenon
<1>4. cur # Absent => \A f \in DOMAIN backups : f[1] < now
  <2>1. cur # Absent => \A f \in DOMAIN backups : f[1] # now
      BY DEF StampFree, Stamps
  <2>. QED BY <2>1 DEF MInv, Typed
<1>5. \/ Current' = <<>>
      \/ Current' = batch /\ cur' = batch /\ batch' = <<>>
  <2>1. s \in Seq(1..n)
      BY <1>1, EmptySeq, Zenon
  <2>. QED BY <1>2, <2>1 DEF Current
<1>6. /\ Current' \in Seq(1..n) /\ Ascending(Current')
      /\ Before(Current, Current') /\ Before(Current', batch') /\ Before(Current', buff)
      /\ \A f \in Complete : Before(backups[f], Current')
    BY <1>1, <1>5, EmptySeq, Zenon DEF LInv, Flowing
<1>7. /\ Complete \subseteq Complete'
      /\ \A f \in Complete' : f \in Complete \/ (f = new /\ cur # Absent)
      /\ cur # Absent => new \in Complete'
  <2>1. Complete' = {f \in DOMAIN backups' : backups'[f] # Torn}
      BY DEF Complete
  <2>. QED BY <1>1, <1>2, <1>3, <2>1 DEF Complete
<1>8. Complete \subseteq DOMAIN backups /\ Complete' \subseteq DOMAIN backups'
    BY DEF Complete
<1>. HIDE DEF new
<1>9. Numbered'
  <2>1. \A f \in DOMAIN backups' :
           /\ f = <<f[1], f[2]>> /\ f[2] \in {"log", "gz"}
           /\ backups'[f] \in Seq(1..n) \/ (backups'[f] = Torn /\ f[2] = "gz")
    <3>1. \A f \in DOMAIN backups :
             /\ f = <<f[1], f[2]>> /\ f[2] \in {"log", "gz"}
             /\ backups[f] \in Seq(1..n) \/ (backups[f] = Torn /\ f[2] = "gz")
        BY Zenon DEF LInv, Numbered
    <3>2. new = <<new[1], new[2]>> /\ new[2] \in {"log", "gz"}
        BY DEF new
    <3>3. cur # Absent => backups'[new] \in Seq(1..n)
        BY <1>1, <1>3
    <3>. QED BY <1>3, <3>1, <3>2, <3>3, Zenon
  <2>2. batch' \in Seq(1..n)
      BY <1>1, EmptySeq, Zenon
  <2>3. open' => cur' # Absent
      BY <1>1, <1>2, EmptySeq, Zenon
  <2>. QED BY <1>1, <1>6, <2>1, <2>2, <2>3, Zenon DEF LInv, Numbered
<1>10. Flowing'
  <2>1. /\ Ascending(buff) /\ Ascending(batch') /\ Before(batch', buff)
        /\ Before(Current, batch') /\ Before(Current, buff)
        /\ \A f \in Complete : Before(backups[f], batch') /\ Before(backups[f], buff)
      BY EmptySeq, Zenon DEF LInv, Flowing
  <2>2. \A f \in Complete' : Before(backups'[f], batch') /\ Before(backups'[f], buff)
      BY <1>3, <1>7, <1>8, <2>1, Zenon
  <2>. QED BY <1>6, <2>1, <2>2, Zenon DEF Flowing
<1>11. Zipping'
    BY <1>3, Zenon DEF LInv, MInv, Milled, Zipping
<1>12. InOrder'
  <2>1. \A f \in Complete' : Ascending(backups'[f]) /\ Before(backups'[f], Current')
      BY <1>3, <1>6, <1>7, <1>8, Zenon DEF LInv, LogWhole, InOrder
  <2>2. ASSUME NEW f \in Complete', NEW g \in Complete'
        PROVE  /\ f[1] < g[1] => Before(backups'[f], backups'[g])
               /\ f[1] = g[1] => backups'[f] = backups'[g]
    <3>1. \A h \in DOMAIN backups : h[1] \in Nat /\ now \in Nat
        BY DEF MInv, Typed
    <3>2. new[1] = now
        BY DEF new
    <3>3. CASE f \in Complete /\ g \in Complete
        BY SMTT(20), <1>3, <1>8, <3>3 DEF LInv, LogWhole, InOrder
    <3>4. CASE f \in Complete /\ g = new /\ cur # Absent
      <4>1. f[1] < now /\ f[1] \in Nat /\ now \in Nat
          BY <1>4, <1>8, <3>1, <3>4
      <4>2. Before(backups'[f], backups'[g])
          BY <1>3, <1>8, <3>4, Zenon DEF LInv, LogWhole, InOrder
      <4>. QED BY <3>2, <3>4, <4>1, <4>2
    <3>5. CASE f = new /\ g \in Complete /\ cur # Absent
      <4>1. g[1] < now /\ g[1] \in Nat /\ now \in Nat
          BY <1>4, <1>8, <3>1, <3>5
      <4>. QED BY <3>2, <3>5, <4>1
    <3>6. CASE f = new /\ g = new
      <4>1. ~(now < now)
          BY DEF MInv, Typed
      <4>. QED BY <3>2, <3>6, <4>1
    <3>. QED BY <1>7, <2>2, <3>3, <3>4, <3>5, <3>6, Zenon
  <2>. QED BY <1>6, <2>1, <2>2, Zenon DEF InOrder
<1>13. FileBounded'
  <2>1. Size(<<>>) <= MaxSize
      BY SizeEmpty, SizeAssumption
  <2>2. cur' # Absent => Size(cur') <= MaxSize
      OBVIOUS
  <2>3. cur # Absent => Size(Current) <= MaxSize
      BY DEF LInv, LogWhole, FileBounded, Current
  <2>4. \A f \in DOMAIN backups' : backups'[f] # Torn => Size(backups'[f]) <= MaxSize
      BY <1>3, <2>3, Zenon DEF LInv, LogWhole, FileBounded
  <2>. QED BY <2>2, <2>4 DEF FileBounded
<1>14. NothingLost'
  <2>1. SUFFICES ASSUME NEW m \in 1..n
                 PROVE  \/ m \in Range(buff) \cup Range(batch') \cup Range(Current')
                        \/ \E f \in Complete' : m \in Range(backups'[f])
                        \/ \E g \in gone' : g[1] = m
      BY Zenon DEF NothingLost
  <2>2. \/ m \in Range(buff) \cup Range(batch) \cup Range(Current)
        \/ \E f \in Complete : m \in Range(backups[f])
        \/ \E g \in gone : g[1] = m
      BY <2>1, Zenon DEF LInv, LogWhole, NothingLost
  <2>3. CASE m \in Range(batch)
    <3>1. CASE cur' = s /\ s = batch
      <4>1. Current' = batch
          BY <1>1, <1>2, <3>1 DEF Current
      <4>. QED BY <2>3, <4>1
    <3>. QED BY <2>3, <3>1
  <2>4. CASE m \in Range(Current)
    <3>1. cur # Absent
        BY <2>4, EmptySeq DEF Current
    <3>. QED BY <1>3, <1>7, <2>4, <3>1
  <2>5. CASE \E f \in Complete : m \in Range(backups[f])
      BY <1>3, <1>7, <1>8, <2>5, Zenon
  <2>. QED BY <2>2, <2>3, <2>4, <2>5, Zenon
<1>. QED BY <1>9, <1>10, <1>11, <1>12, <1>13, <1>14 DEF LInv, LogWhole

\* The mill adds and removes files, but whatever can be read after the step was
\* there before it under the same stamp.
LEMMA FilesKeep ==
    ASSUME LInv, UNCHANGED <<n, buff, batch, cur, open>>, gone \subseteq gone', Zipping',
           \A f \in DOMAIN backups' :
              /\ f = <<f[1], f[2]>> /\ f[2] \in {"log", "gz"}
              /\ \/ backups'[f] = Torn /\ f[2] = "gz"
                 \/ \E g \in DOMAIN backups : g[1] = f[1] /\ backups'[f] = backups[g] /\ (g[2] = f[2] \/ backups[g] # Torn),
           \A g \in Complete :
              \/ \E f \in DOMAIN backups' : backups'[f] = backups[g]
              \/ \A m \in Range(backups[g]) : m # 0 => \E x \in gone' : x[1] = m
    PROVE  LInv'
<1>1. Current' = Current
    BY DEF Current
<1>2. Complete' = {f \in DOMAIN backups' : backups'[f] # Torn}
    BY DEF Complete
<1>3. \A f \in Complete' : \E g \in Complete : g[1] = f[1] /\ backups'[f] = backups[g]
    BY <1>2, Zenon DEF Complete
<1>4. \A f \in DOMAIN backups : backups[f] \in Seq(1..n) \/ (backups[f] = Torn /\ f[2] = "gz")
    BY Zenon DEF LInv, Numbered
<1>5. Numbered'
  <2>1. ASSUME NEW f \in DOMAIN backups'
        PROVE  backups'[f] \in Seq(1..n) \/ (backups'[f] = Torn /\ f[2] = "gz")
    <3>1. CASE backups'[f] = Torn /\ f[2] = "gz"
        BY <3>1
    <3>2. CASE \E g \in DOMAIN backups : g[1] = f[1] /\ backups'[f] = backups[g] /\ (g[2] = f[2] \/ backups[g] # Torn)
        BY <1>4, <3>2
    <3>. QED BY <2>1, <3>1, <3>2, Zenon
  <2>2. /\ n \in Nat /\ n <= Len(SizeOf)
        /\ buff \in Seq(1..n) /\ batch \in Seq(1..n) /\ Current \in Seq(1..n)
        /\ open => cur # Absent
      BY Zenon DEF LInv, Numbered
  <2>. QED BY <1>1, <2>1, <2>2 DEF Numbered
<1>6. Flowing'
    BY <1>1, <1>3 DEF LInv, Flowing
<1>7. InOrder'
  <2>1. Ascending(Current) /\ \A f \in Complete' : Ascending(backups'[f]) /\ Before(backups'[f], Current)
      BY SMTT(20), <1>3 DEF LInv, LogWhole, InOrder
  <2>2. ASSUME NEW f \in Complete', NEW g \in Complete'
        PROVE  /\ f[1] < g[1] => Before(backups'[f], backups'[g])
               /\ f[1] = g[1] => backups'[f] = backups'[g]
    <3>1. PICK a \in Complete : a[1] = f[1] /\ backups'[f] = backups[a]
        BY <1>3, Zenon
    <3>2. PICK b \in Complete : b[1] = g[1] /\ backups'[g] = backups[b]
        BY <1>3, Zenon
    <3>. QED BY <3>1, <3>2 DEF LInv, LogWhole, InOrder
  <2>. QED BY <1>1, <2>1, <2>2, Zenon DEF InOrder
<1>8. FileBounded'
  <2>1. \A f \in Complete : Size(backups[f]) <= MaxSize
      BY Zenon DEF LInv, LogWhole, FileBounded, Complete
  <2>2. \A f \in Complete' : Size(backups'[f]) <= MaxSize
      BY <1>3, <2>1
  <2>3. cur' # Absent => Size(cur') <= MaxSize
      BY Zenon DEF LInv, LogWhole, FileBounded
  <2>. QED BY <1>2, <2>2, <2>3 DEF FileBounded
<1>9. NothingLost'
  <2>1. SUFFICES ASSUME NEW m \in 1..n
                 PROVE  \/ m \in Range(buff) \cup Range(batch) \cup Range(Current)
                        \/ \E f \in Complete' : m \in Range(backups'[f])
                        \/ \E g \in gone' : g[1] = m
      BY <1>1, Zenon DEF NothingLost
  <2>2. \/ m \in Range(buff) \cup Range(batch) \cup Range(Current)
        \/ \E f \in Complete : m \in Range(backups[f])
        \/ \E g \in gone : g[1] = m
      BY <2>1, Zenon DEF LInv, LogWhole, NothingLost
  <2>3. CASE \E f \in Complete : m \in Range(backups[f])
    <3>1. PICK g \in Complete : m \in Range(backups[g])
        BY <2>3
    <3>2. CASE \E f \in DOMAIN backups' : backups'[f] = backups[g]
      <4>1. backups[g] # Torn
          BY Zenon DEF Complete
      <4>. QED BY <1>2, <3>1, <3>2, <4>1, Zenon
    <3>3. CASE \A k \in Range(backups[g]) : k # 0 => \E x \in gone' : x[1] = k
      <4>1. m # 0
          BY DEF LInv, Numbered
      <4>. QED BY <3>1, <3>3, <4>1
    <3>. QED BY <3>1, <3>2, <3>3, Zenon
  <2>. QED BY <2>2, <2>3, Zenon
<1>. QED BY <1>5, <1>6, <1>7, <1>8, <1>9 DEF LInv, LogWhole

\* The mill removes a backup: its messages are gone by number or age.
LEMMA RemovesWhole ==
    ASSUME LInv, MInv, NEW z \in mill.remove, MillRemoves(z)
    PROVE  LInv'
<1>1. /\ backups' = [g \in DOMAIN backups \ {z} |-> backups[g]]
      /\ gone' = gone \cup {<<m, "removed">> : m \in Range(backups[z]) \ {0}}
      /\ UNCHANGED <<n, buff, batch, cur, open>>
    BY DEF MillRemoves, Without
<1>2. /\ mill.pc = "work" /\ mill'.pc = "work" /\ mill'.compress = mill.compress
    BY DEF MillRemoves, MInv, Milled
<1>3. Zipping'
    BY <1>2 DEF LInv, Zipping
<1>4. \A f \in DOMAIN backups : f = <<f[1], f[2]>> /\ f[2] \in {"log", "gz"}
    BY DEF LInv, Numbered
<1>5. \A f \in DOMAIN backups' : f \in DOMAIN backups /\ backups'[f] = backups[f]
    BY <1>1
<1>6. \A m \in Range(backups[z]) : m # 0 => \E x \in gone' : x[1] = m
  <2>1. \A m \in Range(backups[z]) : m # 0 => <<m, "removed">> \in gone' /\ <<m, "removed">>[1] = m
      BY <1>1
  <2>. QED BY <2>1, Zenon
<1>7. \A g \in Complete :
         \/ \E f \in DOMAIN backups' : backups'[f] = backups[g]
         \/ \A m \in Range(backups[g]) : m # 0 => \E x \in gone' : x[1] = m
  <2>1. \A g \in Complete : g = z \/ (g \in DOMAIN backups' /\ backups'[g] = backups[g])
      BY <1>1 DEF Complete
  <2>. QED BY <1>6, <2>1
<1>8. gone \subseteq gone'
    BY <1>1
<1>9. \A f \in DOMAIN backups' :
         /\ f = <<f[1], f[2]>> /\ f[2] \in {"log", "gz"}
         /\ \E g \in DOMAIN backups : g[1] = f[1] /\ backups'[f] = backups[g] /\ (g[2] = f[2] \/ backups[g] # Torn)
    BY <1>4, <1>5
<1>. QED BY <1>1, <1>3, <1>7, <1>8, <1>9, FilesKeep, Zenon

\* The mill makes an unfinished compressed file, which nobody reads.
LEMMA CreatesWhole ==
    ASSUME LInv, MInv, NEW z \in mill.compress, MillCreates(z)
    PROVE  LInv'
<1>1. /\ backups' = [g \in DOMAIN backups \cup {Zipped(z)} |-> IF g = Zipped(z) THEN Torn ELSE backups[g]]
      /\ UNCHANGED <<n, buff, batch, cur, open, gone>>
    BY DEF MillCreates, WithFile
<1>2. z \in DOMAIN backups /\ z[2] = "log"
    BY Zenon DEF LInv, Zipping, MInv, Milled
<1>3. mill'.pc = "fill" /\ mill'.compress \subseteq mill.compress /\ mill'.zip = z
    BY DEF MillCreates, MInv, Milled
<1>4. Zipping'
    BY <1>2, <1>3 DEF LInv, Zipping
<1>5. Zipped(z)[1] = z[1] /\ Zipped(z)[2] = "gz" /\ Zipped(z) = <<Zipped(z)[1], Zipped(z)[2]>> /\ Zipped(z) # z
    BY <1>2 DEF Zipped
<1>6. \A f \in DOMAIN backups : f = <<f[1], f[2]>> /\ f[2] \in {"log", "gz"}
    BY DEF LInv, Numbered
<1>7. \A f \in DOMAIN backups' : \/ f = Zipped(z) /\ backups'[f] = Torn
                                 \/ f \in DOMAIN backups /\ backups'[f] = backups[f]
    BY <1>1
<1>8. z \in DOMAIN backups' /\ backups'[z] = backups[z] /\ z \in Complete
  <2>1. backups[z] # Torn
    <3>1. backups[z] \in Seq(1..n) /\ n \in Nat
        BY <1>2 DEF LInv, Numbered
    <3>2. \A i \in DOMAIN backups[z] : backups[z][i] # 0
        BY <3>1
    <3>3. 1 \in DOMAIN Torn /\ Torn[1] = 0
        BY DEF Torn
    <3>. QED BY <3>2, <3>3
  <2>. QED BY <1>1, <1>2, <1>5, <2>1 DEF Complete
<1>9. \A g \in Complete : \E f \in DOMAIN backups' : backups'[f] = backups[g]
  <2>1. ASSUME NEW g \in Complete, g # Zipped(z)
        PROVE  g \in DOMAIN backups' /\ backups'[g] = backups[g]
      BY <1>1, <2>1 DEF Complete
  <2>2. ASSUME NEW g \in Complete, g = Zipped(z)
        PROVE  backups'[z] = backups[g]
      BY <1>5, <1>8, <2>2 DEF LInv, LogWhole, InOrder
  <2>. QED BY <1>8, <2>1, <2>2
<1>10. \A f \in DOMAIN backups' :
         /\ f = <<f[1], f[2]>> /\ f[2] \in {"log", "gz"}
         /\ \/ backups'[f] = Torn /\ f[2] = "gz"
            \/ \E g \in DOMAIN backups : g[1] = f[1] /\ backups'[f] = backups[g] /\ (g[2] = f[2] \/ backups[g] # Torn)
    BY <1>5, <1>6, <1>7
<1>. QED BY <1>1, <1>4, <1>9, <1>10, FilesKeep, Zenon

\* The compressed file is finished and equals its source.
LEMMA FillsWhole ==
    ASSUME LInv, MInv, MillFills
    PROVE  LInv'
<1>. DEFINE z == mill.zip
<1>1. /\ backups' = [g \in DOMAIN backups \cup {Zipped(z)} |-> IF g = Zipped(z) THEN backups[z] ELSE backups[g]]
      /\ UNCHANGED <<n, buff, batch, cur, open, gone>>
    BY DEF MillFills, WithFile
<1>2. z \in DOMAIN backups /\ z[2] = "log"
    BY DEF LInv, Zipping, MInv, Milled, MillFills
<1>3. mill'.pc = "unlink" /\ mill'.compress = mill.compress /\ mill'.zip = z
    BY DEF MillFills, MInv, Milled
<1>. HIDE DEF z
<1>4. Zipped(z)[1] = z[1] /\ Zipped(z)[2] = "gz" /\ Zipped(z) = <<Zipped(z)[1], Zipped(z)[2]>> /\ Zipped(z) # z
    BY <1>2 DEF Zipped
<1>5. /\ Zipped(z) \in DOMAIN backups' /\ backups'[Zipped(z)] = backups[z]
      /\ z \in DOMAIN backups' /\ backups'[z] = backups[z]
    BY <1>1, <1>2, <1>4
<1>6. Zipping'
    BY <1>2, <1>3, <1>5 DEF LInv, Zipping, Zipped
<1>7. \A f \in DOMAIN backups : f = <<f[1], f[2]>> /\ f[2] \in {"log", "gz"}
    BY DEF LInv, Numbered
<1>8. \A f \in DOMAIN backups' : f = Zipped(z) \/ (f \in DOMAIN backups /\ backups'[f] = backups[f])
    BY <1>1
<1>9. z \in Complete
  <2>1. backups[z] # Torn
    <3>1. backups[z] \in Seq(1..n) /\ n \in Nat
        BY <1>2 DEF LInv, Numbered
    <3>2. \A i \in DOMAIN backups[z] : backups[z][i] # 0
        BY <3>1
    <3>3. 1 \in DOMAIN Torn /\ Torn[1] = 0
        BY DEF Torn
    <3>. QED BY <3>2, <3>3
  <2>. QED BY <1>2, <2>1 DEF Complete
<1>10. \A g \in Complete : \E f \in DOMAIN backups' : backups'[f] = backups[g]
  <2>1. ASSUME NEW g \in Complete, g # Zipped(z)
        PROVE  g \in DOMAIN backups' /\ backups'[g] = backups[g]
      BY <1>1, <2>1 DEF Complete
  <2>2. ASSUME NEW g \in Complete, g = Zipped(z)
        PROVE  backups'[z] = backups[g]
      BY <1>4, <1>5, <1>9, <2>2, Zenon DEF LInv, LogWhole, InOrder
  <2>. QED BY <1>5, <2>1, <2>2
<1>11. ASSUME NEW f \in DOMAIN backups'
       PROVE  /\ f = <<f[1], f[2]>> /\ f[2] \in {"log", "gz"}
              /\ \/ backups'[f] = Torn /\ f[2] = "gz"
                 \/ \E g \in DOMAIN backups : g[1] = f[1] /\ backups'[f] = backups[g] /\ (g[2] = f[2] \/ backups[g] # Torn)
  <2>1. CASE f = Zipped(z)
    <3>1. z[1] = f[1] /\ backups'[f] = backups[z] /\ backups[z] # Torn
        BY <1>4, <1>5, <1>9, <2>1 DEF Complete
    <3>. QED BY <1>2, <1>4, <2>1, <3>1
  <2>2. CASE f \in DOMAIN backups /\ backups'[f] = backups[f]
      BY <1>7, <2>2
  <2>. QED BY <1>8, <2>1, <2>2
<1>. QED BY <1>1, <1>6, <1>10, <1>11, FilesKeep, Zenon

\* The source goes, its copy stays.
LEMMA UnlinksWhole ==
    ASSUME LInv, MInv, MillUnlinks
    PROVE  LInv'
<1>. DEFINE z == mill.zip
<1>1. /\ backups' = [g \in DOMAIN backups \ {z} |-> backups[g]]
      /\ UNCHANGED <<n, buff, batch, cur, open, gone>>
    BY DEF MillUnlinks, Without
<1>2. z[2] = "log" /\ Zipped(z) \in DOMAIN backups /\ backups[Zipped(z)] = backups[z]
    BY DEF LInv, Zipping, MillUnlinks
<1>3. mill'.pc = "work" /\ mill'.compress = mill.compress
    BY DEF MillUnlinks, MInv, Milled
<1>4. Zipping'
    BY <1>3 DEF LInv, Zipping
<1>. HIDE DEF z
<1>5. Zipped(z) # z
    BY <1>2 DEF Zipped
<1>6. \A f \in DOMAIN backups : f = <<f[1], f[2]>> /\ f[2] \in {"log", "gz"}
    BY DEF LInv, Numbered
<1>7. \A f \in DOMAIN backups' : f \in DOMAIN backups /\ backups'[f] = backups[f]
    BY <1>1
<1>8. \A g \in Complete : \E f \in DOMAIN backups' : backups'[f] = backups[g]
  <2>1. ASSUME NEW g \in Complete, g # z
        PROVE  g \in DOMAIN backups' /\ backups'[g] = backups[g]
      BY <1>1, <2>1 DEF Complete
  <2>2. Zipped(z) \in DOMAIN backups' /\ backups'[Zipped(z)] = backups[z]
      BY <1>1, <1>2, <1>5
  <2>. QED BY <2>1, <2>2
<1>9. \A f \in DOMAIN backups' :
         /\ f = <<f[1], f[2]>> /\ f[2] \in {"log", "gz"}
         /\ \E g \in DOMAIN backups : g[1] = f[1] /\ backups'[f] = backups[g] /\ (g[2] = f[2] \/ backups[g] # Torn)
    BY <1>6, <1>7
<1>. QED BY <1>1, <1>4, <1>8, <1>9, FilesKeep

\* The writer starts a file, or a caller does.
LEMMA NewFileWhole ==
    ASSUME LInv, MInv, StartFile \/ Rotate
    PROVE  LInv'
<1>1. PICK s : /\ OpenNew(s) \/ OpenNewFails(s)
               /\ s = batch \/ s = <<>>
               /\ \/ s = batch /\ batch' = <<>> /\ Size(s) <= MaxSize
                  \/ s = <<>> /\ batch' = batch
               /\ UNCHANGED <<n, buff, mill>>
    BY DEF StartFile, Rotate, Fits, NoBatch
<1>2. Size(s) <= MaxSize
    BY <1>1, SizeEmpty, SizeAssumption
<1>3. \A m \in Range(batch) : \E g \in With(batch) : g[1] = m
  <2>1. \A m \in Range(batch) : <<m, "error">> \in With(batch) /\ <<m, "error">>[1] = m
      BY DEF With
  <2>. QED BY <2>1, Zenon
<1>4. CASE UNCHANGED <<cur, backups>> /\ gone' = gone \cup With(s) /\ open' = FALSE
  <2>1. Zipping'
      BY <1>1, <1>4 DEF LInv, Zipping
  <2>2. batch' = batch \/ (batch' = <<>> /\ s = batch)
      BY <1>1
  <2>3. \A m \in Range(batch) : batch' = batch \/ \E g \in gone' : g[1] = m
      BY <1>3, <1>4, <2>2
  <2>4. gone \subseteq gone' /\ (open' => open)
      BY <1>4
  <2>5. buff' = buff /\ UNCHANGED <<n, cur, backups>>
      BY <1>1, <1>4
  <2>. QED BY SMTT(20), <2>1, <2>2, <2>3, <2>4, <2>5, DropsKeep
<1>5. CASE /\ StampFree /\ backups' = Moved
           /\ (cur' = s /\ UNCHANGED gone) \/ (cur' = Absent /\ ~open' /\ gone' = gone \cup With(s))
  <2>1. gone \subseteq gone' /\ (cur' = s \/ (cur' = Absent /\ ~open'))
      BY <1>5
  <2>2. batch' = <<>> \/ (batch' = batch /\ s = <<>>)
      BY <1>1
  <2>3. batch' = batch \/ (cur' = s /\ s = batch) \/ \A m \in Range(batch) : \E g \in gone' : g[1] = m
      BY <1>1, <1>3, <1>5
  <2>. QED BY <1>1, <1>2, <1>5, <2>1, <2>2, <2>3, MovedKeeps
<1>6. \/ UNCHANGED <<cur, backups>> /\ gone' = gone \cup With(s) /\ open' = FALSE
      \/ /\ StampFree /\ backups' = Moved
         /\ (cur' = s /\ UNCHANGED gone) \/ (cur' = Absent /\ ~open' /\ gone' = gone \cup With(s))
    BY <1>1 DEF OpenNew, OpenNewFails
<1>. QED BY <1>4, <1>5, <1>6, Zenon

\* The batch is refused, the file closed, the clock ticks, the process dies, or
\* the mill takes a signal, is done or gives up.
LEMMA OthersWhole ==
    ASSUME LInv, MInv,
           TooLarge \/ CloseLog \/ Tick \/ Crash \/ MillTakes \/ MillDone \/ MillGivesUp
    PROVE  LInv'
<1>1. /\ UNCHANGED <<n, cur, backups>> /\ (open' => open) /\ gone \subseteq gone'
      /\ buff' = buff \/ buff' = <<>>
      /\ batch' = batch \/ batch' = <<>>
  <2>1. CASE TooLarge \/ CloseLog \/ Tick
      BY SMTT(20), <2>1 DEF TooLarge, CloseLog, Tick, NoBatch
  <2>2. CASE Crash
      BY <2>2 DEF Crash, NoBatch
  <2>3. CASE MillTakes \/ MillDone \/ MillGivesUp
      BY <2>3 DEF MillTakes, MillDone, MillGivesUp
  <2>. QED BY <2>1, <2>2, <2>3, Zenon
<1>2. \A m \in Range(buff) : buff' = buff \/ \E g \in gone' : g[1] = m
  <2>1. CASE Crash
    <3>1. \A m \in Range(buff) : <<m, "crash">> \in gone' /\ <<m, "crash">>[1] = m
        BY <2>1 DEF Crash
    <3>. QED BY <3>1, Zenon
  <2>2. CASE ~Crash
      BY <2>2, Zenon DEF TooLarge, CloseLog, Tick, MillTakes, MillDone, MillGivesUp
  <2>. QED BY <2>1, <2>2
<1>3. \A m \in Range(batch) : batch' = batch \/ \E g \in gone' : g[1] = m
  <2>1. CASE Crash
    <3>1. \A m \in Range(batch) : <<m, "crash">> \in gone' /\ <<m, "crash">>[1] = m
        BY <2>1 DEF Crash
    <3>. QED BY <3>1, Zenon
  <2>2. CASE TooLarge
    <3>1. \A m \in Range(batch) : <<m, "toolarge">> \in gone' /\ <<m, "toolarge">>[1] = m
        BY <2>2 DEF TooLarge
    <3>. QED BY <3>1, Zenon
  <2>3. CASE CloseLog \/ Tick \/ MillTakes \/ MillDone \/ MillGivesUp
      BY <2>3, Zenon DEF CloseLog, Tick, MillTakes, MillDone, MillGivesUp
  <2>. QED BY SMTT(20), <2>1, <2>2, <2>3
<1>4. Zipping'
  <2>1. CASE TooLarge \/ CloseLog \/ Tick
      BY <2>1, Zenon DEF TooLarge, CloseLog, Tick, LInv, Zipping
  <2>2. CASE Crash \/ MillDone
      BY <2>2 DEF Crash, MillDone, Idle, Zipping
  <2>3. CASE MillTakes
    <3>1. mill'.pc = "work" /\ \A f \in mill'.compress : f[2] = "log"
        BY <2>3, Zenon DEF MillTakes, Idle
    <3>. QED BY <3>1 DEF Zipping
  <2>4. CASE MillGivesUp
    <3>1. mill'.pc = "work" /\ mill'.compress = mill.compress
        BY <2>4 DEF MillGivesUp, MInv, Milled
    <3>. QED BY <3>1 DEF LInv, Zipping
  <2>. QED BY SMTT(20), <2>1, <2>2, <2>3, <2>4
<1>. QED BY <1>1, <1>2, <1>3, <1>4, DropsKeep

\* The steps of all actors keep it.
LEMMA LogInvariant == LogSpec => []LInv
<1>1. LogInit => LInv
  <2>1. SUFFICES ASSUME LogInit
                 PROVE  LInv
      OBVIOUS
  <2>2. n = 0 /\ buff = <<>> /\ batch = <<>> /\ cur = Absent /\ ~open /\ DOMAIN backups = {} /\ mill = Idle
      BY <2>1 DEF LogInit, NoBatch, NoFiles
  <2>3. Current = <<>> /\ Complete = {}
      BY <2>2 DEF Current, Complete
  <2>4. Numbered
      BY <2>2, <2>3, EmptySeq, SizeAssumption DEF Numbered
  <2>5. Flowing
      BY <2>2, <2>3, EmptySeq DEF Flowing
  <2>6. Zipping
      BY <2>2 DEF Zipping, Idle
  <2>7. LogWhole
      BY <2>2, <2>3, EmptySeq DEF LogWhole, InOrder, NothingLost, FileBounded
  <2>. QED BY <2>4, <2>5, <2>6, <2>7 DEF LInv
<1>2. LInv /\ MInv /\ [LogNext]_logVars => LInv'
  <2>1. SUFFICES ASSUME LInv, MInv, [LogNext]_logVars
                 PROVE  LInv'
      OBVIOUS
  <2>2. CASE LogNext
      BY <2>1, <2>2, WriteKeeps, TakeKeeps, AppendKeeps, NewFileWhole, OthersWhole,
         RemovesWhole, CreatesWhole, FillsWhole, UnlinksWhole, Zenon DEF LogNext, WriterStep, MillStep
  <2>3. CASE UNCHANGED logVars
    <3>1. UNCHANGED <<n, cur, backups, open, buff, batch, gone, mill>>
        BY <2>3 DEF logVars
    <3>2. Zipping'
        BY <2>1, <3>1 DEF LInv, Zipping
    <3>. QED BY <2>1, <3>1, <3>2, DropsKeep
  <2>. QED BY <2>1, <2>2, <2>3
<1>. QED BY <1>1, <1>2, MillInvariant, PTL DEF LogSpec

\* For any messages, limits and times of rotation, with failures of the file
\* system and crashes between any two steps: the files that can be read hold
\* the messages in the order they were written and each once, a message that
\* Write accepted and is in none of them was dropped for a known reason, and no
\* file exceeds MaxSize.
THEOREM TheLogIsWhole == LogSpec => []LogWhole
<1>1. LInv => LogWhole
    BY DEF LInv
<1>. QED BY <1>1, LogInvariant, PTL

-----------------------------------------------------------------------------
(* The newest backups are kept.  The mill's list is made once and worked off *)
(* in steps between which backups come and go, so what justified a name on   *)
(* the list must still justify it when its turn comes.                       *)

\* The later backups that are not on the list.
Spared(t) == {u \in Stamps : u > t /\ \A g \in mill.remove : g[1] # u}

\* A backup on the list is too old, or enough later ones are not on it.
Doomed ==
    \A f \in mill.remove :
       f \in DOMAIN backups /\ (TooOld(f[1]) \/ (MaxBackups > 0 /\ Cardinality(Spared(f[1])) >= MaxBackups))

\* A bounded set of numbers has a largest one.
LEMMA Largest ==
    ASSUME NEW b \in Nat, NEW S \in SUBSET Nat, S # {}, \A x \in S : x <= b
    PROVE  \E x \in S : \A y \in S : y <= x
<1>. DEFINE T == {b - x : x \in S}
<1>1. T \subseteq Nat /\ T # {}
  <2>1. \A x \in S : b - x \in Nat
      OBVIOUS
  <2>. QED BY <2>1, Zenon
<1>. HIDE DEF T
<1>2. \E x \in T : \A y \in T : ~(<<y, x>> \in OpToRel(<, Nat))
    BY <1>1, WFMin, NatLessThanWellFounded, Zenon
<1>3. PICK x \in T : \A y \in T : ~(y < x)
    BY <1>1, <1>2, Zenon DEF OpToRel
<1>4. PICK z \in S : x = b - z
    BY DEF T
<1>5. \A y \in S : b - y \in T
    BY DEF T
<1>6. \A y \in S : y <= z
    BY <1>1, <1>3, <1>4, <1>5
<1>. QED BY <1>6

\* When one backup is too many, MaxBackups later ones are not.
LEMMA EnoughSpared ==
    ASSUME Typed, NEW t \in Stamps, TooMany(t)
    PROVE  Cardinality({u \in Stamps : u > t /\ ~TooMany(u)}) >= MaxBackups
<1>. DEFINE Many == {u \in Stamps : TooMany(u)}
<1>1. Stamps \subseteq Nat /\ now \in Nat /\ \A u \in Stamps : u <= now
    BY DEF Typed, Stamps
<1>2. Many \in SUBSET Nat /\ t \in Many /\ \A u \in Many : u <= now
    BY <1>1, Zenon
<1>3. PICK m \in Many : \A u \in Many : u <= m
  <2>. HIDE DEF Many
  <2>. QED BY <1>1, <1>2, Largest, Zenon
<1>4. m \in Stamps /\ m \in Nat /\ t \in Nat /\ t <= m
    BY <1>1, <1>2, <1>3
<1>. DEFINE above == {u \in Stamps : u >= m}
            later == {u \in Stamps : u > m}
            spared == {u \in Stamps : u > t /\ ~TooMany(u)}
<1>5. Cardinality(above) > MaxBackups
    BY <1>3 DEF TooMany, Rank
<1>6. above = later \cup {m} /\ m \notin later
  <2>1. \A u \in Stamps : u >= m <=> u > m \/ u = m
      BY <1>1, <1>4
  <2>2. ~(m > m)
      BY <1>4
  <2>. QED BY <1>4, <2>1, <2>2, Zenon
<1>7. later \subseteq spared
  <2>1. ASSUME NEW u \in later
        PROVE  u \in Stamps /\ u > t /\ u \notin Many
    <3>1. u \in Stamps /\ u \in Nat /\ u > m
        BY <1>1
    <3>. HIDE DEF Many
    <3>2. u \notin Many
        BY <1>3, <1>4, <3>1
    <3>. QED BY <1>4, <3>1, <3>2
  <2>2. \A u \in later : u \in Stamps /\ u > t /\ ~TooMany(u)
      BY <2>1
  <2>. HIDE DEF later, TooMany
  <2>. QED BY <2>2
<1>8. IsFiniteSet(later) /\ IsFiniteSet(spared)
    BY StampsFinite, FS_Subset
<1>. HIDE DEF above, later, spared
<1>9. Cardinality(above) = Cardinality(later) + 1
    BY <1>6, <1>8, FS_AddElement, Zenon
<1>10. Cardinality(later) <= Cardinality(spared) /\ Cardinality(later) \in Nat /\ Cardinality(spared) \in Nat
    BY <1>7, <1>8, FS_Subset, FS_CardinalityType
<1>11. Cardinality(spared) >= MaxBackups
    BY SMTT(20), <1>5, <1>9, <1>10, SizeAssumption
<1>. QED BY <1>11 DEF spared

\* What is on the list stays justified while none of the spared ones goes.
LEMMA StillDoomed ==
    ASSUME Doomed, Typed, Typed', now' >= now, mill'.remove \subseteq mill.remove,
           \A f \in mill'.remove : f \in DOMAIN backups',
           \A f \in DOMAIN backups : f \in mill.remove \/ f[1] \in Stamps'
    PROVE  Doomed'
<1>1. SUFFICES ASSUME NEW f \in mill'.remove
               PROVE  TooOld(f[1])' \/ (MaxBackups > 0 /\ Cardinality(Spared(f[1])') >= MaxBackups)
    BY DEF Doomed
<1>2. f \in mill.remove /\ f \in DOMAIN backups /\ f[1] \in Nat
    BY DEF Doomed, Typed
<1>3. CASE TooOld(f[1])
  <2>1. MaxAge > 0 /\ f[1] < now - MaxAge
      BY <1>3 DEF TooOld
  <2>2. f[1] < now' - MaxAge
      BY SMTT(20), <1>2, <2>1, SizeAssumption DEF Typed
  <2>. QED BY <2>1, <2>2 DEF TooOld
<1>4. CASE MaxBackups > 0 /\ Cardinality(Spared(f[1])) >= MaxBackups
  <2>1. Spared(f[1]) \subseteq Spared(f[1])'
    <3>1. ASSUME NEW u \in Spared(f[1])
          PROVE  u \in Stamps' /\ u > f[1] /\ \A g \in mill'.remove : g[1] # u
      <4>1. u \in Stamps /\ u > f[1] /\ \A g \in mill.remove : g[1] # u
          BY DEF Spared
      <4>2. PICK h \in DOMAIN backups : h[1] = u
          BY <4>1 DEF Stamps
      <4>. QED BY <4>1, <4>2
    <3>. QED BY <3>1 DEF Spared
  <2>2. IsFiniteSet(Stamps')
    <3>1. Stamps' \subseteq 0..now' /\ now' \in Int /\ 0 \in Int
        BY DEF Typed, Stamps
    <3>2. IsFiniteSet(0..now')
        BY <3>1, FS_Interval
    <3>. QED BY <3>1, <3>2, FS_Subset, Zenon
  <2>3. IsFiniteSet(Spared(f[1])')
    <3>1. Spared(f[1])' \subseteq Stamps'
        BY DEF Spared
    <3>. QED BY <2>2, <3>1, FS_Subset
  <2>4. /\ IsFiniteSet(Spared(f[1]))
        /\ Cardinality(Spared(f[1])) <= Cardinality(Spared(f[1])')
      BY SMTT(20), <2>1, <2>3, FS_Subset
  <2>5. Cardinality(Spared(f[1])) \in Nat /\ Cardinality(Spared(f[1])') \in Nat
      BY SMTT(20), <2>3, <2>4, FS_CardinalityType
  <2>. QED BY SMTT(20), <1>4, <2>4, <2>5, SizeAssumption
<1>. QED BY <1>2, <1>3, <1>4, Zenon DEF Doomed

\* No step takes away the newer backups that doom the ones on the mill's
\* list.
LEMMA DoomedStep ==
    ASSUME Doomed, LInv, MInv, MInv', [LogNext]_logVars
    PROVE  Doomed'
<1>. USE DEF MInv
<1>1. CASE MillTakes
  <2>1. SUFFICES ASSUME NEW f \in mill'.remove, ~TooOld(f[1])'
                 PROVE  f \in DOMAIN backups' /\ MaxBackups > 0 /\ Cardinality(Spared(f[1])') >= MaxBackups
    <3>1. \A f \in mill'.remove : f \in DOMAIN backups'
        BY <1>1 DEF MillTakes, Idle
    <3>. QED BY <3>1 DEF Doomed
  <2>2. /\ UNCHANGED <<backups, now>>
        /\ mill'.remove = {g \in DOMAIN backups : TooMany(g[1]) \/ TooOld(g[1])}
      BY <1>1 DEF MillTakes, Idle
  <2>3. f \in DOMAIN backups /\ ~TooOld(f[1]) /\ TooMany(f[1]) /\ f[1] \in Stamps
      BY <2>1, <2>2 DEF TooOld, Stamps
  <2>4. \A u \in Stamps : u > f[1] => ~TooOld(u)
    <3>1. \A u \in Stamps : u \in Nat /\ f[1] \in Nat /\ now \in Nat
        BY <2>3 DEF Typed, Stamps
    <3>. QED BY <2>3, <3>1, SizeAssumption DEF TooOld
  <2>5. {u \in Stamps : u > f[1] /\ ~TooMany(u)} = Spared(f[1])'
    <3>1. Stamps' = Stamps
        BY <2>2 DEF Stamps
    <3>2. \A u \in Stamps : u > f[1] => (~TooMany(u) <=> \A g \in mill'.remove : g[1] # u)
        BY <2>2, <2>4 DEF Stamps
    <3>. QED BY <3>1, <3>2 DEF Spared
  <2>. QED BY <2>2, <2>3, <2>5, EnoughSpared, Zenon DEF TooMany
<1>2. CASE \E z \in mill.remove : MillRemoves(z)
  <2>1. PICK z \in mill.remove : MillRemoves(z)
      BY <1>2
  <2>2. /\ DOMAIN backups' = DOMAIN backups \ {z} /\ now' = now
        /\ mill'.remove = mill.remove \ {z}
      BY <2>1, Zenon DEF MillRemoves, Without, Milled
  <2>3. /\ mill'.remove \subseteq mill.remove
        /\ \A f \in mill'.remove : f \in DOMAIN backups'
        /\ \A f \in DOMAIN backups : f \in mill.remove \/ f[1] \in Stamps'
        /\ now' >= now
      BY <2>2 DEF Doomed, Stamps, Typed
  <2>. QED BY <2>3, StillDoomed
<1>3. CASE ~MillTakes /\ ~\E z \in mill.remove : MillRemoves(z)
  <2>1. mill'.remove = {} \/ (mill'.remove = mill.remove /\ DOMAIN backups \subseteq DOMAIN backups' /\ now' >= now)
    <3>1. CASE Crash \/ MillDone
        BY <3>1 DEF Crash, MillDone, Idle
    <3>2. CASE MillFills \/ MillGivesUp \/ MillUnlinks \/ \E f \in mill.compress : MillCreates(f)
        BY <3>2, Zenon DEF MillFills, MillGivesUp, MillUnlinks, MillCreates, Milled
    <3>3. CASE Write \/ WriterStep \/ Rotate \/ CloseLog \/ Tick \/ UNCHANGED logVars
      <4>1. UNCHANGED mill
          BY <3>3, Zenon DEF Write, WriterStep, TakeAll, TooLarge, AppendBatch, StartFile, Rotate, CloseLog, Tick, logVars
      <4>2. DOMAIN backups \subseteq DOMAIN backups'
          BY <3>3, Zenon DEF Write, WriterStep, TakeAll, TooLarge, AppendBatch, StartFile, Rotate, CloseLog, Tick,
                      OpenNew, OpenNewFails, Moved, logVars
      <4>3. now' = now \/ now' = now + 1
          BY <3>3, Zenon DEF Write, WriterStep, TakeAll, TooLarge, AppendBatch, StartFile, Rotate, CloseLog, Tick, logVars
      <4>. QED BY SMTT(20), <4>1, <4>2, <4>3 DEF Typed
    <3>. QED BY <1>3, <3>1, <3>2, <3>3, Zenon DEF LogNext, MillStep
  <2>2. CASE mill'.remove = {}
      BY <2>2 DEF Doomed
  <2>3. CASE mill'.remove = mill.remove /\ DOMAIN backups \subseteq DOMAIN backups' /\ now' >= now
    <3>1. \A f \in mill'.remove : f \in DOMAIN backups'
        BY <2>3 DEF Doomed
    <3>2. \A f \in DOMAIN backups : f \in mill.remove \/ f[1] \in Stamps'
        BY <2>3 DEF Stamps
    <3>. QED BY SMTT(20), <2>3, <3>1, <3>2, StillDoomed
  <2>. QED BY SMTT(20), <2>1, <2>2, <2>3
<1>. QED BY SMTT(20), <1>1, <1>2, <1>3

\* Only the mill's list costs a backup its last file.
LEMMA GoneByList ==
    ASSUME LInv, MInv, [LogNext]_logVars, NEW t \in Stamps, t \notin Stamps'
    PROVE  \E f \in mill.remove : f[1] = t
<1>1. PICK h \in DOMAIN backups : h[1] = t
    BY DEF Stamps
<1>2. h \notin DOMAIN backups'
    BY <1>1 DEF Stamps
<1>3. CASE \E z \in mill.remove : MillRemoves(z)
    BY <1>1, <1>2, <1>3 DEF MillRemoves, Without
<1>4. CASE MillUnlinks
  <2>1. h = mill.zip
      BY <1>1, <1>2, <1>4 DEF MillUnlinks, Without
  <2>2. mill.zip[2] = "log" /\ Zipped(mill.zip) \in DOMAIN backups
      BY <1>4 DEF LInv, Zipping, MillUnlinks
  <2>3. Zipped(mill.zip) # mill.zip /\ Zipped(mill.zip)[1] = t
      BY <1>1, <2>1, <2>2 DEF Zipped
  <2>4. Zipped(mill.zip) \in DOMAIN backups'
      BY <1>4, <2>2, <2>3 DEF MillUnlinks, Without
  <2>. QED BY <2>3, <2>4 DEF Stamps
<1>5. CASE ~MillUnlinks /\ ~\E z \in mill.remove : MillRemoves(z)
  <2>1. DOMAIN backups \subseteq DOMAIN backups'
    <3>1. CASE Crash \/ MillDone \/ MillTakes \/ MillGivesUp \/ UNCHANGED logVars
        BY <3>1, Zenon DEF Crash, MillDone, MillTakes, MillGivesUp, logVars
    <3>2. CASE MillFills \/ \E f \in mill.compress : MillCreates(f)
        BY <3>2, Zenon DEF MillFills, MillCreates, WithFile
    <3>3. CASE Write \/ WriterStep \/ Rotate \/ CloseLog \/ Tick
        BY <3>3, Zenon DEF Write, WriterStep, TakeAll, TooLarge, AppendBatch, StartFile, Rotate, CloseLog, Tick,
                    OpenNew, OpenNewFails, Moved
    <3>. QED BY <1>5, <3>1, <3>2, <3>3 DEF LogNext, MillStep
  <2>. QED BY <1>1, <1>2, <2>1
<1>. QED BY <1>3, <1>4, <1>5

\* For every limit and any interleaving of rotations, failures and crashes with
\* the mill: a backup disappears only when it is too old, or when MaxBackups
\* later ones are there at that moment.
THEOREM NewestAreKept == LogSpec => NewestKept
<1>1. LogInit => Doomed
  <2>1. SUFFICES ASSUME LogInit
                 PROVE  Doomed
      OBVIOUS
  <2>2. mill.remove = {}
      BY <2>1, Zenon DEF LogInit, Idle
  <2>. QED BY <2>2, Zenon DEF Doomed
<1>2. Doomed /\ LInv /\ MInv /\ MInv' /\ [LogNext]_logVars => Doomed'
    BY DoomedStep
<1>3. Doomed /\ LInv /\ MInv /\ [LogNext]_logVars =>
         [\A t \in Stamps : t \notin Stamps' => TooOld(t) \/ (MaxBackups > 0 /\ Rank(t) > MaxBackups)]_logVars
  <2>1. SUFFICES ASSUME Doomed, LInv, MInv, [LogNext]_logVars, NEW t \in Stamps, t \notin Stamps', ~TooOld(t)
                 PROVE  MaxBackups > 0 /\ Rank(t) > MaxBackups
      OBVIOUS
  <2>2. PICK f \in mill.remove : f[1] = t
      BY <2>1, GoneByList
  <2>3. MaxBackups > 0 /\ Cardinality(Spared(t)) >= MaxBackups
      BY <2>1, <2>2 DEF Doomed
  <2>4. IsFiniteSet(Stamps) /\ \A u \in Stamps : u \in Nat
    <3>1. \A u \in Stamps : u \in Nat
        BY <2>1 DEF MInv, Typed, Stamps
    <3>. QED BY <2>1, <3>1, StampsFinite DEF MInv
  <2>. DEFINE above == {u \in Stamps : u >= t}
  <2>5. IsFiniteSet(above) /\ IsFiniteSet(Spared(t))
      BY <2>4, FS_Subset DEF Spared
  <2>6. Spared(t) \cup {t} \subseteq above /\ t \notin Spared(t)
      BY <2>1, <2>4 DEF Spared
  <2>. HIDE DEF above
  <2>7. Cardinality(Spared(t) \cup {t}) = Cardinality(Spared(t)) + 1
      BY <2>5, <2>6, FS_AddElement, Zenon
  <2>8. Cardinality(Spared(t) \cup {t}) <= Cardinality(above)
      BY <2>5, <2>6, FS_Subset
  <2>9. Cardinality(Spared(t)) \in Nat /\ Cardinality(above) \in Nat
      BY <2>5, FS_CardinalityType
  <2>10. Cardinality(above) > MaxBackups
      BY <2>3, <2>7, <2>8, <2>9, SizeAssumption
  <2>. QED BY <2>3, <2>10 DEF above, Rank
<1>. QED BY <1>1, <1>2, <1>3, LogInvariant, MillInvariant, PTL DEF LogSpec, NewestKept

=============================================================================
