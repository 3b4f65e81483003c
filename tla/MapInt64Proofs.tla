--------------------------- MODULE MapInt64Proofs ----------------------------
(***************************************************************************)
(* Proof that the table of hashmap.MapInt64 stays sound, for every hash    *)
(* function, capacity and fill factor and any keys: linear probing finds   *)
(* every key, in the middle of shiftKeys and rehash too; and that it       *)
(* implements a map.                                                       *)
(***************************************************************************)
EXTENDS MapInt64, FiniteSetTheorems, WellFoundedInduction, TLAPS

-----------------------------------------------------------------------------
(* A table, its capacity c and a set L of slots that count, as constants.  *)

AKeys == Keys \cup {FREE_KEY}
Entry == [key : AKeys, val : Vals]

Dist(c, from, s) == IF from <= s THEN s - from ELSE s + c - from
HomeIn(c, k) == PhiMix[k] % c
After(c, s) == IF s = c - 1 THEN 0 ELSE s + 1
UsedOf(c, d) == {s \in Slots(c) : d[s].key # FREE_KEY}

Table(c, d) ==
    /\ c \in Nat /\ c >= 2
    /\ d \in [Slots(c) -> Entry]

Chained(c, d, L) ==
    /\ \A s, r \in L : d[s].key = d[r].key => s = r
    /\ \A s \in L, r \in Slots(c) :
         Dist(c, HomeIn(c, d[s].key), r) < Dist(c, HomeIn(c, d[s].key), s) => d[r].key # FREE_KEY

Stored(d, s, e) == [d EXCEPT ![s] = e]

\* The slots o still to be put again: no key twice, and none that the table has.
Pending(o, c, d) ==
    /\ o \in Seq(Entry)
    /\ \A i, j \in 1..Len(o) : o[i].key = o[j].key /\ o[i].key # FREE_KEY => i = j
    /\ \A i \in 1..Len(o), s \in UsedOf(c, d) : o[i].key # d[s].key

SlotList(c, d) == [i \in 1..c |-> d[i - 1]]

\* s is where the probe for k stops.
Found(c, d, k, s) ==
    /\ s \in Slots(c) /\ d[s].key \in {k, FREE_KEY}
    /\ \A r \in Slots(c) :
         d[r].key \in {k, FREE_KEY} => Dist(c, HomeIn(c, k), s) <= Dist(c, HomeIn(c, k), r)

-----------------------------------------------------------------------------
(* Going around. *)

\* A distance is less than the number of slots.
LEMMA DistIn ==
    ASSUME NEW c \in Nat, NEW h \in Slots(c), NEW s \in Slots(c)
    PROVE  Dist(c, h, s) \in Nat /\ Dist(c, h, s) < c
BY DEF Dist, Slots

\* Slots at the same distance are the same.
LEMMA DistInjective ==
    ASSUME NEW c \in Nat, NEW h \in Slots(c), NEW s \in Slots(c), NEW r \in Slots(c),
           Dist(c, h, s) = Dist(c, h, r)
    PROVE  s = r
BY DEF Dist, Slots

\* From h one comes to l before s; from l to p before s: then from h to p.
LEMMA DistThrough ==
    ASSUME NEW c \in Nat, NEW h \in Slots(c), NEW l \in Slots(c), NEW p \in Slots(c), NEW s \in Slots(c),
           Dist(c, h, l) < Dist(c, h, s), Dist(c, l, p) < Dist(c, l, s)
    PROVE  Dist(c, h, p) < Dist(c, h, s)
BY DEF Dist, Slots

\* What lies before the slot after p is p or lies before p.
LEMMA DistAfter ==
    ASSUME NEW c \in Nat, NEW l \in Slots(c), NEW p \in Slots(c), NEW s \in Slots(c),
           Dist(c, l, s) < Dist(c, l, After(c, p))
    PROVE  s = p \/ Dist(c, l, s) < Dist(c, l, p)
BY DEF Dist, Slots, After

\* The next slot is another slot of the table.
LEMMA AfterIn ==
    ASSUME NEW c \in Nat, c >= 2, NEW p \in Slots(c)
    PROVE  After(c, p) \in Slots(c) /\ After(c, p) # p
BY DEF Slots, After

\* The home of a key is a slot.
LEMMA HomeInSlots ==
    ASSUME NEW c \in Nat, c >= 2, NEW k \in Keys
    PROVE  HomeIn(c, k) \in Slots(c)
BY PhiMixAssumption DEF HomeIn, Slots

\* The two-armed test of shiftKeys: does the probe for the entry at p, whose
\* home is h, come by l first?
LEMMA TestIsRight ==
    ASSUME NEW c \in Nat, NEW h \in Slots(c), NEW l \in Slots(c), NEW p \in Slots(c)
    PROVE  (IF l <= p THEN l >= h \/ h > p ELSE l >= h /\ h > p)
             <=> (l = p \/ Dist(c, h, l) < Dist(c, h, p))
BY DEF Dist, Slots

-----------------------------------------------------------------------------
(* The probe. *)

\* If there is a slot to stop at there is a first one.
LEMMA FirstStop ==
    ASSUME NEW c \in Nat, NEW h \in Slots(c), NEW T \in SUBSET Slots(c), T # {}
    PROVE  \E s \in T : \A r \in T : Dist(c, h, s) <= Dist(c, h, r)
<1>. DEFINE Ds == {Dist(c, h, s) : s \in T}
            R == OpToRel(<, Nat)
<1>1. Ds \subseteq Nat /\ Ds # {}
    BY DistIn
<1>2. \E x \in Ds : \A y \in Ds : ~(<<y, x>> \in R)
    BY <1>1, WFMin, NatLessThanWellFounded, Zenon
<1>3. PICK x \in Ds : \A y \in Ds : ~(y < x)
    BY <1>1, <1>2, Zenon DEF OpToRel
<1>4. PICK s \in T : Dist(c, h, s) = x
    OBVIOUS
<1>5. ASSUME NEW r \in T
      PROVE  Dist(c, h, s) <= Dist(c, h, r)
    BY <1>3, <1>4, DistIn
<1>. QED BY <1>5

\* Probe is the first slot to stop at.
LEMMA ProbeFinds ==
    ASSUME Table(cap, data), NEW k \in Keys, Ends(k)
    PROVE  Found(cap, data, k, Probe(k))
<1>1. Home(k) = HomeIn(cap, k) /\ Home(k) \in Slots(cap)
    BY HomeInSlots DEF Home, HomeIn, Table
<1>2. \A s \in Slots(cap) : Ahead(Home(k), s) = Dist(cap, Home(k), s)
    BY DEF Ahead, Dist
<1>3. Stops(k) \in SUBSET Slots(cap) /\ Stops(k) # {}
    BY DEF Stops, Ends
<1>4. \E s \in Stops(k) : \A r \in Stops(k) : Ahead(Home(k), s) <= Ahead(Home(k), r)
  <2>1. \E s \in Stops(k) : \A r \in Stops(k) : Dist(cap, Home(k), s) <= Dist(cap, Home(k), r)
      BY <1>1, <1>3, FirstStop, Zenon DEF Table
  <2>. QED BY <1>2, <1>3, <2>1
<1>5. /\ Probe(k) \in Stops(k)
      /\ \A r \in Stops(k) : Ahead(Home(k), Probe(k)) <= Ahead(Home(k), r)
    BY <1>4 DEF Probe
<1>. QED BY <1>1, <1>2, <1>3, <1>5, Zenon DEF Found, Stops

-----------------------------------------------------------------------------
(* What the steps do to a table. *)

\* A free slot is an entry of the key 0.
LEMMA FreeIsEntry == Free \in Entry /\ Free.key = FREE_KEY /\ Zero \in Vals
BY ValsAssumption DEF Free, Entry, AKeys, Zero

\* The hole at l has been passed by for good by the entries up to p.
Passed(c, d, l, p) ==
    \A s \in UsedOf(c, d) \ {l} :
      Dist(c, l, s) < Dist(c, l, p)
        => ~(Dist(c, HomeIn(c, d[s].key), l) < Dist(c, HomeIn(c, d[s].key), s))

\* The homes of the entries are slots.
LEMMA Homes ==
    ASSUME NEW c, NEW d, Table(c, d), NEW s \in UsedOf(c, d)
    PROVE  d[s].key \in Keys /\ HomeIn(c, d[s].key) \in Slots(c) /\ s \in Slots(c)
BY HomeInSlots DEF Table, UsedOf, AKeys, Entry

\* A key that is in the table is where its probe stops.
LEMMA OnlyThere ==
    ASSUME NEW c, NEW d, Table(c, d), Chained(c, d, UsedOf(c, d)),
           NEW k \in Keys, NEW s, Found(c, d, k, s), NEW r \in UsedOf(c, d), d[r].key = k
    PROVE  r = s
<1>1. s \in Slots(c) /\ c \in Nat /\ c >= 2
    BY Zenon DEF Found, Table
<1>2. r \in Slots(c) /\ HomeIn(c, k) \in Slots(c)
    BY Homes
<1>3. Dist(c, HomeIn(c, k), s) <= Dist(c, HomeIn(c, k), r)
    BY <1>2, Zenon DEF Found
<1>4. CASE d[s].key = FREE_KEY
  <2>1. ~(Dist(c, HomeIn(c, k), s) < Dist(c, HomeIn(c, k), r))
      BY <1>1, <1>4, Zenon DEF Chained
  <2>2. Dist(c, HomeIn(c, k), s) = Dist(c, HomeIn(c, k), r)
      BY <1>1, <1>2, <1>3, <2>1, DistIn
  <2>. QED BY <1>1, <1>2, <2>2, DistInjective
<1>5. CASE d[s].key = k
    BY <1>1, <1>5, KeysAssumption, Zenon DEF Chained, UsedOf
<1>. QED BY <1>4, <1>5 DEF Found

\* put, where its probe stopped.
LEMMA PutChained ==
    ASSUME NEW c, NEW d, Table(c, d), Chained(c, d, UsedOf(c, d)),
           NEW k \in Keys, NEW s, Found(c, d, k, s), NEW e \in Entry, e.key = k,
           NEW t, t = Stored(d, s, e)
    PROVE  /\ Table(c, t) /\ Chained(c, t, UsedOf(c, t))
           /\ UsedOf(c, t) = UsedOf(c, d) \cup {s}
           /\ \A r \in Slots(c) : t[r] = IF r = s THEN e ELSE d[r]
           /\ \A r \in UsedOf(c, d) : d[r].key = k => r = s
<1>. USE KeysAssumption DEF FREE_KEY
<1>1. s \in Slots(c) /\ c \in Nat /\ c >= 2
    BY Zenon DEF Found, Table
<1>2. t = [r \in Slots(c) |-> IF r = s THEN e ELSE d[r]]
    BY <1>1, Zenon DEF Table, Stored
<1>3. Table(c, t)
    BY <1>1, <1>2 DEF Table
<1>4. UsedOf(c, t) = UsedOf(c, d) \cup {s}
    BY <1>1, <1>2, Zenon DEF UsedOf
<1>5. \A r \in UsedOf(c, d) : d[r].key = k => r = s
    BY OnlyThere, Zenon
<1>7. ASSUME NEW x \in UsedOf(c, t), NEW y \in UsedOf(c, t), t[x].key = t[y].key
      PROVE  x = y
  <2>1. x \in Slots(c) /\ y \in Slots(c)
      BY Zenon DEF UsedOf
  <2>2. CASE x = s
      BY <1>2, <1>4, <1>5, <1>7, <2>1, <2>2
  <2>3. CASE y = s
      BY <1>2, <1>4, <1>5, <1>7, <2>1, <2>3
  <2>4. CASE x # s /\ y # s
      BY <1>2, <1>4, <1>7, <2>1, <2>4 DEF Chained
  <2>. QED BY <2>2, <2>3, <2>4
<1>8. ASSUME NEW x \in UsedOf(c, t), NEW y \in Slots(c),
             Dist(c, HomeIn(c, t[x].key), y) < Dist(c, HomeIn(c, t[x].key), x)
      PROVE  t[y].key # FREE_KEY
  <2>1. CASE y = s
      BY <1>2, <2>1
  <2>2. CASE x # s /\ y # s
    <3>1. t[x] = d[x] /\ t[y] = d[y] /\ x \in UsedOf(c, d)
        BY <1>2, <1>4, <2>2, Zenon DEF UsedOf
    <3>. QED BY <1>8, <3>1, Zenon DEF Chained
  <2>3. CASE x = s /\ y # s
    <3>1. HomeIn(c, k) \in Slots(c)
        BY <1>1, HomeInSlots
    <3>2. Dist(c, HomeIn(c, k), y) < Dist(c, HomeIn(c, k), s)
        BY <1>1, <1>2, <1>8, <2>3
    <3>3. d[y].key # FREE_KEY
        BY <1>1, <3>1, <3>2, DistIn DEF Found
    <3>. QED BY <1>2, <2>3, <3>3
  <2>. QED BY <2>1, <2>2, <2>3
<1>9. Chained(c, t, UsedOf(c, t))
    BY <1>7, <1>8, Zenon DEF Chained
<1>. QED BY <1>2, <1>3, <1>4, <1>5, <1>9, Zenon

\* shiftKeys moves the entry at p into the hole at l.
LEMMA MoveChained ==
    ASSUME NEW c, NEW d, Table(c, d), NEW l \in UsedOf(c, d), NEW p \in UsedOf(c, d),
           Chained(c, d, UsedOf(c, d) \ {l}),
           l = p \/ Dist(c, HomeIn(c, d[p].key), l) < Dist(c, HomeIn(c, d[p].key), p),
           NEW t, t = Stored(d, l, d[p])
    PROVE  /\ Table(c, t) /\ UsedOf(c, t) = UsedOf(c, d)
           /\ Chained(c, t, UsedOf(c, t) \ {p})
           /\ Passed(c, t, p, After(c, p))
<1>1. l \in Slots(c) /\ p \in Slots(c) /\ c \in Nat /\ c >= 2
    BY Zenon DEF UsedOf, Table
<1>2. t = [r \in Slots(c) |-> IF r = l THEN d[p] ELSE d[r]]
    BY <1>1, Zenon DEF Table, Stored
<1>3. Table(c, t)
    BY <1>1, <1>2 DEF Table
<1>4. UsedOf(c, t) = UsedOf(c, d)
    BY <1>1, <1>2, Zenon DEF UsedOf
<1>5. Passed(c, t, p, After(c, p))
  <2>1. SUFFICES ASSUME NEW s \in UsedOf(c, t) \ {p}, Dist(c, p, s) < Dist(c, p, After(c, p))
                 PROVE  FALSE
      BY Zenon DEF Passed
  <2>2. s \in Slots(c)
      BY Zenon DEF UsedOf
  <2>. QED BY <1>1, <2>1, <2>2 DEF Dist, After, Slots
<1>6. CASE l = p
  <2>1. t = d
      BY <1>1, <1>2, <1>6 DEF Table
  <2>. QED BY <1>3, <1>4, <1>5, <1>6, <2>1
<1>7. CASE l # p
  <2>. DEFINE h == HomeIn(c, d[p].key)
  <2>1. h \in Slots(c) /\ Dist(c, h, l) < Dist(c, h, p)
      BY <1>7, Homes, Zenon
  <2>2. ASSUME NEW x \in UsedOf(c, t) \ {p}, NEW y \in UsedOf(c, t) \ {p}, t[x].key = t[y].key
        PROVE  x = y
    <3>1. x \in Slots(c) /\ y \in Slots(c) /\ x \in UsedOf(c, d) /\ y \in UsedOf(c, d)
        BY <1>4, Zenon DEF UsedOf
    <3>2. CASE x = l /\ y # l
        BY <1>2, <1>7, <2>2, <3>1, <3>2, Zenon DEF Chained
    <3>3. CASE y = l /\ x # l
        BY <1>2, <1>7, <2>2, <3>1, <3>3, Zenon DEF Chained
    <3>4. CASE x # l /\ y # l
        BY <1>2, <2>2, <3>1, <3>4, Zenon DEF Chained
    <3>. QED BY <3>2, <3>3, <3>4
  <2>3. ASSUME NEW x \in UsedOf(c, t) \ {p}, NEW y \in Slots(c),
               Dist(c, HomeIn(c, t[x].key), y) < Dist(c, HomeIn(c, t[x].key), x)
        PROVE  y \in UsedOf(c, d)
    <3>1. x \in Slots(c) /\ x \in UsedOf(c, d)
        BY <1>4, Zenon DEF UsedOf
    <3>2. CASE x # l
      <4>1. t[x] = d[x]
          BY <1>2, <3>1, <3>2
      <4>. QED BY <2>3, <3>1, <3>2, <4>1, Zenon DEF Chained, UsedOf
    <3>3. CASE x = l
      <4>1. t[x] = d[p]
          BY <1>2, <3>1, <3>3
      <4>2. Dist(c, h, y) < Dist(c, h, l)
          BY <2>3, <3>3, <4>1, Zenon
      <4>3. Dist(c, h, y) < Dist(c, h, p)
        <5>1. Dist(c, h, y) \in Nat /\ Dist(c, h, l) \in Nat /\ Dist(c, h, p) \in Nat
            BY <1>1, <2>1, DistIn, Zenon
        <5>. HIDE DEF h
        <5>. QED BY <2>1, <4>2, <5>1
      <4>. QED BY <1>7, <4>3, Zenon DEF Chained, UsedOf
    <3>. QED BY <3>2, <3>3
  <2>4. Chained(c, t, UsedOf(c, t) \ {p})
    <3>1. \A y \in UsedOf(c, d) : t[y].key # FREE_KEY
        BY <1>4, Zenon DEF UsedOf
    <3>. QED BY <2>2, <2>3, <3>1, Zenon DEF Chained
  <2>. QED BY <1>3, <1>4, <1>5, <2>4
<1>. QED BY <1>6, <1>7, Zenon

\* shiftKeys frees the hole when it has come to a free slot p.
LEMMA EndChained ==
    ASSUME NEW c, NEW d, Table(c, d), NEW l \in UsedOf(c, d), NEW p \in Slots(c), d[p].key = FREE_KEY,
           Chained(c, d, UsedOf(c, d) \ {l}), Passed(c, d, l, p),
           NEW t, t = Stored(d, l, Free)
    PROVE  /\ Table(c, t) /\ UsedOf(c, t) = UsedOf(c, d) \ {l}
           /\ Chained(c, t, UsedOf(c, t))
<1>1. l \in Slots(c) /\ c \in Nat /\ c >= 2 /\ l # p
    BY Zenon DEF UsedOf, Table
<1>2. t = [r \in Slots(c) |-> IF r = l THEN Free ELSE d[r]]
    BY <1>1, Zenon DEF Table, Stored
<1>3. Table(c, t)
    BY <1>1, <1>2, FreeIsEntry DEF Table
<1>4. UsedOf(c, t) = UsedOf(c, d) \ {l}
    BY <1>1, <1>2 DEF UsedOf, Free
<1>5. \A x \in UsedOf(c, t) : x \in Slots(c) /\ x \in UsedOf(c, d) \ {l} /\ t[x] = d[x]
    BY <1>2, <1>4, Zenon DEF UsedOf
<1>6. ASSUME NEW x \in UsedOf(c, t), NEW y \in Slots(c),
             Dist(c, HomeIn(c, t[x].key), y) < Dist(c, HomeIn(c, t[x].key), x)
      PROVE  t[y].key # FREE_KEY
  <2>. DEFINE h == HomeIn(c, d[x].key)
  <2>1. h \in Slots(c) /\ x \in Slots(c)
      BY <1>5, Homes, Zenon
  <2>2. Dist(c, h, y) < Dist(c, h, x)
      BY <1>5, <1>6, Zenon
  <2>3. d[y].key # FREE_KEY
      BY <1>5, <2>2, Zenon DEF Chained
  <2>4. SUFFICES ASSUME y = l
                 PROVE  FALSE
      BY <1>2, <2>3
  <2>5. ~(Dist(c, l, x) < Dist(c, l, p))
      BY <1>5, <2>2, <2>4, Zenon DEF Passed
  <2>6. x # p
      BY <1>5, Zenon DEF UsedOf
  <2>7. Dist(c, l, p) < Dist(c, l, x)
    <3>1. Dist(c, l, p) # Dist(c, l, x)
        BY <1>1, <2>1, <2>6, DistInjective
    <3>. QED BY <1>1, <2>1, <2>5, <3>1, DistIn
  <2>8. Dist(c, h, p) < Dist(c, h, x)
      BY <1>1, <2>1, <2>2, <2>4, <2>7, DistThrough
  <2>. QED BY <1>5, <2>8, Zenon DEF Chained
<1>7. \A x, y \in UsedOf(c, t) : t[x].key = t[y].key => x = y
    BY <1>5 DEF Chained
<1>8. Chained(c, t, UsedOf(c, t))
    BY <1>6, <1>7, Zenon DEF Chained
<1>. QED BY <1>3, <1>4, <1>8

\* shiftKeys leaves the entry at p where it is.
LEMMA PassedOn ==
    ASSUME NEW c, NEW d, Table(c, d), NEW l \in UsedOf(c, d), NEW p \in Slots(c),
           ~(Dist(c, HomeIn(c, d[p].key), l) < Dist(c, HomeIn(c, d[p].key), p)),
           Passed(c, d, l, p)
    PROVE  Passed(c, d, l, After(c, p))
<1>1. l \in Slots(c) /\ c \in Nat
    BY DEF UsedOf, Table
<1>2. \A s \in UsedOf(c, d) : Dist(c, l, s) < Dist(c, l, After(c, p)) => s = p \/ Dist(c, l, s) < Dist(c, l, p)
    BY <1>1, DistAfter, Zenon DEF UsedOf
<1>. QED BY <1>2, Zenon DEF Passed

-----------------------------------------------------------------------------
(* The inductive invariant. *)

Zeroes == IF hasFreeKey THEN 1 ELSE 0

Shaped ==
    /\ Table(cap, data) /\ size \in Int /\ hasFreeKey \in BOOLEAN
    /\ pc \in {"idle", "shift", "rehash", "spin"}
    /\ Chained(cap, data, Live)

\* Inside shiftKeys: last is the hole, and the entries between it and pos need
\* not move.
Shifting ==
    pc = "shift" => /\ last \in UsedOf(cap, data) /\ pos \in Slots(cap)
                    /\ Passed(cap, data, last, pos)

\* Inside rehash: what is to be put again, and the table counts its entries and
\* has a free slot, whatever the size was before.
Growing ==
    /\ Pending(old, cap, data)
    /\ pc # "rehash" => old = <<>>
    /\ pc = "rehash" => /\ size = Cardinality(UsedOf(cap, data)) + Zeroes
                        /\ UsedOf(cap, data) # Slots(cap)

\* size counts the entries, and one slot at least is free.
Counted ==
    ~careless =>
      /\ pc = "idle" => size = Cardinality(UsedOf(cap, data)) + Zeroes
      /\ pc = "shift" => size = Cardinality(UsedOf(cap, data) \ {last}) + Zeroes
      /\ pc \in {"idle", "shift"} => UsedOf(cap, data) # Slots(cap)

HInv == Shaped /\ Shifting /\ Growing /\ Counted

\* The number of entries.
LEMMA UsedFinite ==
    ASSUME NEW c \in Nat, NEW d
    PROVE  /\ IsFiniteSet(UsedOf(c, d)) /\ Cardinality(UsedOf(c, d)) \in Nat
           /\ UsedOf(c, d) \subseteq Slots(c)
           /\ Cardinality(UsedOf(c, d)) < c => UsedOf(c, d) # Slots(c)
<1>1. IsFiniteSet(Slots(c)) /\ Cardinality(Slots(c)) = c
  <2>1. 0 \in Int /\ c - 1 \in Int
      OBVIOUS
  <2>2. IsFiniteSet(0..(c - 1)) /\ Cardinality(0..(c - 1)) = IF 0 > c - 1 THEN 0 ELSE (c - 1) - 0 + 1
      BY <2>1, FS_Interval
  <2>. QED BY <2>2 DEF Slots
<1>2. UsedOf(c, d) \subseteq Slots(c)
    BY DEF UsedOf
<1>. QED BY <1>1, <1>2, FS_Subset, FS_CardinalityType

\* The threshold is below the capacity.
LEMMA ThresholdBelow ==
    ASSUME NEW c \in Nat, c >= 2
    PROVE  Threshold(c) \in Int /\ Threshold(c) < c
<1>1. FillNum \in Nat /\ FillDen \in Nat /\ 0 < FillDen /\ FillNum + 1 <= FillDen
    BY FillFactorAssumption
<1>2. c * FillNum \in Nat /\ c * FillDen \in Nat
    BY <1>1
<1>3. c * FillNum < c * FillDen
    BY <1>1
<1>. DEFINE q == (c * FillNum) \div FillDen
<1>4. q \in Int /\ FillDen * q <= c * FillNum
    BY <1>1, <1>2
<1>5. q < c
  <2>1. SUFFICES ASSUME q >= c
                 PROVE  FALSE
      BY <1>4
  <2>2. FillDen * q >= FillDen * c
      BY <1>1, <1>4, <2>1
  <2>. QED BY <1>1, <1>2, <1>3, <1>4, <2>2
<1>. QED BY <1>4, <1>5 DEF Threshold

\* What a caller sees of ChainUnbroken and SizeIsCount.
LEMMA InvariantSays == HInv => TableSound
<1>1. SUFFICES ASSUME HInv
               PROVE  ChainUnbroken /\ SizeIsCount
    BY DEF TableSound
<1>2. Used = UsedOf(cap, data)
    BY DEF Used, UsedOf
<1>3. ChainUnbroken
    BY <1>1, Zenon DEF HInv, Shaped, Chained, ChainUnbroken, Used, Ahead, Home, Dist, HomeIn
<1>4. SizeIsCount
    BY <1>1, <1>2 DEF HInv, Counted, SizeIsCount, Zeroes
<1>. QED BY <1>3, <1>4

-----------------------------------------------------------------------------
(* One lemma per kind of step. *)

\* Steps that leave the table alone.
LEMMA QuietKeeps ==
    ASSUME HInv, pc = "idle", pc' \in {"idle", "spin"},
           UNCHANGED <<cap, data, size, hasFreeKey, old, careless>>
    PROVE  HInv'
<1>1. Live = Used /\ Live' = Used /\ Used' = Used
    BY Zenon DEF Live, Used
<1>2. Shaped'
    BY <1>1 DEF HInv, Shaped
<1>3. Shifting' /\ Growing'
    BY Zenon DEF HInv, Shifting, Growing
<1>4. Counted'
    BY Zenon DEF HInv, Counted, Zeroes
<1>. QED BY <1>2, <1>3, <1>4 DEF HInv

\* Outside rehash nothing is to be put again.
LEMMA PendingNone == \A c, d : Pending(<<>>, c, d)
BY DEF Pending

\* Steps outside rehash leave what rehash has to do alone.
LEMMA NotGrowing ==
    ASSUME Growing, pc # "rehash", pc' # "rehash", UNCHANGED old
    PROVE  Growing'
BY PendingNone DEF Growing

\* The key 0 lives outside the table.
LEMMA ZeroKeeps ==
    ASSUME HInv, UNCHANGED careless, DelZero \/ \E v \in Tried : PutZero(v)
    PROVE  HInv'
<1>. DEFINE Same == hasFreeKey' = TRUE /\ hasFreeKey = TRUE /\ size' = size
            More == hasFreeKey' = TRUE /\ hasFreeKey = FALSE /\ size' = size + 1
            Less == hasFreeKey' = FALSE /\ (hasFreeKey = TRUE \/ careless) /\ size' = size - 1
<1>0. Same \/ More \/ Less
  <2>1. hasFreeKey = TRUE \/ hasFreeKey = FALSE
      BY DEF HInv, Shaped
  <2>2. CASE DelZero
      BY <2>1, <2>2 DEF DelZero
  <2>3. CASE \E v \in Tried : PutZero(v)
      BY <2>1, <2>3 DEF PutZero
  <2>. QED BY <2>2, <2>3, Zenon
<1>1. pc = "idle" /\ UNCHANGED <<pc, cap, data>> /\ hasFreeKey' \in BOOLEAN /\ size' \in Int
  <2>1. pc = "idle" /\ UNCHANGED <<pc, cap, data>>
      BY Zenon DEF DelZero, PutZero
  <2>2. hasFreeKey' \in BOOLEAN
      BY <1>0, Zenon
  <2>3. size' \in Int
      BY <1>0 DEF HInv, Shaped
  <2>. QED BY <2>1, <2>2, <2>3
<1>2. Live = Used /\ Live' = Used
    BY <1>1 DEF Live, Used
<1>3. Shaped'
    BY <1>1, <1>2 DEF HInv, Shaped
<1>4. Shifting' /\ Growing'
    BY <1>1, NotGrowing, Zenon DEF Shifting, HInv, loc, DelZero, PutZero
<1>5. Counted'
  <2>1. SUFFICES ASSUME ~careless
                 PROVE  size' = Cardinality(UsedOf(cap, data)) + Zeroes' /\ UsedOf(cap, data) # Slots(cap)
      BY <1>1 DEF Counted
  <2>2. size = Cardinality(UsedOf(cap, data)) + Zeroes /\ UsedOf(cap, data) # Slots(cap)
      BY <1>1, <2>1 DEF HInv, Counted
  <2>3. Cardinality(UsedOf(cap, data)) \in Nat
      BY UsedFinite DEF HInv, Shaped, Table
  <2>4. size' = Cardinality(UsedOf(cap, data)) + Zeroes'
    <3>1. CASE Same
        BY <2>2, <3>1 DEF Zeroes
    <3>2. CASE More
      <4>1. Zeroes = 0 /\ Zeroes' = 1
          BY <3>2 DEF Zeroes
      <4>. QED BY <2>2, <2>3, <3>2, <4>1
    <3>3. CASE Less
      <4>1. Zeroes = 1 /\ Zeroes' = 0
          BY <2>1, <3>3 DEF Zeroes
      <4>. QED BY <2>2, <2>3, <3>3, <4>1
    <3>. QED BY <1>0, <3>1, <3>2, <3>3, Zenon
  <2>. QED BY <2>2, <2>4
<1>. QED BY <1>3, <1>4, <1>5 DEF HInv

\* The table between calls and while it is built again.
LEMMA AllLive ==
    ASSUME Shaped, pc # "shift"
    PROVE  Chained(cap, data, UsedOf(cap, data)) /\ cap \in Nat /\ cap >= 2
BY DEF Shaped, Live, Used, UsedOf, Table

\* What is left to put again after the first entry, and that entry.
LEMMA PendingTail ==
    ASSUME NEW o, NEW c, NEW d, Pending(o, c, d), o # <<>>
    PROVE  /\ Pending(Tail(o), c, d) /\ Head(o) \in Entry
           /\ Head(o).key # FREE_KEY => \A i \in 1..Len(Tail(o)) : Tail(o)[i].key # Head(o).key
           /\ \A s \in UsedOf(c, d) : Head(o).key # d[s].key
<1>1. /\ o \in Seq(Entry) /\ Len(o) \in Nat /\ Len(o) >= 1 /\ Head(o) = o[1]
      /\ Tail(o) \in Seq(Entry) /\ Len(Tail(o)) = Len(o) - 1
      /\ \A i \in 1..Len(Tail(o)) : Tail(o)[i] = o[i + 1]
    BY DEF Pending
<1>2. \A i \in 1..Len(Tail(o)) : i + 1 \in 1..Len(o) /\ i + 1 # 1
    BY <1>1
<1>3. 1 \in 1..Len(o)
    BY <1>1
<1>4. \A i, j \in 1..Len(Tail(o)) : Tail(o)[i].key = Tail(o)[j].key /\ Tail(o)[i].key # FREE_KEY => i = j
    BY <1>1, <1>2 DEF Pending
<1>5. \A i \in 1..Len(Tail(o)), s \in UsedOf(c, d) : Tail(o)[i].key # d[s].key
    BY <1>1, <1>2 DEF Pending
<1>6. Head(o).key # FREE_KEY => \A i \in 1..Len(Tail(o)) : Tail(o)[i].key # Head(o).key
    BY <1>1, <1>2, <1>3 DEF Pending
<1>7. Head(o) \in Entry /\ \A s \in UsedOf(c, d) : Head(o).key # d[s].key
    BY <1>1, <1>3 DEF Pending
<1>. QED BY <1>1, <1>4, <1>5, <1>6, <1>7, Zenon DEF Pending

\* The entries of a table in front of others.
LEMMA Joined ==
    ASSUME NEW c \in Nat, NEW l \in Seq(Entry), Len(l) = c, NEW o \in Seq(Entry)
    PROVE  /\ l \o o \in Seq(Entry) /\ Len(l \o o) = c + Len(o) /\ Len(o) \in Nat
           /\ \A i \in 1..(c + Len(o)) : (l \o o)[i] = IF i <= c THEN l[i] ELSE o[i - c]
<1>1. Len(o) \in Nat
    OBVIOUS
<1>. QED BY <1>1

\* A rehash inside a rehash: the table's entries join what is to be put
\* again.
LEMMA PendingRehash ==
    ASSUME NEW o, NEW c, NEW d, Pending(o, c, d), Table(c, d), Chained(c, d, UsedOf(c, d)),
           NEW m, NEW t, UsedOf(m, t) = {}
    PROVE  Pending(SlotList(c, d) \o o, m, t)
<1>. DEFINE l == SlotList(c, d)
<1>1. /\ c \in Nat /\ l \in Seq(Entry) /\ Len(l) = c
      /\ \A i \in 1..c : l[i] = d[i - 1] /\ i - 1 \in Slots(c)
    BY DEF SlotList, Table, Slots
<1>2. o \in Seq(Entry) /\ Len(o) \in Nat
    BY DEF Pending
<1>. HIDE DEF l
<1>3. /\ l \o o \in Seq(Entry) /\ Len(l \o o) = c + Len(o)
      /\ \A i \in 1..(c + Len(o)) : (l \o o)[i] = IF i <= c THEN l[i] ELSE o[i - c]
    BY <1>1, <1>2, Joined
<1>4. \A i \in 1..(c + Len(o)) : IF i <= c THEN i \in 1..c ELSE i - c \in 1..Len(o)
    BY <1>1, <1>2
<1>5. ASSUME NEW i \in 1..(c + Len(o)), NEW j \in 1..(c + Len(o)),
             (l \o o)[i].key = (l \o o)[j].key, (l \o o)[i].key # FREE_KEY
      PROVE  i = j
  <2>1. CASE i <= c /\ j <= c
    <3>1. i - 1 \in UsedOf(c, d) /\ j - 1 \in UsedOf(c, d) /\ d[i - 1].key = d[j - 1].key
        BY <1>1, <1>3, <1>4, <1>5, <2>1, Zenon DEF UsedOf
    <3>2. i - 1 = j - 1
        BY <3>1, Zenon DEF Chained
    <3>. QED BY <3>2
  <2>2. CASE i <= c /\ ~(j <= c)
    <3>1. i - 1 \in UsedOf(c, d) /\ j - c \in 1..Len(o) /\ d[i - 1].key = o[j - c].key
        BY <1>1, <1>3, <1>4, <1>5, <2>2, Zenon DEF UsedOf
    <3>. QED BY <3>1 DEF Pending
  <2>3. CASE ~(i <= c) /\ j <= c
    <3>1. j - 1 \in UsedOf(c, d) /\ i - c \in 1..Len(o) /\ d[j - 1].key = o[i - c].key
        BY <1>1, <1>3, <1>4, <1>5, <2>3, Zenon DEF UsedOf
    <3>. QED BY <3>1 DEF Pending
  <2>4. CASE ~(i <= c) /\ ~(j <= c)
    <3>1. i - c \in 1..Len(o) /\ j - c \in 1..Len(o) /\ o[i - c].key = o[j - c].key /\ o[i - c].key # FREE_KEY
        BY <1>3, <1>4, <1>5, <2>4, Zenon
    <3>2. i - c = j - c
        BY <3>1, Zenon DEF Pending
    <3>. QED BY <1>1, <3>2
  <2>. QED BY <2>1, <2>2, <2>3, <2>4
<1>6. Pending(l \o o, m, t)
    BY <1>3, <1>5, Zenon DEF Pending
<1>. QED BY <1>6 DEF l

\* putNoLock, called by Put or by the loop of rehash, with rest still to be put.
LEMMA PutNoLockKeeps ==
    ASSUME HInv, UNCHANGED <<careless, hasFreeKey>>, pc \in {"idle", "rehash"},
           NEW k \in Keys, NEW v \in Vals, Ends(k),
           NEW rest, Pending(rest, cap, data), \A i \in 1..Len(rest) : rest[i].key # k,
           pc = "idle" => rest = <<>>,
           PutNoLock(k, v, rest)
    PROVE  HInv'
<1>1. Table(cap, data) /\ cap \in Nat /\ cap >= 2 /\ Chained(cap, data, UsedOf(cap, data))
    BY AllLive, Zenon DEF HInv, Shaped
<1>. DEFINE e == [key |-> k, val |-> v]
            t == [data EXCEPT ![Probe(k)] = e]
<1>2. Found(cap, data, k, Probe(k))
    BY <1>1, ProbeFinds
<1>3. e \in Entry /\ e.key = k
    BY DEF Entry, AKeys
<1>4. /\ Table(cap, t) /\ Chained(cap, t, UsedOf(cap, t))
      /\ UsedOf(cap, t) = UsedOf(cap, data) \cup {Probe(k)}
      /\ \A r \in Slots(cap) : t[r] = IF r = Probe(k) THEN e ELSE data[r]
  <2>1. t = Stored(data, Probe(k), e)
      BY DEF Stored
  <2>. HIDE DEF e, t
  <2>. QED BY <1>1, <1>2, <1>3, <2>1, PutChained
<1>5. IsFiniteSet(UsedOf(cap, data)) /\ Cardinality(UsedOf(cap, data)) \in Nat
    BY <1>1, UsedFinite
<1>. HIDE DEF e, t
<1>6. Pending(rest, cap, t)
  <2>1. ASSUME NEW i \in 1..Len(rest), NEW r \in UsedOf(cap, t)
        PROVE  rest[i].key # t[r].key
    <3>1. r \in Slots(cap)
        BY DEF UsedOf
    <3>2. CASE r = Probe(k)
        BY <1>3, <1>4, <3>1, <3>2
    <3>3. CASE r # Probe(k)
        BY <1>4, <3>1, <3>3 DEF Pending
    <3>. QED BY <3>2, <3>3
  <2>. QED BY <2>1, Zenon DEF Pending
<1>7. size \in Int /\ Zeroes' = Zeroes /\ Zeroes \in {0, 1}
    BY DEF HInv, Shaped, Zeroes
<1>8. pc = "rehash" \/ ~careless => size = Cardinality(UsedOf(cap, data)) + Zeroes /\ UsedOf(cap, data) # Slots(cap)
    BY Zenon DEF HInv, Counted, Growing
<1>9. CASE data' = t /\ old' = rest /\ UNCHANGED <<pc, cap>>
  <2>1. Live' = UsedOf(cap', data')
      BY <1>9 DEF Live, Used, UsedOf
  <2>2. size' \in Int
      BY <1>7, <1>9 DEF PutNoLock, Rehash
  <2>3. Shaped'
      BY <1>4, <1>9, <2>1, <2>2 DEF Shaped, HInv
  <2>4. Shifting'
      BY <1>9 DEF Shifting
  <2>5. pc = "rehash" \/ ~careless => size' = Cardinality(UsedOf(cap, t)) + Zeroes /\ UsedOf(cap, t) # Slots(cap)
    <3>1. CASE data[Probe(k)].key = k /\ UNCHANGED size
      <4>1. Probe(k) \in UsedOf(cap, data)
          BY <1>2, <3>1, KeysAssumption DEF Found, UsedOf
      <4>2. UsedOf(cap, t) = UsedOf(cap, data)
          BY <1>4, <4>1
      <4>. QED BY <1>8, <3>1, <4>2
    <3>2. CASE data[Probe(k)].key = FREE_KEY /\ size < Threshold(cap) /\ size' = size + 1
      <4>1. Probe(k) \notin UsedOf(cap, data)
          BY <3>2 DEF UsedOf
      <4>2. Cardinality(UsedOf(cap, t)) = Cardinality(UsedOf(cap, data)) + 1
          BY <1>4, <1>5, <4>1, FS_AddElement, Zenon
      <4>3. pc = "rehash" \/ ~careless => size' = Cardinality(UsedOf(cap, t)) + Zeroes
          BY <1>5, <1>7, <1>8, <3>2, <4>2
      <4>4. pc = "rehash" \/ ~careless => Cardinality(UsedOf(cap, t)) < cap
          BY SMTT(20), <1>1, <1>5, <1>7, <1>8, <3>2, <4>2, ThresholdBelow
      <4>. QED BY <1>1, <4>3, <4>4, UsedFinite
    <3>. QED BY <1>1, <1>9, <3>1, <3>2 DEF PutNoLock, Rehash
  <2>6. Growing' /\ Counted'
      BY <1>6, <1>7, <1>9, <2>5 DEF Growing, Counted
  <2>. QED BY <2>3, <2>4, <2>6 DEF HInv
<1>10. CASE Rehash(t, rest)
  <2>1. /\ pc' = "rehash" /\ old' = SlotList(cap, t) \o rest /\ cap' = 2 * cap /\ data' = Empty(2 * cap)
        /\ size' = Zeroes
      BY <1>10, Zenon DEF Rehash, Zeroes, SlotList
  <2>2. UsedOf(cap', data') = {} /\ Table(cap', data')
      BY <1>1, <2>1, FreeIsEntry DEF UsedOf, Empty, Slots, Table
  <2>3. Cardinality(UsedOf(cap', data')) = 0
      BY <2>2, FS_EmptySet
  <2>4. Live' = {}
      BY <2>1, <2>2 DEF Live, Used, UsedOf
  <2>5. Shaped'
      BY <1>7, <2>1, <2>2, <2>4 DEF Shaped, HInv, Chained
  <2>6. Pending(SlotList(cap, t) \o rest, cap', data')
      BY <1>4, <1>6, <2>2, PendingRehash, Zenon
  <2>7. 0 \in Slots(cap')
      BY <1>1, <2>1 DEF Slots
  <2>8. Growing' /\ Counted'
      BY <1>7, <2>1, <2>2, <2>3, <2>6, <2>7 DEF Growing, Counted
  <2>9. Shifting'
      BY <2>1 DEF Shifting
  <2>. QED BY <2>5, <2>8, <2>9 DEF HInv
<1>. QED BY <1>9, <1>10, Zenon DEF PutNoLock, t, e

\* Put, for a key that has a slot of its own, finds a free one, or makes the
\* table grow.
LEMMA PutKeeps ==
    ASSUME HInv, UNCHANGED careless, NEW k \in Keys, NEW v \in Vals, Put(k, v)
    PROVE  HInv'
<1>1. pc = "idle" /\ old = <<>> /\ Pending(old, cap, data)
    BY DEF Put, HInv, Growing
<1>2. CASE ~Ends(k) /\ Spin
    BY <1>1, <1>2, QuietKeeps DEF Spin, loc
<1>3. CASE Ends(k) /\ PutNoLock(k, v, <<>>) /\ UNCHANGED hasFreeKey
  <2>1. Pending(<<>>, cap, data) /\ \A i \in 1..Len(<<>>) : <<>>[i].key # k
      BY <1>1
  <2>. QED BY <1>1, <1>3, <2>1, PutNoLockKeeps
<1>. QED BY <1>2, <1>3 DEF Put

\* An iteration of the loop of rehash.
LEMMA RehashKeeps ==
    ASSUME HInv, UNCHANGED careless, RehashStep
    PROVE  HInv'
<1>1. pc = "rehash" /\ UNCHANGED hasFreeKey /\ Pending(old, cap, data) /\ UsedOf(cap, data) # Slots(cap)
    BY Zenon DEF RehashStep, HInv, Growing
<1>2. Zeroes' = Zeroes
    BY <1>1 DEF Zeroes
<1>3. CASE old = <<>> /\ pc' = "idle" /\ UNCHANGED <<cap, data, size, old>>
  <2>1. Live' = Live
      BY <1>1, <1>3 DEF Live, Used
  <2>2. Shaped'
      BY SMTT(20), <1>1, <1>3, <2>1 DEF HInv, Shaped
  <2>3. Shifting' /\ Growing' /\ Counted'
      BY <1>1, <1>2, <1>3 DEF HInv, Shifting, Growing, Counted
  <2>. QED BY <2>2, <2>3 DEF HInv
<1>4. CASE old # <<>> /\ old' = Tail(old) /\ UNCHANGED <<pc, cap, data, size>>
  <2>1. Live' = Live
      BY <1>1, <1>4 DEF Live, Used
  <2>2. Shaped'
      BY <1>1, <1>4, <2>1 DEF HInv, Shaped
  <2>3. Pending(Tail(old), cap, data)
      BY <1>1, <1>4, PendingTail
  <2>4. Shifting' /\ Growing' /\ Counted'
      BY <1>1, <1>2, <1>4, <2>3 DEF HInv, Shifting, Growing, Counted
  <2>. QED BY <2>2, <2>4 DEF HInv
<1>5. CASE old # <<>> /\ Head(old).key # FREE_KEY /\ PutNoLock(Head(old).key, Head(old).val, Tail(old))
  <2>1. /\ Pending(Tail(old), cap, data) /\ Head(old) \in Entry
        /\ \A i \in 1..Len(Tail(old)) : Tail(old)[i].key # Head(old).key
      BY <1>1, <1>5, PendingTail, Zenon
  <2>2. Head(old).key \in Keys /\ Head(old).val \in Vals
      BY <1>5, <2>1 DEF Entry, AKeys
  <2>3. Ends(Head(old).key)
      BY <1>1 DEF Ends, Stops, UsedOf
  <2>. QED BY <1>1, <1>5, <2>1, <2>2, <2>3, PutNoLockKeeps, Zenon
<1>. QED BY <1>3, <1>4, <1>5 DEF RehashStep

\* Del, up to the loop of shiftKeys.
LEMMA DelKeeps ==
    ASSUME HInv, UNCHANGED careless, NEW k \in Keys, Del(k)
    PROVE  HInv'
<1>1. pc = "idle" /\ Table(cap, data) /\ cap \in Nat /\ cap >= 2 /\ Chained(cap, data, UsedOf(cap, data))
    BY AllLive, Zenon DEF Del, HInv, Shaped
<1>2. CASE ~Ends(k) /\ Spin
    BY <1>1, <1>2, QuietKeeps DEF Spin, loc
<1>3. CASE UNCHANGED <<pc, cap, data, size, hasFreeKey, old>>
    BY <1>1, <1>3, QuietKeeps
<1>4. CASE /\ Ends(k) /\ data[Probe(k)].key = k
           /\ pc' = "shift" /\ last' = Probe(k) /\ pos' = Following(Probe(k)) /\ size' = size - 1
           /\ UNCHANGED <<cap, data, hasFreeKey, old>>
  <2>1. Probe(k) \in UsedOf(cap, data) /\ Probe(k) \in Slots(cap)
      BY <1>1, <1>4, ProbeFinds, KeysAssumption, Zenon DEF Found, UsedOf
  <2>2. pos' = After(cap, Probe(k)) /\ pos' \in Slots(cap)
      BY <1>1, <1>4, <2>1, AfterIn DEF After, Following
  <2>3. Live' = UsedOf(cap, data) \ {Probe(k)}
      BY <1>4 DEF Live, Used, UsedOf
  <2>4. Chained(cap, data, UsedOf(cap, data) \ {Probe(k)})
      BY <1>1, Zenon DEF Chained
  <2>5. Shaped'
      BY <1>1, <1>4, <2>3, <2>4 DEF HInv, Shaped
  <2>6. Passed(cap, data, Probe(k), After(cap, Probe(k)))
    <3>1. SUFFICES ASSUME NEW s \in UsedOf(cap, data) \ {Probe(k)},
                          Dist(cap, Probe(k), s) < Dist(cap, Probe(k), After(cap, Probe(k)))
                   PROVE  FALSE
        BY DEF Passed
    <3>2. s \in Slots(cap)
        BY DEF UsedOf
    <3>. QED BY <1>1, <2>1, <3>1, <3>2 DEF Dist, After, Slots
  <2>7. Shifting'
      BY <1>4, <2>1, <2>2, <2>6 DEF Shifting
  <2>8. Growing'
      BY <1>1, <1>4, NotGrowing DEF HInv
  <2>9. Counted'
    <3>1. IsFiniteSet(UsedOf(cap, data)) /\ Cardinality(UsedOf(cap, data)) \in Nat
        BY <1>1, UsedFinite
    <3>2. Cardinality(UsedOf(cap, data) \ {Probe(k)}) = Cardinality(UsedOf(cap, data)) - 1
        BY <2>1, <3>1, FS_RemoveElement, Zenon
    <3>3. ~careless => size = Cardinality(UsedOf(cap, data)) + Zeroes /\ UsedOf(cap, data) # Slots(cap)
        BY <1>1 DEF HInv, Counted
    <3>4. Zeroes' = Zeroes /\ Zeroes \in Int
        BY <1>4 DEF Zeroes
    <3>5. ~careless => size' = Cardinality(UsedOf(cap, data) \ {Probe(k)}) + Zeroes
        BY <1>4, <3>1, <3>2, <3>3, <3>4
    <3>. QED BY <1>4, <3>3, <3>4, <3>5 DEF Counted
  <2>. QED BY SMTT(20), <2>5, <2>7, <2>8, <2>9 DEF HInv
<1>. QED BY <1>2, <1>3, <1>4 DEF Del, loc

\* An iteration of the loop of shiftKeys.
LEMMA ShiftKeeps ==
    ASSUME HInv, UNCHANGED careless, ShiftEnd \/ ShiftMove \/ ShiftPass
    PROVE  HInv'
<1>1. /\ pc = "shift" /\ Table(cap, data) /\ cap \in Nat /\ cap >= 2
      /\ last \in UsedOf(cap, data) /\ last \in Slots(cap) /\ pos \in Slots(cap)
      /\ Passed(cap, data, last, pos)
    BY Zenon DEF ShiftEnd, ShiftMove, ShiftPass, HInv, Shaped, Shifting, Table, UsedOf
<1>2. Chained(cap, data, UsedOf(cap, data) \ {last})
    BY <1>1 DEF HInv, Shaped, Live, Used, UsedOf
<1>3. UNCHANGED <<cap, size, hasFreeKey, old>> /\ Zeroes' = Zeroes
    BY DEF ShiftEnd, ShiftMove, ShiftPass, Zeroes
<1>4. ~careless => /\ size = Cardinality(UsedOf(cap, data) \ {last}) + Zeroes
                   /\ UsedOf(cap, data) # Slots(cap)
    BY <1>1 DEF HInv, Counted
<1>5. Following(pos) = After(cap, pos) /\ After(cap, pos) \in Slots(cap)
    BY <1>1, AfterIn DEF Following, After
<1>6. CASE ShiftEnd
  <2>. DEFINE t == Stored(data, last, Free)
  <2>1. pc' = "idle" /\ data' = t /\ data[pos].key = FREE_KEY
      BY <1>6 DEF ShiftEnd, Stored
  <2>2. /\ Table(cap, t) /\ Chained(cap, t, UsedOf(cap, t))
        /\ UsedOf(cap, t) = UsedOf(cap, data) \ {last}
    <3>1. t = Stored(data, last, Free)
        OBVIOUS
    <3>. HIDE DEF t
    <3>. QED BY <1>1, <1>2, <2>1, <3>1, EndChained
  <2>3. last \notin UsedOf(cap, t)
      BY SMTT(20), <2>2
  <2>. HIDE DEF t
  <2>4. Live' = UsedOf(cap, t)
      BY <1>3, <2>1 DEF Live, Used, UsedOf
  <2>5. Shaped'
      BY SMTT(20), <1>3, <2>1, <2>2, <2>4 DEF HInv, Shaped
  <2>6. Counted'
      BY SMTT(20), <1>1, <1>3, <1>4, <2>1, <2>2, <2>3 DEF Counted
  <2>7. Shifting' /\ Growing'
      BY <1>1, <1>3, <2>1, NotGrowing DEF Shifting, HInv
  <2>. QED BY <2>5, <2>6, <2>7 DEF HInv
<1>7. CASE ShiftMove
  <2>. DEFINE t == Stored(data, last, data[pos])
  <2>1. pc' = "shift" /\ data' = t /\ last' = pos /\ pos' = After(cap, pos) /\ data[pos].key # FREE_KEY
      BY <1>1, <1>5, <1>7 DEF ShiftMove, Stored
  <2>2. pos \in UsedOf(cap, data)
      BY <1>1, <2>1 DEF UsedOf
  <2>3. last = pos \/ Dist(cap, HomeIn(cap, data[pos].key), last) < Dist(cap, HomeIn(cap, data[pos].key), pos)
    <3>1. HomeIn(cap, data[pos].key) \in Slots(cap)
        BY SMTT(20), <1>1, <2>2, Homes
    <3>2. LET slot == HomeIn(cap, data[pos].key)
          IN  IF last <= pos THEN last >= slot \/ slot > pos ELSE last >= slot /\ slot > pos
        BY <1>7, Zenon DEF ShiftMove, Moves, Home, HomeIn
    <3>. QED BY <1>1, <3>1, <3>2, TestIsRight
  <2>4. /\ Table(cap, t) /\ UsedOf(cap, t) = UsedOf(cap, data)
        /\ Chained(cap, t, UsedOf(cap, t) \ {pos})
        /\ Passed(cap, t, pos, After(cap, pos))
    <3>1. t = Stored(data, last, data[pos])
        OBVIOUS
    <3>. HIDE DEF t
    <3>. QED BY <1>1, <1>2, <2>2, <2>3, <3>1, MoveChained, Zenon
  <2>. HIDE DEF t
  <2>5. Live' = UsedOf(cap, t) \ {pos}
      BY <1>3, <2>1 DEF Live, Used, UsedOf
  <2>6. Shaped'
      BY <1>3, <2>1, <2>4, <2>5 DEF HInv, Shaped
  <2>7. Shifting'
      BY <1>3, <1>5, <2>1, <2>2, <2>4 DEF Shifting
  <2>8. Growing'
      BY <1>1, <1>3, <2>1, NotGrowing DEF HInv
  <2>9. Cardinality(UsedOf(cap, data) \ {last}) = Cardinality(UsedOf(cap, data) \ {pos})
    <3>. DEFINE U == UsedOf(cap, data)
    <3>1. IsFiniteSet(U) /\ last \in U /\ pos \in U
        BY <1>1, <2>2, UsedFinite, Zenon
    <3>. HIDE DEF U
    <3>2. Cardinality(U \ {last}) = Cardinality(U) - 1
        BY <3>1, FS_RemoveElement, Zenon
    <3>3. Cardinality(U \ {pos}) = Cardinality(U) - 1
        BY <3>1, FS_RemoveElement, Zenon
    <3>. QED BY <3>2, <3>3, Zenon DEF U
  <2>10. Counted'
      BY <1>3, <1>4, <2>1, <2>4, <2>9 DEF Counted
  <2>. QED BY SMTT(20), <2>6, <2>7, <2>8, <2>10 DEF HInv
<1>8. CASE ShiftPass
  <2>1. pc' = "shift" /\ UNCHANGED <<data, last>> /\ pos' = After(cap, pos) /\ data[pos].key # FREE_KEY
      BY <1>1, <1>5, <1>8 DEF ShiftPass
  <2>2. pos \in UsedOf(cap, data)
      BY <1>1, <2>1 DEF UsedOf
  <2>3. ~(Dist(cap, HomeIn(cap, data[pos].key), last) < Dist(cap, HomeIn(cap, data[pos].key), pos))
    <3>1. HomeIn(cap, data[pos].key) \in Slots(cap)
        BY <1>1, <2>2, Homes
    <3>2. LET slot == HomeIn(cap, data[pos].key)
          IN  ~(IF last <= pos THEN last >= slot \/ slot > pos ELSE last >= slot /\ slot > pos)
        BY <1>8, Zenon DEF ShiftPass, Moves, Home, HomeIn
    <3>. QED BY <1>1, <3>1, <3>2, TestIsRight
  <2>4. Passed(cap, data, last, After(cap, pos))
      BY <1>1, <2>3, PassedOn
  <2>5. Live' = UsedOf(cap, data) \ {last}
      BY <1>3, <2>1 DEF Live, Used, UsedOf
  <2>6. Shaped'
      BY SMTT(20), <1>1, <1>2, <1>3, <2>1, <2>5 DEF HInv, Shaped
  <2>7. Shifting'
      BY SMTT(20), <1>1, <1>3, <1>5, <2>1, <2>4 DEF Shifting
  <2>8. Growing' /\ Counted'
      BY <1>1, <1>3, <1>4, <2>1, NotGrowing DEF HInv, Counted
  <2>. QED BY <2>6, <2>7, <2>8 DEF HInv
<1>. QED BY SMTT(20), <1>6, <1>7, <1>8

\* The inductive invariant holds in every reachable state.
LEMMA Invariance == Spec => []HInv
<1>1. Init => HInv
  <2>1. SUFFICES ASSUME Init
                 PROVE  HInv
      OBVIOUS
  <2>2. pc = "idle" /\ cap = Capacity /\ data = Empty(Capacity) /\ size = 0 /\ hasFreeKey = FALSE /\ old = <<>>
      BY <2>1 DEF Init
  <2>3. Capacity \in Nat /\ Capacity >= 2
      BY CapacityAssumption
  <2>4. UsedOf(cap, data) = {} /\ Table(cap, data)
      BY <2>2, <2>3, FreeIsEntry DEF UsedOf, Empty, Table
  <2>5. Live = {}
      BY <2>2, <2>4 DEF Live, Used, UsedOf
  <2>6. Shaped
    <3>1. Chained(cap, data, Live)
        BY <2>5 DEF Chained
    <3>2. size \in Int
        BY <2>2
    <3>3. hasFreeKey \in BOOLEAN
        BY <2>2, Zenon
    <3>. QED BY <2>2, <2>4, <3>1, <3>2, <3>3 DEF Shaped
  <2>7. Cardinality(UsedOf(cap, data)) = 0 /\ Zeroes = 0 /\ 0 \in Slots(cap)
      BY <2>2, <2>3, <2>4, FS_EmptySet DEF Zeroes, Slots
  <2>8. Shifting /\ Growing /\ Counted
      BY <2>2, <2>4, <2>7, PendingNone DEF Shifting, Growing, Counted
  <2>. QED BY <2>6, <2>8 DEF HInv
<1>2. HInv /\ [Next]_vars => HInv'
  <2>1. SUFFICES ASSUME HInv, [Next]_vars
                 PROVE  HInv'
      OBVIOUS
  <2>2. CASE Next
    <3>1. UNCHANGED careless
        BY <2>2 DEF Next
    <3>2. CASE \E k \in Keys : Get(k)
      <4>1. pc = "idle" /\ pc' \in {"idle", "spin"} /\ UNCHANGED <<cap, data, size, hasFreeKey, old>>
          BY <3>2 DEF Get, Spin, loc
      <4>. QED BY <2>1, <3>1, <4>1, QuietKeeps
    <3>3. CASE GetZero \/ Items
      <4>1. pc = "idle" /\ UNCHANGED <<pc, cap, data, size, hasFreeKey, old>>
          BY <3>3 DEF GetZero, Items, loc
      <4>. QED BY SMTT(20), <2>1, <3>1, <4>1, QuietKeeps
    <3>4. CASE \E k \in Keys : Del(k)
        BY <2>1, <3>1, <3>4, DelKeeps
    <3>5. CASE \E k \in Keys : \E v \in Tried : Put(k, v)
        BY <2>1, <3>1, <3>5, PutKeeps, FreeIsEntry DEF Tried
    <3>6. CASE DelZero \/ \E v \in Tried : PutZero(v)
        BY <2>1, <3>1, <3>6, ZeroKeeps
    <3>7. CASE RehashStep
        BY <2>1, <3>1, <3>7, RehashKeeps
    <3>8. CASE ShiftEnd \/ ShiftMove \/ ShiftPass
        BY <2>1, <3>1, <3>8, ShiftKeeps
    <3>. QED BY SMTT(20), <2>2, <3>2, <3>3, <3>4, <3>5, <3>6, <3>7, <3>8 DEF Next
  <2>3. CASE UNCHANGED vars
    <3>1. UNCHANGED <<pc, cap, data, size, hasFreeKey, last, pos, old, careless>>
        BY <2>3 DEF vars, loc
    <3>2. Live' = Live
        BY <3>1 DEF Live, Used
    <3>3. Shaped'
        BY <2>1, <3>1, <3>2 DEF HInv, Shaped
    <3>4. Shifting'
        BY <2>1, <3>1 DEF HInv, Shifting
    <3>5. Growing'
        BY <2>1, <3>1 DEF HInv, Growing, Zeroes
    <3>6. Counted'
        BY <2>1, <3>1 DEF HInv, Counted, Zeroes
    <3>. QED BY <3>3, <3>4, <3>5, <3>6 DEF HInv
  <2>. QED BY <2>1, <2>2, <2>3
<1>. QED BY <1>1, <1>2, PTL DEF Spec

\* For every hash function, capacity and fill factor and any keys: no key is in
\* the table twice, and from the slot a key hashes to there is no gap up to its
\* own, so that get finds it; and for callers that do not delete a missing 0,
\* between calls size is the number of keys and a slot is free.
THEOREM TableStaysSound == Spec => []TableSound
BY Invariance, InvariantSays, PTL

-----------------------------------------------------------------------------
(* The table implements a map, step by step: the map is the set of entries *)
(* in the table, with those that rehash has still to put again and without *)
(* the one that shiftKeys is moving, and the pair with key 0.              *)

\* The map a set of entries stands for, when no key comes twice.
MapOf(P) == [k \in {e.key : e \in P} |-> (CHOOSE e \in P : e.key = k).val]
Over(P, x) == {f \in P : f.key # x.key} \cup {x}
Extended(m, x) == [j \in DOMAIN m \cup {x.key} |-> IF j = x.key THEN x.val ELSE m[j]]
Single(P) == \A e, f \in P : e.key = f.key => e = f

InTable(L, d) == {d[s] : s \in L}
InOld(o) == {o[i] : i \in {j \in DOMAIN o : o[j].key # FREE_KEY}}
ZeroPair == IF hasFreeKey THEN {[key |-> FREE_KEY, val |-> freeVal]} ELSE {}

\* The map of pairs of which no two have the same key.
LEMMA MapHas ==
    ASSUME NEW P, Single(P)
    PROVE  /\ DOMAIN MapOf(P) = {e.key : e \in P}
           /\ \A e \in P : MapOf(P)[e.key] = e.val
<1>1. ASSUME NEW e \in P
      PROVE  (CHOOSE f \in P : f.key = e.key) = e
  <2>1. \E f \in P : f.key = e.key
      OBVIOUS
  <2>2. (CHOOSE f \in P : f.key = e.key) \in P /\ (CHOOSE f \in P : f.key = e.key).key = e.key
      BY <2>1
  <2>. QED BY <2>2 DEF Single
<1>. QED BY <1>1 DEF MapOf

\* A pair that replaces those of its key extends the map.
LEMMA MapPut ==
    ASSUME NEW P, Single(P), NEW x, NEW Q, Q = Over(P, x)
    PROVE  MapOf(Q) = Extended(MapOf(P), x)
<1>. DEFINE k == x.key
<1>0. Q = {f \in P : f.key # k} \cup {x}
    BY DEF Over
<1>1. Single(Q)
    BY <1>0 DEF Single
<1>2. {e.key : e \in Q} = {e.key : e \in P} \cup {k}
    BY <1>0
<1>3. \A e \in Q : MapOf(Q)[e.key] = e.val
    BY <1>1, MapHas, Zenon
<1>4. ASSUME NEW j \in {e.key : e \in Q}
      PROVE  MapOf(Q)[j] = IF j = k THEN x.val ELSE MapOf(P)[j]
  <2>1. PICK e \in Q : e.key = j
      OBVIOUS
  <2>2. CASE j = k
      BY <1>0, <1>3, <2>1, <2>2
  <2>3. CASE j # k
    <3>1. e \in P
        BY <1>0, <2>1, <2>3
    <3>. QED BY <1>3, <2>1, <2>3, <3>1, MapHas, Zenon
  <2>. QED BY <2>2, <2>3
<1>5. DOMAIN MapOf(P) = {e.key : e \in P} /\ DOMAIN MapOf(Q) = {e.key : e \in Q}
    BY <1>1, MapHas, Zenon
<1>6. MapOf(Q) = [j \in {e.key : e \in Q} |-> MapOf(Q)[j]]
    BY DEF MapOf
<1>. QED BY <1>2, <1>4, <1>5, <1>6, Zenon DEF Extended

\* Pairs without those of a key: the map without the key.
LEMMA MapDel ==
    ASSUME NEW P, Single(P), NEW k, NEW Q, Q = {f \in P : f.key # k}
    PROVE  MapOf(Q) = [j \in DOMAIN MapOf(P) \ {k} |-> MapOf(P)[j]]
<1>1. Single(Q)
    BY DEF Single
<1>2. {e.key : e \in Q} = {e.key : e \in P} \ {k}
    OBVIOUS
<1>3. ASSUME NEW j \in {e.key : e \in Q}
      PROVE  MapOf(Q)[j] = MapOf(P)[j]
  <2>1. PICK e \in Q : e.key = j
      OBVIOUS
  <2>. QED BY <1>1, <2>1, MapHas, Zenon
<1>4. DOMAIN MapOf(P) = {e.key : e \in P} /\ DOMAIN MapOf(Q) = {e.key : e \in Q}
    BY <1>1, MapHas, Zenon
<1>5. MapOf(Q) = [j \in {e.key : e \in Q} |-> MapOf(Q)[j]]
    BY DEF MapOf
<1>. QED BY <1>2, <1>3, <1>4, <1>5

\* What a table with one more entry, and one put aside by rehash, holds.
LEMMA PutPairs ==
    ASSUME NEW c, NEW d, Table(c, d), Chained(c, d, UsedOf(c, d)),
           NEW k \in Keys, NEW s, Found(c, d, k, s), NEW e \in Entry, e.key = k,
           NEW t, t = Stored(d, s, e)
    PROVE  InTable(UsedOf(c, t), t) = {f \in InTable(UsedOf(c, d), d) : f.key # k} \cup {e}
<1>0. /\ UsedOf(c, t) = UsedOf(c, d) \cup {s}
      /\ \A r \in Slots(c) : t[r] = IF r = s THEN e ELSE d[r]
      /\ \A r \in UsedOf(c, d) : d[r].key = k => r = s
    BY SMTT(20), PutChained
<1>1. UsedOf(c, d) \subseteq Slots(c) /\ s \in Slots(c) /\ d[s].key \in {k, FREE_KEY} /\ k # FREE_KEY
    BY KeysAssumption, Zenon DEF UsedOf, Found
<1>2. ASSUME NEW f \in InTable(UsedOf(c, t), t)
      PROVE  f \in {g \in InTable(UsedOf(c, d), d) : g.key # k} \cup {e}
  <2>1. PICK r \in UsedOf(c, t) : f = t[r]
      BY Zenon DEF InTable
  <2>2. CASE r = s
      BY <1>0, <1>1, <2>1, <2>2, Zenon
  <2>3. CASE r # s
    <3>1. r \in UsedOf(c, d) /\ f = d[r] /\ f.key # k
        BY <1>0, <1>1, <2>1, <2>3, Zenon
    <3>. QED BY <3>1, Zenon DEF InTable
  <2>. QED BY SMTT(20), <2>2, <2>3
<1>3. ASSUME NEW f \in InTable(UsedOf(c, d), d), f.key # k
      PROVE  f \in InTable(UsedOf(c, t), t)
  <2>1. PICK r \in UsedOf(c, d) : f = d[r]
      BY Zenon DEF InTable
  <2>2. r # s /\ r \in Slots(c)
      BY <1>1, <1>3, <2>1, Zenon DEF UsedOf
  <2>3. t[r] = f
      BY SMTT(20), <1>0, <2>1, <2>2
  <2>. QED BY <1>0, <2>3, Zenon DEF InTable
<1>4. e \in InTable(UsedOf(c, t), t)
  <2>1. t[s] = e
      BY <1>0, <1>1
  <2>. QED BY <1>0, <2>1 DEF InTable
<1>. QED BY SMTT(20), <1>2, <1>3, <1>4

\* What a rehash has to put again is what was in the table, and what was
\* still to come.
LEMMA RehashPairs ==
    ASSUME NEW c \in Nat, NEW t \in [Slots(c) -> Entry], NEW o \in Seq(Entry)
    PROVE  InOld(SlotList(c, t) \o o) = InTable(UsedOf(c, t), t) \cup InOld(o)
<1>. DEFINE l == SlotList(c, t)
            w == l \o o
<1>1. /\ l \in Seq(Entry) /\ Len(l) = c
      /\ \A i \in 1..c : l[i] = t[i - 1] /\ i - 1 \in Slots(c)
    BY SMTT(20) DEF SlotList, Slots
<1>. HIDE DEF l
<1>2. /\ w \in Seq(Entry) /\ Len(w) = c + Len(o) /\ Len(o) \in Nat
      /\ \A i \in 1..(c + Len(o)) : w[i] = IF i <= c THEN l[i] ELSE o[i - c]
    BY <1>1, Joined
<1>. HIDE DEF w
<1>3. DOMAIN w = 1..(c + Len(o)) /\ DOMAIN o = 1..Len(o)
    BY <1>2
<1>4. ASSUME NEW f \in InOld(w)
      PROVE  f \in InTable(UsedOf(c, t), t) \cup InOld(o)
  <2>1. PICK i \in 1..(c + Len(o)) : w[i] = f /\ f.key # FREE_KEY
      BY <1>3 DEF InOld
  <2>2. CASE i <= c
    <3>1. i \in 1..c
        BY <2>2
    <3>2. f = t[i - 1] /\ i - 1 \in UsedOf(c, t)
        BY SMTT(20), <1>1, <1>2, <2>1, <2>2, <3>1 DEF UsedOf
    <3>. QED BY <3>2 DEF InTable
  <2>3. CASE ~(i <= c)
    <3>1. i - c \in 1..Len(o)
        BY <1>2, <2>3
    <3>2. f = o[i - c]
        BY <1>2, <2>1, <2>3
    <3>. QED BY SMTT(20), <1>3, <2>1, <3>1, <3>2 DEF InOld
  <2>. QED BY <2>2, <2>3
<1>5. ASSUME NEW f \in InTable(UsedOf(c, t), t)
      PROVE  f \in InOld(w)
  <2>1. PICK s \in UsedOf(c, t) : f = t[s]
      BY DEF InTable
  <2>2. s \in Slots(c) /\ f.key # FREE_KEY
      BY <2>1 DEF UsedOf
  <2>3. s + 1 \in 1..c /\ s + 1 \in 1..(c + Len(o)) /\ (s + 1) - 1 = s
      BY <1>2, <2>2 DEF Slots
  <2>4. w[s + 1] = f
      BY SMTT(20), <1>1, <1>2, <2>1, <2>3
  <2>. QED BY <1>3, <2>2, <2>3, <2>4 DEF InOld
<1>6. ASSUME NEW f \in InOld(o)
      PROVE  f \in InOld(w)
  <2>1. PICK i \in 1..Len(o) : f = o[i] /\ f.key # FREE_KEY
      BY <1>3 DEF InOld
  <2>2. c + i \in 1..(c + Len(o)) /\ ~(c + i <= c) /\ (c + i) - c = i
      BY <1>2
  <2>3. w[c + i] = f
      BY <1>2, <2>1, <2>2
  <2>. QED BY <1>3, <2>1, <2>2, <2>3 DEF InOld
<1>7. InOld(w) = InTable(UsedOf(c, t), t) \cup InOld(o)
    BY SMTT(20), <1>4, <1>5, <1>6
<1>. QED BY <1>7 DEF w, l

\* What is left after the first entry.
LEMMA TailPairs ==
    ASSUME NEW o \in Seq(Entry), o # <<>>
    PROVE  InOld(o) = InOld(Tail(o)) \cup (IF Head(o).key = FREE_KEY THEN {} ELSE {Head(o)})
<1>1. /\ Len(o) \in Nat /\ Len(o) >= 1 /\ Head(o) = o[1]
      /\ Tail(o) \in Seq(Entry) /\ Len(Tail(o)) = Len(o) - 1
      /\ \A i \in 1..Len(Tail(o)) : Tail(o)[i] = o[i + 1]
    OBVIOUS
<1>2. DOMAIN o = 1..Len(o) /\ DOMAIN Tail(o) = 1..Len(Tail(o))
    BY <1>1
<1>3. \A i \in 1..Len(Tail(o)) : i + 1 \in 1..Len(o)
    BY <1>1
<1>4. \A i \in 1..Len(o) : i = 1 \/ (i - 1 \in 1..Len(Tail(o)) /\ (i - 1) + 1 = i)
    BY <1>1
<1>5. 1 \in 1..Len(o)
    BY <1>1
<1>6. ASSUME NEW f \in InOld(o)
      PROVE  f \in InOld(Tail(o)) \cup (IF Head(o).key = FREE_KEY THEN {} ELSE {Head(o)})
  <2>1. PICK i \in 1..Len(o) : f = o[i] /\ f.key # FREE_KEY
      BY <1>2 DEF InOld
  <2>2. CASE i = 1
      BY <1>1, <2>1, <2>2
  <2>3. CASE i - 1 \in 1..Len(Tail(o)) /\ (i - 1) + 1 = i
    <3>1. f = Tail(o)[i - 1]
        BY <1>1, <2>1, <2>3
    <3>. QED BY <1>2, <2>1, <2>3, <3>1, Zenon DEF InOld
  <2>. QED BY <1>4, <2>2, <2>3
<1>7. ASSUME NEW f \in InOld(Tail(o))
      PROVE  f \in InOld(o)
  <2>1. PICK i \in 1..Len(Tail(o)) : f = Tail(o)[i] /\ f.key # FREE_KEY
      BY <1>2 DEF InOld
  <2>. QED BY <1>1, <1>2, <1>3, <2>1 DEF InOld
<1>8. Head(o).key # FREE_KEY => Head(o) \in InOld(o)
    BY SMTT(20), <1>1, <1>2, <1>5 DEF InOld
<1>. QED BY <1>6, <1>7, <1>8

-----------------------------------------------------------------------------
(* The map in a state of the table. *)

\* The pairs before and after a step: in the table, to be put again, and that
\* of the key 0.
LEMMA PairsAre ==
    /\ Pairs = InTable(Live, data) \cup InOld(old) \cup ZeroPair
    /\ Pairs' = InTable(Live', data') \cup InOld(old') \cup ZeroPair'
BY DEF Pairs, InTable, InOld, ZeroPair

\* No key comes twice, not even while shiftKeys or rehash is at work.
LEMMA PairsSingle ==
    ASSUME HInv
    PROVE  Single(Pairs) /\ \A e \in InTable(Live, data) \cup InOld(old) : e.key # FREE_KEY
<1>1. Live \subseteq UsedOf(cap, data)
    BY DEF Live, Used, UsedOf
<1>2. \A e \in InTable(Live, data) : e.key # FREE_KEY /\ \E s \in Live : e = data[s]
    BY <1>1 DEF InTable, UsedOf
<1>3. old \in Seq(Entry) /\ DOMAIN old = 1..Len(old)
    BY DEF HInv, Growing, Pending
<1>4. \A e \in InOld(old) : e.key # FREE_KEY /\ \E i \in 1..Len(old) : e = old[i]
    BY <1>3 DEF InOld
<1>5. \A e, f \in InTable(Live, data) : e.key = f.key => e = f
    BY <1>2 DEF HInv, Shaped, Chained
<1>6. \A e, f \in InOld(old) : e.key = f.key => e = f
    BY <1>4 DEF HInv, Growing, Pending
<1>7. \A e \in InTable(Live, data), f \in InOld(old) : e.key # f.key
    BY <1>1, <1>2, <1>4 DEF HInv, Growing, Pending
<1>8. \A e \in ZeroPair : e = [key |-> FREE_KEY, val |-> freeVal] /\ e.key = FREE_KEY
    BY SMTT(20) DEF ZeroPair
<1>9. Single(Pairs)
    BY SMTT(20), <1>2, <1>4, <1>5, <1>6, <1>7, <1>8, PairsAre DEF Single
<1>. QED BY <1>2, <1>4, <1>9

\* What a caller can find are the pairs.
LEMMA ContentIs == Content = MapOf(Pairs) /\ Content' = MapOf(Pairs')
BY SMTT(20) DEF Content, MapOf

\* What the map is after putNoLock, called by Put or by the loop of rehash.
LEMMA PutNoLockPairs ==
    ASSUME HInv, UNCHANGED <<hasFreeKey, freeVal>>, pc \in {"idle", "rehash"},
           NEW k \in Keys, NEW v \in Vals, Ends(k),
           NEW rest \in Seq(Entry), PutNoLock(k, v, rest)
    PROVE  Pairs' = {f \in InTable(Live, data) : f.key # k} \cup {[key |-> k, val |-> v]}
                    \cup InOld(rest) \cup ZeroPair
<1>1. Table(cap, data) /\ cap \in Nat /\ cap >= 2 /\ Chained(cap, data, UsedOf(cap, data))
    BY AllLive DEF HInv, Shaped
<1>. DEFINE e == [key |-> k, val |-> v]
            t == [data EXCEPT ![Probe(k)] = e]
<1>2. Found(cap, data, k, Probe(k))
    BY <1>1, ProbeFinds
<1>3. e \in Entry /\ e.key = k /\ k # FREE_KEY
    BY SMTT(20), KeysAssumption DEF Entry, AKeys
<1>4. /\ Table(cap, t)
      /\ UsedOf(cap, t) = UsedOf(cap, data) \cup {Probe(k)}
      /\ \A r \in Slots(cap) : t[r] = IF r = Probe(k) THEN e ELSE data[r]
      /\ \A r \in UsedOf(cap, data) : data[r].key = k => r = Probe(k)
  <2>1. t = Stored(data, Probe(k), e)
      BY DEF Stored
  <2>. HIDE DEF e, t
  <2>2. \A r \in UsedOf(cap, data) : data[r].key = k => r = Probe(k)
      BY <1>1, <1>2, OnlyThere
  <2>3. Table(cap, t)
      BY <1>1, <1>2, <1>3, <2>1, PutChained, Zenon
  <2>4. UsedOf(cap, t) = UsedOf(cap, data) \cup {Probe(k)}
      BY <1>1, <1>2, <1>3, <2>1, PutChained
  <2>5. \A r \in Slots(cap) : t[r] = IF r = Probe(k) THEN e ELSE data[r]
      BY <1>1, <1>2, <1>3, <2>1, PutChained
  <2>. QED BY <2>2, <2>3, <2>4, <2>5
<1>. HIDE DEF e, t
<1>5. Live = UsedOf(cap, data) /\ ZeroPair' = ZeroPair
    BY DEF Live, Used, UsedOf, ZeroPair
<1>6. InTable(UsedOf(cap, t), t) = {f \in InTable(Live, data) : f.key # k} \cup {e}
  <2>1. t = Stored(data, Probe(k), e)
      BY DEF Stored, t
  <2>. QED BY <1>1, <1>2, <1>3, <1>5, <2>1, PutPairs
<1>7. CASE data' = t /\ old' = rest /\ UNCHANGED <<pc, cap>>
  <2>1. Live' = UsedOf(cap, t)
      BY <1>7 DEF Live, Used, UsedOf
  <2>2. Pairs' = InTable(UsedOf(cap, t), t) \cup InOld(rest) \cup ZeroPair
      BY <1>5, <1>7, <2>1, PairsAre
  <2>. QED BY <1>6, <2>2 DEF e
<1>8. CASE Rehash(t, rest)
  <2>1. pc' = "rehash" /\ old' = SlotList(cap, t) \o rest /\ cap' = 2 * cap /\ data' = Empty(2 * cap)
      BY <1>8 DEF Rehash, SlotList
  <2>2. Live' = {}
      BY <1>1, <2>1, FreeIsEntry DEF Live, Used, Empty, Slots
  <2>3. InTable(Live', data') = {}
      BY <2>2 DEF InTable
  <2>4. InOld(old') = InTable(UsedOf(cap, t), t) \cup InOld(rest)
    <3>1. t \in [Slots(cap) -> Entry]
        BY <1>4, Zenon DEF Table
    <3>2. InOld(SlotList(cap, t) \o rest) = InTable(UsedOf(cap, t), t) \cup InOld(rest)
        BY <1>1, <3>1, RehashPairs, Zenon
    <3>. QED BY <2>1, <3>2, Zenon
  <2>5. Pairs' = InTable(Live', data') \cup InOld(old') \cup ZeroPair'
      BY PairsAre
  <2>. QED BY <1>5, <1>6, <2>3, <2>4, <2>5 DEF e
<1>. QED BY <1>7, <1>8, Zenon DEF PutNoLock, t, e

\* Between calls nothing is being put again or shifted.
LEMMA AtRest ==
    ASSUME HInv, pc = "idle"
    PROVE  /\ Live = UsedOf(cap, data) /\ old = <<>> /\ InOld(old) = {}
           /\ Table(cap, data) /\ Chained(cap, data, UsedOf(cap, data))
           /\ Pairs = InTable(UsedOf(cap, data), data) \cup ZeroPair
<1>1. Live = UsedOf(cap, data) /\ old = <<>>
    BY DEF Live, Used, UsedOf, HInv, Growing
<1>2. InOld(old) = {}
    BY <1>1 DEF InOld
<1>. QED BY <1>1, <1>2, AllLive, PairsAre DEF HInv, Shaped

-----------------------------------------------------------------------------
(* One lemma per kind of step. *)

\* Get answers from the map.
LEMMA GetImplements ==
    ASSUME HInv, NEW k \in Keys, Get(k)
    PROVE  Map!MGet(k) \/ UNCHANGED <<Content, call>>
<1>1. pc = "idle" /\ UNCHANGED <<data, cap, old, hasFreeKey, freeVal>> /\ pc' # "shift"
    BY Zenon DEF Get, Spin, loc
<1>2. Content' = Content
    BY <1>1 DEF Content, Pairs, Live, Used
<1>3. CASE ~Ends(k) /\ Spin
    BY <1>2, <1>3 DEF Spin
<1>4. CASE Ends(k) /\ call' = Call("Get", k, IF data[Probe(k)].key = k THEN {<<k, data[Probe(k)].val>>} ELSE {})
  <2>1. Found(cap, data, k, Probe(k)) /\ k # FREE_KEY
      BY SMTT(20), <1>1, <1>4, AtRest, ProbeFinds, KeysAssumption
  <2>2. \A r \in UsedOf(cap, data) : data[r].key = k => r = Probe(k)
      BY <1>1, <2>1, AtRest, OnlyThere
  <2>3. DOMAIN Content = {e.key : e \in Pairs} /\ \A e \in Pairs : Content[e.key] = e.val
      BY PairsSingle, ContentIs, MapHas, Zenon
  <2>4. CASE data[Probe(k)].key = k
    <3>1. Probe(k) \in UsedOf(cap, data)
        BY SMTT(20), <2>1, <2>4 DEF Found, UsedOf
    <3>2. data[Probe(k)] \in Pairs
        BY SMTT(20), <1>1, <3>1, AtRest DEF InTable
    <3>3. k \in DOMAIN Content /\ Content[k] = data[Probe(k)].val
        BY <2>3, <2>4, <3>2
    <3>. QED BY SMTT(20), <1>2, <1>4, <2>4, <3>3 DEF Map!MGet, Map!Call, Call
  <2>5. CASE data[Probe(k)].key # k
    <3>1. Probe(k) \notin UsedOf(cap, data)
        BY <2>1, <2>5, Zenon DEF Found, UsedOf
    <3>2. \A e \in Pairs : e.key # k
        BY <1>1, <2>1, <2>2, <3>1, AtRest DEF InTable, ZeroPair
    <3>. QED BY <1>2, <1>4, <2>3, <2>5, <3>2, Zenon DEF Map!MGet, Map!Call, Call
  <2>. QED BY SMTT(20), <2>4, <2>5
<1>. QED BY <1>3, <1>4 DEF Get

\* Put extends the map, whether it has a free slot or starts a rehash.
LEMMA PutImplements ==
    ASSUME HInv, NEW k \in Keys, NEW v \in Vals, Put(k, v)
    PROVE  Map!MPut(k, v) \/ UNCHANGED <<Content, call>>
<1>1. pc = "idle" /\ k # FREE_KEY
    BY KeysAssumption DEF Put
<1>2. CASE ~Ends(k) /\ Spin
  <2>1. Content' = Content
      BY <1>1, <1>2 DEF Spin, loc, Content, Pairs, Live, Used
  <2>. QED BY SMTT(20), <1>2, <2>1 DEF Spin
<1>3. CASE /\ Ends(k) /\ PutNoLock(k, v, <<>>) /\ call' = Call("Put", k, {<<k, v>>})
           /\ UNCHANGED <<hasFreeKey, freeVal>>
  <2>. DEFINE x == [key |-> k, val |-> v]
  <2>1. Pairs' = {f \in InTable(Live, data) : f.key # k} \cup {x} \cup InOld(<<>>) \cup ZeroPair
    <3>1. <<>> \in Seq(Entry)
        OBVIOUS
    <3>. QED BY <1>1, <1>3, <3>1, PutNoLockPairs, Zenon
  <2>2. InOld(<<>>) = {}
      BY DEF InOld
  <2>3. \A e \in ZeroPair : e.key # k
      BY <1>1 DEF ZeroPair
  <2>4. Pairs' = Over(Pairs, x) /\ x.key = k /\ x.val = v
      BY SMTT(20), <1>1, <2>1, <2>2, <2>3, AtRest DEF Over
  <2>. HIDE DEF x
  <2>5. MapOf(Pairs') = Extended(MapOf(Pairs), x)
      BY SMTT(20), <2>4, PairsSingle, MapPut
  <2>. QED BY <1>3, <2>4, <2>5, ContentIs DEF Extended, Map!MPut, Map!Call, Call
<1>. QED BY <1>2, <1>3 DEF Put

\* Del takes the key from the map, when it removes the entry and before
\* shiftKeys has closed the gap.
LEMMA DelImplements ==
    ASSUME HInv, NEW k \in Keys, Del(k)
    PROVE  Map!MDel(k) \/ UNCHANGED <<Content, call>>
<1>1. /\ pc = "idle" /\ UNCHANGED <<data, cap, old, hasFreeKey, freeVal>> /\ ZeroPair' = ZeroPair
      /\ \A e \in ZeroPair : e.key # k
  <2>1. pc = "idle" /\ UNCHANGED <<data, cap, old, hasFreeKey, freeVal>>
      BY Zenon DEF Del, Spin, loc
  <2>2. k # FREE_KEY
      BY KeysAssumption
  <2>. QED BY SMTT(20), <2>1, <2>2 DEF ZeroPair
<1>2. CASE ~Ends(k) /\ Spin
  <2>1. Content' = Content
      BY SMTT(20), <1>1, <1>2 DEF Spin, Content, Pairs, Live, Used
  <2>. QED BY SMTT(20), <1>2, <2>1 DEF Spin
<1>3. CASE Ends(k)
  <2>1. Found(cap, data, k, Probe(k)) /\ k # FREE_KEY
      BY SMTT(20), <1>1, <1>3, AtRest, ProbeFinds, KeysAssumption
  <2>2. \A r \in UsedOf(cap, data) : data[r].key = k => r = Probe(k)
      BY <1>1, <2>1, AtRest, OnlyThere, Zenon
  <2>3. Live' = UsedOf(cap, data) \ {Probe(k)}
    <3>1. CASE data[Probe(k)].key = k
        BY <1>1, <1>3, <2>1, <3>1, Zenon DEF Del, Live, Used, UsedOf
    <3>2. CASE data[Probe(k)].key = FREE_KEY
        BY <1>1, <1>3, <2>1, <3>2, Zenon DEF Del, Live, Used, UsedOf
    <3>. QED BY <2>1, <3>1, <3>2, Zenon DEF Found
  <2>4. InTable(Live', data) = {f \in InTable(UsedOf(cap, data), data) : f.key # k}
    <3>1. \A r \in UsedOf(cap, data) : r = Probe(k) <=> data[r].key = k
        BY <2>1, <2>2, Zenon DEF Found, UsedOf
    <3>. QED BY SMTT(20), <2>3, <3>1 DEF InTable
  <2>5. Pairs' = {f \in Pairs : f.key # k}
      BY <1>1, <2>4, AtRest, PairsAre
  <2>6. MapOf(Pairs') = [j \in DOMAIN MapOf(Pairs) \ {k} |-> MapOf(Pairs)[j]]
      BY <2>5, PairsSingle, MapDel, Zenon
  <2>7. call' = Call("Del", k, {})
      BY <1>3 DEF Del
  <2>. QED BY SMTT(20), <2>6, <2>7, ContentIs DEF Map!MDel, Map!Restrict, Map!Call, Call
<1>. QED BY <1>2, <1>3, Zenon DEF Del

\* The key 0.
LEMMA ZeroImplements ==
    ASSUME HInv, GetZero \/ DelZero \/ \E v \in Vals : PutZero(v)
    PROVE  Map!MGet(FREE_KEY) \/ Map!MDel(FREE_KEY) \/ \E v \in Vals : Map!MPut(FREE_KEY, v)
<1>1. pc = "idle" /\ UNCHANGED <<pc, data, cap, old>> /\ Live' = Live
    BY Zenon DEF GetZero, DelZero, PutZero, loc, Live, Used
<1>2. \A e \in InTable(Live, data) \cup InOld(old) : e.key # FREE_KEY
    BY PairsSingle
<1>3. Pairs' = InTable(Live, data) \cup InOld(old) \cup ZeroPair'
    BY <1>1, PairsAre
<1>4. CASE GetZero
  <2>1. Pairs' = Pairs
      BY <1>3, <1>4, PairsAre DEF GetZero, ZeroPair
  <2>2. DOMAIN Content = {e.key : e \in Pairs} /\ \A e \in Pairs : Content[e.key] = e.val
      BY PairsSingle, ContentIs, MapHas, Zenon
  <2>3. CASE hasFreeKey
    <3>. DEFINE z == [key |-> FREE_KEY, val |-> freeVal]
    <3>1. z \in Pairs /\ z.key = FREE_KEY /\ z.val = freeVal
        BY <2>3, PairsAre DEF ZeroPair
    <3>. HIDE DEF z
    <3>2. FREE_KEY \in DOMAIN Content /\ Content[FREE_KEY] = freeVal
        BY <2>2, <3>1
    <3>. QED BY SMTT(20), <1>4, <2>1, <2>3, <3>2, ContentIs DEF GetZero, Map!MGet, Map!Call, Call
  <2>4. CASE ~hasFreeKey
    <3>1. \A e \in Pairs : e.key # FREE_KEY
        BY SMTT(20), <1>2, <2>4, PairsAre DEF ZeroPair
    <3>. QED BY <1>4, <2>1, <2>2, <2>4, <3>1, ContentIs, Zenon DEF GetZero, Map!MGet, Map!Call, Call
  <2>. QED BY SMTT(20), <2>3, <2>4
<1>5. CASE DelZero
  <2>1. ZeroPair' = {} /\ \A e \in ZeroPair : e.key = FREE_KEY
      BY <1>5 DEF DelZero, ZeroPair
  <2>2. Pairs' = {f \in Pairs : f.key # FREE_KEY}
      BY <1>2, <1>3, <2>1, PairsAre
  <2>3. MapOf(Pairs') = [j \in DOMAIN MapOf(Pairs) \ {FREE_KEY} |-> MapOf(Pairs)[j]]
      BY <2>2, PairsSingle, MapDel, Zenon
  <2>. QED BY <1>5, <2>3, ContentIs DEF DelZero, Map!MDel, Map!Restrict, Map!Call, Call
<1>6. CASE \E v \in Vals : PutZero(v)
  <2>1. PICK v \in Vals : PutZero(v)
      BY <1>6
  <2>. DEFINE x == [key |-> FREE_KEY, val |-> v]
  <2>2. ZeroPair' = {x} /\ x.key = FREE_KEY /\ x.val = v
      BY <2>1 DEF PutZero, ZeroPair
  <2>3. \A e \in ZeroPair : e.key = FREE_KEY
      BY DEF ZeroPair
  <2>. HIDE DEF x
  <2>4. Pairs' = Over(Pairs, x)
      BY <1>2, <1>3, <2>2, <2>3, PairsAre DEF Over
  <2>5. MapOf(Pairs') = Extended(MapOf(Pairs), x)
      BY SMTT(20), <2>4, PairsSingle, MapPut
  <2>6. Map!MPut(FREE_KEY, v)
      BY <2>1, <2>2, <2>5, ContentIs DEF Extended, PutZero, Map!MPut, Map!Call, Call
  <2>. QED BY <2>6
<1>. QED BY <1>4, <1>5, <1>6

\* Items and Keys answer all the pairs.
LEMMA ItemsImplements ==
    ASSUME HInv, Items
    PROVE  Map!MItems
<1>1. pc = "idle" /\ Content' = Content
    BY DEF Items, loc, Content, Pairs, Live, Used
<1>2. DOMAIN Content = {e.key : e \in Pairs} /\ \A e \in Pairs : Content[e.key] = e.val
    BY PairsSingle, ContentIs, MapHas, Zenon
<1>3. {<<k, Content[k]>> : k \in DOMAIN Content} = {<<e.key, e.val>> : e \in Pairs}
    BY <1>2
<1>4. {<<e.key, e.val>> : e \in Pairs}
        = {<<data[s].key, data[s].val>> : s \in {r \in Slots(cap) : data[r].key # FREE_KEY}}
          \cup (IF hasFreeKey THEN {<<FREE_KEY, freeVal>>} ELSE {})
  <2>1. Pairs = {data[s] : s \in {r \in Slots(cap) : data[r].key # FREE_KEY}} \cup ZeroPair
      BY <1>1, AtRest DEF UsedOf, InTable
  <2>2. {<<e.key, e.val>> : e \in ZeroPair} = IF hasFreeKey THEN {<<FREE_KEY, freeVal>>} ELSE {}
    <3>1. CASE hasFreeKey
        BY <3>1 DEF ZeroPair
    <3>2. CASE ~hasFreeKey
        BY <3>2 DEF ZeroPair
    <3>. QED BY <3>1, <3>2
  <2>3. {<<e.key, e.val>> : e \in Pairs}
          = {<<data[s].key, data[s].val>> : s \in {r \in Slots(cap) : data[r].key # FREE_KEY}}
            \cup {<<e.key, e.val>> : e \in ZeroPair}
      BY <2>1
  <2>. QED BY <2>2, <2>3, Zenon
<1>. QED BY <1>1, <1>3, <1>4, Zenon DEF Items, Map!MItems, Map!Call, Call, FREE_KEY

\* The loops of rehash and of shiftKeys change nothing a caller can see.
LEMMA RehashImplements ==
    ASSUME HInv, RehashStep
    PROVE  UNCHANGED <<Content, call>>
<1>1. pc = "rehash" /\ UNCHANGED <<hasFreeKey, freeVal, call>> /\ Pending(old, cap, data) /\ ZeroPair' = ZeroPair
    BY Zenon DEF RehashStep, HInv, Growing, ZeroPair
<1>2. Live = UsedOf(cap, data)
    BY SMTT(20), <1>1 DEF Live, Used, UsedOf
<1>3. Pairs' = Pairs
  <2>1. CASE old = <<>> /\ pc' = "idle" /\ UNCHANGED <<cap, data, old>>
    <3>1. Live' = Live
        BY <1>1, <2>1 DEF Live, Used
    <3>. QED BY SMTT(20), <1>1, <2>1, <3>1, PairsAre
  <2>2. CASE old # <<>> /\ Head(old).key = FREE_KEY /\ old' = Tail(old) /\ UNCHANGED <<pc, cap, data>>
    <3>1. Live' = Live
        BY <1>1, <2>2 DEF Live, Used
    <3>2. InOld(old) = InOld(old')
        BY <1>1, <2>2, TailPairs, Zenon DEF Pending
    <3>. QED BY SMTT(20), <1>1, <2>2, <3>1, <3>2, PairsAre
  <2>3. CASE old # <<>> /\ Head(old).key # FREE_KEY /\ PutNoLock(Head(old).key, Head(old).val, Tail(old))
    <3>. DEFINE h == Head(old)
    <3>1. /\ Tail(old) \in Seq(Entry) /\ h \in Entry /\ h.key # FREE_KEY
          /\ \A s \in UsedOf(cap, data) : h.key # data[s].key
        BY SMTT(20), <1>1, <2>3, PendingTail DEF Pending
    <3>2. h.key \in Keys /\ h.val \in Vals /\ h = [key |-> h.key, val |-> h.val]
        BY <3>1, Zenon DEF Entry, AKeys
    <3>3. Ends(h.key)
        BY <1>1 DEF Ends, Stops, UsedOf, HInv, Growing
    <3>4. InOld(old) = InOld(Tail(old)) \cup {h}
        BY <1>1, <2>3, TailPairs DEF Pending
    <3>5. PutNoLock(h.key, h.val, Tail(old))
        BY <2>3
    <3>. HIDE DEF h
    <3>6. Pairs' = {f \in InTable(Live, data) : f.key # h.key} \cup {[key |-> h.key, val |-> h.val]}
                   \cup InOld(Tail(old)) \cup ZeroPair
        BY <1>1, <3>1, <3>2, <3>3, <3>5, PutNoLockPairs, Zenon
    <3>7. \A f \in InTable(Live, data) : f.key # h.key
        BY <1>2, <3>1 DEF InTable
    <3>. QED BY SMTT(20), <3>2, <3>4, <3>6, <3>7, PairsAre
  <2>. QED BY <2>1, <2>2, <2>3 DEF RehashStep
<1>. QED BY SMTT(20), <1>1, <1>3, ContentIs

\* shiftKeys changes nothing that can be seen.
LEMMA ShiftImplements ==
    ASSUME HInv, ShiftEnd \/ ShiftMove \/ ShiftPass
    PROVE  UNCHANGED <<Content, call>>
<1>1. /\ pc = "shift" /\ UNCHANGED <<cap, old, hasFreeKey, freeVal, call>> /\ ZeroPair' = ZeroPair
      /\ last \in UsedOf(cap, data) /\ last \in Slots(cap) /\ pos \in Slots(cap)
      /\ Live = UsedOf(cap, data) \ {last} /\ Table(cap, data)
  <2>1. pc = "shift" /\ UNCHANGED <<cap, old, hasFreeKey, freeVal, call>>
      BY Zenon DEF ShiftEnd, ShiftMove, ShiftPass
  <2>2. last \in UsedOf(cap, data) /\ last \in Slots(cap) /\ pos \in Slots(cap) /\ Table(cap, data)
      BY <2>1 DEF HInv, Shaped, Shifting, UsedOf
  <2>3. Live = UsedOf(cap, data) \ {last}
      BY <2>1 DEF Live, Used, UsedOf
  <2>. QED BY SMTT(20), <2>1, <2>2, <2>3 DEF ZeroPair
<1>2. InTable(Live', data') = InTable(Live, data)
  <2>1. CASE ShiftEnd
    <3>1. pc' = "idle" /\ data' = [data EXCEPT ![last] = Free]
        BY <2>1 DEF ShiftEnd
    <3>2. \A r \in Slots(cap) : data'[r] = IF r = last THEN Free ELSE data[r]
        BY SMTT(20), <1>1, <3>1 DEF Table
    <3>3. Live' = Live
        BY <1>1, <3>1, <3>2, FreeIsEntry DEF Live, Used
    <3>. QED BY SMTT(20), <1>1, <3>2, <3>3 DEF InTable, UsedOf
  <2>2. CASE ShiftMove
    <3>1. pc' = "shift" /\ data' = [data EXCEPT ![last] = data[pos]] /\ last' = pos /\ pos \in UsedOf(cap, data)
        BY <1>1, <2>2 DEF ShiftMove, UsedOf
    <3>2. \A r \in Slots(cap) : data'[r] = IF r = last THEN data[pos] ELSE data[r]
        BY <1>1, <3>1 DEF Table
    <3>3. Live' = UsedOf(cap, data) \ {pos}
      <4>1. UsedOf(cap, data') = UsedOf(cap, data)
          BY <1>1, <3>1, <3>2, Zenon DEF UsedOf
      <4>2. Live' = UsedOf(cap, data') \ {pos}
          BY <1>1, <3>1 DEF Live, Used, UsedOf
      <4>. QED BY <4>1, <4>2
    <3>4. UsedOf(cap, data) \subseteq Slots(cap)
        BY DEF UsedOf
    <3>5. ASSUME NEW f \in InTable(Live', data')
          PROVE  f \in InTable(Live, data)
      <4>1. PICK s \in Live' : f = data'[s]
          BY DEF InTable
      <4>2. CASE s = last
        <5>1. f = data[pos] /\ pos # last
            BY SMTT(20), <1>1, <3>2, <3>3, <4>1, <4>2
        <5>. QED BY SMTT(20), <1>1, <3>1, <5>1 DEF InTable
      <4>3. CASE s # last
        <5>1. f = data[s] /\ s \in Live
            BY <1>1, <3>2, <3>3, <3>4, <4>1, <4>3
        <5>. QED BY SMTT(20), <5>1 DEF InTable
      <4>. QED BY <4>2, <4>3
    <3>6. ASSUME NEW f \in InTable(Live, data)
          PROVE  f \in InTable(Live', data')
      <4>1. PICK s \in Live : f = data[s]
          BY DEF InTable
      <4>2. CASE s = pos
        <5>1. f = data'[last] /\ last \in Live'
            BY SMTT(20), <1>1, <3>2, <3>3, <4>1, <4>2
        <5>. QED BY SMTT(20), <5>1 DEF InTable
      <4>3. CASE s # pos
        <5>1. f = data'[s] /\ s \in Live'
            BY SMTT(20), <1>1, <3>2, <3>3, <3>4, <4>1, <4>3
        <5>. QED BY SMTT(20), <5>1 DEF InTable
      <4>. QED BY <4>2, <4>3
    <3>. QED BY SMTT(20), <3>5, <3>6
  <2>3. CASE ShiftPass
      BY <1>1, <2>3, Zenon DEF ShiftPass, Live, Used
  <2>. QED BY SMTT(20), <2>1, <2>2, <2>3
<1>3. Pairs' = Pairs
    BY <1>1, <1>2, PairsAre
<1>. QED BY SMTT(20), <1>1, <1>3, ContentIs

\* For every hash function, capacity and fill factor: what callers of MapInt64
\* see is a map.  Get and Items answer from the pairs put and not deleted, and
\* the loops of shiftKeys and of rehash, one rehash inside another too, change
\* nothing that can be seen.
THEOREM TableImplementsMap == Spec => Map!MSpec
<1>1. Init => Map!MInit
  <2>1. SUFFICES ASSUME Init
                 PROVE  Map!MInit
      OBVIOUS
  <2>2. pc = "idle" /\ data = Empty(cap) /\ old = <<>> /\ hasFreeKey = FALSE /\ call = Call("new", FREE_KEY, {})
      BY <2>1 DEF Init
  <2>3. Live = {}
      BY SMTT(20), <2>2, FreeIsEntry DEF Live, Used, Empty
  <2>4. Pairs = {}
      BY <2>2, <2>3 DEF Pairs
  <2>5. Content = [k \in {} |-> 0]
      BY <2>4 DEF Content
  <2>. QED BY <2>2, <2>5 DEF Map!MInit, Map!Call, Call, FREE_KEY
<1>2. HInv /\ [Next]_vars => [Map!MNext]_<<Content, call>>
  <2>1. SUFFICES ASSUME HInv, [Next]_vars
                 PROVE  Map!MNext \/ UNCHANGED <<Content, call>>
      OBVIOUS
  <2>2. Tried \subseteq Vals
      BY FreeIsEntry DEF Tried
  <2>3. CASE \E k \in Keys : Get(k)
      BY <2>1, <2>3, GetImplements DEF Map!MNext
  <2>4. CASE \E k \in Keys : Del(k)
      BY <2>1, <2>4, DelImplements DEF Map!MNext
  <2>5. CASE \E k \in Keys : \E v \in Tried : Put(k, v)
      BY SMTT(20), <2>1, <2>2, <2>5, PutImplements DEF Map!MNext
  <2>6. CASE GetZero \/ DelZero \/ \E v \in Tried : PutZero(v)
    <3>1. FREE_KEY \in Keys \cup {FREE_KEY}
        OBVIOUS
    <3>. QED BY <2>1, <2>2, <2>6, <3>1, ZeroImplements DEF Map!MNext
  <2>7. CASE Items
      BY <2>1, <2>7, ItemsImplements DEF Map!MNext
  <2>8. CASE RehashStep
      BY <2>1, <2>8, RehashImplements
  <2>9. CASE ShiftEnd \/ ShiftMove \/ ShiftPass
      BY SMTT(20), <2>1, <2>9, ShiftImplements
  <2>10. CASE UNCHANGED vars
      BY <2>10 DEF vars, loc, Content, Pairs, Live, Used
  <2>. QED BY SMTT(20), <2>1, <2>3, <2>4, <2>5, <2>6, <2>7, <2>8, <2>9, <2>10 DEF Next
<1>. QED BY <1>1, <1>2, Invariance, PTL DEF Spec, Map!MSpec
=============================================================================
