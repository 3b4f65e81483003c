------------------------------ MODULE MapInt64 -------------------------------
(***************************************************************************)
(* hashmap.MapInt64: an open-addressing table of int64 pairs with linear   *)
(* probing and deletion by shifting entries back.  The key 0 marks a free  *)
(* slot, so the pair with key 0 lives outside the table.                   *)
(*                                                                         *)
(* A slot is a pair data[2i], data[2i+1] of the code.  Every method holds  *)
(* the lock from its first to its last statement, so a method is one       *)
(* action, except for the two loops that rewrite the table: each iteration *)
(* of shiftKeys and of rehash is an action, taken while pc says the lock   *)
(* is held.  The scrambling of keys (phiMix) is the parameter PhiMix.      *)
(***************************************************************************)
EXTENDS Integers, FiniteSets, Sequences

CONSTANTS
  Keys,          \* the keys in use other than 0
  Vals,
  PhiMix,        \* the scrambled key
  Capacity,      \* the capacity NewMapInt64 starts with: a power of two
  FillNum, FillDen,   \* fillFactor = FillNum / FillDen
  MinSize        \* bound: careless callers stop when size has sunk to this

FREE_KEY == 0

ASSUME KeysAssumption == Keys \subseteq Int \ {FREE_KEY}
ASSUME ValsAssumption == Vals # {}
ASSUME PhiMixAssumption == PhiMix \in [Keys -> Int]
ASSUME FillFactorAssumption ==
    FillNum \in Nat /\ FillDen \in Nat /\ 0 < FillNum /\ FillNum < FillDen

Threshold(cap) == (cap * FillNum) \div FillDen

\* What arraySize guarantees of the capacity it computes.
ASSUME CapacityAssumption ==
    Capacity \in Nat /\ Capacity >= 2 /\ Threshold(Capacity) >= 1
ASSUME MinSizeAssumption == MinSize \in Int

VARIABLES
  pc,          \* "idle", or the loop the holder of the lock is in
  cap,         \* mask + 1
  data,        \* the slots
  size,
  hasFreeKey, freeVal,
  last, pos,   \* locals of shiftKeys
  old,         \* the slots that the loops of rehash have still to put again, in order
  call,        \* the last call
  careless     \* do callers delete the key 0 when it is not in the map?

loc == <<last, pos, old>>
vars == <<pc, cap, data, size, hasFreeKey, freeVal, loc, call, careless>>

Zero == CHOOSE v \in Vals : TRUE
Free == [key |-> FREE_KEY, val |-> Zero]
Slots(c) == 0..(c - 1)
Empty(c) == [s \in Slots(c) |-> Free]

\* A call: its name, its key, and the pairs passed to it or returned by it.
Call(name, k, pairs) == [op |-> name, key |-> k, pairs |-> pairs]

Init ==
    /\ pc = "idle"
    /\ cap = Capacity
    /\ data = Empty(Capacity)
    /\ size = 0
    /\ hasFreeKey = FALSE /\ freeVal = Zero
    /\ last = 0 /\ pos = 0 /\ old = <<>>
    /\ call = Call("new", FREE_KEY, {})
    /\ careless \in BOOLEAN

-----------------------------------------------------------------------------
(* The probe: from the slot a key hashes to, forward and around, up to the *)
(* key or a free slot.                                                     *)

Home(k) == PhiMix[k] % cap

Following(s) == IF s = cap - 1 THEN 0 ELSE s + 1

\* How far s is ahead of from, going around.
Ahead(from, s) == IF from <= s THEN s - from ELSE s + cap - from

Stops(k) == {s \in Slots(cap) : data[s].key \in {k, FREE_KEY}}

\* The loop ends: there is something for it to stop at.
Ends(k) == Stops(k) # {}

Probe(k) ==
    CHOOSE s \in Stops(k) : \A r \in Stops(k) : Ahead(Home(k), s) <= Ahead(Home(k), r)

\* A probe that has nothing to stop at never returns, and keeps the lock.
Spin ==
    /\ pc' = "spin"
    /\ UNCHANGED <<cap, data, size, hasFreeKey, freeVal, loc, call>>

-----------------------------------------------------------------------------
Get(k) ==
    /\ pc = "idle"
    /\ \/ /\ Ends(k)
          /\ call' = Call("Get", k, IF data[Probe(k)].key = k THEN {<<k, data[Probe(k)].val>>}
                                                              ELSE {})
          /\ UNCHANGED <<pc, cap, data, size, hasFreeKey, freeVal, loc>>
       \/ ~Ends(k) /\ Spin

GetZero ==
    /\ pc = "idle"
    /\ call' = Call("Get", FREE_KEY, IF hasFreeKey THEN {<<FREE_KEY, freeVal>>} ELSE {})
    /\ UNCHANGED <<pc, cap, data, size, hasFreeKey, freeVal, loc>>

\* What Keys and Items send, under one read lock.
Items ==
    /\ pc = "idle"
    /\ call' = Call("Items", FREE_KEY,
                    {<<data[s].key, data[s].val>> : s \in {r \in Slots(cap) : data[r].key # FREE_KEY}}
                    \cup (IF hasFreeKey THEN {<<FREE_KEY, freeVal>>} ELSE {}))
    /\ UNCHANGED <<pc, cap, data, size, hasFreeKey, freeVal, loc>>

\* Mutant: the copy is taken before the new key was stored.
RehashOldCopy(table, rest) ==
    /\ pc' = "rehash"
    /\ old' = [i \in 1..cap |-> data[i - 1]] \o rest
    /\ cap' = 2 * cap
    /\ data' = Empty(2 * cap)
    /\ size' = IF hasFreeKey THEN 1 ELSE 0

\* rehash, up to its loop; table is the table with the new key in it.  Called
\* from the loop of another rehash, it goes through its table before the loop of
\* the other goes on with the rest.
Rehash(table, rest) ==
    /\ pc' = "rehash"
    /\ old' = [i \in 1..cap |-> table[i - 1]] \o rest
    /\ cap' = 2 * cap
    /\ data' = Empty(2 * cap)
    /\ size' = IF hasFreeKey THEN 1 ELSE 0

\* putNoLock for a key other than 0; rest is what a rehash that calls it has
\* still to put.
PutNoLock(k, v, rest) ==
    LET table == [data EXCEPT ![Probe(k)] = [key |-> k, val |-> v]]
    IN  \/ /\ data[Probe(k)].key = k
           /\ data' = table
           /\ old' = rest
           /\ UNCHANGED <<pc, cap, size>>
        \/ /\ data[Probe(k)].key = FREE_KEY
           /\ size >= Threshold(cap)
           /\ Rehash(table, rest)
        \/ /\ data[Probe(k)].key = FREE_KEY
           /\ size < Threshold(cap)
           /\ data' = table
           /\ size' = size + 1
           /\ old' = rest
           /\ UNCHANGED <<pc, cap>>

Put(k, v) ==
    /\ pc = "idle"
    /\ \/ Ends(k) /\ PutNoLock(k, v, <<>>) /\ call' = Call("Put", k, {<<k, v>>})
          /\ UNCHANGED <<hasFreeKey, freeVal, last, pos>>
       \/ ~Ends(k) /\ Spin

PutZero(v) ==
    /\ pc = "idle"
    /\ size' = IF hasFreeKey THEN size ELSE size + 1
    /\ hasFreeKey' = TRUE
    /\ freeVal' = v
    /\ call' = Call("Put", FREE_KEY, {<<FREE_KEY, v>>})
    /\ UNCHANGED <<pc, cap, data, loc>>

\* One iteration of rehash's loop; the last one returns from Put.
RehashStep ==
    /\ pc = "rehash"
    /\ \/ /\ old = <<>>
          /\ pc' = "idle"
          /\ UNCHANGED <<cap, data, size, old>>
       \/ /\ old # <<>> /\ Head(old).key = FREE_KEY
          /\ old' = Tail(old)
          /\ UNCHANGED <<pc, cap, data, size>>
       \/ /\ old # <<>> /\ Head(old).key # FREE_KEY
          /\ PutNoLock(Head(old).key, Head(old).val, Tail(old))
    /\ UNCHANGED <<hasFreeKey, freeVal, last, pos, call>>

-----------------------------------------------------------------------------
\* Del, up to the loop of shiftKeys.
Del(k) ==
    /\ pc = "idle"
    /\ \/ /\ Ends(k) /\ data[Probe(k)].key = k
          /\ pc' = "shift"
          /\ last' = Probe(k) /\ pos' = Following(Probe(k))
          /\ size' = size - 1
          /\ call' = Call("Del", k, {})
          /\ UNCHANGED <<cap, data, hasFreeKey, freeVal, old>>
       \/ /\ Ends(k) /\ data[Probe(k)].key = FREE_KEY
          /\ call' = Call("Del", k, {})
          /\ UNCHANGED <<pc, cap, data, size, hasFreeKey, freeVal, loc>>
       \/ ~Ends(k) /\ Spin

DelZero ==
    /\ pc = "idle"
    /\ hasFreeKey \/ (careless /\ size > MinSize)
    /\ hasFreeKey' = FALSE
    /\ size' = size - 1
    /\ call' = Call("Del", FREE_KEY, {})
    /\ UNCHANGED <<pc, cap, data, freeVal, loc>>

\* Mutant: the test ignores that the run may go around the end of the table.
MovesFlat == last >= Home(data[pos].key) \/ Home(data[pos].key) > pos

\* May the entry at pos fill the hole at last?  (The two-armed test of the code.)
Moves ==
    LET slot == Home(data[pos].key)
    IN  IF last <= pos THEN last >= slot \/ slot > pos
                       ELSE last >= slot /\ slot > pos

\* The end of the run of entries: the hole becomes a free slot, Del returns.  (The
\* value left behind in a free slot is never read; the model clears it.)
ShiftEnd ==
    /\ pc = "shift" /\ data[pos].key = FREE_KEY
    /\ data' = [data EXCEPT ![last] = Free]
    /\ pc' = "idle" /\ last' = 0 /\ pos' = 0
    /\ UNCHANGED <<cap, size, hasFreeKey, freeVal, old, call>>

ShiftMove ==
    /\ pc = "shift" /\ data[pos].key # FREE_KEY /\ Moves
    /\ data' = [data EXCEPT ![last] = data[pos]]
    /\ last' = pos /\ pos' = Following(pos)
    /\ UNCHANGED <<pc, cap, size, hasFreeKey, freeVal, old, call>>

ShiftPass ==
    /\ pc = "shift" /\ data[pos].key # FREE_KEY /\ ~Moves
    /\ pos' = Following(pos)
    /\ UNCHANGED <<pc, cap, data, size, hasFreeKey, freeVal, last, old, call>>

-----------------------------------------------------------------------------
\* Bound: careless callers put one value only.
Tried == IF careless THEN {Zero} ELSE Vals

Next ==
    /\ \/ \E k \in Keys : Get(k) \/ Del(k) \/ \E v \in Tried : Put(k, v)
       \/ GetZero \/ Items \/ DelZero \/ \E v \in Tried : PutZero(v)
       \/ RehashStep \/ ShiftEnd \/ ShiftMove \/ ShiftPass
    /\ UNCHANGED careless

Spec == Init /\ [][Next]_vars

\* A goroutine inside a method goes on.
Fairness == WF_vars(UNCHANGED careless /\ (RehashStep \/ ShiftEnd \/ ShiftMove \/ ShiftPass))

FairSpec == Spec /\ Fairness

-----------------------------------------------------------------------------
(* Properties. *)

Used == {s \in Slots(cap) : data[s].key # FREE_KEY}

\* The slots that count: during shiftKeys the hole holds an entry that has
\* been deleted or moved.
Live == IF pc = "shift" THEN Used \ {last} ELSE Used

\* The invariant linear probing rests on: a key sits in one slot only, and no
\* slot between the one it hashes to and its own is free, so that get finds it
\* before it stops.  It holds after every step of shiftKeys and of rehash too,
\* the hole counting as used until ShiftEnd.
ChainUnbroken ==
    /\ \A s, r \in Live : data[s].key = data[r].key => s = r
    /\ \A s \in Live, r \in Slots(cap) :
         Ahead(Home(data[s].key), r) < Ahead(Home(data[s].key), s) => r \in Used

\* Between calls, size is the number of keys (comment of Size), and a slot is
\* free, so that every probe ends ("the map will grow as needed", comment of
\* NewMapInt64).  Del(0) takes one off size whether or not 0 is in the map, so
\* this holds only for callers that do not delete a missing 0.
SizeIsCount ==
    (pc = "idle" /\ ~careless) =>
    Used # Slots(cap) /\ size = Cardinality(Used) + (IF hasFreeKey THEN 1 ELSE 0)

\* Both: what get, put and delete rely on, in every state and between calls.
TableSound == ChainUnbroken /\ SizeIsCount

\* A method comes to an end and gives the lock back: no probe goes round a full
\* table, no shift goes round for ever, and a rehash inside a rehash comes
\* to an end.  (Again, unless a missing 0 was deleted.)
MethodsReturn == pc # "idle" ~> pc = "idle" \/ careless

\* The map is the set of pairs in the table, those still to be put again, and
\* the pair with key 0.
Pairs ==
    {data[s] : s \in Live}
    \cup {old[i] : i \in {j \in DOMAIN old : old[j].key # FREE_KEY}}
    \cup (IF hasFreeKey THEN {[key |-> FREE_KEY, val |-> freeVal]} ELSE {})

Content ==
    [k \in {e.key : e \in Pairs} |-> (CHOOSE e \in Pairs : e.key = k).val]

Map == INSTANCE MapSpec WITH AllKeys <- Keys \cup {FREE_KEY}, content <- Content

\* The table implements a map: every Get and Items answers from the pairs put
\* and not deleted, and shiftKeys and rehash change nothing a caller can see;
\* and every method returns.
ImplementsMap == Map!MSpec /\ MethodsReturn
=============================================================================
