---------------------------- MODULE ExpectProofs ----------------------------
(***************************************************************************)
(* Proofs about GExpect: no output is lost, repeated or reordered on its   *)
(* way to the client, and Expect never gives up on a live session while it *)
(* holds what one of its cases matches.                                    *)
(***************************************************************************)
EXTENDS Expect, FiniteSetTheorems, SequenceTheorems, WellFoundedInduction, TLAPS

-----------------------------------------------------------------------------
(* The elements of a sequence that are in a set.                           *)

\* The places of the elements of A in s.
LEMMA WhereIn ==
    ASSUME NEW T, NEW s \in Seq(T), NEW A
    PROVE  /\ Where(s, A) \subseteq 1..Len(s)
           /\ IsFiniteSet(Where(s, A))
           /\ Cardinality(Where(s, A)) \in Nat
<1>1. Len(s) \in Nat /\ Where(s, A) \in SUBSET (1..Len(s))
    BY DEF Where
<1>2. IsFiniteSet(1..Len(s))
    BY <1>1, FS_Interval
<1>. QED BY <1>1, <1>2, FS_Subset, FS_CardinalityType

\* The number of the places up to p grows with p.
LEMMA UpToGrows ==
    ASSUME NEW P, P \subseteq Nat, IsFiniteSet(P), NEW p \in P, NEW q \in P
    PROVE  /\ UpTo(P, p) \in 1..Cardinality(P)
           /\ p < q => UpTo(P, p) < UpTo(P, q)
           /\ UpTo(P, p) = UpTo(P, q) => p = q
<1>. DEFINE D(x) == {y \in P : y <= x}
<1>1. \A x : D(x) \in SUBSET P /\ IsFiniteSet(D(x)) /\ Cardinality(D(x)) \in Nat /\ Cardinality(D(x)) <= Cardinality(P)
  <2>1. ASSUME NEW x
        PROVE  D(x) \in SUBSET P /\ IsFiniteSet(D(x)) /\ Cardinality(D(x)) \in Nat /\ Cardinality(D(x)) <= Cardinality(P)
    <3>1. D(x) \in SUBSET P
        OBVIOUS
    <3>. HIDE DEF D
    <3>. QED BY <3>1, FS_Subset, FS_CardinalityType
  <2>. QED BY <2>1
<1>2. ASSUME NEW x \in P, NEW y \in P, x < y
      PROVE  Cardinality(D(x)) < Cardinality(D(y))
  <2>1. \A z \in P : z <= x => z <= y
      BY <1>2
  <2>2. y <= y /\ ~(y <= x)
      BY <1>2
  <2>3. D(x) \in SUBSET D(y) /\ D(x) # D(y)
      BY <2>1, <2>2, Zenon
  <2>. HIDE DEF D
  <2>. QED BY <1>1, <2>3, FS_Subset
<1>3. Cardinality(D(p)) # 0
  <2>1. p \in D(p)
      OBVIOUS
  <2>. HIDE DEF D
  <2>. QED BY <1>1, <2>1, FS_EmptySet
<1>4. Cardinality(P) \in Nat
    BY FS_CardinalityType
<1>5. \A x : UpTo(P, x) = Cardinality(D(x))
    BY DEF UpTo
<1>6. p < q \/ q < p \/ p = q
    OBVIOUS
<1>. HIDE DEF D
<1>. QED BY <1>1, <1>2, <1>3, <1>4, <1>5, <1>6

\* Every number of places is reached.
LEMMA UpToReaches ==
    ASSUME NEW P, P \subseteq Nat, IsFiniteSet(P), NEW i \in 1..Cardinality(P)
    PROVE  \E p \in P : UpTo(P, p) = i
<1>. DEFINE n == Cardinality(P)
            f == [p \in P |-> UpTo(P, p)]
<1>1. n \in Nat
    BY FS_CardinalityType
<1>2. f \in Injection(P, 1..n)
    BY UpToGrows, Zenon DEF Injection, IsInjective
<1>3. IsFiniteSet(1..n) /\ Cardinality(1..n) = n
    BY <1>1, FS_Interval
<1>4. f \in Surjection(P, 1..n)
    BY <1>2, <1>3, FS_Injection
<1>. QED BY <1>4, Zenon DEF Surjection

\* An element of A stands in Only(s, A) at the number of its place.
LEMMA OnlyIs ==
    ASSUME NEW T, NEW s \in Seq(T), NEW A
    PROVE  /\ Only(s, A) \in Seq(T)
           /\ Len(Only(s, A)) = Cardinality(Where(s, A))
           /\ \A p \in Where(s, A) : Only(s, A)[UpTo(Where(s, A), p)] = s[p]
<1>. DEFINE P == Where(s, A)
            n == Cardinality(P)
            At(i) == CHOOSE p \in P : UpTo(P, p) = i
<1>1. P \subseteq Nat /\ IsFiniteSet(P) /\ n \in Nat /\ P \subseteq 1..Len(s)
    BY WhereIn
<1>2. \A i \in 1..n : At(i) \in P /\ UpTo(P, At(i)) = i
  <2>1. \A i \in 1..n : \E p \in P : UpTo(P, p) = i
      BY <1>1, UpToReaches
  <2>. HIDE DEF P
  <2>. QED BY <2>1
<1>3. \A p \in P : UpTo(P, p) \in 1..n
    BY <1>1, UpToGrows
<1>4. \A p \in P : At(UpTo(P, p)) = p
  <2>1. ASSUME NEW p \in P
        PROVE  At(UpTo(P, p)) = p
    <3>1. At(UpTo(P, p)) \in P /\ UpTo(P, At(UpTo(P, p))) = UpTo(P, p)
        BY <1>2, <1>3
    <3>. HIDE DEF At
    <3>. QED BY <1>1, <3>1, UpToGrows
  <2>. QED BY <2>1
<1>5. Only(s, A) = [i \in 1..n |-> s[At(i)]]
    BY DEF Only
<1>. HIDE DEF P, n, At
<1>6. \A i \in 1..n : s[At(i)] \in T
  <2>1. \A p \in 1..Len(s) : s[p] \in T
      OBVIOUS
  <2>. QED BY <1>1, <1>2, <2>1, Zenon
<1>7. Only(s, A) \in Seq(T) /\ Len(Only(s, A)) = n
    BY <1>1, <1>5, <1>6
<1>8. \A p \in P : Only(s, A)[UpTo(P, p)] = s[p]
    BY <1>3, <1>4, <1>5
<1>. QED BY <1>7, <1>8 DEF P, n

\* And that determines Only(s, A).
LEMMA OnlyUnique ==
    ASSUME NEW T, NEW s \in Seq(T), NEW A, NEW u \in Seq(T), Len(u) = Cardinality(Where(s, A)),
           \A p \in Where(s, A) : u[UpTo(Where(s, A), p)] = s[p]
    PROVE  Only(s, A) = u
<1>. DEFINE P == Where(s, A)
<1>1. P \subseteq Nat /\ IsFiniteSet(P) /\ Cardinality(P) \in Nat
    BY WhereIn
<1>2. ASSUME NEW i \in 1..Len(u)
      PROVE  Only(s, A)[i] = u[i]
  <2>1. PICK p \in P : UpTo(P, p) = i
      BY <1>1, UpToReaches
  <2>. QED BY <2>1, OnlyIs
<1>. QED BY <1>2, OnlyIs, SeqEqual

\* Moving a set of numbers does not change its size.
LEMMA Moved ==
    ASSUME NEW Q, Q \subseteq Nat, IsFiniteSet(Q), NEW n \in Nat
    PROVE  IsFiniteSet({n + q : q \in Q}) /\ Cardinality({n + q : q \in Q}) = Cardinality(Q)
<1>. DEFINE M == {n + q : q \in Q}
            f == [q \in Q |-> n + q]
<1>1. f \in [Q -> M] /\ \A m \in M : \E q \in Q : f[q] = m
    OBVIOUS
<1>2. \A a, b \in Q : f[a] = f[b] => a = b
    OBVIOUS
<1>3. f \in Bijection(Q, M)
    BY <1>1, <1>2 DEF Bijection, Injection, Surjection, IsInjective
<1>4. ExistsBijection(Q, M)
    BY <1>3 DEF ExistsBijection
<1>. QED BY <1>4, FS_Bijection

\* What is kept of two strings is kept of each.
LEMMA OnlyConcat ==
    ASSUME NEW s \in Seq(Tokens), NEW t \in Seq(Tokens), NEW A
    PROVE  Only(s \o t, A) = Only(s, A) \o Only(t, A)
<1>. DEFINE n == Len(s)
            P == Where(s, A)
            Q == Where(t, A)
            W == Where(s \o t, A)
            M(S) == {n + q : q \in S}
            D(S, p) == {y \in S : y <= p}
            u == Only(s, A) \o Only(t, A)
<1>1. /\ n \in Nat
      /\ P \subseteq 1..n /\ IsFiniteSet(P) /\ Cardinality(P) \in Nat
      /\ Q \subseteq Nat \ {0} /\ Q \subseteq 1..Len(t) /\ IsFiniteSet(Q) /\ Cardinality(Q) \in Nat
    BY WhereIn
<1>2. W = P \cup M(Q)
  <2>1. s \o t \in Seq(Tokens) /\ DOMAIN (s \o t) = 1..(n + Len(t)) /\ DOMAIN s = 1..n /\ DOMAIN t = 1..Len(t) /\ Len(t) \in Nat
      OBVIOUS
  <2>2. \A p \in 1..n : (s \o t)[p] = s[p]
      OBVIOUS
  <2>3. \A q \in 1..Len(t) : (s \o t)[n + q] = t[q]
      OBVIOUS
  <2>4. \A p \in 1..(n + Len(t)) : p \in 1..n \/ \E q \in 1..Len(t) : p = n + q
    <3>1. ASSUME NEW p \in 1..(n + Len(t)), p \notin 1..n
          PROVE  p - n \in 1..Len(t) /\ p = n + (p - n)
        BY <1>1, <2>1, <3>1
    <3>. QED BY SMTT(20), <3>1
  <2>5. \A p \in W : p \in P \cup M(Q)
      BY <2>1, <2>2, <2>3, <2>4, SMTT(30) DEF Where
  <2>6. \A p \in P \cup M(Q) : p \in W
    <3>1. \A p \in P : p \in 1..n /\ p \in 1..(n + Len(t)) /\ s[p] \in A
        BY <1>1, <2>1 DEF Where
    <3>2. \A q \in Q : q \in 1..Len(t) /\ n + q \in 1..(n + Len(t)) /\ t[q] \in A
        BY <1>1, <2>1 DEF Where
    <3>. QED BY <2>1, <2>2, <2>3, <3>1, <3>2 DEF Where
  <2>. QED BY <2>5, <2>6
<1>3. \A S \in SUBSET Q : /\ IsFiniteSet(P \cup M(S))
                          /\ Cardinality(P \cup M(S)) = Cardinality(P) + Cardinality(S)
  <2>1. ASSUME NEW S \in SUBSET Q
        PROVE  IsFiniteSet(P \cup M(S)) /\ Cardinality(P \cup M(S)) = Cardinality(P) + Cardinality(S)
    <3>1. S \subseteq Nat /\ IsFiniteSet(S) /\ Cardinality(S) \in Nat
        BY <1>1, FS_Subset, FS_CardinalityType
    <3>2. IsFiniteSet(M(S)) /\ Cardinality(M(S)) = Cardinality(S)
        BY <1>1, <3>1, Moved, Zenon
    <3>3. P \cap M(S) = {}
      <4>1. \A x \in P, q \in S : x <= n /\ q \in Nat /\ q > 0 /\ x \in Nat
          BY <1>1
      <4>2. \A x \in P, q \in S : x # n + q
          BY <1>1, <4>1
      <4>. QED BY <4>2
    <3>4. IsFiniteSet(P \cup M(S)) /\ Cardinality(P \cup M(S)) = Cardinality(P) + Cardinality(M(S)) - Cardinality({})
      <4>. HIDE DEF P, M
      <4>. QED BY <1>1, <3>2, <3>3, FS_Union, Zenon
    <3>. HIDE DEF P, M
    <3>. QED BY <1>1, <3>1, <3>2, <3>4, FS_EmptySet
  <2>. QED BY <2>1, Zenon
<1>4. Cardinality(W) = Cardinality(P) + Cardinality(Q)
    BY <1>2, <1>3, Zenon
<1>5. /\ u \in Seq(Tokens) /\ Len(u) = Cardinality(P) + Cardinality(Q)
      /\ \A i \in 1..Cardinality(P) : u[i] = Only(s, A)[i]
      /\ \A i \in 1..Cardinality(Q) : u[Cardinality(P) + i] = Only(t, A)[i]
  <2>1. /\ Only(s, A) \in Seq(Tokens) /\ Len(Only(s, A)) = Cardinality(P)
        /\ Only(t, A) \in Seq(Tokens) /\ Len(Only(t, A)) = Cardinality(Q)
      BY OnlyIs
  <2>. DEFINE x == Only(s, A)
              y == Only(t, A)
  <2>2. x \in Seq(Tokens) /\ y \in Seq(Tokens) /\ Len(x) = Cardinality(P) /\ Len(y) = Cardinality(Q) /\ u = x \o y
      BY <2>1
  <2>. HIDE DEF P, Q, x, y, u
  <2>3. u \in Seq(Tokens) /\ Len(u) = Len(x) + Len(y)
      BY <2>2, ConcatProperties, Zenon
  <2>4. \A i \in 1..Len(x) : u[i] = x[i]
      BY <2>2
  <2>5. \A i \in 1..Len(y) : u[Len(x) + i] = y[i]
      BY SMTT(20), <2>2
  <2>. QED BY <2>2, <2>3, <2>4, <2>5, Zenon DEF x, y
<1>6. ASSUME NEW p \in P
      PROVE  u[UpTo(W, p)] = (s \o t)[p]
  <2>1. \A q \in Q : ~(n + q <= p)
      BY <1>1
  <2>2. D(W, p) = D(P, p)
      BY <1>2, <2>1
  <2>3. UpTo(W, p) = UpTo(P, p)
      BY <2>2, Zenon DEF UpTo
  <2>4. UpTo(P, p) \in 1..Cardinality(P)
      BY <1>1, UpToGrows
  <2>5. u[UpTo(P, p)] = s[p]
      BY <1>5, <2>4, OnlyIs
  <2>6. (s \o t)[p] = s[p]
      BY <1>1
  <2>. QED BY <2>3, <2>5, <2>6
<1>7. ASSUME NEW q \in Q
      PROVE  u[UpTo(W, n + q)] = (s \o t)[n + q]
  <2>1. \A y \in Q : n + y <= n + q <=> y <= q
      BY <1>1
  <2>2. \A y \in P : y <= n + q
      BY <1>1
  <2>3. D(W, n + q) = P \cup M(D(Q, q))
      BY <1>2, <2>1, <2>2
  <2>4. UpTo(W, n + q) = Cardinality(P) + UpTo(Q, q)
      BY <1>3, <2>3, Zenon DEF UpTo
  <2>5. UpTo(Q, q) \in 1..Cardinality(Q)
      BY <1>1, UpToGrows
  <2>6. u[Cardinality(P) + UpTo(Q, q)] = t[q]
      BY <1>5, <2>5, OnlyIs
  <2>7. (s \o t)[n + q] = t[q]
      BY <1>1
  <2>. QED BY <2>4, <2>6, <2>7, Zenon
<1>8. \A p \in W : u[UpTo(W, p)] = (s \o t)[p]
    BY <1>2, <1>6, <1>7, Zenon
<1>9. s \o t \in Seq(Tokens)
    OBVIOUS
<1>10. Len(u) = Cardinality(W)
    BY <1>4, <1>5, Zenon
<1>11. Only(s \o t, A) = u
  <2>. DEFINE v == s \o t
  <2>1. v \in Seq(Tokens) /\ u \in Seq(Tokens) /\ Len(u) = Cardinality(Where(v, A)) /\ \A p \in Where(v, A) : u[UpTo(Where(v, A), p)] = v[p]
      BY <1>5, <1>8, <1>9, <1>10, Zenon
  <2>. HIDE DEF u, v
  <2>2. Only(v, A) = u
      BY <2>1, OnlyUnique, Zenon
  <2>. QED BY <2>2 DEF v
<1>. QED BY <1>11

\* Of elements of A alone, Only leaves all; of others, none.
LEMMA OnlyAll ==
    ASSUME NEW A, NEW s \in Seq(A)
    PROVE  Only(s, A) = s
<1>1. Len(s) \in Nat /\ Where(s, A) = 1..Len(s)
    BY DEF Where
<1>2. \A p \in 1..Len(s) : UpTo(1..Len(s), p) = p
  <2>1. ASSUME NEW p \in 1..Len(s)
        PROVE  UpTo(1..Len(s), p) = p
    <3>1. {q \in 1..Len(s) : q <= p} = 1..p
        BY <1>1
    <3>2. Cardinality(1..p) = p
        BY <1>1, FS_Interval
    <3>. QED BY <3>1, <3>2, Zenon DEF UpTo
  <2>. QED BY <2>1
<1>3. Cardinality(1..Len(s)) = Len(s)
    BY SMTT(20), <1>1, FS_Interval
<1>. QED BY SMTT(20), <1>1, <1>2, <1>3, OnlyUnique

\* Nothing is kept of a string that has no such token.
LEMMA OnlyNone ==
    ASSUME NEW T, NEW s \in Seq(T), NEW A, T \cap A = {}
    PROVE  Only(s, A) = <<>>
<1>1. Where(s, A) = {}
    BY DEF Where
<1>2. Only(s, A) \in Seq(T) /\ Len(Only(s, A)) = 0
    BY <1>1, OnlyIs, FS_EmptySet, Zenon
<1>. QED BY <1>2, EmptySeq

-----------------------------------------------------------------------------
(* The inductive invariant.                                                *)

Str(r) == Streams[kind][r]
ClientLabels == {"idle", "match", "check", "select", "rcv", "send", "snd"}
ClientStates == [pc : ClientLabels, tbuf : Seq(Tokens), cs : Seq(Cases), hit : Nat, got : [Readers -> Nat]]

ExpectTyped ==
    /\ kind \in {"pty", "session", "fake"} \cap DOMAIN Streams
    /\ child \in {"running", "exited", "reaped"}
    /\ written \in [Readers -> Nat] /\ \A r \in Readers : written[r] <= Len(Str(r))
    /\ pipe \in [Readers -> Seq(Tokens)]
    /\ rdr \in [Readers -> [pc : {"read", "got", "ping", "gone"}, chunk : Seq(Tokens)]]
    /\ out \in Seq(Tokens)
    /\ client \in ClientStates

\* A reader has nothing in hand but between its Read and the buffer, and what
\* it reads is of its own stream.
InHand ==
    \A r \in Readers :
       /\ rdr[r].pc # "got" => rdr[r].chunk = <<>>
       /\ pipe[r] \in Seq(Range(Str(r))) /\ rdr[r].chunk \in Seq(Range(Str(r)))

\* Between calls, and while something is sent, tbuf is empty.
ClientRests ==
    /\ client.pc \in {"idle", "send", "snd"} => client.tbuf = <<>>
    /\ client.pc = "idle" => client.hit = 0
    /\ client.hit <= Len(client.cs)

\* While Expect waits for more on a live session, nothing in tbuf matches but
\* cases that are passed over.  (A session that has ended may have left what
\* matches in the buffer; Check is then false for good.)
Unmatched ==
    client.pc = "check" \/ (client.pc \in {"select", "rcv"} /\ Check)
      => \A i \in Hits(client.tbuf) : client.cs[i].tag = "next"

\* What reader r's session wrote is what the client was given, then what is
\* held for it, then what the reader has in hand, and then w: what is in the
\* pipe or, when the reader has ended, what was dropped.
Adds(S, n, g, a, b, w) == SubSeq(S, 1, n) = SubSeq(S, 1, g) \o (a \o (b \o w))
Accounted(r, w) ==
    /\ Adds(Str(r), written[r], client.got[r], Of(r, client.tbuf \o out), rdr[r].chunk, w)
    /\ kind = "pty" \/ rdr[r].pc # "gone" => w = pipe[r]

Ledger ==
    \A r \in Readers : client.got[r] <= written[r] /\ \E w \in Seq(Tokens) : Accounted(r, w)

XInv == ExpectTyped /\ InHand /\ ClientRests /\ Unmatched /\ Ledger

-----------------------------------------------------------------------------
(* Facts about the operators of the model.                                 *)

\* A set of numbers that is not empty has a least element.
LEMMA Least ==
    ASSUME NEW S, S \subseteq Nat, S # {}
    PROVE  \E x \in S : \A y \in S : x <= y
<1>. DEFINE R == OpToRel(<, Nat)
<1>1. \E x \in S : \A y \in S : ~(<<y, x>> \in R)
    BY WFMin, NatLessThanWellFounded, Zenon
<1>2. PICK x \in S : \A y \in S : ~(y < x)
    BY <1>1, Zenon DEF OpToRel
<1>. QED BY <1>2

\* What the readers read is made of tokens.
LEMMA StreamsTyped ==
    ASSUME ExpectTyped
    PROVE  \A r \in Readers :
              /\ Str(r) \in Seq(Tokens)
              /\ Range(Str(r)) \subseteq Tokens
              /\ Str(r) \in Seq(Range(Str(r)))
              /\ \A q \in Readers : q # r => Range(Str(q)) \cap Range(Str(r)) = {}
<1>1. \A r \in Readers : Str(r) \in Seq(Tokens)
    BY ExpectAssumption DEF ExpectTyped, Readers, Str
<1>2. \A r \in Readers : Range(Str(r)) \subseteq Tokens /\ Str(r) \in Seq(Range(Str(r)))
    BY SMTT(20), <1>1, RangeOfSeq, SeqOfRange
<1>3. \A q, r \in Readers : q # r => Range(Str(q)) \cap Range(Str(r)) = {}
    BY ExpectAssumption, Zenon DEF ExpectTyped, Readers, Str
<1>. QED BY <1>1, <1>2, <1>3

\* Concatenation of tokens.
LEMMA Joined ==
    /\ <<>> \in Seq(Tokens)
    /\ \A x, y \in Seq(Tokens) : x \o y \in Seq(Tokens)
    /\ \A x \in Seq(Tokens) : x \o <<>> = x /\ <<>> \o x = x
    /\ \A x, y, z \in Seq(Tokens) : (x \o y) \o z = x \o (y \o z)
<1>1. \A x, y \in Seq(Tokens) : x \o y \in Seq(Tokens)
    BY ConcatProperties, Zenon
<1>2. \A x \in Seq(Tokens) : x \o <<>> = x /\ <<>> \o x = x
    BY ConcatEmptySeq, Zenon
<1>3. \A x, y, z \in Seq(Tokens) : (x \o y) \o z = x \o (y \o z)
    BY SMTT(30)
<1>4. <<>> \in Seq(Tokens)
    BY EmptySeq, Zenon
<1>. QED BY <1>1, <1>2, <1>3, <1>4, Zenon

Regroups(x, y, z) == x \o (y \o z) = (x \o y) \o z

\* Strings may be joined in either order.
LEMMA JoinedAnyWay ==
    ASSUME NEW x \in Seq(Tokens), NEW y \in Seq(Tokens), NEW z \in Seq(Tokens)
    PROVE  Regroups(x, y, z)
    BY SMTT(30) DEF Regroups

Late(x, y, z, w, t) == (x \o (y \o (z \o w))) \o t = x \o (y \o (z \o (w \o t)))

\* What comes last may be joined to the part before it.
LEMMA JoinedLate ==
    ASSUME NEW x \in Seq(Tokens), NEW y \in Seq(Tokens), NEW z \in Seq(Tokens), NEW w \in Seq(Tokens), NEW t \in Seq(Tokens)
    PROVE  Late(x, y, z, w, t)
<1>. DEFINE c == z \o w
            b == y \o c
<1>1. c \in Seq(Tokens)
    BY Joined, Zenon
<1>2. b \in Seq(Tokens)
  <2>. HIDE DEF c
  <2>. QED BY <1>1, Joined, Zenon
<1>3. c \o t = z \o (w \o t)
    OBVIOUS
<1>4. b \o t = y \o (c \o t)
  <2>. HIDE DEF c
  <2>. QED BY SMTT(20), <1>1
<1>5. (x \o b) \o t = x \o (b \o t)
  <2>. HIDE DEF b
  <2>. QED BY SMTT(20), <1>2
<1>. QED BY <1>3, <1>4, <1>5, Zenon DEF Late

\* A sequence is what comes up to a place and what comes after it.
LEMMA CutIn ==
    ASSUME NEW s \in Seq(Tokens), NEW k \in 0..Len(s)
    PROVE  /\ SubSeq(s, 1, k) \in Seq(Tokens) /\ SubSeq(s, k + 1, Len(s)) \in Seq(Tokens)
           /\ s = SubSeq(s, 1, k) \o SubSeq(s, k + 1, Len(s))
<1>1. Len(s) \in Nat /\ k \in Nat /\ k <= Len(s)
    OBVIOUS
<1>2. SubSeq(s, 1, k) \in Seq(Tokens) /\ SubSeq(s, k + 1, Len(s)) \in Seq(Tokens)
    BY <1>1, SubSeqProperties
<1>3. SubSeq(s, 1, k) \o SubSeq(s, k + 1, Len(s)) = SubSeq(s, 1, Len(s))
  <2>1. 1 \in 1..(Len(s) + 1) /\ k \in (1 - 1)..Len(s) /\ Len(s) \in k..Len(s)
      BY <1>1
  <2>. QED BY <2>1, ConcatAdjacentSubSeq, Zenon
<1>4. SubSeq(s, 1, Len(s)) = s
    BY SubSeqFull, Zenon
<1>. QED BY <1>2, <1>3, <1>4, Zenon

\* The first n + 1 tokens are the first n and one more.
LEMMA OneMore ==
    ASSUME NEW S \in Seq(Tokens), NEW n \in Nat, n < Len(S)
    PROVE  SubSeq(S, 1, n + 1) = SubSeq(S, 1, n) \o <<S[n + 1]>>
<1>. DEFINE x == SubSeq(S, 1, n + 1)
            y == SubSeq(S, 1, n)
            t == S[n + 1]
<1>1. n + 1 \in 1..Len(S) /\ Len(S) \in Nat /\ t \in Tokens
    OBVIOUS
<1>2. x \in Seq(Tokens) /\ Len(x) = n + 1 /\ \A i \in 1..(n + 1) : x[i] = S[i]
    BY <1>1, SubSeqProperties
<1>3. y \in Seq(Tokens) /\ Len(y) = n /\ \A i \in 1..n : y[i] = S[i]
    BY <1>1, SubSeqProperties
<1>4. x[n + 1] = t
    BY <1>1, <1>2
<1>5. \A i \in 1..n : x[i] = y[i]
    BY <1>2, <1>3
<1>. HIDE DEF x, y, t
<1>6. y \o <<t>> \in Seq(Tokens) /\ Len(y \o <<t>>) = n + 1
    BY <1>1, <1>3
<1>7. \A i \in 1..(n + 1) : (y \o <<t>>)[i] = x[i]
    BY SMTT(20), <1>1, <1>3, <1>4, <1>5
<1>8. x = y \o <<t>>
    BY SMTT(20), <1>2, <1>6, <1>7, SeqEqual
<1>. QED BY <1>8 DEF x, y, t

\* Of keeps the tokens of its reader, in a concatenation one part after the other.
LEMMA OfConcat ==
    ASSUME NEW r, NEW s \in Seq(Tokens), NEW t \in Seq(Tokens)
    PROVE  /\ Of(r, s) \in Seq(Tokens)
           /\ Of(r, s \o t) = Of(r, s) \o Of(r, t)
<1>. DEFINE A == Range(Streams[kind][r])
<1>1. Only(s, A) \in Seq(Tokens)
    BY OnlyIs, Zenon
<1>2. Only(s \o t, A) = Only(s, A) \o Only(t, A)
    BY OnlyConcat, Zenon
<1>. QED BY <1>1, <1>2, Zenon DEF Of

\* What is of a reader is made of tokens.
LEMMA OfIn ==
    ASSUME NEW r, NEW s \in Seq(Tokens)
    PROVE  Of(r, s) \in Seq(Tokens)
    BY OnlyIs, Zenon DEF Of

\* A reader's own text is all of it, and of no other reader.
LEMMA OfOwn ==
    ASSUME ExpectTyped, NEW r \in Readers, NEW s \in Seq(Range(Str(r)))
    PROVE  /\ Of(r, s) = s
           /\ \A q \in Readers : q # r => Of(q, s) = <<>>
<1>1. Of(r, s) = s
    BY OnlyAll DEF Of, Str
<1>2. ASSUME NEW q \in Readers, q # r
      PROVE  Of(q, s) = <<>>
  <2>1. Range(Str(r)) \cap Range(Str(q)) = {}
      BY <1>2, StreamsTyped
  <2>. QED BY <2>1, OnlyNone DEF Of, Str
<1>. QED BY <1>1, <1>2

\* Nothing is of any reader in the empty string.
LEMMA OfEmpty ==
    ASSUME NEW r
    PROVE  Of(r, <<>>) = <<>>
<1>1. <<>> \in Seq({})
    OBVIOUS
<1>. DEFINE A == Range(Streams[kind][r])
<1>2. Only(<<>>, A) = <<>>
  <2>1. {} \cap A = {}
      OBVIOUS
  <2>. HIDE DEF A
  <2>. QED BY <1>1, <2>1, OnlyNone, Zenon
<1>. QED BY <1>2, Zenon DEF Of

\* A signal on rcv, a call and the end of a call change these fields.
LEMMA IdleIs ==
    ASSUME NEW c \in ClientStates
    PROVE  /\ Idle(c) \in ClientStates
           /\ Idle(c).pc = "idle" /\ Idle(c).tbuf = <<>> /\ Idle(c).hit = 0 /\ Idle(c).cs = <<>>
           /\ Idle(c).got = c.got
<1>1. c.got \in [Readers -> Nat]
    BY DEF ClientStates
<1>2. <<>> \in Seq(Tokens) /\ <<>> \in Seq(Cases)
    BY EmptySeq, Zenon
<1>. QED BY <1>1, <1>2 DEF Idle, ClientStates, ClientLabels

\* The client after the case it was told to go to is a client, with the same text.
LEMMA TaggedIs ==
    ASSUME NEW c \in ClientStates, c.hit <= Len(c.cs), c.tbuf = <<>>
    PROVE  /\ Tagged(c) \in ClientStates
           /\ Tagged(c).pc \in {"idle", "check"} /\ Tagged(c).tbuf = <<>> /\ Tagged(c).got = c.got
           /\ Tagged(c).hit <= Len(Tagged(c).cs)
           /\ Tagged(c).pc = "idle" => Tagged(c).hit = 0
<1>1. CASE c.hit = 0 \/ ~GoesOn(c.cs[c.hit])
  <2>1. Tagged(c) = Idle(c)
      BY <1>1 DEF Tagged
  <2>. QED BY <2>1, IdleIs
<1>2. CASE ~(c.hit = 0 \/ ~GoesOn(c.cs[c.hit]))
  <2>. DEFINE k == c.cs[c.hit]
              x == [k EXCEPT !.rt = IF k.tag = "continue" THEN @ - 1 ELSE @]
              d == [c.cs EXCEPT ![c.hit] = x]
  <2>1. c.cs \in Seq(Cases) /\ c.hit \in 1..Len(c.cs)
      BY <1>2 DEF ClientStates
  <2>2. k \in Cases
      BY <2>1
  <2>3. x \in Cases
      BY <2>2 DEF Cases
  <2>4. d \in Seq(Cases) /\ Len(d) = Len(c.cs)
      BY <2>1, <2>3, ExceptSeq
  <2>5. Tagged(c) = [c EXCEPT !.pc = "check", !.cs = d]
      BY <1>2, <2>1, <2>2 DEF Tagged, ClientStates, Cases
  <2>. HIDE DEF d
  <2>. QED BY <2>1, <2>4, <2>5, Zenon DEF ClientStates, ClientLabels
<1>. QED BY <1>1, <1>2, Zenon

\* Looking at the cases changes how often they may be retried, and nothing else.
LEMMA LookedIs ==
    ASSUME client \in ClientStates, NEW n
    PROVE  /\ Looked(n) \in Seq(Cases) /\ Len(Looked(n)) = Len(client.cs)
           /\ \A i \in 1..Len(client.cs) : Looked(n)[i].re = client.cs[i].re /\ Looked(n)[i].tag = client.cs[i].tag
<1>1. client.cs \in Seq(Cases) /\ Len(client.cs) \in Nat
    BY DEF ClientStates
<1>2. ASSUME NEW i \in 1..Len(client.cs)
      PROVE  /\ Retry(i)[i] \in Cases
             /\ Retry(i)[i].re = client.cs[i].re /\ Retry(i)[i].tag = client.cs[i].tag
  <2>1. client.cs[i] \in Cases
      BY <1>1
  <2>2. Retry(i)[i] = [client.cs[i] EXCEPT !.rt = @ - 1]
      BY <1>1 DEF Retry
  <2>. QED BY <2>1, <2>2 DEF Cases
<1>3. \A i \in 1..Len(client.cs) : client.cs[i] \in Cases
    BY <1>1
<1>4. \A i \in 1..Len(client.cs) : Looked(n)[i] = client.cs[i] \/ Looked(n)[i] = Retry(i)[i]
    BY Zenon DEF Looked
<1>5. Looked(n) \in [1..Len(client.cs) -> Cases]
    BY <1>2, <1>3 DEF Looked
<1>. HIDE DEF Retry, Looked, Cases
<1>6. Looked(n) \in Seq(Cases) /\ Len(Looked(n)) = Len(client.cs)
    BY <1>1, <1>5
<1>. QED BY <1>2, <1>4, <1>6

\* The case that is taken is one of them, and a match ends in tbuf.
LEMMA CaseIn ==
    ASSUME client \in ClientStates, Taken # {}
    PROVE  Case \in Taken /\ Case \in 1..Len(client.cs)
<1>1. Taken \subseteq 1..Len(client.cs) /\ Taken \subseteq Nat
    BY DEF Taken, Hits
<1>2. \E i \in Taken : \A j \in Taken : i <= j
    BY <1>1, Least, Zenon
<1>3. Case \in Taken
    BY <1>2 DEF Case
<1>. QED BY <1>1, <1>3

\* A match ends inside the text.
LEMMA MatchEndIn ==
    ASSUME client \in ClientStates, Taken # {}
    PROVE  MatchEnd \in 0..Len(client.tbuf)
<1>. DEFINE s == client.tbuf
            re == client.cs[Case].re
            S == {k \in 1..Len(s) : s[k] \in re}
            First(k) == s[k] \in re /\ \A j \in 1..(k - 1) : s[j] \notin re
<1>1. s \in Seq(Tokens) /\ Len(s) \in Nat
    BY DEF ClientStates
<1>2. Range(s) \cap re # {}
    BY CaseIn, Zenon DEF Taken, Hits
<1>3. S # {} /\ S \subseteq Nat
    BY <1>1, <1>2 DEF Range
<1>4. PICK k \in S : \A j \in S : k <= j
    BY <1>3, Least, Zenon
<1>5. k \in 1..Len(s) /\ First(k)
    BY <1>1, <1>4
<1>6. (CHOOSE x \in 1..Len(s) : First(x)) \in 1..Len(s)
    BY <1>5, Zenon
<1>7. MatchEnd = IF partialMatch THEN CHOOSE x \in 1..Len(s) : First(x) ELSE Len(s)
    BY DEF MatchEnd
<1>. HIDE DEF First, s
<1>. QED BY <1>1, <1>6, <1>7 DEF s

-----------------------------------------------------------------------------
(* The ledger.                                                             *)

\* The first w elements of S are its first g, and then a, and then b.
Split(S, w, g, a, b) == SubSeq(S, 1, w) = SubSeq(S, 1, g) \o (a \o b)
Rest(S, w, g, b) == SubSeq(S, 1, w) = SubSeq(S, 1, g) \o b

\* What comes next in a stream may be counted as given.
LEMMA Handed ==
    ASSUME NEW S \in Seq(Tokens), NEW w \in 0..Len(S), NEW g \in 0..w, NEW a \in Seq(Tokens), NEW b \in Seq(Tokens),
           Split(S, w, g, a, b)
    PROVE  g + Len(a) \in 0..w /\ Rest(S, w, g + Len(a), b)
<1>. DEFINE U == SubSeq(S, 1, w)
            G == SubSeq(S, 1, g)
            h == g + Len(a)
            H == SubSeq(S, 1, h)
<1>1. Len(S) \in Nat /\ Len(a) \in Nat /\ Len(b) \in Nat /\ w \in Nat /\ g \in Nat /\ w <= Len(S) /\ g <= w
    OBVIOUS
<1>2. U \in Seq(Tokens) /\ Len(U) = w /\ \A i \in 1..w : U[i] = S[i]
    BY <1>1, SubSeqProperties
<1>3. G \in Seq(Tokens) /\ Len(G) = g
    BY <1>1, SubSeqProperties
<1>4. U = (G \o a) \o b
  <2>1. U = G \o (a \o b)
      BY Zenon DEF Split
  <2>. HIDE DEF U, G
  <2>2. (G \o a) \o b = G \o (a \o b)
      BY SMTT(20), <1>3
  <2>. QED BY <2>1, <2>2, Zenon
<1>5. G \o a \in Seq(Tokens) /\ Len(G \o a) = h /\ h \in Nat
    BY <1>1, <1>3
<1>6. w = h + Len(b)
    BY <1>2, <1>4, <1>5
<1>7. h <= w /\ h <= Len(S)
    BY <1>1, <1>5, <1>6
<1>8. \A i \in 1..h : (G \o a)[i] = S[i]
  <2>. HIDE DEF G, U, h
  <2>1. \A i \in 1..h : (G \o a)[i] = ((G \o a) \o b)[i]
      BY <1>5
  <2>. QED BY SMTT(20), <1>1, <1>2, <1>4, <1>5, <1>7, <2>1
<1>9. H \in Seq(Tokens) /\ Len(H) = h /\ \A i \in 1..h : H[i] = S[i]
    BY SMTT(20), <1>1, <1>5, <1>7, SubSeqProperties
<1>10. H = G \o a
    BY SMTT(20), <1>5, <1>8, <1>9, SeqEqual
<1>11. h \in 0..w
    BY <1>1, <1>5, <1>7
<1>12. U = H \o b
  <2>. HIDE DEF U, G, H
  <2>. QED BY <1>4, <1>10, Zenon
<1>. QED BY <1>11, <1>12, Zenon DEF Rest

\* What was given is counted for each reader.
LEMMA GivenTyped ==
    ASSUME client \in ClientStates, NEW s \in Seq(Tokens)
    PROVE  Given(s) \in [Readers -> Nat]
<1>1. client.got \in [Readers -> Nat]
    BY DEF ClientStates
<1>2. ASSUME NEW r \in Readers
      PROVE  client.got[r] + Len(Of(r, s)) \in Nat
  <2>1. Of(r, s) \in Seq(Tokens)
      BY OfIn, Zenon
  <2>. QED BY <1>1, <2>1
<1>. QED BY <1>2 DEF Given

\* The client is given pre and keeps rest.
LEMMA ClientLedger ==
    ASSUME ExpectTyped, InHand, Ledger, UNCHANGED <<opts, session, rdr>>,
           NEW pre \in Seq(Tokens), NEW rest \in Seq(Tokens),
           client.tbuf \o out = pre \o rest, client'.tbuf \o out' = rest, client'.got = Given(pre)
    PROVE  Ledger' /\ Given(pre) \in [Readers -> Nat]
<1>1. kind' = kind /\ Readers' = Readers /\ written' = written /\ pipe' = pipe
    BY Zenon DEF opts, session, Readers
<1>2. Given(pre) \in [Readers -> Nat]
    BY GivenTyped, Zenon DEF ExpectTyped
<1>3. ASSUME NEW r \in Readers
      PROVE  client'.got[r] <= written'[r] /\ \E w \in Seq(Tokens) : Accounted(r, w)'
  <2>1. PICK w \in Seq(Tokens) : Accounted(r, w)
      BY Zenon DEF Ledger
  <2>. DEFINE a == Of(r, pre)
              b == Of(r, rest) \o (rdr[r].chunk \o w)
              g == client.got[r]
  <2>2. Of(r, client.tbuf \o out) = a \o Of(r, rest)
    <3>1. Of(r, pre \o rest) = a \o Of(r, rest)
        BY OfConcat, Zenon
    <3>. QED BY <3>1, Zenon
  <2>3. a \in Seq(Tokens) /\ Of(r, rest) \in Seq(Tokens) /\ rdr[r].chunk \o w \in Seq(Tokens) /\ b \in Seq(Tokens)
    <3>1. rdr[r].chunk \in Seq(Tokens)
        BY Zenon DEF ExpectTyped
    <3>2. a \in Seq(Tokens) /\ Of(r, rest) \in Seq(Tokens)
        BY OfIn, Zenon
    <3>. QED BY <3>1, <3>2, Joined, Zenon
  <2>4. Str(r) \in Seq(Tokens) /\ written[r] \in 0..Len(Str(r)) /\ g \in 0..written[r]
      BY SMTT(20), StreamsTyped DEF ExpectTyped, ClientStates, Ledger
  <2>5. SubSeq(Str(r), 1, written[r]) = SubSeq(Str(r), 1, g) \o ((a \o Of(r, rest)) \o (rdr[r].chunk \o w))
      BY <2>1, <2>2, Zenon DEF Accounted, Adds
  <2>6. SubSeq(Str(r), 1, written[r]) = SubSeq(Str(r), 1, g) \o (a \o b)
    <3>. DEFINE x == Of(r, rest)
                y == rdr[r].chunk \o w
    <3>1. (a \o x) \o y = a \o (x \o y)
      <4>1. a \in Seq(Tokens) /\ x \in Seq(Tokens) /\ y \in Seq(Tokens)
          BY <2>3, Zenon
      <4>. HIDE DEF a, x, y
      <4>. QED BY SMTT(20), <4>1
    <3>. QED BY <2>5, <3>1, Zenon
  <2>7. g + Len(a) \in 0..written[r] /\ Rest(Str(r), written[r], g + Len(a), b)
    <3>1. Split(Str(r), written[r], g, a, b)
        BY <2>6, Zenon DEF Split
    <3>. HIDE DEF a, b, g
    <3>. QED BY <2>3, <2>4, <3>1, Handed, Zenon
  <2>8. client'.got[r] = g + Len(a)
      BY Zenon DEF Given
  <2>9. Str(r)' = Str(r) /\ Of(r, client.tbuf \o out)' = Of(r, rest)
      BY <1>1, Zenon DEF Str, Of
  <2>10. Accounted(r, w)'
    <3>1. Adds(Str(r), written[r], g + Len(a), Of(r, rest), rdr[r].chunk, w)
        BY <2>7, Zenon DEF Adds, Rest
    <3>. HIDE DEF a, b, g
    <3>. QED BY <1>1, <2>1, <2>8, <2>9, <3>1, Zenon DEF Accounted
  <2>11. client'.got[r] <= written'[r]
      BY SMTT(20), <1>1, <2>7, <2>8
  <2>. QED BY <2>10, <2>11, Zenon
<1>. QED BY <1>1, <1>2, <1>3, Zenon DEF Ledger

\* Giving nothing changes no count.
LEMMA GivenNothing ==
    ASSUME client \in ClientStates
    PROVE  Given(<<>>) = client.got
<1>1. client.got \in [Readers -> Nat]
    BY DEF ClientStates
<1>2. \A r \in Readers : client.got[r] + Len(Of(r, <<>>)) = client.got[r]
    BY <1>1, OfEmpty
<1>. QED BY <1>1, <1>2 DEF Given

\* A step of the client that gives nothing out.
LEMMA ClientKeeps ==
    ASSUME ExpectTyped, InHand, Ledger, UNCHANGED <<opts, session, rdr>>, out' \in Seq(Tokens), client'.tbuf \in Seq(Tokens),
           client'.tbuf \o out' = client.tbuf \o out, client'.got = client.got
    PROVE  Ledger'
<1>1. client.tbuf \o out \in Seq(Tokens) /\ <<>> \in Seq(Tokens)
    BY DEF ExpectTyped, ClientStates
<1>2. client.tbuf \o out = <<>> \o (client.tbuf \o out)
    BY <1>1, ConcatEmptySeq
<1>3. client'.got = Given(<<>>)
    BY GivenNothing, Zenon DEF ExpectTyped
<1>. QED BY <1>1, <1>2, <1>3, ClientLedger, Zenon

\* Once a session is seen to have ended, it stays so.
LEMMA CheckFades ==
    ASSUME ExpectTyped, [Next]_vars
    PROVE  kind' = kind /\ Readers' = Readers /\ (Check' => Check)
<1>1. kind' = kind
    BY Zenon DEF Next, vars, opts, ReaderStep, SessionStep, ClientStep, Output, ReadChunk, ReadEnds, Store, Ping, Exit,
           SenderWrites, SenderDone, WaitReturns, CloseDone, Result, Expect, Send, Close, Match, NoMatch, CheckAlive,
           TimerFires, Ticker, SendChecks, SendTaken, SendTimesOut
<1>2. child' = child \/ (child = "running" /\ child' = "exited") \/ child' = "reaped"
    BY Zenon DEF Next, vars, session, ReaderStep, SessionStep, ClientStep, Output, ReadChunk, ReadEnds, Store, Ping, Exit,
           SenderWrites, SenderDone, WaitReturns, CloseDone, Result, Expect, Send, Close, Match, NoMatch, CheckAlive,
           TimerFires, Ticker, SendChecks, SendTaken, SendTimesOut
<1>3. Check' => Check
    BY <1>1, <1>2, Zenon DEF Check, ExpectTyped
<1>. QED BY SMTT(20), <1>1, <1>3 DEF Readers

-----------------------------------------------------------------------------
(* The steps of the client.                                                *)

\* What a step of the client has to show.
LEMMA ClientStepIs ==
    ASSUME XInv, UNCHANGED <<opts, session, rdr>>, out' \in Seq(Tokens), client' \in ClientStates,
           ClientRests', Unmatched', Ledger'
    PROVE  XInv'
<1>1. kind' = kind /\ Readers' = Readers /\ written' = written /\ pipe' = pipe /\ child' = child /\ rdr' = rdr
    BY DEF opts, session, Readers
<1>2. ClientStates' = ClientStates
    BY <1>1 DEF ClientStates
<1>3. \A r : Str(r)' = Str(r)
    BY <1>1 DEF Str
<1>4. ExpectTyped'
    BY SMTT(20), <1>1, <1>2, <1>3 DEF ExpectTyped, XInv
<1>5. InHand'
    BY <1>1, <1>3 DEF InHand, XInv
<1>. QED BY <1>4, <1>5 DEF XInv

\* A match that is answered keeps the invariant.
LEMMA MatchKeeps ==
    ASSUME XInv, Match
    PROVE  XInv'
<1>. DEFINE e == MatchEnd
            pre == SubSeq(client.tbuf, 1, e)
            suf == SubSeq(client.tbuf, e + 1, Len(client.tbuf))
            c == [pc |-> "match", tbuf |-> <<>>, cs |-> Looked(Case), hit |-> Case, got |-> Given(pre)]
<1>1. client \in ClientStates /\ client.tbuf \in Seq(Tokens) /\ out \in Seq(Tokens) /\ Taken # {}
      /\ UNCHANGED <<opts, session, rdr>>
    BY Zenon DEF XInv, ExpectTyped, ClientStates, Match
<1>2. e \in 0..Len(client.tbuf) /\ Len(client.tbuf) \in Nat
    BY <1>1, MatchEndIn
<1>3. pre \in Seq(Tokens) /\ suf \in Seq(Tokens) /\ client.tbuf = pre \o suf
  <2>. DEFINE s == client.tbuf
  <2>1. s \in Seq(Tokens) /\ e \in 0..Len(s)
      BY <1>1, <1>2
  <2>. HIDE DEF s, e
  <2>2. SubSeq(s, 1, e) \in Seq(Tokens) /\ SubSeq(s, e + 1, Len(s)) \in Seq(Tokens)
        /\ s = SubSeq(s, 1, e) \o SubSeq(s, e + 1, Len(s))
      BY <2>1, CutIn, Zenon
  <2>. QED BY <2>2, Zenon DEF s
<1>4. suf \o out \in Seq(Tokens)
  <2>. HIDE DEF suf
  <2>. QED BY <1>1, <1>3, Joined, Zenon
<1>5. client.tbuf \o out = pre \o (suf \o out)
  <2>. HIDE DEF pre, suf
  <2>1. (pre \o suf) \o out = pre \o (suf \o out)
      BY SMTT(20), <1>1, <1>3
  <2>. QED BY <1>3, <2>1, Zenon
<1>6. Given(pre) \in [Readers -> Nat]
  <2>. HIDE DEF pre
  <2>. QED BY <1>1, <1>3, GivenTyped, Zenon
<1>7. c \in ClientStates /\ c.tbuf = <<>> /\ c.hit <= Len(c.cs) /\ c.got = Given(pre)
  <2>1. Case \in 1..Len(client.cs) /\ Case \in Nat
      BY SMTT(20), <1>1, CaseIn
  <2>2. Looked(Case) \in Seq(Cases) /\ Len(Looked(Case)) = Len(client.cs)
      BY SMTT(20), <1>1, LookedIs
  <2>. HIDE DEF pre
  <2>. QED BY SMTT(20), <1>6, <2>1, <2>2, EmptySeq DEF ClientStates, ClientLabels
<1>8. out' = suf \o out /\ (client' = [c EXCEPT !.pc = "send"] \/ client' = Tagged(c))
    BY Zenon DEF Match, ReturnUnmatchedSuffix
<1>. HIDE DEF c, pre, suf, e
<1>9. /\ client' \in ClientStates /\ client'.tbuf = <<>> /\ client'.got = Given(pre)
      /\ client'.hit <= Len(client'.cs) /\ (client'.pc = "idle" => client'.hit = 0)
  <2>1. CASE client' = [c EXCEPT !.pc = "send"]
      BY SMTT(20), <1>7, <2>1 DEF ClientStates, ClientLabels
  <2>2. CASE client' = Tagged(c)
      BY SMTT(20), <1>7, <2>2, TaggedIs
  <2>. QED BY SMTT(20), <1>8, <2>1, <2>2
<1>10. ClientRests'
    BY <1>9 DEF ClientRests
<1>11. Unmatched'
  <2>1. Range(<<>>) = {}
      BY DEF Range
  <2>. QED BY <1>9, <2>1 DEF Unmatched, Hits
<1>12. client'.tbuf \o out' = suf \o out
    BY <1>4, <1>8, <1>9, Joined, Zenon
<1>13. Ledger'
    BY <1>1, <1>3, <1>4, <1>5, <1>9, <1>12, ClientLedger, Zenon DEF XInv
<1>. QED BY SMTT(20), <1>1, <1>4, <1>8, <1>9, <1>10, <1>11, <1>13, ClientStepIs

\* A round of Expect without a match keeps the invariant.
LEMMA NoMatchKeeps ==
    ASSUME XInv, NoMatch
    PROVE  XInv'
<1>. DEFINE n == Len(client.cs)
<1>1. /\ client \in ClientStates /\ client.tbuf \in Seq(Tokens) /\ out \in Seq(Tokens) /\ Taken = {}
      /\ client' = [client EXCEPT !.pc = "check", !.cs = Looked(n)]
      /\ out' = out /\ UNCHANGED <<opts, session, rdr>>
    BY DEF XInv, ExpectTyped, ClientStates, NoMatch
<1>2. Looked(n) \in Seq(Cases) /\ Len(Looked(n)) = n
      /\ \A i \in 1..n : Looked(n)[i].re = client.cs[i].re /\ Looked(n)[i].tag = client.cs[i].tag
    BY <1>1, LookedIs
<1>3. /\ client' \in ClientStates /\ client'.pc = "check" /\ client'.tbuf = client.tbuf /\ client'.got = client.got
      /\ client'.hit = client.hit /\ client'.cs = Looked(n)
    BY <1>1, <1>2, Zenon DEF ClientStates, ClientLabels
<1>4. ClientRests'
    BY <1>2, <1>3 DEF ClientRests, XInv
<1>5. \A i \in 1..n : Range(client.tbuf) \cap client.cs[i].re # {} => client.cs[i].tag = "next"
    BY <1>1 DEF Taken, Hits
<1>6. Unmatched'
    BY <1>2, <1>3, <1>5, Zenon DEF Unmatched, Hits
<1>7. Ledger'
    BY <1>1, <1>3, ClientKeeps, Zenon DEF XInv
<1>. QED BY <1>1, <1>3, <1>4, <1>6, <1>7, ClientStepIs

\* A return without a match, which hands out what is in tbuf, keeps the invariant.
LEMMA GiveUpKeeps ==
    ASSUME XInv, out = <<>>, GiveUp, UNCHANGED <<opts, session, rdr, out>>
    PROVE  XInv'
<1>. DEFINE c == [client EXCEPT !.got = Given(client.tbuf)]
<1>1. client \in ClientStates /\ client.tbuf \in Seq(Tokens) /\ <<>> \in Seq(Tokens)
    BY DEF XInv, ExpectTyped, ClientStates
<1>2. Given(client.tbuf) \in [Readers -> Nat]
    BY <1>1, GivenTyped
<1>3. c \in ClientStates /\ c.got = Given(client.tbuf) /\ client' = Idle(c)
    BY <1>1, <1>2, Zenon DEF GiveUp, ClientStates
<1>. HIDE DEF c
<1>4. /\ client' \in ClientStates /\ client'.tbuf = <<>> /\ client'.got = Given(client.tbuf)
      /\ client'.hit = 0 /\ client'.cs = <<>>
    BY <1>3, IdleIs
<1>5. ClientRests'
    BY <1>4 DEF ClientRests
<1>6. Unmatched'
  <2>1. Range(<<>>) = {}
      BY DEF Range
  <2>. QED BY <1>4, <2>1 DEF Unmatched, Hits
<1>7. client'.tbuf \o out' = <<>>
    BY SMTT(20), <1>1, <1>4, ConcatEmptySeq
<1>8. Ledger'
    BY <1>1, <1>4, <1>7, ClientLedger, Zenon DEF XInv
<1>. QED BY SMTT(20), <1>1, <1>4, <1>5, <1>6, <1>8, ClientStepIs

\* Taking what is in the buffer keeps the invariant.
LEMMA CopyKeeps ==
    ASSUME XInv, NEW label \in {"match", "select"}, Copy(label), label = "select" => ~Check,
           UNCHANGED <<opts, session, rdr>>
    PROVE  XInv'
<1>1. client \in ClientStates /\ client.tbuf \in Seq(Tokens) /\ out \in Seq(Tokens) /\ client.tbuf \o out \in Seq(Tokens)
    BY DEF XInv, ExpectTyped, ClientStates
<1>2. out' = <<>> /\ client' = [client EXCEPT !.pc = label, !.tbuf = client.tbuf \o out]
    BY <1>1 DEF Copy, ClientStates
<1>3. /\ client' \in ClientStates /\ client'.pc = label /\ client'.tbuf = client.tbuf \o out
      /\ client'.got = client.got /\ client'.hit = client.hit /\ client'.cs = client.cs
    BY <1>1, <1>2, Zenon DEF ClientStates, ClientLabels
<1>4. ClientRests'
    BY <1>3 DEF ClientRests, XInv
<1>5. Unmatched'
  <2>1. Check' = Check
      BY DEF Check, opts, session
  <2>. QED BY <1>3, <2>1 DEF Unmatched
<1>6. client'.tbuf \o out' = client.tbuf \o out
    BY <1>1, <1>2, <1>3, ConcatEmptySeq, Zenon
<1>7. Ledger'
    BY <1>1, <1>2, <1>3, <1>6, ClientKeeps, EmptySeq, Zenon DEF XInv
<1>. QED BY <1>2, <1>3, <1>4, <1>5, <1>7, ClientStepIs, EmptySeq

\* Steps that leave the buffers alone.
LEMMA LabelKeeps ==
    ASSUME XInv, UNCHANGED <<opts, session, rdr, out>>, client' \in ClientStates,
           client'.tbuf = client.tbuf, client'.got = client.got, ClientRests', Unmatched'
    PROVE  XInv'
<1>1. out \in Seq(Tokens) /\ client.tbuf \in Seq(Tokens)
    BY DEF XInv, ExpectTyped, ClientStates
<1>2. Ledger'
    BY <1>1, ClientKeeps DEF XInv
<1>. QED BY <1>1, <1>2, ClientStepIs

\* Looking whether the process is alive keeps the invariant.
LEMMA CheckAliveKeeps ==
    ASSUME XInv, CheckAlive
    PROVE  XInv'
<1>1. client \in ClientStates /\ client.pc = "check" /\ UNCHANGED <<opts, session, rdr>>
    BY DEF XInv, ExpectTyped, CheckAlive
<1>2. CASE Check
  <2>1. client' = [client EXCEPT !.pc = "select"] /\ out' = out
      BY <1>2 DEF CheckAlive
  <2>2. /\ client' \in ClientStates /\ client'.pc = "select" /\ client'.tbuf = client.tbuf /\ client'.got = client.got
        /\ client'.hit = client.hit /\ client'.cs = client.cs
      BY <1>1, <2>1 DEF ClientStates, ClientLabels
  <2>3. ClientRests'
      BY <2>2 DEF ClientRests, XInv
  <2>4. Unmatched'
      BY <1>1, <2>2 DEF Unmatched, Hits, XInv
  <2>. QED BY SMTT(20), <1>1, <2>1, <2>2, <2>3, <2>4, LabelKeeps
<1>3. CASE ~Check /\ out = <<>>
    BY <1>1, <1>3, GiveUpKeeps DEF CheckAlive
<1>4. CASE ~Check /\ out # <<>>
    BY <1>1, <1>4, CopyKeeps DEF CheckAlive
<1>. QED BY SMTT(20), <1>2, <1>3, <1>4

\* The timer keeps the invariant.
LEMMA TimerFiresKeeps ==
    ASSUME XInv, TimerFires
    PROVE  XInv'
<1>1. CASE out = <<>>
    BY <1>1, GiveUpKeeps DEF TimerFires
<1>2. CASE out # <<>>
    BY <1>2, CopyKeeps DEF TimerFires
<1>. QED BY <1>1, <1>2

\* The ticker keeps the invariant.
LEMMA TickerKeeps ==
    ASSUME XInv, Ticker
    PROVE  XInv'
    BY CopyKeeps DEF Ticker

\* The end of a call keeps the invariant.
LEMMA EndKeeps ==
    ASSUME XInv, client.pc \in {"send", "snd"}, client' = Idle(client), UNCHANGED <<opts, session, rdr, out>>
    PROVE  XInv'
<1>1. client \in ClientStates /\ client.tbuf = <<>>
    BY DEF XInv, ExpectTyped, ClientRests
<1>2. /\ client' \in ClientStates /\ client'.pc = "idle" /\ client'.tbuf = <<>> /\ client'.got = client.got
      /\ client'.hit = 0 /\ client'.cs = <<>>
    BY <1>1, IdleIs
<1>3. ClientRests' /\ Unmatched'
    BY <1>2 DEF ClientRests, Unmatched
<1>. QED BY SMTT(20), <1>1, <1>2, <1>3, LabelKeeps

\* Send keeps the invariant.
LEMMA SendKeeps ==
    ASSUME XInv, Send \/ SendChecks \/ SendTimesOut
    PROVE  XInv'
<1>1. client \in ClientStates
    BY DEF XInv, ExpectTyped
<1>2. CASE Send
  <2>1. client.pc = "idle" /\ client' = [client EXCEPT !.pc = "send", !.hit = 0] /\ UNCHANGED <<opts, session, rdr, out>>
      BY <1>2 DEF Send
  <2>2. /\ client' \in ClientStates /\ client'.pc = "send" /\ client'.tbuf = client.tbuf /\ client'.got = client.got
        /\ client'.hit = 0 /\ client'.cs = client.cs
      BY <1>1, <2>1, Zenon DEF ClientStates, ClientLabels
  <2>3. Len(client.cs) \in Nat
      BY <1>1 DEF ClientStates
  <2>4. ClientRests' /\ Unmatched'
      BY <2>1, <2>2, <2>3 DEF ClientRests, Unmatched, XInv
  <2>. QED BY SMTT(20), <2>1, <2>2, <2>4, LabelKeeps
<1>3. CASE SendChecks
  <2>1. client.pc = "send" /\ UNCHANGED <<opts, session, rdr, out>>
      BY <1>3 DEF SendChecks
  <2>2. CASE Check
    <3>1. client' = [client EXCEPT !.pc = "snd"]
        BY <1>3, <2>2 DEF SendChecks
    <3>2. /\ client' \in ClientStates /\ client'.pc = "snd" /\ client'.tbuf = client.tbuf /\ client'.got = client.got
          /\ client'.hit = client.hit /\ client'.cs = client.cs
        BY <1>1, <3>1, Zenon DEF ClientStates, ClientLabels
    <3>3. ClientRests' /\ Unmatched'
        BY <2>1, <3>2 DEF ClientRests, Unmatched, XInv
    <3>. QED BY SMTT(20), <2>1, <3>2, <3>3, LabelKeeps
  <2>3. CASE ~Check
      BY <1>3, <2>1, <2>3, EndKeeps DEF SendChecks
  <2>. QED BY <2>2, <2>3
<1>4. CASE SendTimesOut
    BY SMTT(20), <1>4, EndKeeps DEF SendTimesOut
<1>. QED BY <1>2, <1>3, <1>4

\* The sender taking what is sent keeps the invariant.
LEMMA SendTakenKeeps ==
    ASSUME XInv, SendTaken
    PROVE  XInv'
<1>1. /\ client \in ClientStates /\ client.tbuf = <<>> /\ client.hit <= Len(client.cs)
      /\ client' = Tagged(client) /\ UNCHANGED <<opts, session, rdr, out>>
    BY DEF XInv, ExpectTyped, ClientRests, SendTaken
<1>2. /\ client' \in ClientStates /\ client'.pc \in {"idle", "check"} /\ client'.tbuf = <<>> /\ client'.got = client.got
      /\ client'.hit <= Len(client'.cs) /\ (client'.pc = "idle" => client'.hit = 0)
    BY <1>1, TaggedIs
<1>3. ClientRests'
    BY <1>2 DEF ClientRests
<1>4. Unmatched'
  <2>1. Range(<<>>) = {}
      BY DEF Range
  <2>. QED BY <1>2, <2>1 DEF Unmatched, Hits
<1>. QED BY SMTT(20), <1>1, <1>2, <1>3, <1>4, LabelKeeps

\* A new call of Expect keeps the invariant.
LEMMA ExpectKeeps ==
    ASSUME XInv, NEW cs \in Calls, Expect(cs)
    PROVE  XInv'
<1>1. /\ client \in ClientStates /\ client.pc = "idle" /\ client.tbuf = <<>> /\ client.hit = 0 /\ out \in Seq(Tokens)
      /\ client' = [client EXCEPT !.pc = "match", !.tbuf = out, !.cs = cs] /\ out' = <<>>
      /\ UNCHANGED <<opts, session, rdr>>
    BY DEF XInv, ExpectTyped, ClientRests, Expect
<1>2. cs \in Seq(Cases) /\ Len(cs) \in Nat
    BY ExpectAssumption
<1>3. /\ client' \in ClientStates /\ client'.pc = "match" /\ client'.tbuf = out /\ client'.got = client.got
      /\ client'.hit = 0 /\ client'.cs = cs
    BY <1>1, <1>2, Zenon DEF ClientStates, ClientLabels
<1>4. ClientRests' /\ Unmatched'
    BY <1>2, <1>3 DEF ClientRests, Unmatched
<1>5. client'.tbuf \o out' = client.tbuf \o out
    BY <1>1, <1>3, ConcatEmptySeq
<1>6. Ledger'
    BY <1>1, <1>3, <1>5, ClientKeeps, EmptySeq DEF XInv
<1>. QED BY SMTT(20), <1>1, <1>3, <1>4, <1>6, ClientStepIs, EmptySeq

-----------------------------------------------------------------------------
(* The steps of the session and of its goroutines.                         *)

\* What a step that leaves the client alone has to show.
LEMMA OthersStepIs ==
    ASSUME XInv, kind' = kind, Check' => Check, client' = client, ExpectTyped', InHand', Ledger'
    PROVE  XInv'
<1>1. ClientRests'
    BY DEF XInv, ClientRests
<1>2. Unmatched'
    BY Zenon DEF XInv, Unmatched, Hits
<1>. QED BY <1>1, <1>2 DEF XInv

\* A step of the process, of the sender or of the end of the session keeps the invariant.
LEMMA ControlKeeps ==
    ASSUME XInv, kind' = kind, Check' => Check, child' \in {"running", "exited", "reaped"},
           UNCHANGED <<written, pipe, rdr, out, client>>
    PROVE  XInv'
<1>1. Readers' = Readers /\ (\A r : Str(r)' = Str(r)) /\ ClientStates' = ClientStates
    BY DEF Readers, Str, ClientStates
<1>2. ExpectTyped' /\ InHand'
    BY <1>1, Zenon DEF XInv, ExpectTyped, InHand
<1>3. \A r, w : Accounted(r, w)' = Accounted(r, w)
    BY <1>1, Zenon DEF Accounted, Of, Str
<1>4. Ledger'
    BY SMTT(20), <1>1, <1>3 DEF XInv, Ledger
<1>. QED BY SMTT(20), <1>2, <1>4, OthersStepIs

\* The process writing one more token keeps the invariant.
LEMMA OutputKeeps ==
    ASSUME XInv, NEW r \in Readers, Output(r)
    PROVE  XInv'
<1>. DEFINE tok == Str(r)[written[r] + 1]
            S == Str(r)
            n == written[r]
<1>1. /\ kind' = kind /\ child' = child /\ rdr' = rdr /\ out' = out /\ client' = client
      /\ n < Len(S)
      /\ written' = [written EXCEPT ![r] = n + 1]
      /\ pipe' = [pipe EXCEPT ![r] = Append(pipe[r], tok)]
    BY Zenon DEF Output, opts, XInv, ExpectTyped, Str
<1>2. /\ S \in Seq(Tokens) /\ Range(S) \subseteq Tokens /\ S \in Seq(Range(S)) /\ n \in Nat /\ Len(S) \in Nat
    BY StreamsTyped DEF XInv, ExpectTyped
<1>3. tok \in Range(S) /\ tok \in Tokens /\ n + 1 \in 1..Len(S)
    BY SMTT(20), <1>1, <1>2, ElementOfSeq
<1>4. Readers' = Readers /\ (\A q : Str(q)' = Str(q)) /\ ClientStates' = ClientStates
    BY <1>1 DEF Readers, Str, ClientStates
<1>. HIDE DEF tok
<1>5. Append(pipe[r], tok) \in Seq(Tokens) /\ Append(pipe[r], tok) \in Seq(Range(S))
  <2>1. pipe[r] \in Seq(Tokens) /\ pipe[r] \in Seq(Range(S))
      BY DEF XInv, ExpectTyped, InHand
  <2>. QED BY SMTT(20), <1>3, <2>1, AppendProperties
<1>6. ExpectTyped'
  <2>1. written' \in [Readers -> Nat] /\ \A q \in Readers : written'[q] <= Len(Str(q))
      BY SMTT(20), <1>1, <1>2, <1>3 DEF XInv, ExpectTyped
  <2>2. pipe' \in [Readers -> Seq(Tokens)]
      BY SMTT(20), <1>1, <1>5 DEF XInv, ExpectTyped
  <2>. QED BY <1>1, <1>4, <2>1, <2>2, Zenon DEF XInv, ExpectTyped
<1>7. InHand'
  <2>1. \A q \in Readers : pipe'[q] \in Seq(Range(Str(q)))
      BY <1>1, <1>5 DEF XInv, ExpectTyped, InHand
  <2>. QED BY <1>1, <1>4, <2>1, Zenon DEF XInv, InHand
<1>8. \A q : Of(q, client.tbuf \o out)' = Of(q, client.tbuf \o out)
    BY <1>1 DEF Of
<1>9. ASSUME NEW q \in Readers, q # r
      PROVE  client'.got[q] <= written'[q] /\ \E w \in Seq(Tokens) : Accounted(q, w)'
  <2>1. PICK w \in Seq(Tokens) : Accounted(q, w)
      BY DEF XInv, Ledger
  <2>2. written'[q] = written[q] /\ pipe'[q] = pipe[q]
      BY SMTT(20), <1>1, <1>9 DEF XInv, ExpectTyped
  <2>3. Accounted(q, w)'
      BY <1>1, <1>4, <1>8, <2>1, <2>2, Zenon DEF Accounted
  <2>. QED BY SMTT(20), <1>1, <2>2, <2>3 DEF XInv, Ledger
<1>10. client'.got[r] <= written'[r] /\ \E w \in Seq(Tokens) : Accounted(r, w)'
  <2>1. PICK w \in Seq(Tokens) : Accounted(r, w)
      BY DEF XInv, Ledger
  <2>. DEFINE G == SubSeq(S, 1, client.got[r])
              a == Of(r, client.tbuf \o out)
              b == rdr[r].chunk
  <2>2. written'[r] = n + 1 /\ pipe'[r] = Append(pipe[r], tok)
      BY <1>1 DEF XInv, ExpectTyped
  <2>3. client.got[r] \in Nat /\ client.got[r] <= n
      BY DEF XInv, ExpectTyped, ClientStates, Ledger
  <2>4. /\ G \in Seq(Tokens) /\ a \in Seq(Tokens) /\ b \in Seq(Tokens) /\ <<tok>> \in Seq(Tokens)
        /\ b \o w \in Seq(Tokens) /\ a \o (b \o w) \in Seq(Tokens)
    <3>1. client.tbuf \o out \in Seq(Tokens) /\ b \in Seq(Tokens)
        BY DEF XInv, ExpectTyped, ClientStates
    <3>2. G \in Seq(Tokens)
        BY SMTT(20), <1>1, <1>2, <2>3, SubSeqProperties
    <3>3. a \in Seq(Tokens)
        BY <3>1, OfIn, Zenon
    <3>4. <<tok>> \in Seq(Tokens)
        BY <1>3
    <3>. HIDE DEF a, b, G
    <3>5. b \o w \in Seq(Tokens)
        BY <3>1, Joined, Zenon
    <3>6. a \o (b \o w) \in Seq(Tokens)
        BY <3>3, <3>5, Joined, Zenon
    <3>. QED BY <3>1, <3>2, <3>3, <3>4, <3>5, <3>6, Zenon
  <2>5. SubSeq(S, 1, n) = G \o (a \o (b \o w))
      BY <2>1, Zenon DEF Accounted, Adds
  <2>6. SubSeq(S, 1, n + 1) = SubSeq(S, 1, n) \o <<tok>>
    <3>1. SubSeq(S, 1, n + 1) = SubSeq(S, 1, n) \o <<S[n + 1]>>
      <4>. HIDE DEF S, n
      <4>. QED BY <1>1, <1>2, OneMore, Zenon
    <3>. QED BY <3>1, Zenon DEF tok
  <2>7. (G \o (a \o (b \o w))) \o <<tok>> = G \o (a \o (b \o (w \o <<tok>>)))
    <3>. DEFINE t == <<tok>>
    <3>1. G \in Seq(Tokens) /\ a \in Seq(Tokens) /\ b \in Seq(Tokens) /\ t \in Seq(Tokens)
        BY <2>4
    <3>. HIDE DEF G, a, b, t
    <3>2. Late(G, a, b, w, t)
        BY SMTT(20), <3>1, JoinedLate
    <3>. QED BY <3>2, Zenon DEF Late, t
  <2>8. w \o <<tok>> = Append(w, tok) /\ Append(w, tok) \in Seq(Tokens)
      BY SMTT(20), <1>3, AppendIsConcat, AppendProperties
  <2>9. SubSeq(S, 1, n + 1) = G \o (a \o (b \o Append(w, tok)))
      BY <2>5, <2>6, <2>7, <2>8, Zenon
  <2>10. kind = "pty" \/ rdr[r].pc # "gone" => Append(w, tok) = pipe'[r]
      BY <2>1, <2>2, Zenon DEF Accounted
  <2>11. PICK v \in Seq(Tokens) : v = Append(w, tok)
      BY <2>8, Zenon
  <2>12. Accounted(r, v)'
    <3>1. Adds(S, n + 1, client.got[r], a, b, v)
        BY <2>9, <2>11, Zenon DEF Adds
    <3>2. kind = "pty" \/ rdr[r].pc # "gone" => v = pipe'[r]
        BY <2>10, <2>11, Zenon
    <3>. HIDE DEF a, b, S, n
    <3>3. written'[r] = n + 1 /\ Str(r)' = S /\ Of(r, client.tbuf \o out)' = a /\ rdr'[r].chunk = b
        BY SMTT(20), <1>1, <1>4, <1>8, <2>2 DEF S, n, a, b
    <3>. QED BY <1>1, <3>1, <3>2, <3>3, Zenon DEF Accounted
  <2>13. client'.got[r] <= written'[r]
      BY SMTT(20), <1>1, <1>2, <2>2, <2>3
  <2>. QED BY <2>12, <2>13, Zenon
<1>11. Ledger'
    BY SMTT(20), <1>4, <1>9, <1>10 DEF Ledger
<1>12. Check' => Check
    BY <1>1, Zenon DEF Check
<1>. QED BY SMTT(20), <1>1, <1>6, <1>7, <1>11, <1>12, OthersStepIs

ReaderStates == [pc : {"read", "got", "ping", "gone"}, chunk : Seq(Tokens)]

\* A step of reader r, which goes to x, leaves p in the pipe and adds m to the
\* buffer; and whatever came after what the reader had in hand still comes.
Reads(r, x, p, m) ==
    /\ UNCHANGED <<opts, child, written>>
    /\ rdr' = [rdr EXCEPT ![r] = x] /\ pipe' = [pipe EXCEPT ![r] = p] /\ out' = out \o m

Passes(r, x, p, m) ==
    \A w \in Seq(Tokens) :
       (kind = "pty" \/ rdr[r].pc # "gone" => w = pipe[r])
         => \E v \in Seq(Tokens) : /\ rdr[r].chunk \o w = m \o (x.chunk \o v)
                                   /\ kind = "pty" \/ x.pc # "gone" => v = p

\* A reader that moves its own text, from the pipe to its hand or from there to the buffer, keeps the invariant.
LEMMA ReaderKeeps ==
    ASSUME XInv, NEW r \in Readers, NEW x \in ReaderStates, NEW p, NEW m,
           x.pc # "got" => x.chunk = <<>>,
           x.chunk \in Seq(Range(Str(r))), p \in Seq(Range(Str(r))), m \in Seq(Range(Str(r))),
           Reads(r, x, p, m), Passes(r, x, p, m),
           client' \in ClientStates, client'.tbuf = client.tbuf, client'.got = client.got, ClientRests', Unmatched'
    PROVE  XInv'
<1>1. /\ kind' = kind /\ Readers' = Readers /\ (\A q : Str(q)' = Str(q)) /\ ClientStates' = ClientStates
      /\ child' = child /\ written' = written
      /\ rdr' = [rdr EXCEPT ![r] = x] /\ pipe' = [pipe EXCEPT ![r] = p] /\ out' = out \o m
    BY Zenon DEF Reads, opts, Readers, Str, ClientStates
<1>2. Range(Str(r)) \subseteq Tokens
    BY StreamsTyped DEF XInv
<1>3. p \in Seq(Tokens) /\ m \in Seq(Tokens) /\ x.chunk \in Seq(Tokens)
    BY SMTT(20), <1>2, SeqMonotonic
<1>4. rdr \in [Readers -> ReaderStates] /\ pipe \in [Readers -> Seq(Tokens)] /\ out \in Seq(Tokens)
      /\ client.tbuf \in Seq(Tokens)
    BY Zenon DEF XInv, ExpectTyped, ReaderStates, ClientStates
<1>5. rdr'[r] = x /\ pipe'[r] = p /\ \A q \in Readers : q # r => rdr'[q] = rdr[q] /\ pipe'[q] = pipe[q]
    BY <1>1, <1>4, Zenon
<1>6. ExpectTyped'
  <2>1. rdr' \in [Readers -> ReaderStates] /\ pipe' \in [Readers -> Seq(Tokens)]
      BY <1>1, <1>3, <1>4, Zenon
  <2>2. out' \in Seq(Tokens)
      BY <1>1, <1>3, <1>4, Joined, Zenon
  <2>. QED BY <1>1, <2>1, <2>2, Zenon DEF XInv, ExpectTyped, ReaderStates
<1>7. InHand'
    BY <1>1, <1>5, Zenon DEF XInv, InHand
<1>. DEFINE held == client.tbuf \o out
<1>8. held \in Seq(Tokens) /\ client'.tbuf \o out' = held \o m
  <2>. DEFINE t == client.tbuf
  <2>1. t \in Seq(Tokens) /\ client'.tbuf \o out' = t \o (out \o m)
      BY <1>1, <1>4, Zenon
  <2>. HIDE DEF t
  <2>2. (t \o out) \o m = t \o (out \o m) /\ t \o out \in Seq(Tokens)
      BY SMTT(20), <1>3, <1>4, <2>1
  <2>. QED BY <2>1, <2>2, Zenon DEF t
<1>9. ASSUME NEW q
      PROVE  Of(q, client.tbuf \o out)' = Of(q, held) \o Of(q, m)
  <2>1. Of(q, client.tbuf \o out)' = Of(q, held \o m)
      BY <1>1, <1>8, Zenon DEF Of
  <2>. HIDE DEF held
  <2>2. Of(q, held \o m) = Of(q, held) \o Of(q, m)
      BY <1>3, <1>8, OfConcat, Zenon
  <2>. QED BY <2>1, <2>2, Zenon
<1>10. ASSUME NEW q \in Readers, q # r
       PROVE  client'.got[q] <= written'[q] /\ \E w \in Seq(Tokens) : Accounted(q, w)'
  <2>1. PICK w \in Seq(Tokens) : Accounted(q, w)
      BY Zenon DEF XInv, Ledger
  <2>2. Of(q, m) = <<>>
      BY SMTT(20), <1>10, OfOwn DEF XInv
  <2>3. Of(q, client.tbuf \o out)' = Of(q, held)
    <3>1. Of(q, held) \in Seq(Tokens)
      <4>. HIDE DEF held
      <4>. QED BY <1>8, OfIn, Zenon
    <3>2. Of(q, held) \o <<>> = Of(q, held)
      <4>. HIDE DEF held
      <4>. QED BY <3>1, Joined, Zenon
    <3>. QED BY <1>9, <2>2, <3>2, Zenon
  <2>4. Accounted(q, w)'
      BY <1>1, <1>5, <1>10, <2>1, <2>3, Zenon DEF Accounted
  <2>5. client'.got[q] <= written'[q]
      BY <1>1, Zenon DEF XInv, Ledger
  <2>. QED BY SMTT(20), <2>4, <2>5
<1>11. client'.got[r] <= written'[r] /\ \E w \in Seq(Tokens) : Accounted(r, w)'
  <2>1. PICK w \in Seq(Tokens) : Accounted(r, w)
      BY DEF XInv, Ledger
  <2>2. PICK v \in Seq(Tokens) : /\ rdr[r].chunk \o w = m \o (x.chunk \o v)
                                 /\ kind = "pty" \/ x.pc # "gone" => v = p
    <3>1. kind = "pty" \/ rdr[r].pc # "gone" => w = pipe[r]
        BY <2>1, Zenon DEF Accounted
    <3>. QED BY <3>1, Zenon DEF Passes
  <2>. DEFINE a == Of(r, held)
              b == x.chunk \o v
  <2>3. Of(r, m) = m
      BY OfOwn, Zenon DEF XInv
  <2>4. a \in Seq(Tokens) /\ b \in Seq(Tokens)
    <3>1. b \in Seq(Tokens)
        BY <1>3, Joined, Zenon
    <3>2. a \in Seq(Tokens)
      <4>. HIDE DEF held
      <4>. QED BY <1>8, OfIn, Zenon
    <3>. QED BY <3>1, <3>2
  <2>5. a \o (rdr[r].chunk \o w) = (a \o m) \o b
    <3>1. a \o (m \o b) = (a \o m) \o b
      <4>1. a \in Seq(Tokens) /\ m \in Seq(Tokens) /\ b \in Seq(Tokens)
          BY SMTT(20), <1>3, <2>4
      <4>. HIDE DEF a, b
      <4>2. Regroups(a, m, b)
          BY <4>1, JoinedAnyWay
      <4>. QED BY <4>2, Zenon DEF Regroups
    <3>. QED BY <2>2, <3>1, Zenon
  <2>6. Of(r, client.tbuf \o out)' = a \o m
      BY <1>9, <2>3, Zenon
  <2>7. Adds(Str(r), written[r], client.got[r], a \o m, x.chunk, v)
    <3>1. Adds(Str(r), written[r], client.got[r], a, rdr[r].chunk, w)
        BY <2>1, Zenon DEF Accounted
    <3>. HIDE DEF a
    <3>. QED BY <2>5, <3>1, Zenon DEF Adds
  <2>8. Accounted(r, v)'
    <3>. HIDE DEF a
    <3>. QED BY <1>1, <1>5, <2>2, <2>6, <2>7, Zenon DEF Accounted
  <2>9. client'.got[r] <= written'[r]
      BY <1>1 DEF XInv, Ledger
  <2>. QED BY SMTT(20), <2>8, <2>9
<1>12. Ledger'
    BY <1>1, <1>10, <1>11, Zenon DEF Ledger
<1>. QED BY <1>6, <1>7, <1>12 DEF XInv

\* The facts about a reader that its steps start from.
LEMMA ReaderFacts ==
    ASSUME XInv, NEW r \in Readers
    PROVE  /\ rdr[r] \in ReaderStates
           /\ pipe[r] \in Seq(Range(Str(r))) /\ rdr[r].chunk \in Seq(Range(Str(r)))
           /\ pipe[r] \in Seq(Tokens) /\ rdr[r].chunk \in Seq(Tokens)
           /\ rdr[r].pc # "got" => rdr[r].chunk = <<>>
           /\ pipe = [pipe EXCEPT ![r] = pipe[r]]
           /\ out = out \o <<>> /\ <<>> \in Seq(Range(Str(r))) /\ <<>> \in Seq(Tokens)
           /\ client \in ClientStates
<1>1. rdr[r] \in ReaderStates /\ pipe[r] \in Seq(Tokens) /\ pipe = [pipe EXCEPT ![r] = pipe[r]]
      /\ out \in Seq(Tokens) /\ client \in ClientStates
    BY DEF XInv, ExpectTyped, ReaderStates
<1>2. /\ rdr[r].pc # "got" => rdr[r].chunk = <<>>
      /\ pipe[r] \in Seq(Range(Str(r))) /\ rdr[r].chunk \in Seq(Range(Str(r)))
    BY DEF XInv, InHand
<1>3. rdr[r].chunk \in Seq(Tokens)
    BY <1>1 DEF ReaderStates
<1>4. out = out \o <<>> /\ <<>> \in Seq(Tokens)
    BY <1>1, Joined, Zenon
<1>5. <<>> \in Seq(Range(Str(r)))
    BY EmptySeq, Zenon
<1>. QED BY <1>1, <1>2, <1>3, <1>4, <1>5, Zenon

\* A step that leaves the client alone keeps what is said of it.
LEMMA SameClient ==
    ASSUME XInv, client' = client, kind' = kind, child' = child
    PROVE  /\ ClientRests' /\ Unmatched'
           /\ client' \in ClientStates /\ client'.tbuf = client.tbuf /\ client'.got = client.got
    BY Zenon DEF XInv, ExpectTyped, ClientRests, Unmatched, Hits, Check

\* Reading a chunk keeps the invariant.
LEMMA ReadChunkKeeps ==
    ASSUME XInv, NEW r \in Readers, ReadChunk(r)
    PROVE  XInv'
<1>1. PICK k \in 1..Len(pipe[r]) :
          /\ rdr' = [rdr EXCEPT ![r] = [pc |-> "got", chunk |-> SubSeq(pipe[r], 1, k)]]
          /\ pipe' = [pipe EXCEPT ![r] = SubSeq(pipe[r], k + 1, Len(pipe[r]))]
    BY Zenon DEF ReadChunk
<1>2. rdr[r].pc = "read" /\ out' = out /\ client' = client /\ UNCHANGED <<opts, child, written>>
    BY DEF ReadChunk
<1>. DEFINE c == SubSeq(pipe[r], 1, k)
            p == SubSeq(pipe[r], k + 1, Len(pipe[r]))
            x == [pc |-> "got", chunk |-> c]
            m == <<>>
<1>3. /\ c \in Seq(Range(Str(r))) /\ p \in Seq(Range(Str(r))) /\ c \in Seq(Tokens) /\ p \in Seq(Tokens)
      /\ c \o p = pipe[r]
  <2>1. pipe[r] \in Seq(Range(Str(r))) /\ pipe[r] \in Seq(Tokens) /\ Len(pipe[r]) \in Nat
      BY ReaderFacts
  <2>2. /\ c \in Seq(Range(Str(r))) /\ p \in Seq(Range(Str(r)))
        /\ c \in Seq(Tokens) /\ p \in Seq(Tokens)
      BY SMTT(20), <2>1, SubSeqProperties
  <2>3. c \o p = pipe[r]
      BY SMTT(20), <2>1, ConcatAdjacentSubSeq, SubSeqFull
  <2>. QED BY <2>2, <2>3, Zenon
<1>4. Reads(r, x, p, m)
  <2>1. out' = out \o m
      BY <1>2, ReaderFacts, Zenon
  <2>. QED BY <1>1, <1>2, <2>1, Zenon DEF Reads
<1>. HIDE DEF c, p
<1>5. x \in ReaderStates /\ x.pc = "got" /\ x.chunk = c
    BY <1>3 DEF ReaderStates
<1>. HIDE DEF x
<1>6. Passes(r, x, p, m)
  <2>1. rdr[r].chunk = <<>> /\ pipe[r] \in Seq(Tokens)
      BY SMTT(20), <1>2, ReaderFacts
  <2>2. rdr[r].chunk \o pipe[r] = m \o (x.chunk \o p)
      BY <1>3, <1>5, <2>1, Zenon
  <2>. QED BY <1>2, <1>3, <2>2, Zenon DEF Passes
<1>7. m \in Seq(Range(Str(r)))
    BY EmptySeq, Zenon
<1>8. kind' = kind /\ child' = child
    BY SMTT(20), <1>2 DEF opts
<1>. HIDE DEF m
<1>. QED BY <1>2, <1>3, <1>4, <1>5, <1>6, <1>7, <1>8, SameClient, ReaderKeeps

\* Steps of a reader that leave the pipe alone: the chunk in hand is stored
\* whole, or dropped by a reader that ends.
LEMMA HandKeeps ==
    ASSUME XInv, NEW r \in Readers, NEW x \in ReaderStates, NEW m,
           x.pc # "got", x.chunk = <<>>,
           m = rdr[r].chunk \/ (m = <<>> /\ kind # "pty" /\ x.pc = "gone"),
           rdr[r].pc # "gone", kind = "pty" \/ x.pc = "gone" \/ m = rdr[r].chunk,
           UNCHANGED <<opts, child, written, pipe>>, rdr' = [rdr EXCEPT ![r] = x], out' = out \o m,
           client' \in ClientStates, client'.tbuf = client.tbuf, client'.got = client.got, ClientRests', Unmatched'
    PROVE  XInv'
<1>. DEFINE p == pipe[r]
            b == rdr[r].chunk
<1>1. /\ p \in Seq(Range(Str(r))) /\ b \in Seq(Range(Str(r))) /\ p \in Seq(Tokens) /\ b \in Seq(Tokens)
      /\ pipe = [pipe EXCEPT ![r] = p] /\ <<>> \in Seq(Range(Str(r)))
    BY ReaderFacts, Zenon
<1>2. Reads(r, x, p, m)
    BY <1>1, Zenon DEF Reads
<1>3. m \in Seq(Range(Str(r))) /\ x.chunk \in Seq(Range(Str(r)))
    BY <1>1, Zenon
<1>4. Passes(r, x, p, m)
  <2>1. ASSUME NEW w \in Seq(Tokens), w = p
        PROVE  \E v \in Seq(Tokens) : /\ b \o w = m \o (x.chunk \o v)
                                      /\ kind = "pty" \/ x.pc # "gone" => v = p
    <3>1. CASE m = b
      <4>1. x.chunk \o w = w
          BY Joined, Zenon
      <4>. QED BY <2>1, <3>1, <4>1, Zenon
    <3>2. CASE m = <<>> /\ kind # "pty" /\ x.pc = "gone"
      <4>1. b \o w \in Seq(Tokens)
          BY <1>1, Joined, Zenon
      <4>2. <<>> \o (b \o w) = b \o w
          BY <4>1, Joined, Zenon
      <4>3. m \o (x.chunk \o (b \o w)) = b \o w
          BY <3>2, <4>2, Zenon
      <4>. QED BY <3>2, <4>1, <4>3, Zenon
    <3>. QED BY <3>1, <3>2, Zenon
  <2>. QED BY <2>1, Zenon DEF Passes
<1>. HIDE DEF p
<1>. QED BY <1>1, <1>2, <1>3, <1>4, ReaderKeeps, Zenon

\* The end of a stream keeps the invariant.
LEMMA ReadEndsKeeps ==
    ASSUME XInv, NEW r \in Readers, ReadEnds(r)
    PROVE  XInv'
<1>. DEFINE x == [pc |-> "gone", chunk |-> <<>>]
            m == <<>>
<1>1. rdr[r] \in ReaderStates /\ rdr[r].pc = "read" /\ rdr[r].chunk = <<>>
    BY ReaderFacts DEF ReadEnds
<1>2. out' = out /\ client' = client /\ UNCHANGED <<opts, child, written, pipe>>
    BY DEF ReadEnds, session
<1>3. rdr' = [rdr EXCEPT ![r] = x]
  <2>1. [rdr[r] EXCEPT !.pc = "gone"] = x
      BY <1>1 DEF ReaderStates
  <2>2. rdr' = [rdr EXCEPT ![r] = [rdr[r] EXCEPT !.pc = "gone"]]
      BY DEF ReadEnds
  <2>. QED BY <2>1, <2>2, Zenon
<1>4. x \in ReaderStates /\ x.pc = "gone" /\ x.chunk = <<>>
    BY EmptySeq DEF ReaderStates
<1>5. out' = out \o m /\ m = rdr[r].chunk
    BY <1>1, <1>2, ReaderFacts, Zenon
<1>6. kind' = kind /\ child' = child
    BY <1>2 DEF opts
<1>. HIDE DEF x, m
<1>. QED BY <1>1, <1>2, <1>3, <1>4, <1>5, <1>6, SameClient, HandKeeps, Zenon

\* Appending a chunk to the buffer keeps the invariant.
LEMMA StoreKeeps ==
    ASSUME XInv, NEW r \in Readers, Store(r)
    PROVE  XInv'
<1>1. rdr[r].pc = "got" /\ client' = client /\ UNCHANGED <<opts, child, written, pipe>>
    BY Zenon DEF Store, session
<1>2. kind' = kind /\ child' = child
    BY <1>1 DEF opts
<1>3. CASE kind # "pty" /\ ~Check
  <2>. DEFINE x == [pc |-> "gone", chunk |-> <<>>]
              m == <<>>
  <2>1. rdr' = [rdr EXCEPT ![r] = x] /\ out' = out
      BY <1>3, Zenon DEF Store
  <2>2. x \in ReaderStates /\ x.pc = "gone" /\ x.chunk = <<>>
      BY EmptySeq DEF ReaderStates
  <2>3. out' = out \o m
      BY <2>1, ReaderFacts, Zenon
  <2>4. m = <<>>
      BY SMTT(20)
  <2>. HIDE DEF x, m
  <2>. QED BY <1>1, <1>2, <1>3, <2>1, <2>2, <2>3, <2>4, SameClient, HandKeeps, Zenon
<1>4. CASE ~(kind # "pty" /\ ~Check)
  <2>. DEFINE x == [pc |-> "ping", chunk |-> <<>>]
              m == rdr[r].chunk
  <2>1. rdr' = [rdr EXCEPT ![r] = x] /\ out' = out \o m
      BY <1>4, Zenon DEF Store
  <2>2. x \in ReaderStates /\ x.pc = "ping" /\ x.chunk = <<>>
      BY EmptySeq DEF ReaderStates
  <2>3. m = rdr[r].chunk
      OBVIOUS
  <2>. HIDE DEF x, m
  <2>. QED BY <1>1, <1>2, <1>4, <2>1, <2>2, <2>3, SameClient, HandKeeps, Zenon
<1>. QED BY <1>3, <1>4

\* Telling the client that there is something to read keeps the invariant.
LEMMA PingKeeps ==
    ASSUME XInv, NEW r \in Readers, Ping(r)
    PROVE  XInv'
<1>. DEFINE x == [pc |-> "read", chunk |-> <<>>]
            m == <<>>
<1>1. rdr[r] \in ReaderStates /\ rdr[r].pc = "ping" /\ rdr[r].chunk = <<>> /\ client \in ClientStates
    BY ReaderFacts DEF Ping
<1>2. /\ out' = out /\ UNCHANGED <<opts, child, written, pipe>>
      /\ client' = IF client.pc = "select" THEN [client EXCEPT !.pc = "rcv"] ELSE client
    BY DEF Ping, session
<1>3. rdr' = [rdr EXCEPT ![r] = x]
  <2>1. [rdr[r] EXCEPT !.pc = "read"] = x
      BY <1>1 DEF ReaderStates
  <2>2. rdr' = [rdr EXCEPT ![r] = [rdr[r] EXCEPT !.pc = "read"]]
      BY DEF Ping
  <2>. QED BY <2>1, <2>2, Zenon
<1>4. x \in ReaderStates /\ x.pc = "read" /\ x.chunk = <<>>
    BY EmptySeq DEF ReaderStates
<1>5. out' = out \o m /\ m = rdr[r].chunk
    BY <1>1, <1>2, ReaderFacts, Zenon
<1>. HIDE DEF x, m
<1>6. /\ client' \in ClientStates /\ client'.tbuf = client.tbuf /\ client'.got = client.got
      /\ client'.cs = client.cs /\ client'.hit = client.hit
      /\ client'.pc = client.pc \/ (client.pc = "select" /\ client'.pc = "rcv")
    BY <1>1, <1>2, Zenon DEF ClientStates, ClientLabels
<1>7. ClientRests'
    BY <1>6 DEF ClientRests, XInv
<1>8. Unmatched'
    BY <1>2, <1>6, Zenon DEF Unmatched, Hits, Check, opts, XInv
<1>. QED BY <1>1, <1>2, <1>3, <1>4, <1>5, <1>6, <1>7, <1>8, HandKeeps, Zenon

-----------------------------------------------------------------------------
(* The theorems.                                                           *)

\* The invariant holds at the start.
LEMMA InitHolds == Init => XInv
<1>. SUFFICES ASSUME Init
              PROVE  XInv
    OBVIOUS
<1>1. kind \in {"pty", "session", "fake"} \cap DOMAIN Streams
    BY ExpectAssumption DEF Init
<1>2. /\ child = "running" /\ written = [r \in Readers |-> 0] /\ pipe = [r \in Readers |-> <<>>]
      /\ rdr = [r \in Readers |-> [pc |-> "read", chunk |-> <<>>]] /\ out = <<>>
      /\ client = [pc |-> "idle", tbuf |-> <<>>, cs |-> <<>>, hit |-> 0, got |-> [r \in Readers |-> 0]]
    BY DEF Init
<1>3. \A r \in Readers : Str(r) \in Seq(Tokens)
    BY <1>1, ExpectAssumption DEF Readers, Str
<1>4. <<>> \in Seq(Tokens) /\ <<>> \in Seq(Cases) /\ \A r \in Readers : <<>> \in Seq(Range(Str(r)))
    BY EmptySeq, Zenon
<1>5. client \in ClientStates /\ client.pc = "idle" /\ client.tbuf = <<>> /\ client.hit = 0 /\ client.cs = <<>>
      /\ \A r \in Readers : client.got[r] = 0
    BY SMTT(20), <1>2, <1>4 DEF ClientStates, ClientLabels
<1>6. ExpectTyped
  <2>1. \A r \in Readers : written[r] <= Len(Str(r))
      BY SMTT(20), <1>2, <1>3
  <2>2. rdr \in [Readers -> [pc : {"read", "got", "ping", "gone"}, chunk : Seq(Tokens)]]
      BY SMTT(20), <1>2, <1>4
  <2>. QED BY SMTT(20), <1>1, <1>2, <1>4, <1>5, <2>1, <2>2 DEF ExpectTyped
<1>7. InHand
    BY <1>2, <1>4, Zenon DEF InHand
<1>8. ClientRests /\ Unmatched
    BY <1>5 DEF ClientRests, Unmatched
<1>9. ASSUME NEW r \in Readers
      PROVE  client.got[r] <= written[r] /\ \E w \in Seq(Tokens) : Accounted(r, w)
  <2>1. written[r] = 0 /\ client.got[r] = 0 /\ rdr[r].chunk = <<>> /\ pipe[r] = <<>>
      BY <1>2, <1>5
  <2>2. SubSeq(Str(r), 1, 0) = <<>>
      BY SMTT(20), <1>3, SubSeqEmpty
  <2>3. <<>> \o <<>> = <<>>
      BY <1>4, Joined, Zenon
  <2>4. Of(r, client.tbuf \o out) = <<>>
      BY <1>2, <1>5, <2>3, OfEmpty, Zenon
  <2>5. Adds(Str(r), written[r], client.got[r], Of(r, client.tbuf \o out), rdr[r].chunk, <<>>)
      BY <2>1, <2>2, <2>3, <2>4, Zenon DEF Adds
  <2>6. Accounted(r, <<>>)
      BY <2>1, <2>5, Zenon DEF Accounted
  <2>7. client.got[r] <= written[r]
      BY <2>1
  <2>. QED BY <1>4, <2>6, <2>7, Zenon
<1>. QED BY <1>6, <1>7, <1>8, <1>9 DEF XInv, Ledger

\* Every step keeps the invariant.
LEMMA StepHolds == XInv /\ [Next]_vars => XInv'
<1>. SUFFICES ASSUME XInv, [Next]_vars
              PROVE  XInv'
    BY SMTT(20)
<1>1. kind' = kind /\ (Check' => Check) /\ child \in {"running", "exited", "reaped"}
    BY CheckFades DEF XInv, ExpectTyped
<1>2. CASE Exit \/ Close \/ SessionStep \/ UNCHANGED vars
  <2>1. UNCHANGED <<written, pipe, rdr, out, client>> /\ child' \in {"running", "exited", "reaped"}
      BY <1>1, <1>2, Zenon DEF Exit, Close, SessionStep, SenderWrites, SenderDone, WaitReturns, CloseDone, Result, session, vars
  <2>. QED BY SMTT(20), <1>1, <2>1, ControlKeeps
<1>3. CASE \E r \in Readers : Output(r) \/ ReaderStep(r)
    BY SMTT(20), <1>3, OutputKeeps, ReadChunkKeeps, ReadEndsKeeps, StoreKeeps, PingKeeps DEF ReaderStep
<1>4. CASE (\E cs \in Calls : Expect(cs)) \/ Send
    BY SMTT(20), <1>4, ExpectKeeps, SendKeeps
<1>5. CASE ClientStep
    BY SMTT(20), <1>5, MatchKeeps, NoMatchKeeps, CheckAliveKeeps, TimerFiresKeeps, TickerKeeps, SendKeeps, SendTakenKeeps
    DEF ClientStep
<1>. QED BY SMTT(20), <1>2, <1>3, <1>4, <1>5 DEF Next

\* The invariant always holds.
LEMMA ExpectInvariant == Spec => []XInv
    BY InitHolds, StepHolds, PTL DEF Spec

\* What follows the first g elements in the first n of a sequence.
LEMMA Following ==
    ASSUME NEW S \in Seq(Tokens), NEW n \in 0..Len(S), NEW g \in 0..n, NEW b \in Seq(Tokens), Rest(S, n, g, b)
    PROVE  b = SubSeq(S, g + 1, n)
<1>1. Len(S) \in Nat /\ n \in Nat /\ g \in Nat /\ n <= Len(S) /\ g <= n
    OBVIOUS
<1>. DEFINE G == SubSeq(S, 1, g)
            F == SubSeq(S, g + 1, n)
<1>2. G \in Seq(Tokens) /\ F \in Seq(Tokens)
    BY SMTT(20), <1>1, SubSeqProperties
<1>3. G \o F = SubSeq(S, 1, n)
    BY <1>1, ConcatAdjacentSubSeq
<1>4. G \o F = G \o b
    BY <1>3, Zenon DEF Rest
<1>. HIDE DEF G, F
<1>5. F = b
  <2>1. Len(F) \in Nat /\ Len(b) \in Nat /\ Len(G) \in Nat /\ Len(G \o F) = Len(G) + Len(F) /\ Len(G \o b) = Len(G) + Len(b)
      BY <1>2
  <2>2. Len(F) = Len(b)
      BY SMTT(20), <1>4, <2>1
  <2>3. \A i \in 1..Len(F) : F[i] = (G \o F)[Len(G) + i]
      BY SMTT(20), <1>2, <2>1
  <2>4. \A i \in 1..Len(b) : b[i] = (G \o b)[Len(G) + i]
      BY <1>2, <2>1
  <2>5. \A i \in 1..Len(F) : F[i] = b[i]
      BY <1>4, <2>2, <2>3, <2>4, Zenon
  <2>. QED BY SMTT(20), <1>2, <2>2, <2>5, SeqEqual
<1>. QED BY <1>5 DEF F

\* For every set of sessions, streams and calls: per reader, and in the order
\* in which the session wrote it, its output is given to the client, held for
\* it or still to be read; only a reader whose session is over drops output.
THEOREM OutputIsKept == Spec => []OutputKept
<1>1. XInv => OutputKept
  <2>. SUFFICES ASSUME XInv, NEW r \in Readers
                PROVE  LET seen == Of(r, client.tbuf \o out) \o rdr[r].chunk
                           all == SubSeq(Streams[kind][r], client.got[r] + 1, written[r])
                       IN  /\ Len(seen) <= Len(all) /\ SubSeq(all, 1, Len(seen)) = seen
                           /\ kind = "pty" \/ rdr[r].pc # "gone" => seen \o pipe[r] = all
      BY Zenon DEF OutputKept
  <2>. DEFINE S == Str(r)
              n == written[r]
              g == client.got[r]
              a == Of(r, client.tbuf \o out)
              b == rdr[r].chunk
              all == SubSeq(S, g + 1, n)
  <2>1. PICK w \in Seq(Tokens) : Accounted(r, w)
      BY DEF XInv, Ledger
  <2>2. S \in Seq(Tokens) /\ n \in 0..Len(S) /\ g \in 0..n
    <3>1. S \in Seq(Tokens)
        BY StreamsTyped DEF XInv
    <3>2. n \in Nat /\ n <= Len(S) /\ g \in Nat
        BY DEF XInv, ExpectTyped, ClientStates
    <3>3. g <= n
        BY DEF XInv, Ledger
    <3>. HIDE DEF S, n, g
    <3>. QED BY <3>1, <3>2, <3>3
  <2>3. a \in Seq(Tokens) /\ b \in Seq(Tokens)
    <3>1. client.tbuf \in Seq(Tokens) /\ out \in Seq(Tokens) /\ b \in Seq(Tokens)
        BY DEF XInv, ExpectTyped, ClientStates
    <3>2. client.tbuf \o out \in Seq(Tokens)
        BY <3>1, Joined, Zenon
    <3>. QED BY <3>1, <3>2, OfIn, Zenon
  <2>. HIDE DEF a, b
  <2>4. a \o b \in Seq(Tokens) /\ b \o w \in Seq(Tokens)
      BY <2>3, Joined, Zenon
  <2>5. (a \o b) \o w = a \o (b \o w) /\ a \o (b \o w) \in Seq(Tokens)
      BY <2>3
  <2>6. Adds(S, n, g, a, b, w)
      BY <2>1, Zenon DEF Accounted, a, b
  <2>7. Rest(S, n, g, (a \o b) \o w)
      BY <2>5, <2>6, Zenon DEF Adds, Rest
  <2>8. (a \o b) \o w = all
    <3>. DEFINE u == (a \o b) \o w
    <3>1. u \in Seq(Tokens)
        BY <2>5, Zenon
    <3>2. Rest(S, n, g, u)
        BY <2>7
    <3>. HIDE DEF u, S, n, g
    <3>3. u = SubSeq(S, g + 1, n)
        BY SMTT(20), <2>2, <3>1, <3>2, Following
    <3>. QED BY <3>3, Zenon DEF u
  <2>9. Len(a \o b) <= Len(all) /\ SubSeq(all, 1, Len(a \o b)) = a \o b
    <3>. DEFINE x == a \o b
    <3>1. x \in Seq(Tokens) /\ all = x \o w
        BY <2>4, <2>8, Zenon
    <3>. HIDE DEF x, all
    <3>2. Len(x) \in Nat /\ Len(w) \in Nat /\ Len(x \o w) = Len(x) + Len(w)
        BY <3>1
    <3>3. SubSeq(x, 1, Len(x)) = x
        BY <3>1, SubSeqFull, Zenon
    <3>4. SubSeq(x \o w, 1, Len(x)) = x
      <4>1. CASE Len(x) = 0
        <5>1. x = <<>>
            BY SMTT(20), <3>1, <4>1, EmptySeq
        <5>2. SubSeq(x \o w, 1, 0) = <<>>
            BY SubSeqEmpty
        <5>. QED BY <4>1, <5>1, <5>2, Zenon
      <4>2. CASE Len(x) # 0
        <5>1. 1 \in 1..Len(x) /\ Len(x) \in 1..Len(x)
            BY SMTT(20), <3>2, <4>2
        <5>. QED BY SMTT(20), <3>1, <3>3, <5>1, SubSeqOfConcat1
      <4>. QED BY <4>1, <4>2
    <3>. QED BY SMTT(20), <3>1, <3>2, <3>3, <3>4 DEF x
  <2>10. kind = "pty" \/ rdr[r].pc # "gone" => (a \o b) \o pipe[r] = all
      BY <2>1, <2>8, Zenon DEF Accounted
  <2>. QED BY <2>9, <2>10, Zenon DEF a, b, Str
<1>. QED BY <1>1, ExpectInvariant, PTL

\* For every set of sessions, streams and calls, and whichever signals on rcv
\* are lost: Expect does not time out on a live session while the buffer holds
\* what one of its cases matches.
THEOREM NoMatchIsMissed == Spec => NoMissedMatch
<1>1. XInv /\ [Next]_vars => [client.pc = "select" /\ client'.pc = "idle" /\ Check
                                => \A i \in Hits(client.tbuf \o out) : client.cs[i].tag = "next"]_vars
  <2>. SUFFICES ASSUME XInv, Next, client.pc = "select", client'.pc = "idle", Check,
                       NEW i \in Hits(client.tbuf \o out)
                PROVE  client.cs[i].tag = "next"
      BY SMTT(20)
  <2>1. client \in ClientStates /\ client.tbuf \in Seq(Tokens)
      BY DEF XInv, ExpectTyped, ClientStates
  <2>2. TimerFires
    <3>1. CASE ClientStep
        BY <2>1, <3>1, Zenon DEF ClientStep, Match, NoMatch, CheckAlive, Ticker, Copy, SendChecks, SendTaken, SendTimesOut, ClientStates
    <3>2. CASE \E r \in Readers : Output(r) \/ ReaderStep(r)
        BY <2>1, <3>2, Zenon DEF Output, ReaderStep, ReadChunk, ReadEnds, Store, Ping, ClientStates
    <3>3. CASE Exit \/ SessionStep \/ Send \/ Close \/ \E cs \in Calls : Expect(cs)
        BY <3>3, Zenon DEF Exit, SessionStep, SenderWrites, SenderDone, WaitReturns, CloseDone, Result, Send, Close, Expect
    <3>. QED BY SMTT(20), <3>1, <3>2, <3>3 DEF Next
  <2>3. out = <<>>
      BY <2>1, <2>2, Zenon DEF TimerFires, Copy, ClientStates
  <2>4. client.tbuf \o out = client.tbuf
      BY <2>1, <2>3, Joined, Zenon
  <2>. QED BY <2>4, Zenon DEF XInv, Unmatched
<1>. QED BY <1>1, ExpectInvariant, PTL DEF Spec, NoMissedMatch
=============================================================================
