------------------------------ MODULE XmlPath ------------------------------
(***************************************************************************)
(* Package goxml: the search of a document by a path (path.go).  A path is *)
(* compiled into segments, a selector with filters each; a pather follows  *)
(* them through the tree with a queue of the elements still to be looked   *)
(* at, a ring buffer that grows (helpers.go).                              *)
(*                                                                         *)
(* The elements of a tree are 1..n, numbered level by level; 1 is the      *)
(* element of the document.  A path is written as a sequence of tokens.    *)
(***************************************************************************)
EXTENDS Integers, SequencesExt, FiniteSetsExt

CONSTANTS
  Trees,        \* [up, name, attr, text], functions on 1..n
  Paths,        \* the paths: sequences of segments
  Spellings     \* other texts: [text, path], with no path if it is malformed

VARIABLES
  search,                 \* the tree, the element to start at, the path and its text
  segments,               \* the compiled path, or an error
  fifo,                   \* the queue: data, head and tail
  results                 \* the elements found so far

pathVars == <<search, segments, fifo, results>>

Kids(t, e) == SetToSortSeq({c \in DOMAIN t.up : t.up[c] = e}, <)

-----------------------------------------------------------------------------
(* The compiler.  Names are pairs of a namespace prefix and a local name.  *)

Atoi == [n \in {"1", "2", "3", "-1", "-2", "0"} |->
            CASE n = "1" -> 1 [] n = "2" -> 2 [] n = "3" -> 3 [] n = "-1" -> -1 [] n = "-2" -> -2 [] n = "0" -> 0]

fnTable == {"local-name", "name", "namespace-prefix", "namespace-uri", "text"}

Selector(kind, name) == [kind |-> kind, name |-> name]
Filter(kind, name, val, pos) == [kind |-> kind, name |-> name, val |-> val, pos |-> pos]
Segment(sel, filters) == [sel |-> sel, filters |-> filters]
NoName == <<"", "">>
BadFilter == Filter("error", NoName, <<>>, 0)

spaceDecompose(s) == IF Contains(s, ":") THEN <<s[1], s[3]>> ELSE <<"", s[1]>>
spaceMatch(a, b) == a \in {"", b}
NameMatch(want, name) == spaceMatch(want[1], name[1]) /\ want[2] = name[2]

\* The pieces of text between the places that Splits(i) points at.
Pieces(text, Splits(_)) ==
    LET Next1(ps, i) == IF Splits(i) THEN Append(ps, <<>>) ELSE [ps EXCEPT ![Len(ps)] = Append(@, text[i])]
    IN  FoldLeft(Next1, <<<<>>>>, [i \in DOMAIN text |-> i])

\* A slash in quotes does not end a segment.
splitPath(text) ==
    LET quotes(i) == Cardinality({j \in 1..i : text[j] \in {"'", "='"}})
    IN  Pieces(text, LAMBDA i : text[i] = "/" /\ quotes(i) % 2 = 0)

parseSelector(s) ==
    CASE s = <<".">> -> Selector("self", NoName)
      [] s = <<"..">> -> Selector("parent", NoName)
      [] s = <<"*">> -> Selector("children", NoName)
      [] s = <<>> -> Selector("descendants", NoName)
      [] OTHER -> Selector("tag", spaceDecompose(s))

\* @attr='val', fn()='val', tag='val', @attr, fn(), N or tag.
parseFilter(s) ==
    LET eq == SelectInSeq(s, LAMBDA x : x = "='")
        quote == SelectInSubSeq(s, eq + 1, Len(s), LAMBDA x : x = "'")
        key == IF eq = 0 THEN s ELSE SubSeq(s, 1, eq - 1)
        val == IF eq = 0 THEN <<>> ELSE SubSeq(s, eq + 1, quote - 1)
        Kind(plain, withVal) == IF eq = 0 THEN plain ELSE withVal
        pos == Atoi[key[1]]
    IN  CASE s = <<>> \/ (eq # 0 /\ quote # Len(s)) -> BadFilter
          [] OTHER ->
              CASE Head(key) = "@" -> Filter(Kind("attr", "attrVal"), spaceDecompose(Tail(key)), val, 0)
                [] Last(key) = "()" -> IF Head(key) \in fnTable
                                       THEN Filter(Kind("func", "funcVal"), <<"", Head(key)>>, val, 0) ELSE BadFilter
                [] Head(key) # "@" /\ Last(key) # "()" ->
                       IF eq = 0 /\ Head(key) \in DOMAIN Atoi
                       THEN Filter("pos", NoName, <<>>, IF pos > 0 THEN pos - 1 ELSE pos)
                       ELSE Filter(Kind("child", "childText"), spaceDecompose(key), val, 0)

parseSegment(s) ==
    LET ps == Pieces(s, LAMBDA i : s[i] = "[")
        One(f) == IF Last(f) # "]" THEN BadFilter ELSE parseFilter(Front(f))
    IN  Segment(parseSelector(ps[1]), [i \in 1..(Len(ps) - 1) |-> One(ps[i + 1])])

\* A path that ends with // goes on with *; one that begins with / starts at
\* the root.
parsePath(text) ==
    LET n == Len(text)
        full == IF n >= 2 /\ SubSeq(text, n - 1, n) = <<"/", "/">> THEN Append(text, "*") ELSE text
        absolute == full # <<>> /\ Head(full) = "/"
        rest == splitPath(IF absolute THEN Tail(full) ELSE full)
    IN  (IF absolute THEN <<Segment(Selector("root", NoName), <<>>)>> ELSE <<>>)
          \o [i \in DOMAIN rest |-> parseSegment(rest[i])]

Failed(segs) == \E i \in DOMAIN segs : \E j \in DOMAIN segs[i].filters : segs[i].filters[j] = BadFilter

-----------------------------------------------------------------------------
(* The queue.  Slots count from 0.                                         *)

EmptyFifo == [data |-> <<>>, head |-> 0, tail |-> 0]

FifoLen(f) == IF f.tail >= f.head THEN f.tail - f.head ELSE Len(f.data) - f.head + f.tail

\* Mutant: the part of a ring that has wrapped round is left behind.
GrowLoses(f) ==
    LET c == IF f.data = <<>> THEN 4 ELSE 2 * Len(f.data)
        kept == SubSeq(f.data, f.head + 1, IF f.tail >= f.head THEN f.tail ELSE Len(f.data))
    IN  [data |-> kept \o [i \in 1..(c - Len(kept)) |-> <<>>], head |-> 0, tail |-> Len(kept)]

Grow(f) ==
    LET c == IF f.data = <<>> THEN 4 ELSE 2 * Len(f.data)
        kept == IF f.tail >= f.head THEN SubSeq(f.data, f.head + 1, f.tail)
                ELSE SubSeq(f.data, f.head + 1, Len(f.data)) \o SubSeq(f.data, 1, f.tail)
    IN  [data |-> kept \o [i \in 1..(c - Len(kept)) |-> <<>>], head |-> 0, tail |-> Len(kept)]

FifoAdd(f, v) ==
    LET g == IF FifoLen(f) + 1 >= Len(f.data) THEN Grow(f) ELSE f
    IN  [g EXCEPT !.data[g.tail + 1] = v, !.tail = IF @ + 1 = Len(g.data) THEN 0 ELSE @ + 1]

FifoFront(f) == f.data[f.head + 1]

FifoRemove(f) ==
    [f EXCEPT !.data[f.head + 1] = <<>>, !.head = IF @ + 1 = Len(f.data) THEN 0 ELSE @ + 1]

-----------------------------------------------------------------------------
(* Selectors, and what the filters ask of an element.                      *)

RECURSIVE RootOf(_, _)
RootOf(t, e) == IF t.up[e] = 0 THEN e ELSE RootOf(t, t.up[e])

\* The loop of selectDescendants, with a queue of its own.
RECURSIVE Descend(_, _, _)
Descend(t, q, found) ==
    IF FifoLen(q) = 0 THEN found
    ELSE LET e == FifoFront(q) IN Descend(t, FoldLeft(FifoAdd, FifoRemove(q), Kids(t, e)), Append(found, e))

Select(t, e, s) ==
    CASE s.kind = "self" -> <<e>>
      [] s.kind = "root" -> <<RootOf(t, e)>>
      [] s.kind = "parent" -> IF t.up[e] = 0 THEN <<>> ELSE <<t.up[e]>>
      [] s.kind = "children" -> Kids(t, e)
      [] s.kind = "descendants" -> Descend(t, FifoAdd(EmptyFifo, e), <<>>)
      [] s.kind = "tag" -> SelectSeq(Kids(t, e), LAMBDA c : NameMatch(s.name, t.name[c]))

\* findLocalNamespaceURI and findDefaultNamespaceURI: the nearest declaration.
RECURSIVE findNamespaceURI(_, _, _)
findNamespaceURI(t, e, decl) ==
    LET i == SelectInSeq(t.attr[e], LAMBDA a : a.name = decl)
    IN  CASE i # 0 -> t.attr[e][i].val
          [] i = 0 /\ t.up[e] = 0 -> <<>>
          [] i = 0 /\ t.up[e] # 0 -> findNamespaceURI(t, t.up[e], decl)

NamespaceURI(t, e) ==
    findNamespaceURI(t, e, IF t.name[e][1] = "" THEN <<"", "xmlns">> ELSE <<"xmlns", t.name[e][1]>>)

NonEmpty(x) == IF x = "" THEN <<>> ELSE <<x>>
FullTag(n) == IF n[1] = "" THEN NonEmpty(n[2]) ELSE <<n[1], ":", n[2]>>

Fn(t, e, name) ==
    CASE name = "local-name" -> NonEmpty(t.name[e][2])
      [] name = "name" -> FullTag(t.name[e])
      [] name = "namespace-prefix" -> NonEmpty(t.name[e][1])
      [] name = "namespace-uri" -> NamespaceURI(t, e)
      [] name = "text" -> t.text[e]

childText(t, c, f) == NameMatch(f.name, t.name[c]) /\ (f.kind = "childText" => f.val = t.text[c])

\* How often a filter keeps the element e: filterChild and filterChildText keep
\* it once for every child that fits.
Times(t, e, f) ==
    CASE f.kind \in {"attr", "attrVal"} ->
            IF \E i \in DOMAIN t.attr[e] : /\ NameMatch(f.name, t.attr[e][i].name)
                                           /\ f.kind = "attrVal" => f.val = t.attr[e][i].val
            THEN 1 ELSE 0
      [] f.kind = "func" -> IF Fn(t, e, f.name[2]) # <<>> THEN 1 ELSE 0
      [] f.kind = "funcVal" -> IF Fn(t, e, f.name[2]) = f.val THEN 1 ELSE 0
      [] f.kind \in {"child", "childText"} -> Len(SelectSeq(Kids(t, e), LAMBDA c : childText(t, c, f)))

filterPos(cs, pos) ==
    CASE pos >= 0 -> IF pos < Len(cs) THEN <<cs[pos + 1]>> ELSE <<>>
      [] pos < 0 -> IF -pos <= Len(cs) THEN <<cs[Len(cs) + pos + 1]>> ELSE <<>>

Apply(t, cs, f) ==
    IF f.kind = "pos" THEN filterPos(cs, f.pos)
    ELSE FlattenSeq([i \in DOMAIN cs |-> [k \in 1..Times(t, cs[i], f) |-> cs[i]]])

-----------------------------------------------------------------------------
(* How a path is written.                                                  *)

ShowName(n) == IF n[1] = "" THEN <<n[2]>> ELSE <<n[1], ":", n[2]>>

ShowFilter(f) ==
    LET val == <<"='">> \o f.val \o <<"'">>
        n == CHOOSE x \in DOMAIN Atoi : Atoi[x] = (IF f.pos >= 0 THEN f.pos + 1 ELSE f.pos)
    IN  <<"[">> \o (CASE f.kind = "attr" -> <<"@">> \o ShowName(f.name)
                      [] f.kind = "attrVal" -> <<"@">> \o ShowName(f.name) \o val
                      [] f.kind = "func" -> <<f.name[2], "()">>
                      [] f.kind = "funcVal" -> <<f.name[2], "()">> \o val
                      [] f.kind = "child" -> ShowName(f.name)
                      [] f.kind = "childText" -> ShowName(f.name) \o val
                      [] f.kind = "pos" -> <<n>>) \o <<"]">>

ShowSegment(g) ==
    (CASE g.sel.kind = "self" -> <<".">>
       [] g.sel.kind = "parent" -> <<"..">>
       [] g.sel.kind = "children" -> <<"*">>
       [] g.sel.kind \in {"descendants", "root"} -> <<>>
       [] g.sel.kind = "tag" -> ShowName(g.sel.name))
      \o FlattenSeq([i \in DOMAIN g.filters |-> ShowFilter(g.filters[i])])

Slashed(pieces) == FlattenSeq([i \in DOMAIN pieces |-> IF i = 1 THEN pieces[i] ELSE <<"/">> \o pieces[i]])

Show(path) == Slashed([i \in DOMAIN path |-> ShowSegment(path[i])])

-----------------------------------------------------------------------------
(* The search.                                                             *)

PathInit ==
    /\ \E t \in Trees, p \in Spellings \cup {[text |-> Show(q), path |-> q] : q \in Paths} : \E e \in DOMAIN t.up :
          search = [tree |-> t, from |-> e, text |-> p.text, path |-> p.path]
    /\ segments = <<>> /\ fifo = EmptyFifo /\ results = <<>>

Node(e, from) == [e |-> e, at |-> from]

\* FindElements: MustCompilePath, then the first node of the queue.  A text
\* that is no path ends in a panic.
FindElements ==
    /\ segments = <<>>
    /\ segments' = parsePath(search.text)
    /\ fifo' = IF Failed(segments') THEN fifo ELSE FifoAdd(fifo, Node(search.from, 1))
    /\ UNCHANGED <<search, results>>

eval ==
    /\ FifoLen(fifo) > 0
    /\ LET n == FifoFront(fifo)
           seg == segments[n.at]
           found == FoldLeft(LAMBDA cs, f : Apply(search.tree, cs, f), Select(search.tree, n.e, seg.sel), seg.filters)
           rest == FifoRemove(fifo)
       IN  IF n.at = Len(segments)
           THEN /\ fifo' = rest
                /\ results' = FoldLeft(LAMBDA rs, c : IF Contains(rs, c) THEN rs ELSE Append(rs, c), results, found)
           ELSE /\ fifo' = FoldLeft(LAMBDA q, c : FifoAdd(q, Node(c, n.at + 1)), rest, found)
                /\ UNCHANGED results
    /\ UNCHANGED <<search, segments>>

PathNext == FindElements \/ eval

Found == segments # <<>> /\ ~Failed(segments) /\ FifoLen(fifo) = 0

-----------------------------------------------------------------------------
(* GetPath and GetRelativePath.                                            *)

RECURSIVE Upward(_, _)
\* e and what it is in, from the inside out.
Upward(t, e) == IF e = 0 THEN <<>> ELSE <<e>> \o Upward(t, t.up[e])

GetRelativePath(t, e, source) ==
    LET path == Upward(t, e)
        at == SelectInSeq(path, LAMBDA x : x = source)
        climb == Upward(t, source)
        meet == SelectInSeq(climb, LAMBDA x : Contains(path, x))
        tags(k) == [i \in 1..k |-> <<t.name[path[k + 1 - i]][2]>>]
    IN  CASE at = 1 -> <<".">>
          [] at > 1 -> Slashed(<<<<".">>>> \o tags(at - 1))
          [] at = 0 -> Slashed([i \in 1..(meet - 1) |-> <<"..">>]
                               \o tags(SelectInSeq(path, LAMBDA x : x = climb[meet]) - 1))

GetPath(t, e) ==
    <<"/">> \o Slashed(SelectSeq([i \in DOMAIN Upward(t, e) |-> NonEmpty(t.name[Reverse(Upward(t, e))[i]][2])],
                                 LAMBDA x : x # <<>>))

-----------------------------------------------------------------------------
(* What a path means, as sets of elements.                                 *)

RECURSIVE Inner(_, _)
Inner(t, e) == {e} \cup UNION {Inner(t, c) : c \in {k \in DOMAIN t.up : t.up[k] = e}}

Selected(t, e, s) ==
    CASE s.kind = "self" -> {e}
      [] s.kind = "root" -> {1}
      [] s.kind = "parent" -> {t.up[e]} \ {0}
      [] s.kind = "children" -> {c \in DOMAIN t.up : t.up[c] = e}
      [] s.kind = "descendants" -> Inner(t, e)
      [] s.kind = "tag" -> {c \in DOMAIN t.up : t.up[c] = e /\ s.name[2] = t.name[c][2] /\ s.name[1] \in {"", t.name[c][1]}}

\* The elements that a filter leaves of S; [n] counts in the order of the levels.
Left(t, S, f) ==
    LET rank(e) == Cardinality({x \in S : x < e})
    IN  {e \in S :
           CASE f.kind = "pos" -> rank(e) = (IF f.pos >= 0 THEN f.pos ELSE Cardinality(S) + f.pos)
             [] f.kind \in {"attr", "attrVal"} ->
                   \E a \in ToSet(t.attr[e]) : /\ a.name[2] = f.name[2] /\ f.name[1] \in {"", a.name[1]}
                                               /\ f.kind = "attrVal" => a.val = f.val
             [] f.kind = "func" -> Fn(t, e, f.name[2]) # <<>>
             [] f.kind = "funcVal" -> Fn(t, e, f.name[2]) = f.val
             [] f.kind = "child" -> \E c \in DOMAIN t.up : t.up[c] = e /\ t.name[c][2] = f.name[2]
             [] f.kind = "childText" ->
                   \E c \in DOMAIN t.up : t.up[c] = e /\ t.name[c][2] = f.name[2] /\ t.text[c] = f.val}

Meaning(t, from, path) ==
    LET Step(S, seg) == UNION {FoldLeft(LAMBDA C, f : Left(t, C, f), Selected(t, e, seg.sel), seg.filters) : e \in S}
    IN  FoldLeft(Step, {from}, path)

-----------------------------------------------------------------------------
(* Properties.                                                             *)

\* FindElements returns what the path means: each element that fits once and no
\* other, whatever the tree, the start and the order of the queue, which grows
\* and wraps around; a text is refused exactly when it is malformed (traverse, eval, the selectors and filters, fifo).
FindsMeaning ==
    /\ segments # <<>> => (Failed(segments) <=> search.path = <<>>)
    /\ Found =>
        /\ ToSet(results) = Meaning(search.tree, search.from, search.path)
        /\ Len(results) = Cardinality(ToSet(results))

\* A path that GetPath or GetRelativePath gives for an element leads to it: the
\* search from the source, or from anywhere, finds the element among the results.
PathsLeadBack ==
    LET t == search.tree
    IN  segments = <<>> => \A e \in DOMAIN t.up :
            /\ e \in Meaning(t, search.from, parsePath(GetRelativePath(t, e, search.from)))
            /\ e # 1 => e \in Meaning(t, search.from, parsePath(GetPath(t, e)))

\* A search finds what its path means, and the path of an element finds it.
PathsSound == FindsMeaning /\ PathsLeadBack
====
