-------------------------------- MODULE Xml --------------------------------
(***************************************************************************)
(* Package goxml: a document is a tree of tokens.  Every token keeps its   *)
(* parent and its index among the parent's children, and every element     *)
(* keeps the list of its children, so the same fact is stored twice and    *)
(* each operation has to keep the two in step.                             *)
(*                                                                         *)
(* The heap h holds the tokens in use (live), the two sides of the tree,   *)
(* the attributes of the elements and the contents and flags of the        *)
(* character data.  Comments, directives and processing instructions       *)
(* behave alike and are the Others.  Text is a sequence of symbols.        *)
(***************************************************************************)
EXTENDS Integers, SequencesExt, FiniteSetsExt

CONSTANTS
  Doc,          \* the element embedded in the document
  Elems,        \* cells for the other elements
  TagOf,        \* and their tags
  CharCells,    \* cells for character data
  Others,       \* cells for the other tokens
  Texts,        \* contents of character data and of attributes
  AttrKeys,     \* keys of attributes: <<space, key>>, in their order
  Inputs,       \* documents that are read: sequences of items
  AttrTokens,   \* bound: tokens in use while an element has attributes
  MaxChild,     \* bound: children of an element
  Sections,     \* bound: those that are also put into CDATA sections
  MaxTokens,    \* bound: tokens in use
  MaxLoose      \* bound: tokens that callers hold outside the document

Nil == "nil"
White == {"sp", "nl"}

VARIABLE h

Elements == {Doc} \cup Elems
Tokens == Elems \cup CharCells \cup Others

EmptyHeap ==
    [live   |-> {Doc},
     parent |-> [t \in Elements \cup Tokens |-> Nil],
     index  |-> [t \in Elements \cup Tokens |-> -1],
     child  |-> [e \in Elements |-> <<>>],
     attr   |-> [e \in Elements |-> <<>>],
     text   |-> [c \in CharCells |-> <<>>],
     cdata  |-> [c \in CharCells |-> FALSE],
     white  |-> [c \in CharCells |-> FALSE]]

IsWhitespace(s) == ToSet(s) \subseteq White
IsChar(t) == t \in CharCells

RECURSIVE Above(_, _)
\* e and the elements it is in.
Above(g, e) == IF e = Nil THEN {} ELSE {e} \cup Above(g, g.parent[e])

RECURSIVE Inside(_, _)
Inside(g, t) == {t} \cup (IF t \in Elements THEN UNION {Inside(g, c) : c \in ToSet(g.child[t])} ELSE {})

\* A token that was dropped from its parent's children and still names it.
Stale(g, t) == g.parent[t] # Nil /\ ~Contains(g.child[g.parent[t]], t)

-----------------------------------------------------------------------------
(* The list of children.  Positions count from 0, as in the code.          *)

\* for j := i; j < len(e.Child); j++ { e.Child[j].setIndex(j) }
Renumber(g, e, i) ==
    LET c == g.child[e]
        places(t) == {j \in (i + 1)..Len(c) : c[j] = t}
    IN  [g EXCEPT !.index = [t \in DOMAIN g.index |->
            IF places(t) = {} THEN g.index[t] ELSE (CHOOSE j \in places(t) : TRUE) - 1]]

addChild(g, e, t) ==
    [g EXCEPT !.parent[t] = e, !.index[t] = Len(g.child[e]), !.child[e] = Append(@, t)]

\* Mutant: the children behind the removed one keep their index.
RemoveChildAtNoShift(g, e, i) ==
    IF i >= Len(g.child[e]) THEN g
    ELSE LET t == g.child[e][i + 1]
         IN  [g EXCEPT !.child[e] = RemoveAt(@, i + 1), !.index[t] = -1, !.parent[t] = Nil]

RemoveChildAt(g, e, i) ==
    IF i >= Len(g.child[e]) THEN g
    ELSE LET t == g.child[e][i + 1]
             removed == [g EXCEPT !.child[e] = RemoveAt(@, i + 1)]
         IN  [Renumber(removed, e, i) EXCEPT !.index[t] = -1, !.parent[t] = Nil]

RemoveChild(g, e, t) == IF g.parent[t] # e THEN g ELSE RemoveChildAt(g, e, g.index[t])

\* The first step of AddChild, InsertChild, InsertChildAt and SetRoot.
Detach(g, t) == IF g.parent[t] = Nil THEN g ELSE RemoveChild(g, g.parent[t], t)

AddChild(g, e, t) == addChild(Detach(g, t), e, t)

PlaceAt(g, e, i, t) ==
    Renumber([g EXCEPT !.parent[t] = e, !.child[e] = InsertAt(@, i + 1, t)], e, i)

InsertChild(g, e, ex, t) ==
    IF ex = Nil \/ g.parent[ex] # e THEN AddChild(g, e, t)
    ELSE LET d == Detach(g, t) IN PlaceAt(d, e, d.index[ex], t)

InsertChildAt(g, e, i, t) ==
    IF i >= Len(g.child[e]) THEN AddChild(g, e, t)
    ELSE PlaceAt(Detach(g, t), e, IF g.parent[t] = e /\ g.index[t] > i THEN i - 1 ELSE i, t)

SetRoot(g, t) ==
    LET d == Detach(g, t)
        roots == {i \in DOMAIN d.child[Doc] : d.child[Doc][i] \in Elems}
        i == CHOOSE j \in roots : \A k \in roots : j <= k
        was == d.child[Doc][i]
    IN  IF roots = {} THEN addChild(d, Doc, t)
        ELSE [d EXCEPT !.parent = [@ EXCEPT ![was] = Nil, ![t] = Doc],
                       !.index = [@ EXCEPT ![was] = -1, ![t] = i - 1],
                       !.child[Doc] = [@ EXCEPT ![i] = t]]

-----------------------------------------------------------------------------
(* Character data.                                                         *)

\* A cell that is not in use is as good as another.
AnyOf(S) == CHOOSE c \in S : TRUE

FreeChars(g) == CharCells \ g.live
FreeElems(g) == Elems \ g.live

newCharData(g, c, s, cd, w) ==
    [g EXCEPT !.live = @ \cup {c}, !.text[c] = s, !.cdata[c] = cd, !.white[c] = w,
              !.parent[c] = Nil, !.index[c] = -1]

\* newCharData(data, flags, parent)
AddCharData(g, e, s, cd, w) ==
    LET c == AnyOf(FreeChars(g)) IN addChild(newCharData(g, c, s, cd, w), e, c)

findTermCharDataIndex(g, e, start) ==
    LET stops == {i \in start..(Len(g.child[e]) - 1) : ~IsChar(g.child[e][i + 1])}
    IN  IF stops = {} THEN Len(g.child[e]) ELSE CHOOSE i \in stops : \A j \in stops : i <= j

\* The children from..(to - 1) are cut out; they keep their parent and index.
Cut(g, e, from, to) ==
    Renumber([g EXCEPT !.child[e] = SubSeq(@, 1, from) \o SubSeq(@, to + 1, Len(@))], e, from)

replaceText(g, e, i, s, cd) ==
    LET end == findTermCharDataIndex(g, e, i)
        c == g.child[e][i + 1]
        written == [g EXCEPT !.text[c] = s, !.cdata[c] = cd, !.white[c] = FALSE]
        fresh == AnyOf(FreeChars(g))
    IN  CASE end = i /\ s = <<>> -> g
          [] end = i /\ s # <<>> -> InsertChildAt(newCharData(g, fresh, s, cd, FALSE), e, i, fresh)
          [] end = i + 1 /\ s = <<>> -> RemoveChildAt(g, e, i)
          [] end = i + 1 /\ s # <<>> -> written
          [] end > i + 1 /\ s = <<>> -> Cut(g, e, i, end)
          [] end > i + 1 /\ s # <<>> -> Cut(written, e, i + 1, end)

SetData(g, c, s) == [g EXCEPT !.text[c] = s, !.white[c] = IsWhitespace(s)]

\* The heap when only these tokens are still referred to.
Keep(g, kept) ==
    LET Old(f, e) == [t \in DOMAIN f |-> IF t \in kept THEN f[t] ELSE e[t]]
        e == EmptyHeap
    IN  [live |-> kept, parent |-> Old(g.parent, e.parent), index |-> Old(g.index, e.index),
         child |-> Old(g.child, e.child), attr |-> Old(g.attr, e.attr), text |-> Old(g.text, e.text),
         cdata |-> Old(g.cdata, e.cdata), white |-> Old(g.white, e.white)]

\* Callers forget the tokens that replaceText and stripIndent dropped: these
\* still name a parent and an index, and removing one would remove another token.
Collect(g) ==
    IF \E t \in g.live : Stale(g, t) THEN Keep(g, {t \in g.live : ~Stale(g, t)}) ELSE g

-----------------------------------------------------------------------------
(* Attributes: [name, val], the name a pair <<space, key>>.                *)

HasAttr(g, e, n) == \E i \in DOMAIN g.attr[e] : g.attr[e][i].name = n

createAttr(g, e, n, v) ==
    [g EXCEPT !.attr[e] =
        IF HasAttr(g, e, n) THEN [i \in DOMAIN @ |-> IF @[i].name = n THEN [@[i] EXCEPT !.val = v] ELSE @[i]]
                            ELSE Append(@, [name |-> n, val |-> v])]

RemoveAttr(g, e, n) == [g EXCEPT !.attr[e] = RemoveFirstMatch(@, LAMBDA a : a.name = n)]

SortAttrs(g, e) ==
    [g EXCEPT !.attr[e] = FlattenSeq([k \in DOMAIN AttrKeys |->
                              SelectSeq(g.attr[e], LAMBDA a : a.name = AttrKeys[k])])]

-----------------------------------------------------------------------------
(* Indentation.                                                            *)

\* indentLF and indentCRLF; a negative number of spaces stands for NoIndent.
IndentString(depth, spaces) ==
    IF spaces < 0 THEN <<>>
    ELSE <<"nl">> \o (IF depth < 0 THEN <<>> ELSE [i \in 1..(depth * spaces) |-> "sp"])

stripIndent(g, e) ==
    Renumber([g EXCEPT !.child[e] = SelectSeq(@, LAMBDA t : ~(IsChar(t) /\ g.white[t]))], e, 0)

RECURSIVE indent(_, _, _, _)
indent(g, e, depth, spaces) ==
    LET stripped == stripIndent(g, e)
        break(k, d) == IF IndentString(d, spaces) = <<>> THEN k
                       ELSE AddCharData(k, e, IndentString(d, spaces), FALSE, TRUE)
        Next1(st, t) ==
            LET before == IF ~IsChar(t) /\ (~st.first \/ depth > 0) THEN break(st.g, depth) ELSE st.g
                added == addChild(before, e, t)
            IN  [g     |-> IF t \in Elems THEN indent(added, t, depth + 1, spaces) ELSE added,
                 char  |-> IsChar(t),
                 first |-> st.first /\ IsChar(t)]
        end == FoldLeft(Next1, [g |-> [stripped EXCEPT !.child[e] = <<>>], char |-> FALSE, first |-> TRUE],
                        stripped.child[e])
    IN  IF stripped.child[e] = <<>> THEN stripped
        ELSE IF ~end.char /\ (~end.first \/ depth > 0) THEN break(end.g, depth - 1) ELSE end.g

Indent(g, spaces) == indent(g, Doc, 0, spaces)

-----------------------------------------------------------------------------
(* dup: the copy of a token has the index of the original.  r is the heap  *)
(* and the new token.                                                      *)

SameTag(g, e) == {n \in FreeElems(g) : TagOf[n] = TagOf[e]}

RECURSIVE dup(_, _, _)
dup(g, t, p) ==
    LET n == CASE IsChar(t) -> AnyOf(FreeChars(g))
               [] t \in Others -> AnyOf(Others \ g.live)
               [] t \in Elems -> AnyOf(SameTag(g, t))
        new == [g EXCEPT !.live = @ \cup {n}, !.parent[n] = p, !.index[n] = g.index[t]]
        Next1(r, c) == LET d == dup(r.g, c, n)
                       IN  [r EXCEPT !.g = [d.g EXCEPT !.child[n] = Append(@, d.token)]]
    IN  CASE IsChar(t) -> [g |-> [new EXCEPT !.text[n] = g.text[t], !.cdata[n] = g.cdata[t],
                                             !.white[n] = g.white[t]], token |-> n]
          [] t \in Others -> [g |-> new, token |-> n]
          [] t \in Elems -> FoldLeft(Next1, [g |-> [new EXCEPT !.attr[n] = g.attr[t], !.child[n] = <<>>],
                                             token |-> n], g.child[t])

Copy(g, e) == dup(g, e, Nil).g

-----------------------------------------------------------------------------
(* Writing.  What is written is a sequence of items: "start", "empty" and  *)
(* "end" tags, "raw" text with its entities, "cdata" and "other".          *)

Entity == [amp |-> "&amp;", lt |-> "&lt;", gt |-> "&gt;", apos |-> "&apos;", quot |-> "&quot;",
           tab |-> "&#x9;", nl |-> "&#xA;", cr |-> "&#xD;"]

Escaped == [normal |-> {"amp", "lt", "gt", "apos", "quot"},
            text   |-> {"amp", "lt", "gt", "cr"},
            attr   |-> {"amp", "lt", "quot", "tab", "nl", "cr"}]

escapeString(s, mode) == [i \in DOMAIN s |-> IF s[i] \in Escaped[mode] THEN Entity[s[i]] ELSE s[i]]

Item(k, tag, attrs, s) == [kind |-> k, tag |-> tag, attrs |-> attrs, text |-> s]

\* ws: the WriteSettings.
RECURSIVE writeTo(_, _, _)
writeTo(g, t, ws) ==
    LET tag(k) == Item(k, TagOf[t],
                       [i \in DOMAIN g.attr[t] |-> [g.attr[t][i] EXCEPT !.val =
                           escapeString(@, IF ws.CanonicalAttrVal THEN "attr" ELSE "normal")]], <<>>)
        inside == FlattenSeq([i \in DOMAIN g.child[t] |-> writeTo(g, g.child[t][i], ws)])
    IN  CASE t \in Others -> <<Item("other", "", <<>>, <<>>)>>
          [] IsChar(t) /\ g.cdata[t] -> <<Item("cdata", "", <<>>, g.text[t])>>
          [] IsChar(t) /\ ~g.cdata[t] ->
                 <<Item("raw", "", <<>>, escapeString(g.text[t], IF ws.CanonicalText THEN "text" ELSE "normal"))>>
          [] t \in Elems ->
                 IF inside = <<>> /\ ~ws.CanonicalEndTags THEN <<tag("empty")>>
                 ELSE <<tag("start")>> \o inside \o <<Item("end", TagOf[t], <<>>, <<>>)>>

WriteTo(g, ws) == FlattenSeq([i \in DOMAIN g.child[Doc] |-> writeTo(g, g.child[Doc][i], ws)])

-----------------------------------------------------------------------------
(* The decoder of encoding/xml (RawToken): an empty tag is a start and an  *)
(* end, adjacent text is one token, entities are replaced, a carriage      *)
(* return is read as a newline, and a delimiter that was not escaped is an *)
(* error.                                                                  *)

Plain(s) ==
    [i \in DOMAIN s |-> LET from == {c \in DOMAIN Entity : Entity[c] = s[i]}
                        IN  IF from # {} THEN CHOOSE c \in from : TRUE ELSE IF s[i] = "cr" THEN "nl" ELSE s[i]]

Broken(i) ==
    \/ i.kind = "raw" /\ ToSet(i.text) \cap {"lt", "amp"} # {}
    \/ \E k \in DOMAIN i.attrs : ToSet(i.attrs[k].val) \cap {"lt", "amp", "quot"} # {}

RawTokens(items) ==
    LET Next1(ts, i) ==
            LET prev == IF ts = <<>> THEN "none" ELSE Last(ts).kind
                tag(k) == Item(k, i.tag, [j \in DOMAIN i.attrs |-> [i.attrs[j] EXCEPT !.val = Plain(@)]], <<>>)
            IN  CASE prev = "error" -> ts
                  [] prev # "error" /\ Broken(i) -> Append(ts, Item("error", "", <<>>, <<>>))
                  [] OTHER ->
                      CASE i.kind = "empty" -> ts \o <<tag("start"), tag("end")>>
                        [] i.kind = "start" -> Append(ts, tag("start"))
                        [] i.kind = "raw" /\ prev = "raw" -> [ts EXCEPT ![Len(ts)].text = @ \o Plain(i.text)]
                        [] i.kind = "raw" /\ prev # "raw" -> Append(ts, [i EXCEPT !.text = Plain(@)])
                        [] OTHER -> Append(ts, i)
    IN  FoldLeft(Next1, <<>>, items)

-----------------------------------------------------------------------------
(* readFrom: the tokens of the decoder, with a stack of the elements that  *)
(* are open.                                                               *)

readToken(st, i) ==
    LET top == Last(st.stack)
        n == CHOOSE e \in FreeElems(st.g) : TagOf[e] = i.tag
        new == addChild([st.g EXCEPT !.live = @ \cup {n}, !.attr[n] = <<>>, !.child[n] = <<>>], top, n)
        filled == FoldLeft(LAMBDA k, a : createAttr(k, n, a.name, a.val), new, i.attrs)
        o == AnyOf(Others \ st.g.live)
    IN  CASE st.err -> st
          [] ~st.err /\ i.kind = "start" -> [st EXCEPT !.g = filled, !.stack = Append(@, n)]
          [] ~st.err /\ i.kind = "end" ->
                 IF top = Doc \/ TagOf[top] # i.tag THEN [st EXCEPT !.err = TRUE] ELSE [st EXCEPT !.stack = Front(@)]
          [] ~st.err /\ i.kind \in {"raw", "cdata"} ->
                 [st EXCEPT !.g = AddCharData(@, top, i.text, FALSE, IsWhitespace(i.text))]
          [] ~st.err /\ i.kind = "other" -> [st EXCEPT !.g = addChild([@ EXCEPT !.live = @ \cup {o}], top, o)]
          [] ~st.err /\ i.kind = "error" -> [st EXCEPT !.err = TRUE]

\* The heap after reading, and whether it ended in an error; at the end of the
\* input every element must be closed.
readFrom(g, items) ==
    LET end == FoldLeft(readToken, [g |-> g, stack |-> <<Doc>>, err |-> FALSE], RawTokens(items))
    IN  [g |-> end.g, err |-> end.err \/ Len(end.stack) # 1]

\* Are there cells for what would be read?
Fits(g, items) ==
    LET count(k) == Cardinality({i \in DOMAIN items : items[i].kind \in k})
    IN  /\ \A tag \in {items[i].tag : i \in DOMAIN items} \ {""} :
              Cardinality({i \in DOMAIN items : items[i].kind \in {"start", "empty"} /\ items[i].tag = tag})
                 <= Cardinality({e \in FreeElems(g) : TagOf[e] = tag})
        /\ count({"raw", "cdata"}) <= Cardinality(FreeChars(g))
        /\ count({"other"}) <= Cardinality(Others \ g.live)

-----------------------------------------------------------------------------
(* The calls.  A caller adds no element to itself or below itself.         *)

XmlInit == h = EmptyHeap

LiveElems == h.live \cap Elements
LiveTokens == h.live \ {Doc}
Below(e, t) == t \notin Above(h, e)

Becomes(heap1) == \E g \in {heap1} :
    /\ \A e \in Elements : Len(g.child[e]) <= MaxChild
    /\ Cardinality(g.live \ {Doc}) <= IF \E e \in Elems : g.attr[e] # <<>> THEN AttrTokens ELSE MaxTokens
    /\ Cardinality({t \in g.live : g.parent[t] = Nil}) <= MaxLoose + 1
    /\ h' = Collect(g)

With(n) == [h EXCEPT !.live = @ \cup {n}]

NewElement == \E n \in FreeElems(h) :
    \/ Becomes(With(n))
    \/ \E e \in LiveElems : Becomes(addChild(With(n), e, n))

NewOther == \E n \in Others \ h.live :
    \/ Becomes(With(n))
    \/ \E e \in LiveElems : Becomes(addChild(With(n), e, n))

CanAddText == FreeChars(h) # {}

Written == (Texts \X {FALSE}) \cup (Sections \X {TRUE})

NewCharData == \E w \in Written :
    /\ CanAddText
    /\ \/ Becomes(newCharData(h, AnyOf(FreeChars(h)), w[1], w[2], FALSE))
       \/ \E e \in LiveElems : Becomes(AddCharData(h, e, w[1], w[2], FALSE))

AddAToken == \E e \in LiveElems, t \in LiveTokens : Below(e, t) /\ Becomes(AddChild(h, e, t))

\* Inserting a token before itself is a slice error in the code.  A token that
\* is no child of e is treated like nil.
InsertAToken == \E e \in LiveElems, t \in LiveTokens : \E ex \in ToSet(h.child[e]) \cup {Nil} :
    Below(e, t) /\ ex # t /\ Becomes(InsertChild(h, e, ex, t))

\* Inserting at 0 a token that is further behind is one as well.
InsertATokenAt == \E e \in LiveElems, t \in LiveTokens : \E i \in 0..Len(h.child[e]) :
    /\ Below(e, t)
    /\ ~(i = 0 /\ h.parent[t] = e /\ h.index[t] > 0)
    /\ Becomes(InsertChildAt(h, e, i, t))

RemoveAToken ==
    \/ \E e \in LiveElems, t \in LiveTokens : Becomes(RemoveChild(h, e, t))
    \/ \E e \in LiveElems : \E i \in 0..Len(h.child[e]) : Becomes(RemoveChildAt(h, e, i))

SetARoot == \E t \in LiveElems \ {Doc} : Becomes(SetRoot(h, t))

\* SetText and SetCData.
SetAText == \E e \in LiveElems, w \in Written \cup {<<<<>>, FALSE>>} :
    CanAddText /\ Becomes(replaceText(h, e, 0, w[1], w[2]))

SetATail == \E e \in LiveElems \ {Doc}, s \in Texts \cup {<<>>} :
    /\ h.parent[e] # Nil
    /\ CanAddText
    /\ Becomes(replaceText(h, h.parent[e], h.index[e] + 1, s, FALSE))

SetSomeData == \E c \in h.live \cap CharCells, s \in Texts : Becomes(SetData(h, c, s))

ChangeAttrs == \E e \in LiveElems \ {Doc} :
    \/ \E k \in DOMAIN AttrKeys, v \in Texts : Becomes(createAttr(h, e, AttrKeys[k], v))
    \/ \E k \in DOMAIN AttrKeys : Becomes(RemoveAttr(h, e, AttrKeys[k]))
    \/ Becomes(SortAttrs(h, e))

\* The breaks that indent adds: before and behind what is not text.
Breaks(g) ==
    LET Solid(e) == SelectSeq(g.child[e], LAMBDA t : ~IsChar(t))
        Kept(e) == SelectSeq(g.child[e], LAMBDA t : ~(IsChar(t) /\ g.white[t]))
        Of(e) == IF Kept(e) = <<>> THEN 0
                 ELSE (IF e = Doc /\ Solid(e) # <<>> THEN Len(Solid(e)) - 1 ELSE Len(Solid(e)))
                      + (IF IsChar(Last(Kept(e))) THEN 0 ELSE 1)
    IN  FoldSet(LAMBDA e, n : n + Of(e), 0, Inside(g, Doc) \cap Elements)

\* Bound: there are cells for them.
CanIndent(g) == Breaks(g) <= Cardinality(FreeChars(g))

IndentTheTree == \E spaces \in {-1, 1} : CanIndent(h) /\ Becomes(Indent(h, spaces))

CopyAnElement == \E e \in LiveElems \ {Doc} :
    /\ Cardinality(Inside(h, e) \cap CharCells) <= Cardinality(FreeChars(h))
    /\ Cardinality(Inside(h, e) \cap Others) <= Cardinality(Others \ h.live)
    /\ \A n \in Inside(h, e) \cap Elems :
          Cardinality({m \in Inside(h, e) \cap Elems : TagOf[m] = TagOf[n]}) <= Cardinality(SameTag(h, n))
    /\ Becomes(Copy(h, e))

\* A caller gives up a token it holds outside the document.
ForgetAToken == \E t \in LiveTokens : h.parent[t] = Nil /\ Becomes(Keep(h, h.live \ Inside(h, t)))

ReadADocument == \E s \in Inputs : Fits(h, s) /\ Becomes(readFrom(h, s).g)

XmlNext ==
    \/ NewElement \/ NewOther \/ NewCharData \/ AddAToken \/ InsertAToken \/ InsertATokenAt
    \/ RemoveAToken \/ SetARoot \/ SetAText \/ SetATail \/ SetSomeData \/ ChangeAttrs
    \/ IndentTheTree \/ CopyAnElement \/ ForgetAToken \/ ReadADocument

-----------------------------------------------------------------------------
(* Properties.                                                             *)

Whole(g) ==
    /\ \A e \in g.live \cap Elements : \A i \in DOMAIN g.child[e] :
          LET t == g.child[e][i] IN t \in g.live /\ g.parent[t] = e /\ g.index[t] = i - 1
    /\ \A e \in g.live \cap Elements : \A i, j \in DOMAIN g.attr[e] :
          g.attr[e][i].name = g.attr[e][j].name => i = j

\* The two sides of the tree agree after any sequence of calls: every child of
\* an element names that element as its parent and its own place among the
\* children as its index, so that no token is in two places; and no element has
\* two attributes of one name (goxml.go: Child, parent and index, createAttr).
TreeWhole == Whole(h)

RECURSIVE Contents(_, _)
\* What a document says: adjacent text in one piece, whether it is CDATA or not.
Contents(g, e) ==
    LET One(k, tag, attr, in) == [kind |-> k, tag |-> tag, attr |-> attr, in |-> in]
        Next1(c, t) ==
            CASE t \in Others -> Append(c, One("other", "", <<>>, <<>>))
              [] t \in Elems -> Append(c, One("element", TagOf[t], g.attr[t], Contents(g, t)))
              [] IsChar(t) -> IF c # <<>> /\ Last(c).kind = "text" THEN [c EXCEPT ![Len(c)].in = @ \o g.text[t]]
                              ELSE Append(c, One("text", "", <<>>, g.text[t]))
    IN  FoldLeft(Next1, <<>>, g.child[e])

WriteSettings == [CanonicalEndTags : BOOLEAN, CanonicalText : BOOLEAN, CanonicalAttrVal : BOOLEAN]

\* What is written is read back: for every setting of the writer, the document
\* that WriteTo produces from the tree is accepted by ReadFrom, which builds a
\* sound tree with the same elements, attributes and text in the same order.
ReadsBack ==
    \A ws \in WriteSettings :
        LET r == readFrom(EmptyHeap, WriteTo(h, ws))
        IN  ~r.err /\ Whole(r.g) /\ Contents(r.g, Doc) = Contents(h, Doc)

RECURSIVE Bare(_, _)
\* The contents without the character data that is marked as white space.
Bare(g, e) ==
    LET c == SelectSeq(g.child[e], LAMBDA t : ~(IsChar(t) /\ g.white[t]))
    IN  [i \in DOMAIN c |-> IF c[i] \in Elems THEN <<c[i], Bare(g, c[i])>> ELSE <<c[i], <<>>>>]

\* Indentation is only indentation: indenting a document changes nothing but
\* text that is marked as white space, keeps the tree sound, and a second time
\* gives the same document, however the indentation before was (indent,
\* stripIndent).
IndentStable ==
    \A a, b \in {-1, 1} : CanIndent(h) =>
        LET once == Collect(Indent(h, a))
            other == Collect(Indent(h, b))
            twice == Collect(Indent(other, a))
        IN  /\ Whole(once) /\ Bare(once, Doc) = Bare(h, Doc)
            /\ CanIndent(other) => Contents(twice, Doc) = Contents(once, Doc)

TextAt(g, e, i) ==
    FlattenSeq([k \in 1..(findTermCharDataIndex(g, e, i) - i) |-> g.text[g.child[e][i + k]]])
OwnText(g, e) == TextAt(g, e, 0)
TailText(g, e) == IF g.parent[e] = Nil THEN <<>> ELSE TextAt(g, g.parent[e], g.index[e] + 1)

\* SetText and SetTail set what Text and Tail return, and change no other text:
\* whatever runs of character data there were before, the text is read back, and
\* the texts and tails of the elements elsewhere are what they were (replaceText).
TextIsSet ==
    CanAddText =>
      \A e \in LiveElems, s \in Texts \cup {<<>>} :
        /\ LET g == replaceText(h, e, 0, s, FALSE)
           IN  /\ OwnText(g, e) = s
               /\ \A x \in LiveElems \ {e} : OwnText(g, x) = OwnText(h, x)
               /\ \A x \in LiveElems \ {Doc} : TailText(g, x) = TailText(h, x)
        /\ h.parent[e] # Nil =>
              LET g == replaceText(h, h.parent[e], h.index[e] + 1, s, FALSE)
              IN  /\ TailText(g, e) = s
                  /\ \A x \in LiveElems : OwnText(g, x) = OwnText(h, x)
                  /\ \A x \in LiveElems \ {Doc, e} : TailText(g, x) = TailText(h, x)

\* The tree is sound after any calls, and so are its text, its indentation and
\* what is written of it.
DocumentSound == TreeWhole /\ ReadsBack /\ IndentStable /\ TextIsSet
=============================================================================
