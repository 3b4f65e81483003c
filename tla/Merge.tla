-------------------------------- MODULE Merge -------------------------------
(***************************************************************************)
(* Package smerge: Merge and Map copy what a source document says into a   *)
(* destination, a struct or a map[string]interface{}, down through the     *)
(* maps they hold.  Maps are shared by reference, so the model has a heap. *)
(*                                                                         *)
(* A value is the nil interface, a string (0 stands for the empty one), a  *)
(* slice with its element type, or a map: an address of the heap, 0 for    *)
(* the nil map.  The struct is                                             *)
(*   struct { A string; I interface{}; L []string; M map[string]any; u ... }*)
(***************************************************************************)
EXTENDS Integers, SequencesExt, FiniteSets

CONSTANTS
  Worlds,     \* what there is at first: [heap, docs]; docs are named "d", "s" and "t"
  Options,    \* sets of options of a call
  MaxCalls

VARIABLES
  heap,       \* the maps: functions from keys to values
  docs,       \* name -> [kind |-> "map", v |-> a map] or [kind |-> "struct", v |-> fields]
  last,       \* the last call, the heap and the documents before it, its error
  calls

mergeVars == <<heap, docs, last, calls>>

NilValue == [k |-> "nil"]
Str(n) == [k |-> "str", v |-> n]
Slice(t, s) == [k |-> "slice", t |-> t, s |-> s]
MapAt(id) == [k |-> "map", id |-> id]

Fields == <<"A", "I", "L", "M", "u">>
changeInitialCase == [a |-> "A", i |-> "I", l |-> "L", m |-> "M", u |-> "U", z |-> "Z"]
LowerCase == [A |-> "a", I |-> "i", L |-> "l", M |-> "m", u |-> "u"]
isExported(f) == f # "u"

isEmptyValue(h, v) ==
    \/ v.k = "nil"
    \/ v.k = "str" /\ v.v = 0
    \/ v.k = "slice" /\ v.s = <<>>
    \/ v.k = "map" /\ (v.id = 0 \/ (v.id # 0 /\ DOMAIN h[v.id] = {}))

SameType(v, w) == v.k = w.k /\ (v.k = "slice" => v.t = w.t)

\* The options of a call and the flags of the Config that they set.
Flags == [WithOverride |-> {"Overwrite"}, WithAppendSlice |-> {"AppendSlice"}, WithTypeCheck |-> {"TypeCheck"},
          WithOverwriteWithEmptyValue |-> {"Overwrite", "overwriteWithEmptyValue"},
          WithOverrideEmptySlice |-> {"overwriteSliceWithEmptyValue"},
          WithSliceDeepCopy |-> {"Overwrite", "sliceDeepCopy"}]
Config(opts) == UNION {Flags[o] : o \in opts}

\* The result of a step: the heap, the value now at the destination, an error.
Done(h, v) == {[h |-> h, v |-> v, err |-> ""]}
Stops(h, v, e) == {[h |-> h, v |-> v, err |-> e]}
SetKey(h, id, key, v) == [h EXCEPT ![id] = [x \in DOMAIN @ \cup {key} |-> IF x = key THEN v ELSE @[x]]]

-----------------------------------------------------------------------------
(* deepMerge.  The order in which the keys of a map come is arbitrary, so  *)
(* the result is a set.                                                    *)

RECURSIVE MergeMap(_, _, _, _, _)
RECURSIVE MergeKeys(_, _, _, _, _)

\* A destination that cannot be set (what an interface or a map holds) is
\* changed only if it is a map.
MergeHeld(h, dst, src, c) == IF dst.k = "map" /\ src.k = "map" THEN MergeMap(h, dst, src, FALSE, c) ELSE Done(h, dst)

\* The elements that both slices have, one after the other.
RECURSIVE MergeElements(_, _, _, _)
MergeElements(h, dst, src, c) ==
    IF dst = <<>> \/ src = <<>> THEN Done(h, NilValue)
    ELSE UNION {IF r.err # "" THEN {r} ELSE MergeElements(r.h, Tail(dst), Tail(src), c) : r \in MergeHeld(h, dst[1], src[1], c)}

\* WithSliceDeepCopy; reflect panics if the destination is a map with keys.
DeepCopy(h, dst, src, c) ==
    IF dst.k = "slice" THEN MergeElements(h, dst.s, src.s, c)
    ELSE IF dst.k = "map" /\ ~isEmptyValue(h, dst) THEN Stops(h, dst, "panic") ELSE Done(h, dst)

\* A slice of the source's map: v is what the key holds afterwards.
MergeSliceKey(h, id, old, src, c) ==
    LET dst == IF old.k = "nil" THEN Slice(src.t, <<>>) ELSE old
    IN  IF ("Overwrite" \in c \/ DOMAIN h[id] = {}) /\ c \cap {"AppendSlice", "sliceDeepCopy"} = {}
        THEN IF "TypeCheck" \in c /\ ~SameType(src, dst) THEN Stops(h, dst, "override") ELSE Done(h, src)
        ELSE IF "AppendSlice" \in c
        THEN IF ~SameType(src, dst) THEN Stops(h, dst, "append") ELSE Done(h, Slice(dst.t, dst.s \o src.s))
        ELSE IF "sliceDeepCopy" \in c
        THEN {[r EXCEPT !.v = dst] : r \in DeepCopy(h, dst, src, c)}
        ELSE Done(h, dst)

\* Mutant: a map that the destination already has is replaced, not merged.
KeepsMergedNot(h, old, src) == FALSE

\* A map or slice has been merged into the non-empty one that was there.
KeepsMerged(h, old, src) == ~isEmptyValue(h, old) /\ src.k \in {"map", "slice"}

\* The end of a round: the element itself is set.
SetElement(h, id, key, has, old, src, c) ==
    IF has /\ KeepsMerged(h, old, src) THEN h
    ELSE IF "Overwrite" \in c \/ ~has \/ isEmptyValue(h, old) THEN SetKey(h, id, key, src) ELSE h

\* One key of the source.
MergeKey(h, id, sid, key, c) ==
    LET src == h[sid][key]
        has == key \in DOMAIN h[id]
        old == IF has THEN h[id][key] ELSE NilValue
        end(r) == IF r.err # "" THEN r ELSE [r EXCEPT !.h = SetElement(r.h, id, key, has, old, src, c)]
    IN  CASE src.k = "nil" -> Done(IF "Overwrite" \in c THEN SetKey(h, id, key, src) ELSE h, NilValue)
          [] src.k = "map" -> {end(r) : r \in MergeHeld(h, old, src, c)}
          [] src.k = "slice" -> {IF r.err # "" THEN r ELSE end([r EXCEPT !.h = SetKey(r.h, id, key, r.v)]) : r \in MergeSliceKey(h, id, old, src, c)}
          [] OTHER -> {end(r) : r \in Done(h, NilValue)}

MergeKeys(h, id, sid, keys, c) ==
    IF keys = {} THEN Done(h, MapAt(id))
    ELSE UNION {UNION {IF r.err # "" THEN {[r EXCEPT !.v = MapAt(id)]} ELSE MergeKeys(r.h, id, sid, keys \ {key}, c) :
                       r \in MergeKey(h, id, sid, key, c)} : key \in keys}

NewMap(h) == [h |-> Append(h, <<>>), id |-> Len(h) + 1]

MergeMap(h, dst, src, canSet, c) ==
    IF src.id = 0 \/ (dst.id = 0 /\ ~canSet) THEN Done(h, dst)
    ELSE LET n == IF dst.id = 0 THEN NewMap(h) ELSE [h |-> h, id |-> dst.id]
         IN  MergeKeys(n.h, n.id, src.id, DOMAIN h[src.id], c)

\* A slice that can be set: the field L.  reflect panics if the types differ.
MergeSlice(h, dst, src, c) ==
    IF /\ ~isEmptyValue(h, src) \/ c \cap {"overwriteWithEmptyValue", "overwriteSliceWithEmptyValue"} # {}
       /\ "Overwrite" \in c \/ isEmptyValue(h, dst)
       /\ c \cap {"AppendSlice", "sliceDeepCopy"} = {}
    THEN IF SameType(dst, src) THEN Done(h, src) ELSE Stops(h, dst, "panic")
    ELSE IF "AppendSlice" \in c
    THEN IF SameType(dst, src) THEN Done(h, Slice(dst.t, dst.s \o src.s)) ELSE Stops(h, dst, "append")
    ELSE IF "sliceDeepCopy" \in c
    THEN {[r EXCEPT !.v = dst] : r \in MergeElements(h, dst.s, src.s, c)}
    ELSE Done(h, dst)

\* The field I; the source is an interface too or, from deepMap, a value.
MergeInterface(h, dst, src, isInterface, c) ==
    IF src.k = "nil" \/ (~isInterface /\ src.k = "map" /\ src = MapAt(0))
    THEN Done(h, IF "overwriteWithEmptyValue" \in c THEN src ELSE dst)
    ELSE IF dst.k = "nil" \/ "Overwrite" \in c THEN Done(h, src)
    ELSE IF IF isInterface THEN dst.k = src.k ELSE SameType(dst, src)
    THEN {[r EXCEPT !.v = dst] : r \in MergeHeld(h, dst, src, c)}
    ELSE IF isInterface THEN Done(h, dst) ELSE Stops(h, dst, "different types")

mustSet(h, dst, src, c) ==
    (isEmptyValue(h, dst) \/ "Overwrite" \in c) /\ (~isEmptyValue(h, src) \/ "overwriteWithEmptyValue" \in c)

\* A field of a struct, which can be set unless it is not exported.
MergeField(h, f, dst, src, isInterface, c) ==
    CASE f = "A" -> Done(h, IF mustSet(h, dst, src, c) THEN src ELSE dst)
      [] f = "I" -> MergeInterface(h, dst, src, isInterface, c)
      [] f = "L" -> MergeSlice(h, dst, src, c)
      [] f = "M" -> MergeMap(h, dst, src, TRUE, c)
      [] OTHER -> Done(h, dst)

RECURSIVE MergeFields(_, _, _, _, _)
MergeFields(h, dst, src, i, c) ==
    IF i > Len(Fields) THEN Done(h, dst)
    ELSE LET f == Fields[i]
         IN  UNION {LET now == [dst EXCEPT ![f] = r.v]
                    IN  IF r.err # "" THEN {[r EXCEPT !.v = now]} ELSE MergeFields(r.h, now, src, i + 1, c) :
                    r \in MergeField(h, f, dst[f], src[f], TRUE, c)}

deepMerge(h, dst, src, c) ==
    IF dst.kind = "struct" THEN MergeFields(h, dst.v, src.v, 1, c) ELSE MergeMap(h, dst.v, src.v, TRUE, c)

-----------------------------------------------------------------------------
(* deepMap.                                                                *)

\* A struct into a map.
FillMap(h, id, src, c) ==
    LET taken == {f \in Range(Fields) : isExported(f) /\ (LowerCase[f] \notin DOMAIN h[id] \/ "Overwrite" \in c \/ (LowerCase[f] \in DOMAIN h[id] /\ isEmptyValue(h, h[id][LowerCase[f]])))}
    IN  [h EXCEPT ![id] = [key \in DOMAIN @ \cup {LowerCase[f] : f \in taken} |->
                             IF changeInitialCase[key] \in taken THEN src[changeInitialCase[key]] ELSE @[key]]]

KindOf == [A |-> "str", L |-> "slice", M |-> "map"]

\* One key of a map into a struct.
FillField(h, dst, key, src, c) ==
    LET f == changeInitialCase[key]
    IN  IF f \notin DOMAIN dst \/ src.k = "nil" THEN Done(h, dst)
        ELSE {[r EXCEPT !.v = [dst EXCEPT ![f] = r.v]] :
                r \in IF f = "I" \/ KindOf[f] = src.k THEN MergeField(h, f, dst[f], src, FALSE, c \cup {"overwriteWithEmptyValue"})
                      ELSE IF src.k = "map" THEN Done(h, dst[f]) ELSE Stops(h, dst[f], "type mismatch")}

RECURSIVE FillFields(_, _, _, _, _)
FillFields(h, dst, sid, keys, c) ==
    IF keys = {} THEN Done(h, dst)
    ELSE UNION {UNION {IF r.err # "" THEN {r} ELSE FillFields(r.h, r.v, sid, keys \ {key}, c) :
                       r \in FillField(h, dst, key, h[sid][key], c)} : key \in keys}

deepMap(h, dst, src, c) ==
    IF dst.kind = "map" THEN Done(FillMap(h, dst.v.id, src.v, c), dst.v)
    ELSE FillFields(h, dst.v, src.v.id, DOMAIN h[src.v.id], c)

-----------------------------------------------------------------------------
(* The calls.                                                              *)

merge(h, dst, src, c) ==
    IF dst.kind # src.kind THEN Stops(h, dst.v, "different types") ELSE deepMerge(h, dst, src, c)
_map(h, dst, src, c) == IF dst.kind = src.kind THEN deepMerge(h, dst, src, c) ELSE deepMap(h, dst, src, c)
Outcomes(op, h, dst, src, c) == IF op = "Merge" THEN merge(h, dst, src, c) ELSE _map(h, dst, src, c)

Call(op, d, s, opts) ==
    /\ calls < MaxCalls /\ calls' = calls + 1
    /\ \E r \in Outcomes(op, heap, docs[d], docs[s], Config(opts)) :
        /\ heap' = r.h
        /\ docs' = [docs EXCEPT ![d].v = r.v]
        /\ last' = [op |-> op, d |-> d, s |-> s, c |-> Config(opts), heap |-> heap, docs |-> docs, err |-> r.err]

MergeInit ==
    /\ \E w \in Worlds : heap = w.heap /\ docs = w.docs /\ last = [d |-> "", heap |-> w.heap, docs |-> w.docs, err |-> ""]
    /\ calls = 0

MergeNext == \E op \in {"Merge", "Map"}, d, s \in DOMAIN docs, opts \in Options : d # s /\ Call(op, d, s, opts)

-----------------------------------------------------------------------------
(* Properties.  They look at documents by value: a tree of keys.           *)

RECURSIVE Unfold(_, _)
Unfold(h, v) ==
    CASE v.k = "map" -> [k |-> "map", f |-> IF v.id = 0 THEN <<>> ELSE [key \in DOMAIN h[v.id] |-> Unfold(h, h[v.id][key])]]
      [] v.k = "slice" -> [v EXCEPT !.s = [i \in DOMAIN @ |-> Unfold(h, @[i])]]
      [] OTHER -> v

\* A struct is seen as the map of its exported fields.
View(h, doc) ==
    IF doc.kind = "map" THEN Unfold(h, doc.v)
    ELSE [k |-> "map", f |-> [key \in {"a", "i", "l", "m"} |-> Unfold(h, doc.v[changeInitialCase[key]])]]

At(t, key) == IF key \in DOMAIN t.f THEN t.f[key] ELSE NilValue
Empty(t) == t = NilValue \/ (t.k = "str" /\ t.v = 0) \/ (t.k = "slice" /\ t.s = <<>>) \/ (t.k = "map" /\ DOMAIN t.f = {})

\* Nothing of a document is lost by filling it in; a slice may have grown.
RECURSIVE Kept(_, _)
Kept(before, after) ==
    CASE Empty(before) -> TRUE
      [] before.k = "map" -> after.k = "map" /\ \A key \in DOMAIN before.f : Kept(before.f[key], At(after, key))
      [] before.k = "slice" -> after.k = "slice" /\ IsPrefix(before.s, after.s)
      [] OTHER -> after = before

\* What the source says is there where the destination said nothing or, with
\* WithOverride, something else, but a value that is not a map gives no way
\* to one.
RECURSIVE Taken(_, _, _, _)
Taken(source, before, after, c) ==
    \A key \in DOMAIN source.f :
        LET s == source.f[key]
            b == At(before, key)
        IN  CASE Empty(s) -> TRUE
              [] Empty(b) -> At(after, key) = s
              [] s.k = "map" /\ b.k = "map" -> Taken(s, b, At(after, key), c)
              [] s.k = "map" -> TRUE
              [] OTHER -> "Overwrite" \in c => At(after, key) = s

\* What only the destination says stays.
RECURSIVE RestKept(_, _, _)
RestKept(source, before, after) ==
    \A key \in DOMAIN before.f :
        /\ key \notin DOMAIN source.f => At(after, key) = before.f[key]
        /\ before.f[key].k = "map" /\ At(source, key).k = "map" => RestKept(source.f[key], before.f[key], At(after, key))

RECURSIVE Reached(_, _)
Reached(h, v) ==
    CASE v.k = "map" /\ v.id # 0 -> {v.id} \cup UNION {Reached(h, h[v.id][key]) : key \in DOMAIN h[v.id]}
      [] v.k = "slice" -> UNION {Reached(h, v.s[i]) : i \in DOMAIN v.s}
      [] OTHER -> {}
ReachedFrom(h, doc) == IF doc.kind = "map" THEN Reached(h, doc.v) ELSE UNION {Reached(h, doc.v[f]) : f \in DOMAIN doc.v}

\* Whatever was merged before, and so whatever maps the documents share: a call
\* changes no map that is not the destination's own, in particular not the
\* source; the order in which Go iterates over the maps does not show; the same
\* call again, unless it appends, changes nothing; a call that does not override
\* loses nothing of the destination even if it fails; one that succeeds has the
\* destination say what the source says; and what the source does not say, a
\* key of a map or a field of a struct that is empty, stays.
MergeFills ==
    last.d # "" =>
      LET doc == last.docs[last.d]
          source == last.docs[last.s]
          says == View(last.heap, source)
          before == View(last.heap, doc)
          after == View(heap, docs[last.d])
          whole == Outcomes(last.op, last.heap, doc, source, last.c)
          again == Outcomes(last.op, heap, docs[last.d], docs[last.s], last.c)
          seen(r) == View(r.h, [docs[last.d] EXCEPT !.v = r.v])
      IN  /\ \A id \in DOMAIN last.heap \ ReachedFrom(last.heap, doc) : heap[id] = last.heap[id]
          /\ "Overwrite" \notin last.c => Kept(before, after)
          /\ \A r \in whole : (r.err = "") = (last.err = "")
          /\ last.err = "" =>
               /\ \A r \in whole : seen(r) = after
               /\ "AppendSlice" \notin last.c => \A r \in again : r.err = "" /\ seen(r) = after
               /\ doc.kind = source.kind /\ last.c \cap {"AppendSlice", "sliceDeepCopy"} = {} => Taken(says, before, after, last.c)
               /\ doc.kind = "map" /\ source.kind = "map" => RestKept(says, before, after)
               /\ doc.kind = "struct" /\ source.kind = "struct" /\ "overwriteWithEmptyValue" \notin last.c =>
                    \A key \in {"a", "l"} : Empty(says.f[key]) => after.f[key] = before.f[key]
====
