------------------------------ MODULE SedSpec ------------------------------
(***************************************************************************)
(* What a sed script does to an input, command by command: the reference   *)
(* for the compiled engine of Sed.  A script is a flat sequence of items   *)
(* [addr, neg, tok], braces included; an item that is not selected is      *)
(* skipped, a brace together with its block.  Nothing is compiled, and the *)
(* output is one sequence that nobody reads piecemeal.                     *)
(***************************************************************************)
EXTENDS Integers, Sequences, SequencesExt, FiniteSets

NL == "\n"
Line(s) == Append(s, NL)
FirstLine(s) == IF NL \in Range(s) THEN SubSeq(s, 1, SelectInSeq(s, LAMBDA x : x = NL) - 1) ELSE s

\* The item after the brace that closes the one at k.
After(p, k) ==
    LET Depth(j) == Cardinality({m \in k..j : p[m].tok.typ = "LBRACE"}) - Cardinality({m \in k..j : p[m].tok.typ = "RBRACE"})
    IN  1 + (CHOOSE j \in k..Len(p) : Depth(j) = 0 /\ \A m \in k..(j - 1) : Depth(m) > 0)
Where(p, label) ==
    IF label = "the end" THEN Len(p) + 1 ELSE CHOOSE k \in DOMAIN p : p[k].tok.typ = "LABEL" /\ p[k].tok.arg[1] = label

Holds(c, r) ==
    CASE c.typ = "NUM" -> r.no = c.arg[1] [] c.typ = "DOLLAR" -> r.lines = <<>> [] c.typ = "RX" -> c.arg[1] \in Range(r.pat)

\* A range is 0 when it is off, -1 when it is on, and else the line it ends on.
RangeNow(a, on, r) ==
    LET ended == on > 0 /\ on < r.no
    IN  IF on = 0 \/ ended THEN (IF Holds(a[1], r) THEN -1 ELSE 0)
        ELSE IF Holds(a[2], r) THEN r.no ELSE on
Selected(item, r, on) ==
    (CASE item.addr = <<>> -> TRUE [] Len(item.addr) = 1 -> Holds(item.addr[1], r) [] OTHER -> on # 0) # item.neg

Replaced(s, a) ==
    LET Nth(k) == Cardinality({j \in 1..k : s[j] = a.rx})
    IN  [k \in DOMAIN s |-> IF s[k] = a.rx /\ (IF a.g THEN Nth(k) > a.which ELSE Nth(k) = a.which + 1) THEN a.repl ELSE s[k]]

Flushed(r) == [r EXCEPT !.out = @ \o r.app, !.app = <<>>]
NextLine(r) == [r EXCEPT !.pat = r.lines[1], !.lines = Tail(@), !.no = @ + 1, !.mod = FALSE]
Emitted(r, s) == [r EXCEPT !.out = @ \o s]

RECURSIVE RefRun(_, _, _)

RefDo(p, q, r, item, on) ==
    LET l == item.tok.arg[1]  a == item.tok.arg[2]
        go == [r EXCEPT !.pc = @ + 1]
        shown == IF q THEN go ELSE Emitted(go, Line(r.pat))
    IN  CASE l = "p" -> RefRun(p, q, Emitted(go, Line(r.pat)))
          [] l = "P" -> RefRun(p, q, Emitted(go, Line(FirstLine(r.pat))))
          [] l = "=" -> RefRun(p, q, Emitted(go, <<ToString(r.no), NL>>))
          [] l = "i" -> RefRun(p, q, Emitted(go, a))
          [] l = "a" -> RefRun(p, q, [go EXCEPT !.app = @ \o a])
          [] l = "d" -> RefRun(p, q, [r EXCEPT !.pc = 0])
          [] l = "D" -> RefRun(p, q, IF NL \in Range(r.pat)
                                       THEN [r EXCEPT !.pat = SubSeq(@, Len(FirstLine(@)) + 2, Len(@)), !.pc = 1]
                                       ELSE [r EXCEPT !.pc = 0])
          [] l = "x" -> RefRun(p, q, [go EXCEPT !.pat = r.hold, !.hold = r.pat])
          [] l = "g" -> RefRun(p, q, [go EXCEPT !.pat = r.hold])
          [] l = "G" -> RefRun(p, q, [go EXCEPT !.pat = Line(@) \o r.hold])
          [] l = "h" -> RefRun(p, q, [go EXCEPT !.hold = r.pat])
          [] l = "H" -> RefRun(p, q, [go EXCEPT !.hold = Line(@) \o r.pat])
          [] l = "n" -> IF r.lines = <<>> THEN Flushed(shown).out ELSE RefRun(p, q, NextLine(Flushed(shown)))
          [] l = "N" -> IF r.lines = <<>> THEN Flushed(r).out
                        ELSE LET m == NextLine(Flushed(go)) IN RefRun(p, q, [m EXCEPT !.pat = Line(r.pat) \o @])
          [] l = "q" -> Flushed(shown).out
          [] l = "b" -> RefRun(p, q, [r EXCEPT !.pc = Where(p, a)])
          [] l = "t" -> RefRun(p, q, IF r.mod THEN [r EXCEPT !.pc = Where(p, a), !.mod = FALSE] ELSE go)
          [] l = "c" -> RefRun(p, q, IF Len(item.addr) = 2 /\ ~item.neg /\ on # r.no
                                       THEN [r EXCEPT !.pc = 0] ELSE [Emitted(r, a) EXCEPT !.pc = 0])
          [] l = "y" -> RefRun(p, q, [go EXCEPT !.pat = [k \in DOMAIN @ |-> IF @[k] \in DOMAIN a THEN a[@[k]] ELSE @[k]]])
          [] l = "s" -> LET new == Replaced(r.pat, a)
                            m == [go EXCEPT !.pat = new, !.mod = TRUE]
                        IN  RefRun(p, q, IF new = r.pat THEN go ELSE IF a.p THEN Emitted(m, Line(new)) ELSE m)
          [] l = "w" -> RefRun(p, q, go)

RefRun(p, q, r) ==
    IF r.pc = 0
      THEN IF r.lines = <<>> THEN Flushed(r).out ELSE RefRun(p, q, [NextLine(Flushed(r)) EXCEPT !.pc = 1])
    ELSE IF r.pc > Len(p)
      THEN RefRun(p, q, [(IF q THEN r ELSE Emitted(r, Line(r.pat))) EXCEPT !.pc = 0])
    ELSE LET item == p[r.pc]
             on == IF Len(item.addr) = 2 THEN RangeNow(item.addr, r.on[r.pc], r) ELSE 0
             s == [r EXCEPT !.on[r.pc] = on]
         IN  CASE item.tok.typ \in {"LABEL", "RBRACE", "EOL"} -> RefRun(p, q, [s EXCEPT !.pc = @ + 1])
               [] ~Selected(item, r, on) -> RefRun(p, q, [s EXCEPT !.pc = IF item.tok.typ = "LBRACE" THEN After(p, @) ELSE @ + 1])
               [] Selected(item, r, on) /\ item.tok.typ = "LBRACE" -> RefRun(p, q, [s EXCEPT !.pc = @ + 1])
               [] OTHER -> RefDo(p, q, s, item, on)

\* The whole output of script p (-n when q) on the given lines.
RefOutput(p, q, lines) ==
    RefRun(p, q, [pc |-> 0, pat |-> <<>>, hold |-> <<>>, lines |-> lines, no |-> 0, mod |-> FALSE, app |-> <<>>,
                  out |-> <<>>, on |-> [k \in DOMAIN p |-> 0]])

\* What the engine does with appended text that is still to be written at an
\* N, a D or a q is its own.
Portable(p) ==
    LET Has(l) == \E k \in DOMAIN p : p[k].tok.typ = "CMD" /\ p[k].tok.arg[1] = l
    IN  Has("a") => ~Has("N") /\ ~Has("D") /\ ~Has("q")
=============================================================================
