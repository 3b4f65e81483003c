-------------------------------- MODULE Sed --------------------------------
(***************************************************************************)
(* Package gosed: a sed script is lexed by a goroutine, parsed into a      *)
(* stream of instructions, and run by a virtual machine that is an         *)
(* io.Reader: each Read runs instructions until the caller's buffer is     *)
(* full, and keeps what did not fit for the next.                          *)
(*                                                                         *)
(* A script is a sequence of items [addr, neg, tok] (module SedSpec); its  *)
(* tokens are [typ, arg].  Text is a sequence of symbols, one of them NL;  *)
(* a regular expression is the symbol it looks for.  Instructions are      *)
(* counted from 0, as in the code.                                         *)
(***************************************************************************)
EXTENDS SedSpec

CONSTANTS
  Scripts,    \* the scripts: [items, cut], cut when the last token is not complete
  Inputs,     \* the inputs: [lines, fails], fails when reading ends in an error
  Sizes,      \* the sizes of the buffers given to Read
  ChanCap,    \* of the channel between lexer and parser
  MaxRuns     \* bound: how often an engine is used

NoText == <<"none">>

VARIABLES
  script, quiet,          \* what New or NewQuiet is called with
  lexed, taken, making,   \* tokens sent and received; makeEngine: "parse", "wait", "ok", "failed"
  ranges,                 \* the state of the two-address conditions of the engine
  input, vm, reading,     \* the input of Wrap, the machine, and is it in Read?
  result, used,           \* what the reads have returned; runs so far
  stale                   \* (history) a range was on when the input was wrapped

sedVars == <<script, quiet, lexed, taken, making, ranges, input, vm, reading, result, used, stale>>

-----------------------------------------------------------------------------
(* The lexer and the parser.                                               *)

Token(typ) == [typ |-> typ, arg |-> <<>>]
LexItem(i) ==
    (CASE i.addr = <<>> -> <<>> [] Len(i.addr) = 1 -> i.addr [] OTHER -> <<i.addr[1], Token("COMMA"), i.addr[2]>>)
      \o (IF i.neg THEN <<Token("BANG")>> ELSE <<>>) \o <<i.tok, Token("EOL")>>
Lex(s) == FlattenSeq([k \in DOMAIN s.items |-> LexItem(s.items[k])])

Ins(op, arg, met, unmet) == [op |-> op, arg |-> arg, met |-> met, unmet |-> unmet]
Do(op, arg) == Ins(op, arg, 0, 0)
ZeroBranch == Ins("branch", <<>>, 0, 0)
TheEnd == "the end"

Emit(ps, is) == [ps EXCEPT !.ins = @ \o is]
Fail(ps, e) == [ps EXCEPT !.err = e]
More(ps) == ps.pos <= Len(ps.toks)
Tok(ps) == ps.toks[ps.pos]
Taken(ps) == [ps EXCEPT !.pos = @ + 1]

Known == {"=", "D", "G", "H", "N", "P", "d", "g", "h", "n", "p", "q", "x", "a", "i", "c", "s", "y", "w", "b", "t"}

\* compile_cmd: n and q print first, unless quiet; a branch is filled in when
\* all labels are known.  A letter that is not Known stands also for a command
\* whose argument is refused (a regular expression, a flag, a file to read).
CompileCmd(ps, tok) ==
    LET l == tok.arg[1]
    IN  CASE l \notin Known -> Fail(ps, "Unknown command")
          [] l \in {"b", "t"} ->
               Emit([ps EXCEPT !.branches = Append(@, [ip |-> Len(ps.ins), label |-> tok.arg[2], letter |-> l])],
                    <<ZeroBranch>>)
          [] l = "d" -> Emit(ps, <<ZeroBranch>>)
          [] l \in {"n", "q"} -> Emit(ps, (IF ps.quiet THEN <<>> ELSE <<Do("p", <<>>)>>) \o <<Do(l, <<>>)>>)
          [] OTHER -> Emit(ps, <<Do(l, Tail(tok.arg))>>)

CompileLabel(ps, tok) ==
    [ps EXCEPT !.labels = [l \in DOMAIN @ \cup {tok.arg[1]} |-> IF l = tok.arg[1] THEN Len(ps.ins) ELSE @[l]]]

RECURSIVE ParseToplevel(_)

CompileBlock(ps, tok) ==
    CASE tok.typ = "LBRACE" -> ParseToplevel([ps EXCEPT !.level = @ + 1])
      [] tok.typ \in {"CMD", "CHANGE"} -> CompileCmd(ps, tok)
      [] OTHER -> Fail(ps, "Unexpected token at start of block")

\* The instruction of a condition jumps to the block that follows it or over
\* it, which is known when the block has been compiled.
Guarded(ps, op, c, invert) ==
    IF ~More(ps) THEN Fail(ps, "Unexpected end of script")
    ELSE LET here == Len(ps.ins)
             done == CompileBlock(Emit(Taken(ps), <<ZeroBranch>>), Tok(ps))
         IN  [done EXCEPT !.ins[here + 1] = IF invert THEN Ins(op, c, Len(done.ins), here + 1)
                                                    ELSE Ins(op, c, here + 1, Len(done.ins))]

\* A change under a range has to know when the range ends.
CompileChange(ps, c) ==
    LET here == Len(ps.ins)
    IN  Emit(Taken(ps), <<Ins("range", c, here + 1, here + 2), Ins("c", Tail(Tok(ps).arg), here, 0)>>)

Addresses == {"NUM", "DOLLAR", "RX"}   \* a refused number or expression is a "BAD" token

CompileTwoCond(ps, c) ==
    IF ~More(ps) THEN Fail(ps, "Unexpected end of script")
    ELSE IF Tok(ps).typ \notin Addresses THEN Fail(ps, "Expected a second condition after comma")
    ELSE LET both == <<c, Tok(ps)>>  rest == Taken(ps)
         IN  IF ~More(rest) THEN Fail(rest, "Unexpected end of script")
             ELSE CASE Tok(rest).typ = "BANG" -> Guarded(Taken(rest), "range", both, TRUE)
                    [] Tok(rest).typ = "CHANGE" -> CompileChange(rest, both)
                    [] OTHER -> Guarded(rest, "range", both, FALSE)

CompileCond(ps, c) ==
    IF ~More(ps) THEN Fail(ps, "Unexpected end of script")
    ELSE CASE Tok(ps).typ = "COMMA" -> CompileTwoCond(Taken(ps), c)
           [] Tok(ps).typ = "BANG" -> Guarded(Taken(ps), "cond", <<c>>, TRUE)
           [] OTHER -> Guarded(ps, "cond", <<c>>, FALSE)

\* A change without an address is not expected here.
ParseToplevel(ps) ==
    IF ~More(ps) \/ ps.err # "" THEN ps
    ELSE LET tok == Tok(ps)  rest == Taken(ps)
         IN  CASE tok.typ = "RBRACE" -> [rest EXCEPT !.level = @ - 1, !.err = IF ps.level = 0 THEN "Unexpected brace" ELSE ""]
               [] tok.typ = "CMD" -> ParseToplevel(CompileCmd(rest, tok))
               [] tok.typ = "LABEL" -> ParseToplevel(CompileLabel(rest, tok))
               [] tok.typ \in Addresses -> ParseToplevel(CompileCond(rest, tok))
               [] tok.typ = "EOL" -> ParseToplevel(rest)
               [] OTHER -> Fail(rest, "Unexpected token")

ResolveBranches(ps) ==
    LET Branch(b) == Ins(IF b.letter = "b" THEN "branch" ELSE "changed", <<>>, ps.labels[b.label], 0)
        At(ip) == {b \in Range(ps.branches) : b.ip = ip}
    IN  IF \E b \in Range(ps.branches) : b.label \notin DOMAIN ps.labels THEN Fail(ps, "unknown label")
        ELSE [ps EXCEPT !.ins = [k \in 1..Len(@) |-> IF At(k - 1) = {} THEN @[k] ELSE Branch(CHOOSE b \in At(k - 1) : TRUE)]]

Parse(toks, q) ==
    LET start == [toks |-> toks, pos |-> 1, quiet |-> q, ins |-> <<Do("fill", <<>>)>>, branches |-> <<>>,
                  labels |-> [l \in {} |-> 0], level |-> 0, err |-> ""]
        body == ParseToplevel(start)
        ended == CompileLabel(body, [typ |-> "LABEL", arg |-> <<TheEnd>>])
    IN  IF body.err # "" THEN body
        ELSE IF body.level > 0 THEN Fail(body, "missing a closing brace")
        ELSE ResolveBranches(Emit(ended, (IF q THEN <<>> ELSE <<Do("p", <<>>)>>) \o <<ZeroBranch>>))

Compiled == [s \in Scripts, q \in BOOLEAN |-> Parse(Lex(s), q)]
Program == Compiled[script, quiet]

-----------------------------------------------------------------------------
(* The instructions.                                                       *)

Idle == [ip |-> 0, pat |-> <<>>, hold |-> <<>>, appl |-> NoText, overflow |-> <<>>, nxtl |-> <<>>, lines |-> <<>>,
         fails |-> FALSE, lastl |-> FALSE, lineno |-> -1, modified |-> FALSE, out |-> <<>>, room |-> 0, err |-> "nil", file |-> <<>>]

\* Mutant: what did not fit replaces what has not fitted earlier.
WriteStringAssigns(v, s) ==
    IF v.room < Len(s)
      THEN [v EXCEPT !.out = @ \o SubSeq(s, 1, v.room), !.overflow = SubSeq(s, v.room + 1, Len(s)),
                     !.room = 0, !.err = "full"]
      ELSE [v EXCEPT !.out = @ \o s, !.room = @ - Len(s), !.err = "nil"]

WriteString(v, s) ==
    IF v.room < Len(s)
      THEN [v EXCEPT !.out = @ \o SubSeq(s, 1, v.room), !.overflow = @ \o SubSeq(s, v.room + 1, Len(s)),
                     !.room = 0, !.err = "full"]
      ELSE [v EXCEPT !.out = @ \o s, !.room = @ - Len(s), !.err = "nil"]
Next1(v) == [v EXCEPT !.ip = @ + 1]
PrintText(v, s) == WriteString(WriteString(Next1(v), s), <<NL>>)

\* cmd_fillNext: appended text first; then the next line becomes the pattern
\* space and the line after it is read, which may fail.
FillNext(v) ==
    LET w == IF v.appl = NoText THEN [v EXCEPT !.err = "nil"] ELSE [WriteString(v, v.appl) EXCEPT !.appl = NoText]
    IN  IF w.err # "nil" THEN w
        ELSE IF w.lastl THEN [w EXCEPT !.err = "EOF"]
        ELSE [Next1(w) EXCEPT !.pat = w.nxtl, !.lineno = @ + 1, !.modified = FALSE,
                              !.nxtl = IF w.lines = <<>> THEN <<>> ELSE w.lines[1],
                              !.lines = IF @ = <<>> THEN @ ELSE Tail(@),
                              !.lastl = (w.lines = <<>> /\ ~w.fails),
                              !.err = IF w.lines = <<>> /\ w.fails THEN "failed" ELSE "nil"]

FillNextAppend(v) == LET w == FillNext(v) IN [w EXCEPT !.pat = Line(v.pat) \o w.pat]

DeleteFirstLine(v) ==
    IF NL \in Range(v.pat) THEN [v EXCEPT !.pat = SubSeq(@, Len(FirstLine(@)) + 2, Len(@)), !.ip = 1]
                           ELSE [v EXCEPT !.pat = <<>>, !.ip = 0]

\* substitute.run: the matches from number which (counted from 0) on, one or,
\* with g, all of them; each is one symbol and is replaced by one.
Matches(s, x) == {k \in 1..Len(s) : s[k] = x}
Substitute(v, a) ==
    LET Nth(k) == Cardinality({j \in Matches(v.pat, a.rx) : j < k})
        hit == {k \in Matches(v.pat, a.rx) : IF a.g THEN Nth(k) >= a.which ELSE Nth(k) = a.which}
        w == [Next1(v) EXCEPT !.pat = [k \in 1..Len(@) |-> IF k \in hit THEN a.repl ELSE @[k]], !.modified = TRUE]
    IN  IF hit = {} THEN Next1(v)
        ELSE IF a.p THEN [PrintText(w, w.pat) EXCEPT !.ip = w.ip] ELSE w

IsMet(c, v) ==
    CASE c.typ = "NUM" -> v.lineno = c.arg[1] [] c.typ = "DOLLAR" -> v.lastl [] c.typ = "RX" -> c.arg[1] \in Range(v.pat)

\* cmd_twocond.run on the range's own state, which belongs to the engine.
RangeRun(r, c, v) ==
    LET s == IF r.isOn /\ r.offFrom > 0 /\ r.offFrom < v.lineno THEN [isOn |-> FALSE, offFrom |-> 0] ELSE r
    IN  IF ~s.isOn THEN [s EXCEPT !.isOn = IsMet(c[1], v)]
        ELSE IF IsMet(c[2], v) THEN [s EXCEPT !.offFrom = v.lineno] ELSE s

\* The change of a single address has no guard (met is 0); the change of a
\* range writes on its last line.
Change(v, i, rs) ==
    LET w == [v EXCEPT !.ip = 0]
    IN  IF i.met = 0 \/ (rs[i.met].isOn /\ rs[i.met].offFrom = v.lineno) THEN WriteString(w, i.arg[1]) ELSE w

SimpleCond(v, i) == [v EXCEPT !.ip = IF IsMet(i.arg[1], v) THEN i.met ELSE i.unmet]
AppendText(v, t) == [Next1(v) EXCEPT !.appl = IF @ = NoText THEN t ELSE @ \o t]
InsertText(v, t) == WriteString(Next1(v), t)
WriteFile(v) == [Next1(v) EXCEPT !.file = @ \o Line(v.pat)]
Translate(v, map) == [Next1(v) EXCEPT !.pat = [k \in 1..Len(@) |-> IF @[k] \in DOMAIN map THEN map[@[k]] ELSE @[k]]]

Exec(v, i, rs) ==
    CASE i.op = "fill" \/ i.op = "n" -> FillNext(v)
      [] i.op = "N" -> FillNextAppend(v)
      [] i.op = "p" -> PrintText(v, v.pat)
      [] i.op = "P" -> PrintText(v, FirstLine(v.pat))
      [] i.op = "D" -> DeleteFirstLine(v)
      [] i.op = "=" -> WriteString(Next1(v), <<ToString(v.lineno), NL>>)
      [] i.op = "x" -> [Next1(v) EXCEPT !.pat = v.hold, !.hold = v.pat]
      [] i.op = "g" -> [Next1(v) EXCEPT !.pat = v.hold]
      [] i.op = "h" -> [Next1(v) EXCEPT !.hold = v.pat]
      [] i.op = "G" -> [Next1(v) EXCEPT !.pat = Line(@) \o v.hold]
      [] i.op = "H" -> [Next1(v) EXCEPT !.hold = Line(@) \o v.pat]
      [] i.op = "branch" -> [v EXCEPT !.ip = i.met]
      [] i.op = "changed" -> IF v.modified THEN [v EXCEPT !.ip = i.met, !.modified = FALSE] ELSE Next1(v)
      [] i.op = "cond" -> SimpleCond(v, i)
      [] i.op = "range" -> [v EXCEPT !.ip = IF rs[v.ip].isOn THEN i.met ELSE i.unmet]
      [] i.op = "c" -> Change(v, i, rs)
      [] i.op = "a" -> AppendText(v, i.arg[1])
      [] i.op = "i" -> InsertText(v, i.arg[1])
      [] i.op = "s" -> Substitute(v, i.arg[1])
      [] i.op = "y" -> Translate(v, i.arg[1])
      [] i.op = "w" -> WriteFile(v)
      [] i.op = "q" -> [v EXCEPT !.err = "EOF"]

-----------------------------------------------------------------------------
(* makeEngine: the lexer sends tokens and closes errch, then the channel;  *)
(* the parser stops receiving at the first error, and errch is waited for. *)

SedTokens == Lex(script)

SedInit ==
    /\ script \in Scripts /\ quiet \in BOOLEAN
    /\ lexed = 0 /\ taken = 0 /\ making = "parse"
    /\ ranges = [k \in DOMAIN Program.ins |-> [isOn |-> FALSE, offFrom |-> 0]]
    /\ input = [lines |-> <<>>, fails |-> FALSE] /\ vm = Idle /\ reading = FALSE /\ result = <<>> /\ used = 0 /\ stale = FALSE

SedRest == UNCHANGED <<script, quiet, ranges, input, vm, reading, result, used, stale>>

LexSends ==
    /\ lexed < Len(SedTokens) /\ lexed - taken < ChanCap
    /\ lexed' = lexed + 1
    /\ UNCHANGED <<taken, making>> /\ SedRest

ParserTakes ==
    /\ making = "parse" /\ taken < Program.pos - 1 /\ taken < lexed
    /\ taken' = taken + 1
    /\ UNCHANGED <<lexed, making>> /\ SedRest

\* The parser has stopped at an error, or it has received everything.
ParseReturns ==
    /\ making = "parse" /\ taken = Program.pos - 1
    /\ making' = "wait"
    /\ UNCHANGED <<lexed, taken>> /\ SedRest

MakeEngineReturns ==
    /\ making = "wait" /\ lexed = Len(SedTokens)
    /\ making' = IF script.cut \/ Program.err # "" THEN "failed" ELSE "ok"
    /\ UNCHANGED <<lexed, taken>> /\ SedRest

-----------------------------------------------------------------------------
(* The reader that Wrap returns.                                           *)

SedOver == vm.err \in {"EOF", "failed"} /\ ~reading
InUse == used > 0 /\ ~SedOver

\* An engine is used again when the reader before has come to its end.
Wrap(in) ==
    /\ making = "ok" /\ ~InUse /\ used < MaxRuns
    /\ input' = in /\ used' = used + 1 /\ result' = <<>>
    /\ vm' = [Idle EXCEPT !.lines = in.lines, !.fails = in.fails]
    /\ stale' = \E k \in DOMAIN ranges : ranges[k].isOn
    /\ UNCHANGED <<script, quiet, lexed, taken, making, ranges, reading>>

Read(n) ==
    /\ InUse /\ ~reading
    /\ LET v == [vm EXCEPT !.out = <<>>, !.room = n, !.err = "nil"]
       IN  vm' = CASE v.lineno = -1 -> [FillNext(v) EXCEPT !.ip = 0]
                   [] v.lineno # -1 /\ v.overflow # <<>> -> WriteString([v EXCEPT !.overflow = <<>>], v.overflow)
                   [] OTHER -> v
    /\ reading' = TRUE
    /\ UNCHANGED <<script, quiet, lexed, taken, making, ranges, input, result, used, stale>>

\* One instruction.
Step ==
    /\ reading /\ vm.err = "nil"
    /\ LET i == Program.ins[vm.ip + 1]
       IN  /\ ranges' = IF i.op = "range" THEN [ranges EXCEPT ![vm.ip] = RangeRun(@, i.arg, vm)] ELSE ranges
           /\ vm' = Exec(vm, i, ranges')
    /\ UNCHANGED <<script, quiet, lexed, taken, making, input, reading, result, used, stale>>

\* Mutant: the end of the input is never an error.
ReadReturnsNil ==
    /\ reading /\ vm.err # "nil"
    /\ reading' = FALSE /\ result' = result \o vm.out
    /\ vm' = [vm EXCEPT !.out = <<>>, !.room = 0, !.err = IF @ \in {"full", "EOF"} THEN "nil" ELSE @]
    /\ UNCHANGED <<script, quiet, lexed, taken, making, ranges, input, used, stale>>

\* A full buffer is no error; the end of the input is one only to a Read that
\* returns nothing.
ReadReturns ==
    /\ reading /\ vm.err # "nil"
    /\ reading' = FALSE /\ result' = result \o vm.out
    /\ vm' = [vm EXCEPT !.out = <<>>, !.room = 0, !.err = IF @ = "full" \/ (@ = "EOF" /\ vm.out # <<>>) THEN "nil" ELSE @]
    /\ UNCHANGED <<script, quiet, lexed, taken, making, ranges, input, used, stale>>

SedNext ==
    \/ LexSends \/ ParserTakes \/ ParseReturns \/ MakeEngineReturns
    \/ \E in \in Inputs : Wrap(in)
    \/ \E n \in Sizes : Read(n)
    \/ Step \/ ReadReturns

\* The goroutines run; a reader that is in use is read to its end (io.Copy).
SedFairness ==
    /\ WF_sedVars(LexSends) /\ WF_sedVars(ParserTakes) /\ WF_sedVars(ParseReturns) /\ WF_sedVars(MakeEngineReturns)
    /\ WF_sedVars(\E n \in Sizes : Read(n)) /\ WF_sedVars(Step) /\ WF_sedVars(ReadReturns)

-----------------------------------------------------------------------------
(* Properties.                                                             *)

Expected == [s \in {t \in Scripts : Compiled[t, FALSE].err = "" /\ ~t.cut /\ Portable(t.items)}, q \in BOOLEAN, in \in Inputs |->
              RefOutput(s.items, q, in.lines)]

(* However the caller sizes its buffers, the bytes the reads have returned *)
(* (engine.go:94-121) are a prefix of what the script does to the input by *)
(* the reference, and all of it when the last Read has said EOF.  Said of  *)
(* engines whose ranges were off when the input was wrapped.               *)
SedOutput ==
    used > 0 /\ Portable(script.items) /\ ~stale =>
       LET all == Expected[script, quiet, input]
       IN  IsPrefix(result, all) /\ (SedOver /\ ~input.fails => result = all)

(* A reader that is read on comes to its end, although the instruction     *)
(* that ends it is run again by each Read after it (engine.go:110).        *)
SedEnds == (used > 0) ~> SedOver

(* New returns, with an engine or with the error (engine.go:67-70: "If the *)
(* provided program has any errors, the returned engine will be 'nil' and  *)
(* the error will be returned").                                           *)
NewReturns == <>(making \in {"ok", "failed"})
=============================================================================
