------------------------------- MODULE Getopt ------------------------------
(***************************************************************************)
(* Package getopt (github.com/pborman/getopt/v2, kept under sendxmpp): a   *)
(* set of options is declared, and Getopt parses command lines with it,    *)
(* argument by argument and, within an argument, letter by letter; Reset   *)
(* takes the options back.                                                 *)
(*                                                                         *)
(* An argument is a sequence of letters.  A declaration is a record        *)
(* [id, short, long, type, flag, optional, init, choices]: short is "" and *)
(* long <<>> if there is no such name.                                     *)
(***************************************************************************)
EXTENDS Integers, SequencesExt, FiniteSetsExt

CONSTANTS
  Cases,      \* [decls, lines, stop]: options to declare, command lines (without
              \* the name of the program) and the option at which the callback
              \* ends the parsing, or ""
  HelpTexts,  \* help texts, for breakup
  Width       \* and the width they are broken up for

VARIABLES
  cse,        \* chosen among Cases
  opts,       \* the options declared so far
  vals, cnt, isLong,   \* of each option: value, times seen, last name used
  gp,         \* Getopt: where it is, and the Set's args and state
  past,       \* what the finished calls gave
  helpText    \* a help text of a set without options

getVars == <<cse, opts, vals, cnt, isLong, gp, past, helpText>>

-----------------------------------------------------------------------------
(* Values.                                                                 *)

Digits == <<"0", "1", "2", "3", "4", "5", "6", "7", "8", "9">>
IsNumber(s) == s # <<>> /\ \A i \in DOMAIN s : s[i] \in Range(Digits)
DigitOf(c) == (CHOOSE i \in DOMAIN Digits : Digits[i] = c) - 1
ToNumber(s) == FoldLeft(LAMBDA n, c : 10 * n + DigitOf(c), 0, s)
RECURSIVE FormatInt(_)
FormatInt(n) == IF n < 10 THEN <<Digits[n + 1]>> ELSE Append(FormatInt(n \div 10), Digits[(n % 10) + 1])

IndexOf(s, c) == IF \E i \in DOMAIN s : s[i] = c THEN Min({i \in DOMAIN s : s[i] = c}) ELSE 0
After(s, i) == IF i >= Len(s) THEN <<>> ELSE SubSeq(s, i + 1, Len(s))
RECURSIVE Split(_)
Split(s) ==
    LET i == IndexOf(s, ",")
    IN  IF i = 0 THEN <<s>> ELSE <<SubSeq(s, 1, i - 1)>> \o Split(After(s, i))
JoinList(l) == FoldLeft(LAMBDA s, x : IF s = <<>> THEN x ELSE s \o <<",">> \o x, <<>>, l)

Trues == {<<>>, <<"1">>, <<"t">>}
Falses == {<<"0">>, <<"f">>}

Good(v) == [ok |-> TRUE, v |-> v]
Bad(old) == [ok |-> FALSE, v |-> old]

\* Mutant: a list keeps its default when it is given.
SetListKept(old, value, count) == old \o Split(value)

\* A list forgets its default when it is first seen.
SetList(old, value, count) == IF count <= 1 THEN Split(value) ELSE old \o Split(value)

SetCounter(old, value) ==
    IF value = <<>> THEN Good(old + 1) ELSE IF IsNumber(value) THEN Good(ToNumber(value)) ELSE Bad(old)
SetEnum(choices, old, value) == IF value \in choices THEN Good(value) ELSE Bad(old)

\* An integer has eight bits and is written in decimal.
SetValue(d, old, value, count) ==
    CASE d.type = "bool" -> IF value \in Trues \cup Falses THEN Good(value \in Trues) ELSE Bad(old)
      [] d.type = "string" -> Good(value)
      [] d.type = "list" -> Good(SetList(old, value, count))
      [] d.type = "int8" -> IF IsNumber(value) /\ ToNumber(value) <= 127 THEN Good(ToNumber(value)) ELSE Bad(old)
      [] d.type = "counter" -> SetCounter(old, value)
      [] OTHER -> SetEnum(d.choices, old, value)

\* The String of a value: what addFlag keeps as the default.
String(d) ==
    CASE d.type = "bool" -> IF d.init THEN <<"t">> ELSE <<"f">>
      [] d.type \in {"int8", "counter"} -> FormatInt(d.init)
      [] d.type = "list" -> JoinList(d.init)
      [] OTHER -> d.init

-----------------------------------------------------------------------------
(* The set of options.                                                     *)

Decl(id) == CHOOSE d \in Range(cse.decls) : d.id = id
Ids == {d.id : d \in Range(cse.decls)}
ShortOption(c) == {d \in opts : d.short = c /\ c # ""}
LongOption(n) == {d \in opts : d.long = n /\ n # <<>>}

Nameless(d) == d.short = "" /\ d.long = <<>>

\* addFlag and AddOption, for the next declaration: a name that is taken, or
\* none at all, ends the program.
AddOption ==
    /\ gp.pc = "declare" /\ gp.next <= Len(cse.decls)
    /\ LET d == cse.decls[gp.next]
       IN  IF ShortOption(d.short) # {} \/ LongOption(d.long) # {} \/ Nameless(d)
           THEN gp' = [gp EXCEPT !.pc = "exit"] /\ UNCHANGED opts
           ELSE opts' = opts \cup {d} /\ gp' = [gp EXCEPT !.next = @ + 1]
    /\ UNCHANGED <<cse, vals, cnt, isLong, past>>

Ready ==
    /\ gp.pc = "declare" /\ gp.next > Len(cse.decls)
    /\ gp' = [gp EXCEPT !.pc = "idle"]
    /\ UNCHANGED <<cse, opts, vals, cnt, isLong, past>>

\* The call: the first element, the name of the program, is taken off.
CallGetopt ==
    /\ gp.pc = "idle" /\ gp.fresh
    /\ \E line \in cse.lines :
        /\ line \notin {past[i].line : i \in DOMAIN past}
        /\ gp' = [gp EXCEPT !.pc = "parsing", !.line = line, !.rest = line, !.state = "InProgress", !.err = "", !.fresh = FALSE]
    /\ UNCHANGED <<cse, opts, vals, cnt, isLong, past>>

\* The deferred function.
Returns(state, args, err) ==
    gp' = [gp EXCEPT !.pc = "done", !.state = state, !.args = args, !.err = err, !.bundle = <<>>]

\* A value is set and the callback is called; next is where it goes on.
Sets(d, value, long, rest, bundle) ==
    LET r == SetValue(d, vals[d.id], value, cnt[d.id] + 1)
    IN  /\ cnt' = [cnt EXCEPT ![d.id] = @ + 1]
        /\ isLong' = [isLong EXCEPT ![d.id] = long]
        /\ vals' = [vals EXCEPT ![d.id] = r.v]
        /\ IF ~r.ok THEN Returns("Failure", gp.args, "Invalid")
           ELSE IF cse.stop = d.id THEN Returns("Terminated", gp.args, "")
           ELSE gp' = [gp EXCEPT !.rest = rest, !.bundle = bundle]

Untouched == UNCHANGED <<vals, cnt, isLong>>

Equals(arg) == IndexOf(arg, "=")

\* An argument --name, --name=value or, for one letter, --f.
LongArg(arg, rest) ==
    LET e == Equals(arg)
        name == After(IF e > 0 THEN SubSeq(arg, 1, e - 1) ELSE arg, 2)
        short == IF Len(name) = 1 THEN ShortOption(name[1]) ELSE {}
        found == IF LongOption(name) # {} THEN LongOption(name) ELSE short
    IN  IF found = {} THEN Returns("Failure", gp.args, "UnknownOption") /\ Untouched
        ELSE \E d \in found :
               IF d.flag \/ e > 0 \/ d.optional
               THEN Sets(d, IF e > 0 THEN After(arg, e) ELSE <<>>, TRUE, rest, <<>>)
               ELSE IF rest = <<>>
               THEN Returns("Failure", gp.args, "MissingParameter") /\ isLong' = [isLong EXCEPT ![d.id] = TRUE] /\ UNCHANGED <<vals, cnt>>
               ELSE Sets(d, rest[1], TRUE, Tail(rest), <<>>)

\* One letter of an argument -abc; what follows it can be its value.
ShortLetter(b, rest) ==
    IF ShortOption(b[1]) = {}
    THEN Returns(IF gp.lone THEN "Dash" ELSE "Failure", gp.args, IF gp.lone THEN "" ELSE "UnknownOption") /\ Untouched
    ELSE \E d \in ShortOption(b[1]) :
           IF d.flag THEN Sets(d, <<>>, FALSE, rest, Tail(b))
           ELSE IF Tail(b) # <<>> \/ d.optional THEN Sets(d, Tail(b), FALSE, rest, <<>>)
           ELSE IF rest = <<>>
           THEN /\ Returns("Failure", gp.args, "MissingParameter")
                /\ isLong' = [isLong EXCEPT ![d.id] = FALSE] /\ cnt' = [cnt EXCEPT ![d.id] = @ + 1] /\ UNCHANGED vals
           ELSE Sets(d, rest[1], FALSE, Tail(rest), <<>>)

\* One round of the loop over the arguments.  The Set's args start with the
\* argument at hand.
TakeArg ==
    /\ gp.pc = "parsing" /\ gp.bundle = <<>> /\ gp.rest # <<>>
    /\ gp' = [gp EXCEPT !.pc = "arg", !.args = gp.rest, !.rest = Tail(@)]
    /\ UNCHANGED <<cse, opts, vals, cnt, isLong, past>>

ParseArg ==
    /\ gp.pc = "arg"
    /\ LET arg == gp.args[1]
       IN  \/ /\ arg = <<>> \/ arg[1] # "-"
              /\ Returns("EndOfOptions", gp.args, "") /\ Untouched
           \/ /\ arg = <<"-", "-">>
              /\ Returns("DashDash", gp.rest, "") /\ Untouched
           \/ /\ arg # <<>> /\ arg[1] = "-" /\ arg # <<"-", "-">>
              /\ gp' = [gp EXCEPT !.lone = arg = <<"-">>, !.bundle = IF arg = <<"-">> THEN arg ELSE Tail(arg),
                                  !.pc = IF Len(arg) > 1 /\ arg[2] = "-" /\ (\E d \in opts : d.long # <<>>) THEN "long" ELSE "short"]
              /\ Untouched
    /\ UNCHANGED <<cse, opts, past>>

ParseLong ==
    /\ gp.pc = "long" /\ gp.bundle # <<>>
    /\ LongArg(gp.args[1], gp.rest)
    /\ UNCHANGED <<cse, opts, past>>

ParseShort ==
    /\ gp.pc = "short" /\ gp.bundle # <<>>
    /\ ShortLetter(gp.bundle, gp.rest)
    /\ UNCHANGED <<cse, opts, past>>

\* continue Parsing
NextArg ==
    /\ gp.pc \in {"short", "long"} /\ gp.bundle = <<>>
    /\ gp' = [gp EXCEPT !.pc = "parsing"]
    /\ UNCHANGED <<cse, opts, vals, cnt, isLong, past>>

EndOfArguments ==
    /\ gp.pc = "parsing" /\ gp.rest = <<>>
    /\ Returns("EndOfArguments", <<>>, "")
    /\ UNCHANGED <<cse, opts, vals, cnt, isLong, past>>

\* What a call gives: Args, State, the error, and the value and count of each
\* option.
Result == [line |-> gp.line, args |-> gp.args, state |-> gp.state, err |-> gp.err, vals |-> vals, cnt |-> cnt]

Returned ==
    /\ gp.pc = "done"
    /\ past' = Append(past, Result)
    /\ gp' = [gp EXCEPT !.pc = "idle"]
    /\ UNCHANGED <<cse, opts, vals, cnt, isLong>>

ResetCount == [id \in Ids |-> 0]

\* Set.Reset: every value is set to the text of its default.
Reset ==
    /\ gp.pc = "idle" /\ ~gp.fresh
    /\ gp' = [gp EXCEPT !.fresh = TRUE]
    /\ cnt' = ResetCount /\ isLong' = [id \in Ids |-> FALSE]
    /\ vals' = [id \in Ids |-> SetValue(Decl(id), vals[id], String(Decl(id)), 0).v]
    /\ UNCHANGED <<cse, opts, past>>

-----------------------------------------------------------------------------

GetInit ==
    /\ cse \in Cases
    /\ opts = {}
    /\ vals = [id \in Ids |-> Decl(id).init] /\ cnt = [id \in Ids |-> 0] /\ isLong = [id \in Ids |-> FALSE]
    /\ gp = [pc |-> "declare", next |-> 1, fresh |-> TRUE, line |-> <<>>, rest |-> <<>>, bundle |-> <<>>, lone |-> FALSE,
             args |-> <<>>, state |-> "", err |-> ""]
    /\ past = <<>>
    /\ helpText \in IF cse.decls = <<>> THEN HelpTexts ELSE {<<>>}

GetNext ==
    /\ UNCHANGED helpText
    /\ \/ AddOption \/ Ready \/ CallGetopt \/ TakeArg \/ ParseArg \/ ParseLong \/ ParseShort
       \/ NextArg \/ EndOfArguments \/ Returned \/ Reset

-----------------------------------------------------------------------------
(* breakup: a help text in lines of at most max letters.                   *)

StripLeft(s) == IF \E i \in DOMAIN s : s[i] # " " THEN After(s, Min({i \in DOMAIN s : s[i] # " "}) - 1) ELSE <<>>
\* The last blank within the first max + 1 letters, or the end of the first
\* word, if that is longer.
BreakAt(s, max) ==
    LET blanks == {i \in 1..(max + 1) : s[i] = " "}
        later == {i \in (max + 2)..Len(s) : s[i] = " "}
    IN  IF blanks # {} THEN Max(blanks) ELSE IF later # {} THEN Min(later) ELSE Len(s)
LineEnd(s, x) == Max({i \in 1..x : s[i] # " "})
RECURSIVE breakup(_, _)
breakup(t, max) ==
    LET s == StripLeft(t)
    IN  IF Len(s) <= max THEN IF s = <<>> THEN <<>> ELSE <<s>>
        ELSE LET x == LineEnd(s, BreakAt(s, max))
             IN  <<SubSeq(s, 1, x)>> \o breakup(After(s, x), max)

-----------------------------------------------------------------------------
(* Properties.                                                             *)

Outcome(r) == [state |-> r.state, err |-> r.err, args |-> r.args, vals |-> r.vals, cnt |-> r.cnt]

\* Command lines that mean the same (letters bundled or apart, a value attached,
\* after "=" or in the next argument, names short or long) have the same
\* outcome, and the later ones, parsed after Reset, the outcome of the first
\* with a set never used; what is left in Args is the end of the line; and an
\* option is seen as often as it is counted, last by the name that Name gives.
LinesMeanTheSame ==
    /\ \A i, j \in DOMAIN past : Outcome(past[i]) = Outcome(past[j])
    /\ \A i \in DOMAIN past : \E n \in 0..Len(past[i].line) : past[i].args = After(past[i].line, n)
    /\ gp.pc = "idle" /\ gp.fresh => \A d \in opts : vals[d.id] = d.init
    /\ \A d \in opts : isLong[d.id] /\ gp.pc = "idle" => \E i \in DOMAIN gp.line : Len(gp.line[i]) > 2 /\ gp.line[i][2] = "-"

Words(s) == SelectSeq(s, LAMBDA c : c # " ")
BlanksIn(s) == {i \in DOMAIN s : s[i] = " "}

\* breakup loses no letter, and a line of it starts and, but for the last, ends
\* with a letter and is too wide only if it is a single word.
HelpBrokenUp ==
    LET lines == breakup(helpText, Width)
    IN  /\ FoldLeft(LAMBDA a, l : a \o Words(l), <<>>, lines) = Words(helpText)
        /\ \A i \in DOMAIN lines : /\ Len(lines[i]) <= Width \/ BlanksIn(lines[i]) = {}
                                   /\ lines[i] # <<>> /\ lines[i][1] # " "
                                   /\ i < Len(lines) => lines[i][Len(lines[i])] # " "

\* The command line and the help text.
OptionsSound == LinesMeanTheSame /\ HelpBrokenUp
====
