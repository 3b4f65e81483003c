----------------------------- MODULE SshConfig -----------------------------
(***************************************************************************)
(* Package ssh_config: the files of ssh(1) are read once, when the first   *)
(* of several goroutines asks for a value.  A goroutine of its own lexes   *)
(* each file and sends the tokens to the parser; an Include is read while  *)
(* the file that contains it is parsed, to a depth of 5.                   *)
(*                                                                         *)
(* A file is a sequence of lines [text, end], the last one ended by "eof", *)
(* the others by "nl" or "crnl"; a text is a sequence of words and of the  *)
(* characters sp, = and #.  Spell gives the characters of a word where     *)
(* they matter (patterns, aliases), Lower its lower case.                  *)
(***************************************************************************)
EXTENDS Integers, SequencesExt, FiniteSetsExt

CONSTANTS
  Disks,          \* file systems: the texts by the names of the files
  Glob,           \* the files an Include's argument stands for, in order
  Spell, Lower,
  Askers,         \* the goroutines that ask
  Asking,         \* what each of them asks for: [alias, key]
  YesNos, Uints,  \* the keys whose values are checked
  Numbers,        \* the values that are numbers
  DefaultOf,      \* the defaults, by lower-case key
  maxRecurseDepth

UserFile == "user"
SystemFile == "system"
Missing == <<[text |-> <<"missing">>, end |-> "eof"]>>
Unreadable == <<[text |-> <<"unreadable">>, end |-> "eof"]>>   \* the directory itself
None == [hosts |-> <<>>]

VARIABLES
  disk, ignoreErrors,
  once,                     \* of the sync.Once: "new", "user", "system", "done"
  frames,                   \* the files being parsed, the innermost last
  unwinding,                \* a panic, or an error on its way out: "", "error", "depth"
  lexing,                   \* how many lexers have not finished
  userConfig, systemConfig, onceErr,
  ask, answer               \* of each goroutine

sshVars == <<disk, ignoreErrors, once, frames, unwinding, lexing, userConfig, systemConfig, onceErr, ask, answer>>

-----------------------------------------------------------------------------
(* The lexer: the tokens [typ, val, line, col].  It is between two lines   *)
(* whenever it has read a newline, so it lexes a file line by line.        *)

LexLine(l, n) ==
    LET t == l.text
        Tok(typ, from, to) == <<[typ |-> typ, val |-> SubSeq(t, from, to), line |-> n, col |-> from]>>
        Past(i) == Min({k \in i..(Len(t) + 1) : k > Len(t) \/ t[k] # "sp"})
        Find(i, S) == Min({k \in i..(Len(t) + 1) : k > Len(t) \/ t[k] \in S})
        \* what lexVoid makes of the end of the line, the newline taken or not
        End(taken) == CASE l.end = "eof" -> Tok("EOF", Len(t) + 1, Len(t))
                        [] l.end = "nl" -> IF taken THEN <<>> ELSE Tok("EmptyLine", Len(t) + 1, Len(t))
                        [] l.end = "crnl" -> (IF taken THEN <<>> ELSE Tok("EmptyLine", Len(t) + 1, Len(t)))
                                                 \o Tok("EmptyLine", Len(t) + 2, Len(t))
        Comment(i) == Tok("Comment", i, Len(t)) \o End(TRUE)
        Rvalue(i) == LET j == Find(i, {"#"})
                     IN  CASE j <= Len(t) -> Tok("String", i, j - 1) \o Comment(j + 1)
                           [] j > Len(t) -> IF l.end = "eof" THEN Tok("EOF", i, j - 1) ELSE Tok("String", i, j - 1) \o End(TRUE)
        Equals(i) == IF i <= Len(t) /\ t[i] = "=" THEN Tok("Equals", i, i - 1) \o Rvalue(Past(i + 1)) ELSE Rvalue(i)
        first == Past(1)
        key == Find(first, {"sp", "="})
    IN  CASE first > Len(t) -> End(FALSE)
          [] first <= Len(t) /\ t[first] = "#" -> Comment(first + 1)
          [] OTHER -> Tok("Key", first, key - 1) \o Equals(Past(key))

LexFile(file) == FlattenSeq([n \in DOMAIN file |-> LexLine(file[n], n)])

\* The tokens of the files.
Lexed == LET texts == UNION {{d[f] : f \in DOMAIN d} : d \in Disks} IN [t \in texts |-> LexFile(t)]

-----------------------------------------------------------------------------
(* Patterns.                                                               *)

RECURSIVE Fits1(_, _)
\* Does the regular expression that NewPattern makes of p match a?  The ? is
\* translated to .? and so matches nothing as well as one character.
Fits1(p, a) ==
    CASE p = <<>> -> a = <<>>
      [] p # <<>> /\ Head(p) = "*" -> \E k \in 0..Len(a) : Fits1(Tail(p), SubSeq(a, k + 1, Len(a)))
      [] p # <<>> /\ Head(p) = "?" -> \E k \in 0..Min({1, Len(a)}) : Fits1(Tail(p), SubSeq(a, k + 1, Len(a)))
      [] OTHER -> a # <<>> /\ Head(a) = Head(p) /\ Fits1(Tail(p), Tail(a))

NewPattern(w) ==
    LET not == Spell[w] # <<>> /\ Head(Spell[w]) = "!"
    IN  [not |-> not, str |-> IF not THEN Tail(Spell[w]) ELSE Spell[w]]

\* Mutant: a negated pattern that matches only ends the search of the others.
MatchesUnordered(patterns, alias) ==
    LET hit == {i \in DOMAIN patterns : Fits1(patterns[i].str, Spell[alias])}
    IN  hit # {} /\ ~patterns[Min(hit)].not

\* Host.Matches
Matches(patterns, alias) ==
    LET hit == {i \in DOMAIN patterns : Fits1(patterns[i].str, Spell[alias])}
    IN  hit # {} /\ \A i \in hit : ~patterns[i].not

-----------------------------------------------------------------------------
(* The parser.  A configuration is a sequence of hosts [patterns, nodes];  *)
(* a node is a "kv", an "empty" line or an "include" with what it read.    *)

implicitHost == [patterns |-> <<[not |-> FALSE, str |-> <<"*">>]>>, nodes |-> <<>>, eq |-> FALSE, comment |-> <<>>, implicit |-> TRUE]
Node6(kind, key, val, comment, eq, lead) ==
    [kind |-> kind, key |-> key, val |-> val, comment |-> comment, eq |-> eq, lead |-> lead, files |-> <<>>]

AddNode(hosts, n) == [hosts EXCEPT ![Len(hosts)].nodes = Append(@, n)]

\* strings.Split(val, " ")
SplitWords(val) ==
    FoldLeft(LAMBDA ws, c : IF c = "sp" THEN Append(ws, <<>>) ELSE [ws EXCEPT ![Len(ws)] = Append(@, c)], <<<<>>>>, val)
NoEmpties(ws) == SelectSeq(ws, LAMBDA w : w # <<>>)

\* The files that the arguments of an Include stand for, without duplicates.
\* An argument that is empty stands for the directory.
IncludedFiles(val) ==
    LET ws == SplitWords(val)
        Of(w) == IF w = <<>> THEN <<"directory">> ELSE Glob[w[1]]
        all == FlattenSeq([i \in DOMAIN ws |-> Of(ws[i])])
    IN  FoldLeft(LAMBDA fs, f : IF Contains(fs, f) THEN fs ELSE Append(fs, f), <<>>, all)

\* todo: the files of the Include that is being read, not yet parsed.
Frame(file, depth) ==
    [toks |-> Lexed[disk[file]], depth |-> depth, hosts |-> <<implicitHost>>, todo |-> <<>>, inc |-> <<>>]

Top == Last(frames)
SetTop(f) == [frames EXCEPT ![Len(frames)] = f]

\* parseStart and what it leads to, on the tokens of the innermost file.  The
\* value of a key is never missing: the last token is EOF and has the text that
\* was not ended by a newline.
Statement(f) ==
    LET key == f.toks[1]
        eq == f.toks[2].typ = "Equals"
        v == IF eq THEN 3 ELSE 2
        val == f.toks[v]
        noted == Len(f.toks) > v /\ f.toks[v + 1].typ = "Comment" /\ f.toks[v + 1].line = val.line
        rest == SubSeq(f.toks, IF noted THEN v + 2 ELSE v + 1, Len(f.toks))
        comment == IF noted THEN f.toks[v + 1].val ELSE <<>>
        word == Lower[key.val[1]]
        node(kind) == Node6(kind, key.val[1], val.val, comment, eq, key.col - 1)
        taken == [f EXCEPT !.toks = rest]
    IN  CASE key.typ \in {"Comment", "EmptyLine"} ->
                [f EXCEPT !.toks = Tail(@), !.hosts = AddNode(@, Node6("empty", "", <<>>, key.val, FALSE, key.col - 2))]
          [] key.typ = "Key" /\ word = "host" ->
                [taken EXCEPT !.hosts = Append(@, [implicitHost EXCEPT
                    !.patterns = [i \in DOMAIN NoEmpties(SplitWords(val.val)) |-> NewPattern(NoEmpties(SplitWords(val.val))[i][1])],
                    !.eq = eq, !.comment = comment, !.implicit = FALSE])]
          [] key.typ = "Key" /\ word = "include" ->
                [taken EXCEPT !.todo = IncludedFiles(val.val), !.inc = <<node("include")>>]
          [] key.typ = "Key" /\ word \notin {"host", "include"} -> [taken EXCEPT !.hosts = AddNode(@, node("kv"))]

Ended(f) == f.toks # <<>> => f.toks[1].typ = "EOF"
Reading == once \in {"user", "system"}

ParseNext ==
    /\ Reading /\ frames # <<>> /\ unwinding = "" /\ Top.inc = <<>> /\ ~Ended(Top)
    /\ LET key == Top.toks[1]
       IN  IF key.typ = "Key" /\ Lower[key.val[1]] = "match"
           THEN unwinding' = "error" /\ UNCHANGED frames
           ELSE IF key.typ = "Key" /\ Lower[key.val[1]] = "include" /\ Top.depth + 1 > maxRecurseDepth
           THEN unwinding' = "depth" /\ UNCHANGED frames
           ELSE (\E f \in {Statement(Top)} : frames' = SetTop(f)) /\ UNCHANGED unwinding
    /\ UNCHANGED <<disk, ignoreErrors, once, lexing, userConfig, systemConfig, onceErr, ask, answer>>

\* parseWithDepth for the next file of an Include: it starts a lexer.
OpenInclude ==
    /\ Reading /\ frames # <<>> /\ unwinding = "" /\ Top.inc # <<>> /\ Top.todo # <<>>
    /\ LET file == Head(Top.todo)
       IN  IF disk[file] \in {Missing, Unreadable}
           THEN unwinding' = "error" /\ UNCHANGED <<frames, lexing>>
           ELSE /\ frames' = Append(SetTop([Top EXCEPT !.todo = Tail(@)]), Frame(file, Top.depth + 1))
                /\ lexing' = lexing + 1
                /\ UNCHANGED unwinding
    /\ UNCHANGED <<disk, ignoreErrors, once, userConfig, systemConfig, onceErr, ask, answer>>

\* NewInclude returns.
CloseInclude ==
    /\ Reading /\ frames # <<>> /\ unwinding = "" /\ Top.inc # <<>> /\ Top.todo = <<>>
    /\ frames' = SetTop([Top EXCEPT !.hosts = AddNode(@, Top.inc[1]), !.inc = <<>>])
    /\ UNCHANGED <<disk, ignoreErrors, once, unwinding, lexing, userConfig, systemConfig, onceErr, ask, answer>>

Load(config, err) ==
    CASE once = "user" -> /\ userConfig' = config /\ onceErr' = err
                          /\ once' = IF err # "" THEN "done" ELSE "system"
                          /\ UNCHANGED systemConfig
      [] once = "system" -> systemConfig' = config /\ onceErr' = err /\ once' = "done" /\ UNCHANGED userConfig

\* A file is parsed: parseSSH drains the channel, so that the lexer ends.
EndFile ==
    /\ Reading /\ frames # <<>> /\ unwinding = "" /\ Top.inc = <<>> /\ Ended(Top)
    /\ lexing' = lexing - 1
    /\ frames' = IF Len(frames) = 1 THEN <<>>
                 ELSE [Front(frames) EXCEPT ![Len(frames) - 1].inc[1].files = Append(@, [hosts |-> Top.hosts])]
    /\ IF Len(frames) = 1 THEN Load([hosts |-> Top.hosts], "")
                          ELSE UNCHANGED <<once, userConfig, systemConfig, onceErr>>
    /\ UNCHANGED <<disk, ignoreErrors, unwinding, ask, answer>>

\* A panic leaves a file: the channel is drained, decodeBytes makes the panic
\* an error, and the parser of the file around raises it again.
Unwind ==
    /\ Reading /\ frames # <<>> /\ unwinding # ""
    /\ lexing' = lexing - 1
    /\ frames' = Front(frames)
    /\ IF Len(frames) = 1 THEN Load(None, unwinding) /\ unwinding' = ""
                          ELSE UNCHANGED <<once, unwinding, userConfig, systemConfig, onceErr>>
    /\ UNCHANGED <<disk, ignoreErrors, ask, answer>>

\* The first file of userConfigFinder or systemConfigFinder is read.
OpenFile ==
    /\ Reading /\ frames = <<>>
    /\ LET file == IF once = "user" THEN UserFile ELSE SystemFile
       IN  CASE disk[file] = Missing -> Load(None, "") /\ UNCHANGED <<frames, lexing>>
             [] disk[file] = Unreadable -> Load(None, "error") /\ UNCHANGED <<frames, lexing>>
             [] OTHER -> /\ frames' = <<Frame(file, 0)>> /\ lexing' = lexing + 1
                         /\ UNCHANGED <<once, userConfig, systemConfig, onceErr>>
    /\ UNCHANGED <<disk, ignoreErrors, unwinding, ask, answer>>

-----------------------------------------------------------------------------
(* Get.                                                                    *)

RECURSIVE ConfigGet(_, _)
\* Config.Get and Include.Get: the first node with the key, in a host that
\* matches; an Include that has no value, or an empty one, is passed over.
ConfigGet(config, a) ==
    LET Of(n) == CASE n.kind = "kv" -> IF Lower[n.key] = Lower[a.key] THEN <<n.val>> ELSE <<>>
                   [] n.kind = "include" -> NoEmpties([i \in DOMAIN n.files |-> ConfigGet(n.files[i], a)])
                   [] n.kind = "empty" -> <<>>
        OfHost(h) == IF Matches(h.patterns, a.alias) THEN FlattenSeq([i \in DOMAIN h.nodes |-> Of(h.nodes[i])]) ELSE <<>>
        vals == FlattenSeq([i \in DOMAIN config.hosts |-> OfHost(config.hosts[i])])
    IN  Head(Append(vals, <<>>))

Valid(key, val) ==
    /\ Lower[key] \in YesNos => val \in {<<"yes">>, <<"no">>}
    /\ Lower[key] \in Uints => val \in {<<n>> : n \in Numbers}

Reply(val, err) == [val |-> val, err |-> err]
NoReply == Reply(<<"none">>, "")

findVal(config, a) ==
    CHOOSE r \in {IF val # <<>> /\ ~Valid(a.key, val) THEN Reply(<<>>, "invalid") ELSE Reply(val, "") : val \in {ConfigGet(config, a)}} : TRUE

Default(key) == IF Lower[key] \in DOMAIN DefaultOf THEN DefaultOf[Lower[key]] ELSE <<>>

Values(a) ==
    LET found == SelectSeq(<<findVal(userConfig, a), findVal(systemConfig, a)>>, LAMBDA r : r # Reply(<<>>, ""))
    IN  Head(Append(found, Reply(Default(a.key), "")))

\* GetStrict: the first caller reads the files, the others wait for it.
Begin(g) ==
    /\ once = "new" /\ answer[g] = NoReply
    /\ once' = "user"
    /\ UNCHANGED <<disk, ignoreErrors, frames, unwinding, lexing, userConfig, systemConfig, onceErr, ask, answer>>

GetStrict(g) ==
    /\ once = "done" /\ answer[g] = NoReply
    /\ \E r \in {IF onceErr # "" /\ ~ignoreErrors THEN Reply(<<>>, onceErr) ELSE Values(ask[g])} :
          answer' = [answer EXCEPT ![g] = r]
    /\ UNCHANGED <<disk, ignoreErrors, once, frames, unwinding, lexing, userConfig, systemConfig, onceErr, ask>>

SshInit ==
    /\ disk \in Disks /\ ignoreErrors \in BOOLEAN
    /\ once = "new" /\ frames = <<>> /\ unwinding = "" /\ lexing = 0
    /\ userConfig = None /\ systemConfig = None /\ onceErr = ""
    /\ ask \in Asking /\ answer = [g \in Askers |-> NoReply]

SshReads == OpenFile \/ ParseNext \/ OpenInclude \/ CloseInclude \/ EndFile \/ Unwind
SshNext == SshReads \/ \E g \in Askers : Begin(g) \/ GetStrict(g)

-----------------------------------------------------------------------------
(* Writing a configuration: String.                                        *)

Join(ws) == FlattenSeq([i \in DOMAIN ws |-> IF i = 1 THEN ws[i] ELSE <<"sp">> \o ws[i]])
Blanks(n) == [i \in 1..n |-> "sp"]
EqualsOr(eq) == IF eq THEN <<"sp", "=", "sp">> ELSE <<"sp">>
Noted(comment) == IF comment = <<>> THEN <<>> ELSE <<"sp", "#">> \o comment

NodeString(n) ==
    CASE n.kind = "empty" -> IF n.comment = <<>> THEN <<>> ELSE Blanks(n.lead) \o <<"#">> \o n.comment
      [] n.kind \in {"kv", "include"} -> Blanks(n.lead) \o <<n.key>> \o EqualsOr(n.eq) \o n.val \o Noted(n.comment)

WrittenLine(text) == [text |-> text, end |-> "nl"]

\* The pattern is written without the ! of a negated one.
HostString(host) ==
    (IF host.implicit THEN <<>>
     ELSE <<WrittenLine(<<"Host">> \o EqualsOr(host.eq)
               \o Join([i \in DOMAIN host.patterns |-> <<CHOOSE w \in DOMAIN Spell : Spell[w] = host.patterns[i].str>>])
               \o Noted(host.comment))>>)
      \o [i \in DOMAIN host.nodes |-> WrittenLine(NodeString(host.nodes[i]))]

ConfigString(config) ==
    Append(FlattenSeq([i \in DOMAIN config.hosts |-> HostString(config.hosts[i])]), [text |-> <<>>, end |-> "eof"])

RECURSIVE ParseWhole(_)
\* Decode, for a text without Include and Match.
ParseWhole(f) == IF Ended(f) THEN [hosts |-> f.hosts] ELSE CHOOSE c \in {ParseWhole(g) : g \in {Statement(f)}} : TRUE
Decode(text) ==
    CHOOSE c \in {ParseWhole([toks |-> toks, depth |-> 0, hosts |-> <<implicitHost>>, todo |-> <<>>, inc |-> <<>>])
                    : toks \in {LexFile(text)}} : TRUE

-----------------------------------------------------------------------------
(* What the files say, line by line, without lexer and parser: the entries *)
(* [hosts, key, val] in order, hosts the Host lines they are under.        *)

\* The words of a line, up to a comment.
WordsOf(line) ==
    LET hash == SelectInSeq(line, LAMBDA c : c = "#")
    IN  SelectSeq(IF hash = 0 THEN line ELSE SubSeq(line, 1, hash - 1), LAMBDA c : c \notin {"sp", "="})

Worded == LET texts == UNION {{d[f] : f \in DOMAIN d} : d \in Disks}
          IN  [t \in texts |-> NoEmpties([i \in DOMAIN t |-> WordsOf(t[i].text)])]

RECURSIVE Says(_)
Says(file) ==
    LET ws == Worded[disk[file]]
        Is(i, word) == Lower[ws[i][1]] = word
        Hosts(i) == LET above == {k \in 1..i : Is(k, "host")} IN IF above = {} THEN <<>> ELSE <<Tail(ws[Max(above)])>>
        Under(hs, es) == [i \in DOMAIN es |-> [es[i] EXCEPT !.hosts = hs \o @]]
        Entries(i) ==
            CASE Is(i, "host") -> <<>>
              [] Is(i, "include") -> FlattenSeq([n \in 1..(Len(ws[i]) - 1) |->
                    FlattenSeq([k \in DOMAIN Glob[ws[i][n + 1]] |-> Under(Hosts(i), Says(Glob[ws[i][n + 1]][k]))])])
              [] OTHER -> <<[hosts |-> Hosts(i), key |-> ws[i][1], val |-> Tail(ws[i])]>>
    IN  FlattenSeq([i \in DOMAIN ws |-> Entries(i)])

Applies(e, alias) ==
    \A i \in DOMAIN e.hosts :
        LET P == {NewPattern(w) : w \in ToSet(e.hosts[i])}
            M == {p \in P : Fits1(p.str, Spell[alias])}
        IN  M # {} /\ \A p \in M : ~p.not

FirstSaid(file, a) ==
    LET es == SelectSeq(Says(file), LAMBDA e : Lower[e.key] = Lower[a.key] /\ Applies(e, a.alias))
    IN  IF es = <<>> THEN <<>> ELSE es[1].val

Bare1(val) == SelectSeq(val, LAMBDA c : c # "sp")
SaidOf(file, a) == IF disk[file] \in {Missing, Unreadable} THEN <<>> ELSE FirstSaid(file, a)

\* A file that can be written and read back: no Match, no Include, and no
\* negated pattern, which is written without its exclamation mark.
Plain1(config) ==
    \A i \in DOMAIN config.hosts :
        /\ \A k \in DOMAIN config.hosts[i].patterns : ~config.hosts[i].patterns[k].not
        /\ \A k \in DOMAIN config.hosts[i].nodes : config.hosts[i].nodes[k].kind # "include"

\* Get answers what the files say: the first value for the key in the order of
\* the lines, those of an included file where the Include is, under Host lines
\* that all match the alias; the user's file before the system's, and the
\* default last.  And a configuration that is written (String) and read again
\* gives the same answers.
SaysWhatFilesSay ==
    /\ onceErr = "" => \A g \in Askers : answer[g] # NoReply /\ answer[g].err = "" =>
          LET u == SaidOf(UserFile, ask[g])
              y == SaidOf(SystemFile, ask[g])
          IN  Bare1(answer[g].val) = IF u # <<>> THEN u ELSE IF y # <<>> THEN y ELSE Default(ask[g].key)
    /\ once = "done" /\ onceErr = "" /\ Plain1(userConfig) /\ userConfig # None =>
          \A text \in {ConfigString(userConfig)} : \A again \in {Decode(text)} :
              \A g \in Askers : Bare1(ConfigGet(again, ask[g])) = Bare1(ConfigGet(userConfig, ask[g]))

\* Reading leaves nothing behind: when the files have been read, or given up in
\* the middle of an Include, every lexer has been drained to its end; and a file
\* that includes itself is given up for its depth (parseSSH, NewInclude).
LexersDrained ==
    /\ once = "done" => lexing = 0 /\ frames = <<>>
    /\ Len(frames) <= maxRecurseDepth + 1

\* The answers are the files', and no lexer is left behind.
ConfigSound == SaysWhatFilesSay /\ LexersDrained
====
