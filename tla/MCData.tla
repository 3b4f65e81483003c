------------------------------- MODULE MCData ------------------------------
(***************************************************************************)
(* The tables: the hash table of intmap, the program of sed, and the       *)
(* tables of filelock on aix and solaris, on small instances.  The modules *)
(* share nothing, so a behaviour drives one of them.                       *)
(***************************************************************************)
EXTENDS MapInt64, Sed, FcntlLock, TLC

CONSTANT Parts

VARIABLE part   \* which of them is driven

-----------------------------------------------------------------------------
(* Keys whose hashes collide, wrap around the end of the table and part    *)
(* when the table doubles.                                                 *)

ThreeKeys == 1..3
MCMix == [k \in Keys |-> <<3, 7, -4>>[k]]

-----------------------------------------------------------------------------
(* Scripts, in the notation of sed.                                        *)
Cmd(l) == [typ |-> "CMD", arg |-> <<l>>]
CmdOf(l, a) == [typ |-> "CMD", arg |-> <<l, a>>]
Num(n) == [typ |-> "NUM", arg |-> <<n>>]
Rx(x) == [typ |-> "RX", arg |-> <<x>>]
Dollar == [typ |-> "DOLLAR", arg |-> <<>>]
Label(l) == [typ |-> "LABEL", arg |-> <<l>>]
ChangeTo(t) == [typ |-> "CHANGE", arg |-> <<"c", t>>]
Subst(rx, repl, which, g, p) == CmdOf("s", [rx |-> rx, repl |-> repl, which |-> which, g |-> g, p |-> p])
At(addr, tok) == [addr |-> addr, neg |-> FALSE, tok |-> tok]
NotAt(addr, tok) == [addr |-> addr, neg |-> TRUE, tok |-> tok]
Always(tok) == At(<<>>, tok)
Open == Token("LBRACE")
Shut == Always(Token("RBRACE"))
Script(items) == [items |-> items, cut |-> FALSE]

GoodScripts == {Script(s) : s \in {
    \* p; $!N; P; D
    <<Always(Cmd("p")), NotAt(<<Dollar>>, Cmd("N")), Always(Cmd("P")), Always(Cmd("D"))>>,
    \* 2,/b/{x;p}; $!G; w
    <<At(<<Num(2), Rx("b")>>, Open), Always(Cmd("x")), Always(Cmd("p")), Shut, NotAt(<<Dollar>>, Cmd("G")), Always(CmdOf("w", "f"))>>,
    \* :l s/a/b/; t l; s/b/c/2gp
    <<Always(Label("l")), Always(Subst("a", "b", 0, FALSE, FALSE)), Always(CmdOf("t", "l")), Always(Subst("b", "c", 1, TRUE, TRUE))>>,
    \* 1,2c text; /a/!{=;b}; y/ab/ba/
    <<At(<<Num(1), Num(2)>>, ChangeTo(<<"c", NL>>)), NotAt(<<Rx("a")>>, Open), Always(Cmd("=")), Always(CmdOf("b", "the end")), Shut,
      Always(CmdOf("y", [x \in {"a", "b"} |-> IF x = "a" THEN "b" ELSE "a"]))>>,
    \* /b/a text; n; i text; /a/,$!d
    <<At(<<Rx("b")>>, CmdOf("a", <<"u", "v", NL>>)), Always(Cmd("n")), Always(CmdOf("i", <<"i", NL>>)), NotAt(<<Rx("a"), Dollar>>, Cmd("d"))>>,
    \* H; 2{g;q}; h; $c text
    <<Always(Cmd("H")), At(<<Num(2)>>, Open), Always(Cmd("g")), Always(Cmd("q")), Shut, Always(Cmd("h")), At(<<Dollar>>, ChangeTo(<<"d", NL>>))>>,
    \* a text; N  (appended text before an N)
    <<Always(CmdOf("a", <<"u", NL>>)), Always(Cmd("N"))>>}}

\* Refused by the parser, with tokens left or at the end, or by the lexer.
BadScripts == {Script(s) : s \in {
    <<Shut, Always(Cmd("p")), Always(Cmd("p"))>>,
    <<Always(ChangeTo(<<"c", NL>>)), Always(Cmd("p"))>>,
    <<At(<<Num(1)>>, Open), Always(Cmd("?"))>>,
    <<At(<<Num(1), Token("BAD")>>, Cmd("p"))>>,
    <<At(<<Num(1)>>, Open), Always(Cmd("p"))>>,
    <<At(<<Num(1), Num(2)>>, Label("l"))>>,
    <<Always(CmdOf("b", "nowhere"))>>}} \cup {[items |-> <<Always(Cmd("p"))>>, cut |-> TRUE]}

MCScripts == GoodScripts \cup BadScripts

A == <<"a">>
B == <<"b", "a", "b">>
MCInputs == [lines : {<<>>, <<A>>, <<B, A, <<>>>>, <<A, B, A>>}, fails : {FALSE}] \cup {[lines |-> <<A, B>>, fails |-> TRUE]}

-----------------------------------------------------------------------------
(* filelock.  The trace in the comment of lock: threads 1 and 2 of P,      *)
(* thread 3 of Q; and three threads on one file.                           *)

TraceHomeOf == "P1" :> "P" @@ "P2" :> "P" @@ "Q3" :> "Q"
TracePlan == "P1" :> <<"A">> @@ "P2" :> <<"B">> @@ "Q3" :> <<"B", "A">>
SharedPlan == [t \in DOMAIN TraceHomeOf |-> <<"A">>]
TwoPlans == {TracePlan, SharedPlan}

-----------------------------------------------------------------------------
\* An engine that could not be made: nothing is left to do.
SedAtRest ==
    /\ script = Script(<<>>) /\ quiet = FALSE /\ lexed = 0 /\ taken = 0 /\ making = "failed"
    /\ ranges = <<>> /\ input = [lines |-> <<>>, fails |-> FALSE] /\ vm = Idle /\ reading = FALSE
    /\ result = <<>> /\ used = 0 /\ stale = FALSE

MCInit ==
    /\ part \in Parts /\ Init
    /\ IF part = "sed" THEN SedInit ELSE SedAtRest
    /\ IF part = "fcntl" THEN TRUE ELSE plan = TracePlan
    /\ FcntlInit

MCNext ==
    /\ \/ part = "map" /\ Next /\ UNCHANGED <<sedVars, fcntlVars>>
       \/ part = "sed" /\ SedNext /\ UNCHANGED <<vars, fcntlVars>>
       \/ part = "fcntl" /\ FcntlNext /\ UNCHANGED <<vars, sedVars>>
    /\ UNCHANGED part

\* Nothing is enabled in a part that is not driven, so the fairness of each
\* part asks nothing of the behaviours of the others.
MCSpec ==
    /\ MCInit /\ [][MCNext]_<<vars, sedVars, fcntlVars, part>>
    /\ Fairness /\ SedFairness /\ FcntlFairness
=============================================================================
