----------------------------- MODULE MCFormats ------------------------------
(***************************************************************************)
(* The packages that read and write documents, configurations, command     *)
(* lines and frames, on small instances.  The modules share nothing, so a  *)
(* behaviour drives one of them.                                           *)
(***************************************************************************)
EXTENDS Xml, XmlPath, SshConfig, Arp, Getopt, Merge

CONSTANTS Parts, a1, a2, c1, c2, c3

VARIABLE part   \* which of them is driven

-----------------------------------------------------------------------------
(* goxml: two elements of one tag, three cells of text.                    *)

MCElems == {a1, a2}
MCTagOf == [e \in MCElems |-> "a"]
MCChars == {c1, c2, c3}
MCXmlTexts == {<<"sp">>, <<"lt", "quot">>}
MCSections == {<<"sp">>}
MCKeys == << <<"", "k">>, <<"p", "k">> >>
MCInputs == { <<Item("start","a",<<>>,<<>>), Item("raw","",<<>>,<<"sp">>), Item("empty","a",<<>>,<<>>), Item("end","a",<<>>,<<>>)>>,
  <<Item("start","a",<<>>,<<>>), Item("end","b",<<>>,<<>>)>>}
\* Elements of one tag and cells of text are interchangeable.
Symmetric == Permutations(MCChars) \cup Permutations(MCElems)

-----------------------------------------------------------------------------
(* Paths of goxml: a tree with two namespaces and a small one.             *)

Attribute(n, v) == [name |-> n, val |-> v]
Tree(up, name, attr, text) == [up |-> up, name |-> name, attr |-> attr, text |-> text]
SmallTree == Tree(<<0, 1, 1, 2>>, << <<"", "">>, <<"", "a">>, <<"", "b">>, <<"", "a">> >>, << <<>>, <<>>, <<>>, <<>> >>, << <<>>, <<>>, <<"x">>, <<>> >>)
MCTrees == {
   Tree(<<0, 1, 2, 2, 2, 3, 3, 5, 5>>,
        << <<"", "">>, <<"", "a">>, <<"", "b">>, <<"p", "b">>, <<"", "a">>, <<"", "b">>, <<"", "c">>, <<"", "c">>, <<"p", "c">> >>,
        << <<>>, <<Attribute(<<"", "xmlns">>, <<"u">>)>>, <<Attribute(<<"", "k">>, <<"x">>)>>, <<Attribute(<<"p", "k">>, <<"y">>)>>,
           <<Attribute(<<"xmlns", "p">>, <<"v">>), Attribute(<<"", "k">>, <<"y">>)>>, <<>>, <<>>, <<>>, <<>> >>,
        << <<>>, <<>>, <<>>, <<"x">>, <<>>, <<"x">>, <<"x", "/", "y">>, <<"x">>, <<"y">> >>),
   SmallTree, Tree(<<0>>, << <<"", "">> >>, << <<>> >>, << <<>> >>)}
Sel(k) == Selector(k, NoName)
Tag(sp, n) == Selector("tag", <<sp, n>>)
Plainly(sel) == Segment(sel, <<>>)
MCSels == {Sel("self"), Sel("parent"), Sel("children"), Tag("", "a"), Tag("", "b"), Tag("p", "c")}
MCFilters == {Filter("attr", <<"", "k">>, <<>>, 0), Filter("attrVal", <<"", "k">>, <<"y">>, 0), Filter("attrVal", <<"p", "k">>, <<"y">>, 0),
   Filter("func", <<"", "namespace-uri">>, <<>>, 0), Filter("funcVal", <<"", "namespace-uri">>, <<"v">>, 0),
   Filter("funcVal", <<"", "name">>, <<"p", ":", "b">>, 0), Filter("funcVal", <<"", "local-name">>, <<"b">>, 0), Filter("func", <<"", "namespace-prefix">>, <<>>, 0),
   Filter("func", <<"", "text">>, <<>>, 0), Filter("child", <<"", "c">>, <<>>, 0), Filter("childText", <<"", "c">>, <<"x", "/", "y">>, 0)}
Poss == {Filter("pos", NoName, <<>>, n) : n \in {0, 1, -1}}
Desc == Plainly(Sel("descendants"))
Root == Plainly(Sel("root"))
MCPaths == {<<Segment(s, <<f>>), Plainly(r)>> : s \in {Sel("children"), Tag("", "b")}, f \in MCFilters \cup Poss, r \in {Sel("children"), Sel("parent"), Tag("", "c")}}
   \cup {<<Root, Desc, Segment(s, <<p, f>>)>> : s \in {Sel("children"), Tag("", "a")}, p \in Poss, f \in MCFilters}
   \cup {<<Plainly(s), Desc, Segment(r, <<f>>), Plainly(Sel("parent"))>> : s \in {Sel("self"), Sel("children")}, r \in {Sel("children"), Tag("p", "c")}, f \in MCFilters \cup Poss}
Spelt(text, path) == [text |-> text, path |-> path]
MCSpellings == {Spelt(x, <<>>) : x \in {<<"a", "[", "1">>, <<"a", "[", "]">>, <<"a", "[", "f", "()", "]">>, <<"a", "[", "@", "k", "='", "x", "]">>}}
   \cup {Spelt(<<"a", "/", "/">>, <<Plainly(Tag("", "a")), Desc, Plainly(Sel("children"))>>)}

-----------------------------------------------------------------------------
(* ssh_config: files that include others, themselves or nothing.           *)

Ln(text, end) == [text |-> text, end |-> end]
Line(ws) == Ln(Join([i \in DOMAIN ws |-> <<ws[i]>>]), "nl")
TextOf(ls) == IF Last(ls).end = "eof" THEN ls ELSE Append(ls, Ln(<<>>, "eof"))
SshSpell == "Host" :> <<>> @@ "a" :> <<"a">> @@ "ab" :> <<"a", "b">> @@ "a*" :> <<"a", "*">> @@ "*" :> <<"*">> @@ "!ab" :> <<"!", "a", "b">> @@ "?b" :> <<"?", "b">>
SshLower == [w \in {"Host", "host", "Port", "port", "User", "Include", "Match", "Batch"} |->
   CASE w \in {"Host", "host"} -> "host" [] w \in {"Port", "port"} -> "port" [] w = "User" -> "user" [] w = "Include" -> "include" [] w = "Match" -> "match" [] w = "Batch" -> "batch"]
SshGlob == "f" :> <<"f1">> @@ "g*" :> <<"f1", "f2">> @@ "u" :> <<"user">>
F1s == {TextOf(<<Line(<<"Port", "1">>)>>), TextOf(<<Line(<<"Host", "a*", "!ab">>), Line(<<"User", "x">>), Ln(<<"#", "c">>, "eof")>>)}
Users == {Missing, Unreadable,
  TextOf(<<Line(<<"Host", "a*", "!ab">>), Ln(<<"sp", "port", "sp", "=", "2">>, "crnl"), Line(<<"User", "y">>), Line(<<"Host", "*">>), Line(<<"Include", "f", "g*">>), Line(<<"Batch", "no">>), Line(<<"User", "z">>)>>),
  TextOf(<<Line(<<"Include", "g*">>), Ln(<<"sp", "#", "c">>, "crnl"), Ln(<<>>, "nl"), Ln(<<"Host", "=", "?b", "sp", "#", "c">>, "nl"), Ln(<<"Port", "sp", "x">>, "eof")>>),
  TextOf(<<Line(<<"User", "w", "v">>), Line(<<"host", "ab">>), Ln(<<"sp", "Port", "sp", "3", "sp", "#", "c">>, "nl"), Line(<<"Batch", "yes">>)>>),
  TextOf(<<Line(<<"User", "w">>), Line(<<"Host", "ab">>), Line(<<"Include", "u">>), Line(<<"Port", "3">>)>>),
  TextOf(<<Line(<<"Include", "f">>), Line(<<"Match", "all">>), Line(<<"Port", "3">>)>>),
  TextOf(<<Ln(<<"Include", "sp", "f", "sp", "#", "c">>, "nl")>>)}
Systems == {Missing, TextOf(<<Line(<<"Batch", "maybe">>), Line(<<"Port", "5">>)>>)}
F2s == {TextOf(<<Line(<<"User", "f2">>), Line(<<"Port", "6">>)>>)}
NoDisk == [f \in {"user", "system"} |-> Missing]
SshDisks == {NoDisk} \cup {"user" :> u @@ "system" :> y @@ "f1" :> f @@ "f2" :> q @@ "directory" :> Unreadable : u \in Users, y \in Systems, f \in F1s, q \in F2s}
SshAsking == {[g \in {1, 2} |-> [alias |-> IF g = 1 THEN "a" ELSE "ab", key |-> k[g]]] : k \in {<<"Port", "User">>, <<"User", "port">>, <<"Batch", "Port">>}}
AnyAsking == CHOOSE k \in SshAsking : TRUE
SshDefaults == "port" :> <<"22">> @@ "batch" :> <<"no">>

-----------------------------------------------------------------------------
(* arp, ethernet and raw: addresses are sequences of 16-bit words.         *)

HW(k) == <<2, 0, k>>
IP(k) == <<2560, k>>
MCStations == {HW(1), HW(2)}
MCIPs == {IP(1)}
Iface(hw, addrs, proto, filter, queries) == [hw |-> hw, addrs |-> addrs, proto |-> proto, filter |-> filter, queries |-> queries]
QuietInterface == Iface(<<>>, <<IP(9)>>, "ARP", "", 0)
MCInterfaces == {QuietInterface, Iface(HW(9), <<>>, "", "", 0), Iface(HW(9), <<<<>>, IP(9)>>, "ALL", "", 0), Iface(HW(9), <<IP(9)>>, "ARP", "reply", 0), Iface(HW(9), <<<<>>>>, "ARP", "", 1)}
Ether(dst, et, payload) == MarshalBinary([dst |-> dst, src |-> HW(7), svlan |-> <<>>, vlan |-> <<>>, et |-> et, payload |-> payload]).b
Other == NewPacket(OperationReply, HW(7), IP(7), HW(9), IP(9))
Asks == NewPacket(OperationRequest, HW(7), IP(7), Broadcast, IP(9))
MCTraffic == {FrameFor(Other, HW(1)).b, Ether(HW(9), 2048, <<1>>), FrameFor(Other, HW(9)).b, FrameFor(Asks, Broadcast).b, SubSeq(FrameFor(Asks, Broadcast).b, 1, 15)}
Tags == {<<>>, <<0, 0, 0>>, <<7, 1, 4094>>, <<3, 0, 4095>>, <<8, 0, 1>>}
MCSamples == [dst : {Broadcast}, src : {HW(1)}, svlan : Tags, vlan : Tags, et : {EtherTypeARP, 2048}, payload : {<<>>, <<5>>, [i \in 1..24 |-> i]}]

-----------------------------------------------------------------------------
(* getopt: lines that mean the same, and lines that are refused.           *)

GD(id, short, long, type, flag, optional, init, choices) ==
    [id |-> id, short |-> short, long |-> long, type |-> type, flag |-> flag, optional |-> optional, init |-> init, choices |-> choices]
MCDecls == <<GD("all", "a", <<"a", "l", "l">>, "bool", TRUE, FALSE, FALSE, {}),
    GD("verb", "v", <<>>, "counter", TRUE, FALSE, 0, {}),
    GD("out", "o", <<"o", "u", "t">>, "string", FALSE, FALSE, <<"d">>, {}),
    GD("list", "l", <<"l", "i", "s", "t">>, "list", FALSE, FALSE, <<<<"d">>, <<"e">>>>, {}),
    GD("num", "n", <<>>, "int8", FALSE, FALSE, 12, {}),
    GD("enum", "e", <<"k", "i", "n", "d">>, "enum", FALSE, FALSE, <<"x">>, {<<"x">>, <<"y">>}),
    GD("opt", "p", <<"o", "p", "t">>, "string", FALSE, TRUE, <<"d">>, {})>>
NoCase == [decls |-> <<>>, lines |-> {}, stop |-> ""]
MCCases == {NoCase,
  [decls |-> MCDecls, lines |-> {<<<<"-", "a">>, <<"-", "v">>, <<"-", "v">>, <<"-", "o">>, <<"z">>, <<"w">>>>,
    <<<<"-", "a", "v", "v">>, <<"-", "o", "z">>, <<"w">>>>,
    <<<<"-", "v", "a", "v", "o">>, <<"z">>, <<"w">>>>,
    <<<<"-", "-", "a", "l", "l">>, <<"-", "v", "v">>, <<"-", "-", "o", "u", "t", "=", "z">>, <<"w">>>>,
    <<<<"-", "-", "a">>, <<"-", "v">>, <<"-", "v">>, <<"-", "-", "o", "u", "t">>, <<"z">>, <<"w">>>>}, stop |-> ""],
  [decls |-> MCDecls, lines |-> {<<<<"-", "l">>, <<"x", ",", "y">>, <<"-", "l">>, <<"z">>>>,
    <<<<"-", "l", "x", ",", "y">>, <<"-", "l", "z">>>>,
    <<<<"-", "-", "l", "i", "s", "t", "=", "x", ",", "y">>, <<"-", "-", "l", "i", "s", "t">>, <<"z">>>>,
    <<<<"-", "-", "l", "=", "x", ",", "y">>, <<"-", "l", "z">>>>}, stop |-> ""],
  [decls |-> MCDecls, lines |-> {<<<<"-", "e">>, <<"y">>, <<"-", "p">>, <<"-", "n", "7">>, <<"-", "-">>, <<"-", "a">>>>,
    <<<<"-", "e", "y">>, <<"-", "-", "o", "p", "t">>, <<"-", "n">>, <<"7">>, <<"-", "-">>, <<"-", "a">>>>,
    <<<<"-", "-", "k", "i", "n", "d", "=", "y">>, <<"-", "p">>, <<"-", "n">>, <<"0", "7">>, <<"-", "-">>, <<"-", "a">>>>}, stop |-> ""],
  [decls |-> MCDecls, lines |-> {<<<<"-", "a">>, <<"-">>, <<"x">>>>,
    <<<<"-", "-", "a", "l", "l">>, <<"-">>, <<"x">>>>}, stop |-> ""],
  [decls |-> MCDecls, lines |-> {<<<<"-", "-", "a", "l", "l", "=", "0">>, <<"-", "v">>>>,
    <<<<"-", "-", "a", "=", "0">>, <<"-", "v">>>>,
    <<<<"-", "-", "a", "l", "l", "=", "f">>, <<"-", "-", "v">>>>}, stop |-> ""],
  [decls |-> MCDecls, lines |-> {<<<<"-", "q">>>>}, stop |-> ""],
  [decls |-> MCDecls, lines |-> {<<<<"-", "-", "q">>>>}, stop |-> ""],
  [decls |-> MCDecls, lines |-> {<<<<"-", "n">>, <<"1", "2", "8">>>>}, stop |-> ""],
  [decls |-> MCDecls, lines |-> {<<<<"-", "n">>>>}, stop |-> ""],
  [decls |-> MCDecls, lines |-> {<<<<"-", "-", "o", "u", "t">>>>}, stop |-> ""],
  [decls |-> MCDecls, lines |-> {<<<<"-", "n", "1", "x">>>>}, stop |-> ""],
  [decls |-> MCDecls, lines |-> {<<<<"-", "e">>, <<"z">>>>}, stop |-> ""],
  [decls |-> MCDecls, lines |-> {<<>>}, stop |-> ""],
  [decls |-> MCDecls, lines |-> {<<<<"-", "a", "v", "o">>, <<"z">>>>}, stop |-> "verb"],
  [decls |-> SubSeq(MCDecls, 5, 5) \o <<GD("dash", "-", <<>>, "bool", TRUE, FALSE, FALSE, {})>>, lines |-> {<<<<"-">>, <<"-", "-", "n">>>>}, stop |-> ""],
  [decls |-> <<MCDecls[2], [MCDecls[2] EXCEPT !.id = "twice"]>>, lines |-> {<<>>}, stop |-> ""]}
MCHelpTexts == UNION {[1..n -> {" ", "x"}] : n \in 0..9}

-----------------------------------------------------------------------------
(* smerge: maps with maps, structs and maps, slices of several types.      *)

St(a, i, l, m) == [kind |-> "struct", v |-> [A |-> a, I |-> i, L |-> l, M |-> m, u |-> Str(0)]]
Mp(id) == [kind |-> "map", v |-> MapAt(id)]
SL(s) == Slice("s", [i \in DOMAIN s |-> Str(s[i])])
NL(s) == Slice("n", [i \in DOMAIN s |-> Str(s[i])])
NoWorld == [heap |-> <<>>, docs |-> <<>>]
MCWorlds == {NoWorld,
  [heap |-> <<[a |-> Str(0), m |-> MapAt(2)], [a |-> Str(1)],
              [a |-> Str(1), l |-> SL(<<1>>), m |-> MapAt(4)], [a |-> Str(2), m |-> MapAt(5)], [z |-> Str(1)],
              [m |-> MapAt(7), l |-> SL(<<2>>), i |-> NilValue], [z |-> Str(2), m |-> Str(1)]>>,
   docs |-> [d |-> Mp(1), s |-> Mp(3), t |-> Mp(6)]],
  [heap |-> <<[m |-> MapAt(2), i |-> MapAt(3), z |-> Str(1)], [a |-> Str(1)], [l |-> SL(<<1>>)],
              [a |-> Str(2)], [l |-> NL(<<2>>), z |-> Str(0)]>>,
   docs |-> [d |-> St(Str(0), NilValue, SL(<<>>), MapAt(0)), s |-> Mp(1), t |-> St(Str(1), MapAt(4), SL(<<1>>), MapAt(5))]],
  [heap |-> <<[i |-> Slice("m", <<MapAt(3), Str(1)>>), l |-> NL(<<1>>), m |-> Str(1)], [i |-> Slice("m", <<MapAt(4)>>), l |-> SL(<<2>>), m |-> MapAt(5), a |-> Str(0)],
              [a |-> Str(1)], [a |-> Str(2), z |-> Str(1)], <<>>>>,
   docs |-> [d |-> Mp(1), s |-> Mp(2), t |-> St(Str(2), Slice("m", <<>>), SL(<<1, 2>>), MapAt(3))]]}
MCOptions == {{}, {"WithOverride"}, {"WithAppendSlice"}, {"WithOverwriteWithEmptyValue"}, {"WithSliceDeepCopy"},
              {"WithOverride", "WithTypeCheck"}, {"WithOverrideEmptySlice"}, {"WithOverride", "WithAppendSlice"}}

-----------------------------------------------------------------------------

\* The parts that are not driven.
PathAtRest == search = [tree |-> Tree(<<0>>, << <<"", "">> >>, << <<>> >>, << <<>> >>), from |-> 1, text |-> <<"a", "[", "1">>, path |-> <<>>]
SshAtRest == disk = NoDisk /\ ignoreErrors = FALSE /\ ask = AnyAsking
ArpAtRest == ifi = QuietInterface /\ owner = [ip \in IPs |-> HW(1)]
GetAtRest == cse = NoCase /\ helpText = <<>>
MergeAtRest == heap = NoWorld.heap /\ docs = NoWorld.docs

MCInit ==
    /\ part \in Parts
    /\ IF part = "path" THEN TRUE ELSE PathAtRest
    /\ IF part = "ssh" THEN TRUE ELSE SshAtRest
    /\ IF part = "arp" THEN TRUE ELSE ArpAtRest
    /\ IF part = "getopt" THEN TRUE ELSE GetAtRest
    /\ IF part = "merge" THEN TRUE ELSE MergeAtRest
    /\ XmlInit /\ PathInit /\ SshInit /\ ArpInit /\ GetInit /\ MergeInit

MCNext ==
    /\ \/ part = "xml" /\ XmlNext /\ UNCHANGED <<pathVars, sshVars, arpVars, getVars, mergeVars>>
       \/ part = "path" /\ PathNext /\ UNCHANGED <<h, sshVars, arpVars, getVars, mergeVars>>
       \/ part = "ssh" /\ SshNext /\ UNCHANGED <<h, pathVars, arpVars, getVars, mergeVars>>
       \/ part = "arp" /\ ArpNext /\ UNCHANGED <<h, pathVars, sshVars, getVars, mergeVars>>
       \/ part = "getopt" /\ GetNext /\ UNCHANGED <<h, pathVars, sshVars, arpVars, mergeVars>>
       \/ part = "merge" /\ MergeNext /\ UNCHANGED <<h, pathVars, sshVars, arpVars, getVars>>
    /\ UNCHANGED part

MCSpec == MCInit /\ [][MCNext]_<<h, pathVars, sshVars, arpVars, getVars, mergeVars, part>>
=============================================================================
