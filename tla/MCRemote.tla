------------------------------ MODULE MCRemote ------------------------------
(***************************************************************************)
(* The packages that carry data between hosts, on small instances.  The    *)
(* modules share nothing, so a behaviour drives one of them.               *)
(***************************************************************************)
EXTENDS Scp, Relay, Forward, Vnc

VARIABLE part   \* which of them is driven

File(n, s) == [name |-> n, dir |-> FALSE, items |-> s]
Dir(n, s) == [name |-> n, dir |-> TRUE, items |-> s]
OneFile == File("f", <<<<"byte", 1>>, <<"byte", 2>>>>)
MCTrees == {OneFile, Dir("d", <<Dir("e", <<OneFile>>), File("g", <<>>), File("h", <<<<"byte", 3>>>>)>>)}

\* Two colours that need all three components, and what the viewers do: one
\* alone tries every call, format, version and security type; with another
\* of a version the server does not know, whichever comes first.
MCPalette == <<<<8, 255, 16>>, <<255, 0, 96>>>>
Plan(version, auth, reads, calls) == [version |-> version, auth |-> auth, reads |-> reads, calls |-> calls]
Request(incremental) == <<"request", incremental>>
SetFormat(bpp, big, true, max) == <<"format", PixelFormat(bpp, big, true, max)>>
Lone == {
  Plan(8, {1, 2}, TRUE, <<Request(FALSE), Request(FALSE)>>),
  Plan(8, {1}, TRUE, <<<<"encodings", {"copyrect"}>>, Request(FALSE), Request(TRUE), <<"event", 1>>, <<"event", 2>>, <<"close">>>>),
  Plan(8, {1}, TRUE, <<SetFormat(32, TRUE, TRUE, 31), Request(TRUE), <<"cut">>>>),
  Plan(8, {1}, FALSE, <<Request(FALSE), SetFormat(16, TRUE, TRUE, 31), Request(FALSE), Request(FALSE), <<"close">>>>),
  Plan(8, {1}, TRUE, <<Request(FALSE), SetFormat(8, FALSE, TRUE, 31), Request(FALSE), <<"close">>>>),
  Plan(8, {1}, TRUE, <<SetFormat(32, FALSE, TRUE, 255), Request(FALSE)>>),
  Plan(7, {1}, TRUE, <<SetFormat(8, FALSE, FALSE, 31), Request(FALSE)>>),
  Plan(3, {1}, TRUE, <<Request(FALSE)>>),
  Plan(9, {1}, TRUE, <<>>),
  Plan(8, {2}, TRUE, <<>>)}

CONSTANTS Parts, v1, v2

Pair(p, q) == [v \in {v1, v2} |-> IF v = v1 THEN p ELSE q]
MCViewerPlans ==
    {Pair(p, NoViewer) : p \in Lone} \cup {Pair(Plan(8, {1}, TRUE, <<Request(FALSE)>>), Plan(9, {1}, TRUE, <<>>))}

-----------------------------------------------------------------------------

MCInit ==
    /\ part \in Parts
    /\ IF part = "scp" THEN TRUE ELSE source = "openssh" /\ transport = "pipe" /\ newName = NoName /\ opts = {} /\ tree = OneFile
    /\ IF part = "relay" THEN TRUE ELSE kind = "pair"
    /\ IF part = "forward" THEN TRUE ELSE fn = "TCPIPForwardRequest" /\ requests = {}
    /\ ScpInit /\ RelayInit /\ ForwardInit /\ VncInit
    /\ part # "vnc" => \A v \in Viewers : viewer[v].plan = Plan(9, {1}, TRUE, <<>>) \/ viewer[v].plan = NoViewer

MCNext ==
    /\ \/ part = "scp" /\ ScpNext /\ UNCHANGED <<relayVars, forwardVars, vncVars>>
       \/ part = "relay" /\ RelayNext /\ UNCHANGED <<scpVars, forwardVars, vncVars>>
       \/ part = "forward" /\ ForwardNext /\ UNCHANGED <<scpVars, relayVars, vncVars>>
       \/ part = "vnc" /\ VncNext /\ UNCHANGED <<scpVars, relayVars, forwardVars>>
    /\ UNCHANGED part

\* Nothing is enabled in a part that is not driven, so the fairness of each
\* part asks nothing of the behaviours of the others.
MCSpec ==
    /\ MCInit /\ [][MCNext]_<<scpVars, relayVars, forwardVars, vncVars, part>>
    /\ RelayFairness /\ ForwardFairness /\ VncFairness
=============================================================================
