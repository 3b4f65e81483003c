----------------------------- MODULE MCCallers ------------------------------
(***************************************************************************)
(* Callers that wait for somebody else, on small instances: for a lock     *)
(* (lockedfile.Mutex), for a program at the other end of an ssh connection *)
(* (simplessh, sshclient and sshserver), for an XMPP server (sendxmpp).    *)
(* The modules share nothing, so a behaviour drives one of them.           *)
(***************************************************************************)
EXTENDS LockedMutex, Sessions, Xmpp, TLC

CONSTANT Parts

VARIABLE part   \* which of them is driven

-----------------------------------------------------------------------------
(* Mutex.                                                                  *)

\* Two goroutines share a Mutex; a third has its own Mutex for the same path,
\* in another process.
SharedMuOf == ("t1" :> "m1") @@ ("t2" :> "m1") @@ ("t3" :> "m2")
SharedProcOf == ("m1" :> "P") @@ ("m2" :> "Q")

\* Every way of waiting, against threads that block.
SharedCalls == ("t1" :> {"block", "timed"}) @@ ("t2" :> {"block", "once"}) @@ ("t3" :> {"block", "forever"})

-----------------------------------------------------------------------------
(* Sessions: programs, and the calls that run them.                        *)

Pr(k, n, o, c) == [kind |-> k, needs |-> n, out |-> o, code |-> c]
SesProgs == "ls" :> Pr("path", 0, <<1, 2>>, 0) @@ "wc" :> Pr("path", 2, <<1, 2, 3>>, 3) @@ "sh" :> Pr("path", 1, <<4, 5>>, 1) @@ "cd" :> Pr("path", 0, <<>>, 2)
  @@ "nostart" :> Pr("no start", 0, <<>>, 0) @@ "sh: not found" :> Pr("path", 0, <<9>>, 127) @@ "" :> Pr("none", 0, <<>>, 0)
  @@ "scat" :> Pr("scat file", 0, <<>>, 0) @@ "pid" :> Pr("scmd pid", 0, <<>>, 0) @@ "nope" :> Pr("scmd unknown", 0, <<>>, 0) @@ "touch" :> Pr("stouch", 0, <<>>, 0) @@ "grep" :> Pr("scmd pgrepenv none", 0, <<>>, 0) @@ "chmod" :> Pr("scmd chmod", 0, <<>>, 0)
Ca(s, c, y, p, i, sh) == [server |-> s, client |-> c, pty |-> y, prog |-> p, input |-> i, shell |-> sh]
SesCalls == {Ca("sshserver", "Run", FALSE, p, <<>>, TRUE) : p \in {"ls", "wc", "cd", "nostart", "scat", "pid", "nope", "touch", "grep", "chmod"}}
 \cup {Ca("simplessh", "Run", FALSE, p, <<>>, b) : p \in {"ls", "wc", "nostart"}, b \in BOOLEAN}
 \cup {Ca("sshserver", "Shell", FALSE, "wc", <<1, 2, 3>>, TRUE), Ca("sshserver", "RunCommand", TRUE, "", <<1>>, TRUE), Ca("sshserver", "RunCommand", TRUE, "ls", <<1>>, TRUE),
   Ca("simplessh", "Shell", FALSE, "wc", <<1, 2>>, TRUE), Ca("simplessh", "RunCommand", TRUE, "", <<1>>, TRUE), Ca("simplessh", "RunCommand", FALSE, "", <<1>>, TRUE)}

\* A session whose connection was lost.
SesAtRest ==
    /\ call = Ca("sshserver", "Run", FALSE, "ls", <<>>, TRUE)
    /\ usr = [Calling EXCEPT !.pc = "returned"] /\ chn = [NewChannel EXCEPT !.lost = TRUE]
    /\ hd = [NoHandler EXCEPT !.pc = "end"]
    /\ prs = [p \in Procs |-> NoProc] /\ cps = [i \in Copiers |-> NoCopier]

-----------------------------------------------------------------------------
(* sendxmpp: what is sent to whom, and what the server is like.            *)

J1 == <<"a", "@", "b", ".">>
J2 == <<"c", "@", "d", "/", "r">>
Plainly == [recipients |-> <<J1, J2>>, startTLS |-> TRUE, tls |-> FALSE, user |-> "u", rows |-> <<>>, upload |-> FALSE, interactive |-> FALSE, file |-> FALSE, chatroom |-> FALSE, message |-> <<"m">>, lines |-> <<>>, stdin |-> <<>>, eof |-> FALSE, size |-> 1]
XConfs == {Plainly, [Plainly EXCEPT !.chatroom = TRUE, !.tls = TRUE, !.startTLS = FALSE], [Plainly EXCEPT !.upload = TRUE], [Plainly EXCEPT !.upload = TRUE, !.size = 2, !.chatroom = TRUE],
   [Plainly EXCEPT !.file = TRUE, !.lines = <<"", "l">>], [Plainly EXCEPT !.message = <<"">>, !.stdin = <<"x", "y">>, !.startTLS = FALSE],
   [Plainly EXCEPT !.interactive = TRUE, !.stdin = <<"x", "y">>, !.eof = TRUE], [Plainly EXCEPT !.recipients = <<J1, <<"@", "b">>>>],
   [Plainly EXCEPT !.user = ""], [Plainly EXCEPT !.user = "", !.rows = <<[key |-> "#", val |-> ""], [key |-> "jid", val |-> "u"], [key |-> "port", val |-> "p"]>>], [Plainly EXCEPT !.user = "", !.rows = <<[key |-> "port", val |-> "p"]>>],
   [Plainly EXCEPT !.tls = TRUE]}
Serv(j, id, max) == [jid |-> j, identity |-> id, forms |-> IF max = 0 THEN <<>> ELSE <<<<[var |-> "FORM_TYPE", value |-> "upload"], [var |-> "max-file-size", value |-> max]>>>>]
Srv1 == [starttls |-> "offered", tls |-> "proceed", mechs |-> <<"X", "PLAIN">>, auth |-> "success", bind |-> Iq("result", 0, "bind", "j"), services |-> <<Serv("s1", "room", 0), Serv("s2", "store", 0), Serv("s3", "proxy", 0)>>, refuses |-> ""]
XServersTried == {Srv1, [Srv1 EXCEPT !.starttls = "required", !.mechs = <<"DIGEST-MD5", "PLAIN">>], [Srv1 EXCEPT !.starttls = "none"], [Srv1 EXCEPT !.auth = "failure"], [Srv1 EXCEPT !.tls = "failure"], [Srv1 EXCEPT !.bind = Iq("error", 0, "bind", "")], [Srv1 EXCEPT !.bind = Pres("x", "")],
  [Srv1 EXCEPT !.services = <<Serv("s1", "room", 0)>>], [Srv1 EXCEPT !.refuses = "slot"], [Srv1 EXCEPT !.services = <<Serv("s2", "store", 1), Serv("s1", "room", 0)>>], [Srv1 EXCEPT !.mechs = <<"X">>]}
XNoise == {Pres("x", ""), Msg("x", "chat", <<"hi">>, FALSE), Iq("get", 99, "ping", ""), Iq("result", 98, "query", <<"s2">>), Iq("error", 97, "query", ""), Iq("result", items1, "pubsub", ""), Iq("result", unsub1, "none", ""), Iq("result", 96, "pubsub", ""), El("unknown")}

\* A call that could not connect.
XmppAtRest ==
    /\ conf = Plainly /\ xsrv = Srv1 /\ net = NoLink /\ sv = NewServer
    /\ cl = [NewCall EXCEPT !.main = "failed"]

-----------------------------------------------------------------------------

MCInit ==
    /\ part \in Parts /\ Init
    /\ IF part = "session" THEN SesInit ELSE SesAtRest
    /\ IF part = "xmpp" THEN XmppInit ELSE XmppAtRest

MCNext ==
    /\ \/ part = "mutex" /\ Next /\ UNCHANGED <<sesVars, xmppVars>>
       \/ part = "session" /\ SesNext /\ UNCHANGED <<vars, xmppVars>>
       \/ part = "xmpp" /\ XmppNext /\ UNCHANGED <<vars, sesVars>>
    /\ UNCHANGED part

\* Nothing is enabled in a part that is not driven, so the fairness of each
\* part asks nothing of the behaviours of the others.
MCSpec ==
    /\ MCInit /\ [][MCNext]_<<vars, sesVars, xmppVars, part>>
    /\ Scheduled /\ Polite /\ SesFairness /\ XmppFairness
=============================================================================
