-------------------------------- MODULE Xmpp --------------------------------
(***************************************************************************)
(* Package sendxmpp and the go-xmpp library it keeps under vendor.org:     *)
(* SendMessage connects to a server, negotiates TLS, SASL and a resource,  *)
(* uploads a file over HTTP if it is asked to (queries to the server, each *)
(* answered through a goroutine getIQ of its own), sends the message to    *)
(* every recipient, through chat rooms or not, and closes.                 *)
(*                                                                         *)
(* The server is external: it answers what it reads, in order, and sends   *)
(* stanzas of its own once a resource is bound.  The link may be cut.      *)
(***************************************************************************)
EXTENDS Integers, SequencesExt, FiniteSetsExt

CONSTANTS
  Confs,      \* the XMPPClients and the arguments of SendMessage
  XServers,   \* what a server offers and answers
  Noise,      \* the stanzas a server sends unasked
  MaxNoise,   \* bound: how many
  MaxEmpties  \* bound: how many messages are made of the end of the input

VARIABLES
  conf, xsrv,
  net,   \* conn: "none", "tcp", "tls"; cut; up, down: what is on its way to the server, and from it
  cl,    \* SendMessage: main, phase (the stream: "plain", "tls", "authed"), jid;
         \* getIQ: reader (the id it waits for, or 0), chan, qid (the ids used);
         \* HttpUpload: services, component, identity, forms; text, todo (stanzas to send), stdin, empties
  sv     \* the server: authed, bound, got (the stanzas it has read), noise

xmppVars == <<conf, xsrv, net, cl, sv>>
xmppFixed == <<conf, xsrv>>

El(k) == [k |-> k]
Iq(type, id, q, body) == [k |-> "iq", type |-> type, id |-> id, q |-> q, body |-> body]
Msg(to, type, body, oob) == [k |-> "message", to |-> to, type |-> type, body |-> body, oob |-> oob]
Pres(to, type) == [k |-> "presence", to |-> to, type |-> type]

At1(main) == cl' = [cl EXCEPT !.main = main]
Ended1(main) == cl' = [cl EXCEPT !.main = main, !.reader = 0, !.chan = <<>>]
Wrote(n, s) == IF n.cut THEN n ELSE [n EXCEPT !.up = Append(@, s)]
\* A return of SendMessage with an error, and log.Fatal; both close the connection.
Hangup == [net EXCEPT !.conn = "none", !.down = <<>>]
Fail == Ended1("failed") /\ net' = Hangup
Fatal == Ended1("exited") /\ net' = Hangup

-----------------------------------------------------------------------------
(* Jabber identifiers, the configuration file, the message file.           *)

Find1(s, c) == SelectInSeq(s, LAMBDA x : x = c)

\* A sequence of characters, or <<>> for an error.
MarshalJID(input) ==
    LET slash == Find1(input, "/")
        resource == IF slash = 0 THEN <<>> ELSE SubSeq(input, slash, Len(input))
        s == IF slash = 0 THEN input ELSE SubSeq(input, 1, slash - 1)
        at == Find1(s, "@")
        d == SubSeq(s, at + 1, Len(s))
        domain == IF d # <<>> /\ Last(d) = "." THEN Front(d) ELSE d
    IN  IF Len(resource) = 1 \/ at \in {0, 1} \/ domain = <<>> THEN <<>>
        ELSE SubSeq(s, 1, at) \o domain \o resource

\* The rows of the file: [key, val]; key "jid" stands for a row user@server or
\* user;server and its password, "#" for a comment.
parseConfig(rows) ==
    FoldLeft(LAMBDA out, r : CASE r.key \in {"username", "jserver", "password", "port"} -> [out EXCEPT ![r.key] = r.val]
                               [] r.key = "jid" -> [out EXCEPT !.username = r.val, !.jserver = r.val, !.password = r.val]
                               [] r.key \in {"#", ""} -> out,
             [username |-> "", jserver |-> "", password |-> "", port |-> ""], rows)

\* The lines of a file or of the standard input; an empty first line is lost.
readMessage(lines) ==
    FoldLeft(LAMBDA out, l : IF out = <<"">> THEN <<l>> ELSE Append(out, l), <<"">>, lines)


Recipients == [i \in DOMAIN conf.recipients |-> MarshalJID(conf.recipients[i])]

\* What SendMessage checks before it dials.
Checked ==
    /\ conf.recipients # <<>>
    /\ ~(conf.startTLS /\ conf.tls)
    /\ \A i \in DOMAIN conf.recipients : Recipients[i] # <<>>
    /\ conf.user = "" => conf.rows # <<>>
    /\ ~(conf.upload /\ (conf.interactive \/ conf.file))

User == IF conf.user # "" THEN conf.user ELSE parseConfig(conf.rows).username

SendMessage ==
    /\ cl.main = "call"
    /\ At1(IF ~Checked THEN "failed" ELSE IF User = "" THEN "exited" ELSE "dial")
    /\ UNCHANGED <<xmppFixed, net, sv>>

-----------------------------------------------------------------------------
(* The streams.                                                            *)

\* startStream: the header is written, the server's header and its features
\* are read next.
startStream(p, conn) ==
    /\ cl' = [cl EXCEPT !.phase = p, !.main = "opening"]
    /\ net' = Wrote([net EXCEPT !.conn = conn, !.down = IF @ = <<>> THEN @ ELSE Tail(@)], [k |-> "stream", enc |-> conn])

\* Dialling fails, or a proxy refuses and its connection stays open.
connect == {"none", "tcp"}

\* NewClient: the connection also stays open when the handshake of a client
\* that starts with TLS fails.
NewClient ==
    /\ cl.main = "dial"
    /\ \/ At1("failed") /\ \E left \in connect : net' = [net EXCEPT !.conn = left]
       \/ startStream("plain", IF conf.tls THEN "tls" ELSE "tcp")
    /\ UNCHANGED <<xmppFixed, sv>>

\* The client reads an element of the stream.
Reads(main) == cl.main = main /\ net.down # <<>>
Next1 == Head(net.down)
Taken == [net EXCEPT !.down = Tail(@)]

\* The connection is lost while the client reads.
ReadFails ==
    /\ cl.main \in {"opening", "features", "proceed", "challenge", "rspauth", "verdict", "bind"}
    /\ net.cut /\ net.down = <<>>
    /\ Fail
    /\ UNCHANGED <<xmppFixed, sv>>

Opening == Reads("opening") /\ net' = Taken /\ At1("features") /\ UNCHANGED <<xmppFixed, sv>>

startTLSIfRequired(f) == f.starttls = "required" \/ (f.starttls = "offered" /\ conf.startTLS)

\* The first mechanism of the server's that the client has.
Mechanism(f) ==
    LET ms == SelectSeq(f.mechs, LAMBDA m : m \in {"PLAIN", "DIGEST-MD5"}) IN IF ms = <<>> THEN "" ELSE Head(ms)

Auth(f) ==
    IF net.conn # "tls" \/ Mechanism(f) = "" THEN Fail
    ELSE /\ net' = Wrote(Taken, [k |-> "auth", mech |-> Mechanism(f)])
         /\ At1(IF Mechanism(f) = "PLAIN" THEN "verdict" ELSE "challenge")

Features ==
    /\ Reads("features")
    /\ CASE cl.phase = "plain" /\ startTLSIfRequired(Next1) -> net' = Wrote(Taken, El("starttls")) /\ At1("proceed")
         [] cl.phase = "plain" /\ ~startTLSIfRequired(Next1) -> Auth(Next1)
         [] cl.phase = "tls" -> Auth(Next1)
         [] cl.phase = "authed" -> net' = Wrote(Taken, Iq("set", 0, "bind", "")) /\ At1("bind")
    /\ UNCHANGED <<xmppFixed, sv>>

\* The answer to <starttls>, and the handshake.
Proceed ==
    /\ Reads("proceed")
    /\ (Next1.k = "proceed" /\ startStream("tls", "tls")) \/ Fail
    /\ UNCHANGED <<xmppFixed, sv>>

\* DIGEST-MD5: whatever element comes is decoded as the challenge.
Challenge(main, then) ==
    /\ Reads(main)
    /\ IF Next1.k = "challenge" THEN net' = Wrote(Taken, El("response")) /\ At1(then) ELSE Fail
    /\ UNCHANGED <<xmppFixed, sv>>

Verdict ==
    /\ Reads("verdict")
    /\ IF Next1.k = "success" THEN startStream("authed", net.conn) ELSE Fail
    /\ UNCHANGED <<xmppFixed, sv>>

\* The answer to the request for a resource.  An <iq> of type error has no
\* <bind>, and leaves the client without an identifier.
Bound ==
    /\ Reads("bind")
    /\ IF Next1.k # "iq" THEN Fail
       ELSE /\ net' = Wrote(Taken, Pres("", ""))
            /\ cl' = [cl EXCEPT !.jid = Next1.body, !.main = IF conf.upload THEN "items" ELSE "compose"]
    /\ UNCHANGED <<xmppFixed, sv>>

-----------------------------------------------------------------------------
(* Recv and getIQ.                                                         *)

\* The fixed identifiers of pubsub requests; the others are cnonce's, 1, 2, ...
sub1 == -1
unsub1 == -2
items1 == -3

\* What Recv makes of an element: what it returns ("again": it reads the next
\* one), and what it writes.  The case of a ping falls through to that of an
\* error, which says nothing of an error that is not about a subscription.
Recv(s) ==
    LET Ret(r) == [ret |-> r, wrote |-> <<>>]
        error == IF s.id = sub1 THEN "PubsubSubscription" ELSE "again"
        pubsub == CASE s.id = sub1 -> "PubsubSubscription" [] s.id = unsub1 -> "PubsubUnsubscription"
                    [] s.id = items1 -> "PubsubItems" [] OTHER -> "again"
    IN  CASE s.k = "message" -> Ret(IF s.type = "event" THEN "PubsubEvent" ELSE "Chat")
          [] s.k = "presence" -> Ret("Presence")
          [] s.k = "unknown" -> Ret("error")
          [] s.k = "iq" ->
                IF s.q = "ping" THEN [ret |-> error, wrote |-> <<Iq("result", s.id, "none", "")>>]
                ELSE IF s.type = "error" THEN Ret(error)
                ELSE IF s.type = "result" /\ s.id = unsub1 THEN Ret("PubsubUnsubscription")
                ELSE IF s.q = "pubsub" THEN Ret(pubsub)
                ELSE Ret("IQ")

IsAnswer(s) == Recv(s).ret = "IQ" /\ s.id = cl.reader

\* Mutant: the goroutine ends at the first element, be it the answer or not.
getIQOnce ==
    /\ cl.reader # 0
    /\ IF net.down = <<>> THEN net.cut /\ Fatal
       ELSE LET s == Next1
            IN  IF Recv(s).ret = "error" THEN Fatal
                ELSE /\ net' = FoldLeft(Wrote, Taken, Recv(s).wrote)
                     /\ cl' = [cl EXCEPT !.reader = 0, !.chan = IF IsAnswer(s) THEN <<s>> ELSE <<>>]
    /\ UNCHANGED <<xmppFixed, sv>>

\* One element read by the goroutine of a query.
getIQ ==
    /\ cl.reader # 0
    /\ IF net.down = <<>> THEN net.cut /\ Fatal
       ELSE LET s == Next1
            IN  IF Recv(s).ret = "error" THEN Fatal
                ELSE /\ net' = FoldLeft(Wrote, Taken, Recv(s).wrote)
                     /\ cl' = IF IsAnswer(s) THEN [cl EXCEPT !.reader = 0, !.chan = <<s>>] ELSE cl
    /\ UNCHANGED <<xmppFixed, sv>>

-----------------------------------------------------------------------------
(* HttpUpload.                                                             *)

\* A query, with the goroutine that waits for its answer.
Ask(main, then, q, to) ==
    /\ cl.main = main
    /\ cl' = [cl EXCEPT !.main = then, !.qid = @ + 1, !.reader = cl.qid + 1]
    /\ net' = Wrote(net, Iq("get", cl.qid + 1, q, to))
    /\ UNCHANGED <<xmppFixed, sv>>

AskItems == Ask("items", "items?", "items", "")
AskInfo == Ask("info", "info?", "info", IF cl.services = <<>> THEN "" ELSE Head(cl.services))
AskSlot == Ask("slot", "slot?", "slot", cl.component)

\* The largest file that the forms collected so far allow, or 0.
maxFileSize(forms) ==
    FoldLeft(LAMBDA max, form : IF \E i \in 2..Len(form) : form[i].var = "max-file-size" /\ form[i - 1].value = "upload"
                                THEN form[CHOOSE i \in 2..Len(form) : form[i].var = "max-file-size"].value ELSE max, 0, forms)

\* All services are asked, or there is one more.
Asked(c) ==
    CASE c.services # <<>> -> [c EXCEPT !.main = "info"]
      [] c.services = <<>> ->
            [c EXCEPT !.main = IF c.component = "" \/ maxFileSize(c.forms) \in 1..(conf.size - 1) THEN "exited" ELSE "slot"]

\* The answers.  The record the disco#info answers are decoded to is the same
\* for all services: an identity stays until another comes, the forms add up.
Answered ==
    /\ cl.chan # <<>>
    /\ LET a == cl.chan[1]
           c == [cl EXCEPT !.chan = <<>>]
       IN  CASE cl.main = "items?" -> cl' = Asked([c EXCEPT !.services = a.body]) /\ UNCHANGED net
             [] cl.main = "info?" ->
                   LET identity == IF a.body.identity = "" THEN cl.identity ELSE a.body.identity
                   IN  /\ cl' = Asked([c EXCEPT !.services = Tail(@), !.identity = identity,
                                                !.forms = @ \o a.body.forms,
                                                !.component = IF identity = "store" THEN Head(cl.services) ELSE @])
                       /\ UNCHANGED net
             [] cl.main = "slot?" ->   \* the PUT
                   \/ cl' = [c EXCEPT !.text = a.body, !.main = "compose"] /\ UNCHANGED net
                   \/ Fatal
    /\ UNCHANGED <<xmppFixed, sv>>

-----------------------------------------------------------------------------
(* The message.                                                            *)

MsgType == IF conf.chatroom THEN "groupchat" ELSE "chat"
Messages(text) == [i \in DOMAIN Recipients |-> Msg(Recipients[i], MsgType, text, conf.upload)]
Joins == IF conf.chatroom THEN [i \in DOMAIN Recipients |-> Pres(Recipients[i], "join")] ELSE <<>>
Leaves == IF conf.chatroom THEN [i \in DOMAIN Recipients |-> Pres(Recipients[i], "unavailable")] ELSE <<>>

\* Mutant: the rooms are left before the message is sent.
StanzasEarlyLeave(text) == Joins \o Leaves \o Messages(text)

Stanzas(text) == Joins \o Messages(text) \o Leaves

\* The message of a call that is not interactive: the argument, the client's
\* own, the file's, or what the standard input has.
Compose ==
    /\ cl.main = "compose" /\ ~conf.interactive
    /\ LET given == IF conf.file THEN readMessage(conf.lines) ELSE conf.message
           text == IF conf.upload THEN cl.text ELSE IF given = <<"">> THEN readMessage(cl.stdin) ELSE given
       IN  cl' = [cl EXCEPT !.text = text, !.todo = Stanzas(text), !.main = "send"]
    /\ UNCHANGED <<xmppFixed, net, sv>>

\* In interactive mode a new Scanner is made for every line: what it read and
\* did not use is lost with it.  At the end of the input it yields "".
Interact ==
    /\ cl.main = "compose" /\ conf.interactive
    /\ LET joins == IF cl.text = <<>> THEN Joins ELSE <<>>
       IN  \/ /\ cl.stdin # <<>>
              /\ \E k \in DOMAIN cl.stdin :
                    cl' = [cl EXCEPT !.text = <<cl.stdin[1]>>, !.stdin = SubSeq(@, k + 1, Len(@)),
                                     !.todo = joins \o Messages(<<cl.stdin[1]>>), !.main = "send"]
           \/ /\ cl.stdin = <<>> /\ conf.eof /\ cl.empties < MaxEmpties
              /\ cl' = [cl EXCEPT !.text = <<"">>, !.empties = @ + 1, !.todo = joins \o Messages(<<"">>), !.main = "send"]
    /\ UNCHANGED <<xmppFixed, net, sv>>

\* JoinMUCNoHistory, Send, LeaveMUC: a write to a lost connection may fail or
\* seem to succeed; only LeaveMUC's error is passed over.
SendOne ==
    /\ cl.main = "send" /\ cl.todo # <<>>
    /\ \/ net' = Wrote(net, Head(cl.todo)) /\ cl' = [cl EXCEPT !.todo = Tail(@)]
       \/ net.cut /\ Head(cl.todo) \notin ToSet(Leaves) /\ Fail
    /\ UNCHANGED <<xmppFixed, sv>>

SentAll ==
    /\ cl.main = "send" /\ cl.todo = <<>>
    /\ IF conf.interactive THEN At1("compose") /\ UNCHANGED net ELSE At1("ok") /\ net' = Hangup
    /\ UNCHANGED <<xmppFixed, sv>>

-----------------------------------------------------------------------------
(* The server and the link, external.                                      *)

Sends(ss) == net' = [net EXCEPT !.up = Tail(@), !.down = IF net.conn = "none" THEN @ ELSE @ \o ss]

FeaturesOf(enc) == [k |-> "features", starttls |-> IF enc = "tls" THEN "none" ELSE xsrv.starttls, mechs |-> xsrv.mechs]

ServerAnswers ==
    /\ net.up # <<>> /\ ~net.cut
    /\ LET s == Head(net.up)
           Of(jid) == xsrv.services[CHOOSE i \in DOMAIN xsrv.services : xsrv.services[i].jid = jid]
       IN  CASE s.k = "stream" -> Sends(<<El("stream"), FeaturesOf(s.enc)>>) /\ UNCHANGED sv
             [] s.k = "starttls" -> Sends(<<El(xsrv.tls)>>) /\ UNCHANGED sv
             [] s.k \in {"auth", "response"} ->
                   LET left == IF s.k = "auth" THEN (IF s.mech = "PLAIN" THEN 0 ELSE 2) ELSE sv.left - 1
                   IN  sv' = [sv EXCEPT !.left = left] /\ Sends(<<El(IF left = 0 THEN xsrv.auth ELSE "challenge")>>)
             [] s.k \in {"presence", "message"} -> Sends(<<>>) /\ sv' = [sv EXCEPT !.got = Append(@, s)]
             [] s.k = "iq" /\ s.q = "bind" -> Sends(<<xsrv.bind>>) /\ sv' = [sv EXCEPT !.bound = TRUE]
             [] s.k = "iq" /\ s.type = "result" -> Sends(<<>>) /\ sv' = [sv EXCEPT !.pongs = @ + 1]
             [] s.k = "iq" /\ s.q \in {"items", "info", "slot"} ->
                   LET body == CASE s.q = "items" -> [i \in DOMAIN xsrv.services |-> xsrv.services[i].jid]
                                 [] s.q = "info" -> Of(s.body)
                                 [] s.q = "slot" -> <<"url", s.body>>
                   IN  Sends(<<Iq(IF s.q = xsrv.refuses THEN "error" ELSE "result", s.id, s.q, body)>>) /\ UNCHANGED sv
    /\ UNCHANGED <<xmppFixed, cl>>

ServerNoise ==
    /\ sv.bound /\ sv.noise < MaxNoise /\ ~net.cut /\ conf.upload /\ net.conn # "none"
    /\ \E s \in Noise :
          /\ net' = [net EXCEPT !.down = Append(@, s)]
          /\ sv' = [sv EXCEPT !.noise = @ + 1, !.pings = @ + (IF s.k = "iq" /\ s.q = "ping" THEN 1 ELSE 0)]
    /\ UNCHANGED <<xmppFixed, cl>>

LinkCut ==
    /\ ~net.cut /\ net.conn # "none"
    /\ net' = [net EXCEPT !.cut = TRUE, !.up = <<>>, !.down = <<>>]
    /\ UNCHANGED <<xmppFixed, cl, sv>>

NoLink == [conn |-> "none", cut |-> FALSE, up |-> <<>>, down |-> <<>>]
NewCall == [main |-> "call", phase |-> "plain", jid |-> "", reader |-> 0, chan |-> <<>>, qid |-> 0,
            services |-> <<>>, component |-> "", identity |-> "", forms |-> <<>>,
            text |-> <<>>, todo |-> <<>>, stdin |-> <<>>, empties |-> 0]
NewServer == [left |-> 0, bound |-> FALSE, got |-> <<>>, noise |-> 0, pings |-> 0, pongs |-> 0]

XmppInit ==
    /\ conf \in Confs /\ xsrv \in XServers
    /\ net = NoLink /\ cl = [NewCall EXCEPT !.stdin = conf.stdin] /\ sv = NewServer

XmppMain ==
    \/ SendMessage \/ NewClient \/ ReadFails \/ Opening \/ Features \/ Proceed \/ Challenge("challenge", "rspauth")
    \/ Challenge("rspauth", "verdict") \/ Verdict \/ Bound \/ AskItems \/ AskInfo \/ AskSlot \/ Answered
    \/ Compose \/ Interact \/ SendOne \/ SentAll
XmppNext == XmppMain \/ getIQ \/ ServerAnswers \/ ServerNoise \/ LinkCut
XmppFairness == WF_xmppVars(XmppMain) /\ WF_xmppVars(getIQ) /\ WF_xmppVars(ServerAnswers)

-----------------------------------------------------------------------------
(* Properties.                                                             *)

\* The text a call that is not interactive is to send: the address the upload
\* component gave, or the lines that were given.
Stores == {i \in DOMAIN xsrv.services : xsrv.services[i].identity = "store"}
IsText(t) ==
    IF conf.upload THEN \E i \in Stores : t = <<"url", xsrv.services[i].jid>>
    ELSE LET lines == IF conf.file THEN conf.lines ELSE IF conf.message # <<"">> THEN conf.message ELSE conf.stdin
         IN  \E k \in 0..Len(lines) : (\A i \in 1..k : lines[i] = "") /\ t = SubSeq(lines, k + 1, Len(lines))

Order == IF conf.chatroom THEN <<"join", "groupchat", "unavailable">> ELSE <<"chat">>
InTurn(t) == FlattenSeq([k \in DOMAIN Order |-> [i \in DOMAIN conf.recipients |->
                 IF Order[k] \in {"chat", "groupchat"} THEN Msg(Recipients[i], Order[k], t, conf.upload) ELSE Pres(Recipients[i], Order[k])]])
Reached == SelectSeq(sv.got \o net.up, LAMBDA s : s.k \in {"message", "presence"})

\* What a call sends, at any moment, is the start of this and, when it returns
\* without an error over a link that held, all of it: the client's presence, and
\* then for every recipient in turn the room joined, the message and the room
\* left, the text being the file's address only once the component that stores
\* files has given it, whatever else the server sends meanwhile; nothing is sent
\* before the stream is encrypted and a resource is bound; and a ping is answered
\* at most once.
SentToEach ==
    /\ ~conf.interactive /\ Reached # <<>> =>
          /\ sv.bound /\ Head(Reached) = Pres("", "")
          /\ IF Len(Reached) = 1 THEN cl.main # "ok" \/ net.cut
             ELSE \E t \in {cl.text} : /\ IsText(t)
                                       /\ IsPrefix(Tail(Reached), InTurn(t))
                                       /\ cl.main = "ok" /\ ~net.cut => Tail(Reached) = InTurn(t)
    /\ cl.main = "ok" => Checked
    /\ sv.pongs <= sv.pings

\* A call that is not interactive ends, with an error or without, if the server
\* answers what it is asked or the link is cut, and the answer to no query is an
\* error, which Recv drops.
SendEnds ==
    <>[](cl.main \in {"ok", "failed", "exited"} \/ conf.interactive \/ xsrv.refuses # "")
=============================================================================
