------------------------------- MODULE Relay -------------------------------
(***************************************************************************)
(* The two-way relays of the repository, between two connections:          *)
(*   "pair"       CopyReadWriters of simplessh and sshclient;              *)
(*   "websockify" handleProxy, between a WebSocket "src" and a TCP         *)
(*                backend "dst", with or without pings;                    *)
(*   "vncproxy"   HandleWS and ServeWS, between the WebSocket "src" of a   *)
(*                Peer and its VNC backend "dst";                          *)
(*   "listen"     StartCopy of a Peer that waits for its backend: Copy2Way.*)
(* Two copiers run, each in a loop of Read and Write; the kinds differ in  *)
(* who closes what when one of them ends.                                  *)
(*                                                                         *)
(* A peer sends binary chunks and, over a WebSocket, text messages, may    *)
(* end its stream, stop reading for a while, or vanish without a word.     *)
(***************************************************************************)
EXTENDS Integers, Sequences, Functions

CONSTANTS
  Kinds,      \* the kinds of relay
  MaxSent     \* bound: how much each peer sends

Sides == {"src", "dst"}
Other(x) == IF x = "src" THEN "dst" ELSE "src"

VARIABLES
  kind, ping,      \* the kind of relay; does websockify send pings?
  sent,            \* what each peer has sent: <<"bin", n>> or <<"text", n>>
  inbox,           \* what is sent and not read
  fin, reading,    \* has the peer ended its stream? does it read what comes?
  gone,            \* the WebSocket peer has vanished
  open,            \* the relay's own ends of the two connections
  copier, held,    \* the copier from x to Other(x): where it is, and what it holds
  got,             \* what each peer has received
  late,            \* the read deadline of websockify has passed
  main             \* the goroutine that waits: "wait", "closing", "over"

relayPeers == <<sent, fin, reading, gone>>
relayVars == <<kind, ping, relayPeers, inbox, open, copier, held, got, late, main>>

Nothing == <<>>

RelayInit ==
    /\ kind \in Kinds /\ ping \in (IF kind = "websockify" THEN BOOLEAN ELSE {FALSE})
    /\ sent = [x \in Sides |-> <<>>] /\ inbox = sent
    /\ fin = [x \in Sides |-> FALSE] /\ reading = [x \in Sides |-> TRUE] /\ gone = FALSE
    /\ open = [x \in Sides |-> TRUE]
    /\ copier = [x \in Sides |-> "read"] /\ held = [x \in Sides |-> Nothing]
    /\ got = [x \in Sides |-> <<>>]
    /\ late = FALSE /\ main = "wait"

-----------------------------------------------------------------------------
(* The peers.                                                              *)

PeerSends(x) ==
    /\ Len(sent[x]) < MaxSent /\ ~fin[x] /\ open[x] /\ ~(x = "src" /\ gone)
    /\ \E t \in IF x = "src" /\ kind \in {"vncproxy", "websockify"} THEN {"bin", "text"} ELSE {"bin"} :
          LET m == <<t, Len(sent[x]) + 1>>
          IN  sent' = [sent EXCEPT ![x] = Append(@, m)] /\ inbox' = [inbox EXCEPT ![x] = Append(@, m)]
    /\ UNCHANGED <<kind, ping, fin, reading, gone, open, copier, held, got, late, main>>

PeerEnds(x) ==
    /\ ~fin[x] /\ ~(x = "src" /\ gone)
    /\ fin' = [fin EXCEPT ![x] = TRUE]
    /\ UNCHANGED <<kind, ping, sent, reading, gone, inbox, open, copier, held, got, late, main>>

PeerStalls(x) ==
    /\ ~(x = "src" /\ gone)
    /\ reading' = [reading EXCEPT ![x] = ~@]
    /\ UNCHANGED <<kind, ping, sent, fin, gone, inbox, open, copier, held, got, late, main>>

Vanishes ==
    /\ kind = "websockify" /\ ~gone /\ ~fin["src"]
    /\ gone' = TRUE /\ reading' = [reading EXCEPT !["src"] = FALSE]
    /\ UNCHANGED <<kind, ping, sent, fin, inbox, open, copier, held, got, late, main>>

-----------------------------------------------------------------------------
(* The copiers.                                                            *)

Copier(x, label, h) ==
    copier' = [copier EXCEPT ![x] = label] /\ held' = [held EXCEPT ![x] = h]

\* ConnWs.Read of vncproxy passes over messages that are not binary; a
\* TCP connection and the reader of websockify hand out what there is.
Passes(m) == kind = "vncproxy" => m[1] = "bin"

\* Mutant: a read that finds a message of another type drops what follows it too.
ReadDropsRest(x) ==
    /\ copier[x] = "read" /\ open[x] /\ inbox[x] # <<>>
    /\ Copier(x, IF Passes(inbox[x][1]) THEN "write" ELSE "read", IF Passes(inbox[x][1]) THEN <<inbox[x][1]>> ELSE Nothing)
    /\ inbox' = [inbox EXCEPT ![x] = IF Passes(@[1]) THEN Tail(@) ELSE <<>>]
    /\ UNCHANGED <<kind, ping, relayPeers, open, got, late, main>>

\* Read returns one message or, from a stream, any part of what has come.
Read(x) ==
    /\ copier[x] = "read" /\ open[x] /\ inbox[x] # <<>>
    /\ \E k \in IF x = "src" /\ kind # "pair" THEN {1} ELSE 1..Len(inbox[x]) :
          /\ inbox' = [inbox EXCEPT ![x] = SubSeq(@, k + 1, Len(@))]
          /\ IF Passes(inbox[x][1]) THEN Copier(x, "write", SubSeq(inbox[x], 1, k))
                                    ELSE Copier(x, "read", Nothing)
    /\ UNCHANGED <<kind, ping, relayPeers, open, got, late, main>>

\* Write returns when the peer has taken everything.
Write(x) ==
    /\ copier[x] = "write" /\ open[Other(x)] /\ reading[Other(x)]
    /\ got' = [got EXCEPT ![Other(x)] = @ \o held[x]]
    /\ Copier(x, "read", Nothing)
    /\ UNCHANGED <<kind, ping, relayPeers, inbox, open, late, main>>

\* The end of the stream, a Read or Write on a connection that has been
\* closed, or a Write to a peer that has closed its side.
CopyEnds(x) ==
    /\ \/ copier[x] = "read" /\ (~open[x] \/ (fin[x] /\ inbox[x] = <<>>))
       \/ copier[x] = "write" /\ (~open[Other(x)] \/ fin[Other(x)])
    /\ Copier(x, "done", Nothing)
    /\ UNCHANGED <<kind, ping, relayPeers, inbox, open, got, late, main>>

-----------------------------------------------------------------------------
(* websockify: the read deadline, which every pong that is read moves on.  *)
(* Pongs are read by the copier, so a Write that takes long lets it pass   *)
(* as a silent peer does.                                                  *)

DeadlinePasses ==
    /\ ping /\ ~late /\ (gone \/ copier["src"] = "write")
    /\ late' = TRUE
    /\ UNCHANGED <<kind, ping, relayPeers, inbox, open, copier, held, got, main>>

Pong ==
    /\ ping /\ late /\ ~gone /\ copier["src"] = "read"
    /\ late' = FALSE
    /\ UNCHANGED <<kind, ping, relayPeers, inbox, open, copier, held, got, main>>

\* Mutant: the deadline does not interrupt the reader.
DeadlineIgnored == FALSE /\ UNCHANGED relayVars

DeadlineError ==
    /\ late /\ copier["src"] = "read"
    /\ Copier("src", "done", Nothing)
    /\ UNCHANGED <<kind, ping, relayPeers, inbox, open, got, late, main>>

-----------------------------------------------------------------------------
(* What follows the end of a copier.                                       *)

\* once.Do(close)
CloseBoth(x) ==
    /\ kind = "pair" /\ copier[x] = "done"
    /\ copier' = [copier EXCEPT ![x] = "over"]
    /\ open' = [y \in Sides |-> FALSE] /\ main' = "over"
    /\ UNCHANGED <<kind, ping, relayPeers, inbox, held, got, late>>

\* ReadTarget of a Peer is waited for by nobody; ReadSource runs in main.
WaitedFor(x) == kind = "vncproxy" => x = "src"

\* The sends on done (capacity 2) and on the errorChannel of Copy2Way
\* (capacity 1, and the first is received): neither copier is held up.
Tells(x) ==
    /\ kind # "pair" /\ copier[x] = "done"
    /\ copier' = [copier EXCEPT ![x] = "over"]
    /\ main' = IF main = "wait" /\ WaitedFor(x) THEN "closing" ELSE main
    /\ UNCHANGED <<kind, ping, relayPeers, inbox, open, held, got, late>>

\* Peer.Close closes the target only if there is none; StartCopy closes the
\* connection it has accepted.
PeerClose == {"src"}
StartCopyCloses == {"dst"}

\* The deferred calls: handleProxy closes both; deletePeer calls Peer.Close.
Closes == CASE kind = "websockify" -> Sides [] kind = "vncproxy" -> PeerClose [] OTHER -> StartCopyCloses

MainEnds ==
    /\ main = "closing" /\ main' = "over"
    /\ open' = [x \in Sides |-> open[x] /\ x \notin Closes]
    /\ UNCHANGED <<kind, ping, relayPeers, inbox, copier, held, got, late>>

RelayNext ==
    \/ \E x \in Sides : \/ PeerSends(x) \/ PeerEnds(x) \/ PeerStalls(x)
                       \/ Read(x) \/ Write(x) \/ CopyEnds(x) \/ CloseBoth(x) \/ Tells(x)
    \/ Vanishes \/ DeadlinePasses \/ Pong \/ DeadlineError \/ MainEnds

\* The goroutines run and timers fire; a Read that always finds the deadline
\* passed in the end returns its error.
RelayFairness ==
    /\ \A x \in Sides : /\ WF_relayVars(Read(x)) /\ WF_relayVars(Write(x))
                       /\ WF_relayVars(CopyEnds(x)) /\ WF_relayVars(CloseBoth(x))
                       /\ WF_relayVars(Tells(x))
    /\ WF_relayVars(DeadlinePasses) /\ WF_relayVars(DeadlineError) /\ WF_relayVars(MainEnds)

RelaySpec == RelayInit /\ [][RelayNext]_relayVars /\ RelayFairness

-----------------------------------------------------------------------------
(* Properties.                                                             *)

\* What x has sent that is meant for the other side, and what is on the way.
Wanted(x) == {m \in Range(sent[x]) : Passes(m)}
OnTheWay(x) == got[Other(x)] \o held[x] \o inbox[x]

InTurn(s) == \A i, j \in DOMAIN s : i < j => s[i][2] < s[j][2]

\* What a peer has received is what the other has sent, from the start, in
\* order, without gaps and each once; and while the copier runs, what has not
\* been received is held by it or waits to be read.
RelayInOrder ==
    \A x \in Sides :
       /\ InTurn(OnTheWay(x))
       /\ Range(got[Other(x)]) \subseteq Wanted(x)
       /\ \A m \in Range(got[Other(x)]), k \in Wanted(x) : k[2] < m[2] => k \in Range(got[Other(x)])
       /\ copier[x] \in {"read", "write"} => Wanted(x) \subseteq Range(OnTheWay(x))

Over == (\A x \in Sides : ~open[x] /\ copier[x] = "over") /\ main = "over"

\* When one peer ends its stream, and the other reads what is still on its
\* way, CopyReadWriters and handleProxy close both connections and all their
\* goroutines end; and so does handleProxy with pings when the WebSocket peer
\* vanishes and the backend reads ("the session closes if the peer does not
\* reply within 2*d").
RelayCloses ==
    kind \in {"pair", "websockify"} =>
       /\ \A x \in Sides : [](fin[x] /\ []reading[Other(x)] => <>Over)
       /\ ping => [](gone /\ []reading["dst"] => <>Over)

\* "Close close the websocket connection and the vnc backend connection"
PeerCloseClosesBoth == kind = "vncproxy" /\ main = "over" => \A x \in Sides : ~open[x]
=============================================================================
