------------------------------ MODULE Forward ------------------------------
(***************************************************************************)
(* Port forwarding over one ssh connection: LocalForward and RemoteForward *)
(* of simplessh and sshclient, and TCPIPForwardRequest, which a server     *)
(* runs when its request multiplexer gets a "tcpip-forward" request.  Each *)
(* listens, starts an acceptor, waits for the ssh connection to end,       *)
(* closes the listener and hands the acceptor a quit over a channel        *)
(* without a buffer.                                                       *)
(***************************************************************************)
EXTENDS Integers

CONSTANTS
  Forwarders, \* which of the functions below run
  Conns       \* the connections that may come in

\* The listeners that are the ssh connection's own, and the functions that
\* dial before they accept the next connection.
Remote == {"simplessh.RemoteForward", "sshclient.RemoteForward"}

VARIABLES
  fn,           \* the function
  link,         \* is the ssh connection up?
  requests,     \* the types of the global requests that have not been read
  fwd,          \* the function: "asked", "start", "wait", "close", "quit", "over", "failed"
  acceptor,     \* its acceptor: "off", "select", "accept", "dial", "over"
  listening,    \* is the listener open?
  incoming,     \* each connection: "none", "queued", "accepted", "relayed", "stuck", "lost", "closed"
  panicked      \* a nil pointer has been used

forwardVars == <<fn, link, requests, fwd, acceptor, listening, incoming, panicked>>

\* The server's requests come from its client, of known and unknown types.
ForwardInit ==
    /\ fn \in Forwarders
    /\ link = TRUE
    /\ requests \in IF fn = "TCPIPForwardRequest" THEN SUBSET {"tcpip-forward", "unknown"} ELSE {{}}
    /\ fwd = IF fn = "TCPIPForwardRequest" THEN "asked" ELSE "start"
    /\ acceptor = "off" /\ listening = FALSE
    /\ incoming = [c \in Conns |-> "none"]
    /\ panicked = FALSE

-----------------------------------------------------------------------------
(* The environment.                                                        *)

LinkEnds ==
    /\ link /\ link' = FALSE
    /\ listening' = (listening /\ fn \notin Remote)
    /\ UNCHANGED <<fn, requests, fwd, acceptor, incoming, panicked>>

Connects(c) ==
    /\ incoming[c] = "none" /\ listening
    /\ incoming' = [incoming EXCEPT ![c] = "queued"]
    /\ UNCHANGED <<fn, link, requests, fwd, acceptor, listening, panicked>>

-----------------------------------------------------------------------------
(* GlobalMultipleRequestsMux.HandleRequests: a request of a type nobody    *)
(* has registered is discarded, and then handed to the handler, nil.       *)

HandleRequests ==
    /\ \E t \in requests :
          /\ requests' = requests \ {t}
          /\ IF t = "tcpip-forward" THEN fwd' = "start" /\ UNCHANGED panicked
                                    ELSE panicked' = TRUE /\ UNCHANGED fwd
    /\ UNCHANGED <<fn, link, acceptor, listening, incoming>>

-----------------------------------------------------------------------------
(* The functions.                                                          *)

\* sshclient.LocalForward asks a nil listener for its address.
Listen ==
    /\ fwd = "start"
    /\ IF fn = "sshclient.LocalForward"
         THEN panicked' = TRUE /\ UNCHANGED <<fwd, acceptor, listening>>
         ELSE /\ UNCHANGED panicked
              /\ \/ /\ fwd' = "wait" /\ acceptor' = "select"
                    /\ listening' = (fn \in Remote => link)
                 \/ fwd' = "failed" /\ UNCHANGED <<acceptor, listening>>
    /\ UNCHANGED <<fn, link, requests, incoming>>

WaitReturns ==
    /\ fwd = "wait" /\ ~link
    /\ fwd' = "close"
    /\ UNCHANGED <<fn, link, requests, acceptor, listening, incoming, panicked>>

\* Mutant: the listener is left to the acceptor.
CloseListenerNot ==
    /\ fwd = "close"
    /\ fwd' = "quit"
    /\ UNCHANGED <<fn, link, requests, acceptor, listening, incoming, panicked>>

\* Connections that wait in the listener's queue are closed with it.
CloseListener ==
    /\ fwd = "close"
    /\ fwd' = "quit" /\ listening' = FALSE
    /\ incoming' = [c \in Conns |-> IF incoming[c] = "queued" THEN "closed" ELSE incoming[c]]
    /\ UNCHANGED <<fn, link, requests, acceptor, panicked>>

-----------------------------------------------------------------------------
(* The acceptor.                                                           *)

\* The quit is received only here, when the sender is ready.
Select ==
    /\ acceptor = "select"
    /\ IF fwd = "quit" THEN acceptor' = "over" /\ fwd' = "over"
                       ELSE acceptor' = "accept" /\ UNCHANGED fwd
    /\ UNCHANGED <<fn, link, requests, listening, incoming, panicked>>

\* Accept returns a connection, or an error once the listener is closed.
Accept ==
    /\ acceptor = "accept"
    /\ \/ \E c \in Conns : /\ incoming[c] = "queued"
                           /\ incoming' = [incoming EXCEPT ![c] = "accepted"]
                           /\ acceptor' = IF fn \in Remote THEN "dial" ELSE "select"
       \/ ~listening /\ acceptor' = "select" /\ UNCHANGED incoming
    /\ UNCHANGED <<fn, link, requests, fwd, listening, panicked>>

\* The other end is dialled, by the acceptor or by a goroutine.  A connection
\* whose other end cannot be reached is dropped but not closed.  The server
\* first serves the requests on the new channel, until there can be no more.
Dial(c) ==
    /\ incoming[c] = "accepted"
    /\ incoming' = [incoming EXCEPT ![c] = IF fn = "TCPIPForwardRequest" THEN "stuck" ELSE "relayed"]
       \/ incoming' = [incoming EXCEPT ![c] = "lost"]
    /\ acceptor' = IF acceptor = "dial" THEN "select" ELSE acceptor
    /\ UNCHANGED <<fn, link, requests, fwd, listening, panicked>>

\* When the ssh connection has ended, its channels end, and the relays that
\* use them (module Relay).
RelayEnds(c) ==
    /\ ~link /\ incoming[c] \in {"relayed", "stuck"}
    /\ incoming' = [incoming EXCEPT ![c] = "closed"]
    /\ UNCHANGED <<fn, link, requests, fwd, acceptor, listening, panicked>>

ForwardSteps ==
    \/ LinkEnds \/ HandleRequests \/ Listen \/ WaitReturns \/ CloseListener \/ Select \/ Accept
    \/ \E c \in Conns : Connects(c) \/ Dial(c) \/ RelayEnds(c)

ForwardNext == ~panicked /\ ForwardSteps

\* The goroutines run.
ForwardFairness ==
    /\ WF_forwardVars(~panicked /\ (HandleRequests \/ Listen \/ WaitReturns \/ CloseListener))
    /\ WF_forwardVars(~panicked /\ Select) /\ WF_forwardVars(~panicked /\ Accept)
    /\ \A c \in Conns : WF_forwardVars(~panicked /\ (Dial(c) \/ RelayEnds(c)))

ForwardSpec == ForwardInit /\ [][ForwardNext]_forwardVars /\ ForwardFairness

-----------------------------------------------------------------------------
(* Properties.                                                             *)

Stopped ==
    /\ fwd \in {"asked", "over", "failed"} /\ acceptor \in {"off", "over"} /\ ~listening
    /\ \A c \in Conns : incoming[c] \in {"none", "closed", "lost"}

\* When the ssh connection ends, wherever the acceptor is, the function
\* returns, the acceptor ends and nothing is listened to or relayed.
ForwardStops == ~link ~> Stopped \/ panicked
=============================================================================
