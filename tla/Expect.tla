------------------------------- MODULE Expect -------------------------------
(***************************************************************************)
(* A GExpect of package goexpect: the spawned session and the goroutines   *)
(* that read its output into the buffer `out', write what is sent, and     *)
(* wait for its end; and a client that calls Expect, ExpectSwitchCase,     *)
(* Send, ExpectBatch (any sequence of these) and Close.                    *)
(*                                                                         *)
(* Output is a stream of tokens per reader; a regular expression is the    *)
(* set of tokens it matches.  Time is abstract: a timer, a ticker or a     *)
(* timeout that is running may fire at any moment.                         *)
(***************************************************************************)
EXTENDS Integers, Sequences, Functions, FiniteSets

CONSTANTS
  Setups,       \* the sessions and options: <<kind, partialMatch, sendTimeout>>,
                \* kind being "pty", "session" (ssh, generic) or "fake" (or NoCheck)
  Streams,      \* what each reader of a kind's session may get: a sequence
  Calls         \* the case lists the client may pass to ExpectSwitchCase

Tokens == UNION {UNION {Range(Streams[k][r]) : r \in DOMAIN Streams[k]} : k \in DOMAIN Streams}
Cases == [re : SUBSET Tokens, tag : {"none", "ok", "fail", "continue", "next"}, rt : Int, send : BOOLEAN]

\* The readers of a session read different tokens.
ASSUME ExpectAssumption ==
    /\ \A o \in Setups : o[1] \in {"pty", "session", "fake"} \cap DOMAIN Streams
    /\ \A k \in DOMAIN Streams : \A r \in DOMAIN Streams[k] : Streams[k][r] \in Seq(Tokens)
    /\ \A k \in DOMAIN Streams : \A q, r \in DOMAIN Streams[k] :
          q # r => Range(Streams[k][q]) \cap Range(Streams[k][r]) = {}
    /\ Calls \subseteq Seq(Cases)

VARIABLES
  kind, partialMatch, sendTimeout,    \* the options
  child,      \* "running", "exited", "reaped": Wait has returned
  closed,     \* has the client called Close?
  written,    \* how much of its streams the session has written
  pipe,       \* written and not read, per reader
  rdr,        \* the reader goroutines: their place and the chunk in hand
  sender,     \* the sending goroutine
  waiter,     \* runcmd or waitForSession
  out,        \* the output buffer
  client      \* its place, tbuf, the cases, the one that matched, and
              \* how much of each stream it was given

opts == <<kind, partialMatch, sendTimeout>>
session == <<child, closed, written, pipe>>
vars == <<opts, session, rdr, sender, waiter, out, client>>

Readers == DOMAIN Streams[kind]

Init ==
    /\ \E o \in Setups : kind = o[1] /\ partialMatch = o[2] /\ sendTimeout = o[3]
    /\ child = "running" /\ closed = FALSE
    /\ written = [r \in Readers |-> 0]
    /\ pipe = [r \in Readers |-> <<>>]
    /\ rdr = [r \in Readers |-> [pc |-> "read", chunk |-> <<>>]]
    /\ sender = "wait" /\ waiter = "wait"
    /\ out = <<>>
    /\ client = [pc |-> "idle", tbuf |-> <<>>, cs |-> <<>>, hit |-> 0, got |-> [r \in Readers |-> 0]]

\* The function chk of the spawners.  Signal 0 reaches a process until it is
\* waited for; a closed ssh session refuses a request.
Check == CASE kind = "pty" -> child # "reaped"
           [] kind = "session" -> child = "running"
           [] kind = "fake" -> TRUE

-----------------------------------------------------------------------------
(* The session.                                                            *)

Output(r) ==
    /\ child = "running" /\ written[r] < Len(Streams[kind][r])
    /\ written' = [written EXCEPT ![r] = @ + 1]
    /\ pipe' = [pipe EXCEPT ![r] = Append(@, Streams[kind][r][written[r] + 1])]
    /\ UNCHANGED <<opts, child, closed, rdr, sender, waiter, out, client>>

Exit ==
    /\ child = "running"
    /\ child' = "exited"
    /\ UNCHANGED <<opts, closed, written, pipe, rdr, sender, waiter, out, client>>

\* When does Read answer an error?  The master of a pty does when the last
\* slave is closed, that of a fake session when the client closes it.
AtEnd(r) ==
    /\ pipe[r] = <<>>
    /\ CASE kind = "pty" -> waiter = "closed"
         [] kind = "session" -> child # "running"
         [] kind = "fake" -> closed

-----------------------------------------------------------------------------
(* read, and the function rdr of waitForSession.                           *)

ReadChunk(r) ==
    /\ rdr[r].pc = "read" /\ pipe[r] # <<>>
    /\ \E k \in 1..Len(pipe[r]) :
          /\ rdr' = [rdr EXCEPT ![r] = [pc |-> "got", chunk |-> SubSeq(pipe[r], 1, k)]]
          /\ pipe' = [pipe EXCEPT ![r] = SubSeq(@, k + 1, Len(@))]
    /\ UNCHANGED <<opts, child, closed, written, sender, waiter, out, client>>

\* An error ends the reader; that of a pty only if the process is not alive.
ReadEnds(r) ==
    /\ rdr[r].pc = "read" /\ AtEnd(r) /\ (kind = "pty" => ~Check)
    /\ rdr' = [rdr EXCEPT ![r].pc = "gone"]
    /\ UNCHANGED <<opts, session, sender, waiter, out, client>>

\* The chunk goes into the buffer; the reader of a session drops it, and
\* ends, if the session is not alive any more.
Store(r) ==
    /\ rdr[r].pc = "got"
    /\ IF kind # "pty" /\ ~Check
         THEN rdr' = [rdr EXCEPT ![r] = [pc |-> "gone", chunk |-> <<>>]] /\ UNCHANGED out
         ELSE /\ out' = out \o rdr[r].chunk
              /\ rdr' = [rdr EXCEPT ![r] = [pc |-> "ping", chunk |-> <<>>]]
    /\ UNCHANGED <<opts, session, sender, waiter, client>>

\* The signal on rcv reaches a client that waits, or nobody.
Ping(r) ==
    /\ rdr[r].pc = "ping"
    /\ rdr' = [rdr EXCEPT ![r].pc = "read"]
    /\ client' = IF client.pc = "select" THEN [client EXCEPT !.pc = "rcv"] ELSE client
    /\ UNCHANGED <<opts, session, sender, waiter, out>>

-----------------------------------------------------------------------------
(* send, and the first goroutine of waitForSession.                        *)

\* A failed write, or one to a session not alive, ends the sender of a
\* session; that of a pty leaves only the select.
SenderWrites ==
    /\ sender = "write"
    /\ \/ sender' = "wait" /\ (kind # "pty" => Check)
       \/ sender' = "gone" /\ kind # "pty" /\ (child # "running" \/ closed)
    /\ UNCHANGED <<opts, session, rdr, waiter, out, client>>

SenderDone ==
    /\ sender = "wait" /\ waiter = "closed"
    /\ sender' = "gone"
    /\ UNCHANGED <<opts, session, rdr, waiter, out, client>>

-----------------------------------------------------------------------------
(* runcmd and waitForSession.                                              *)

WaitReturns ==
    /\ waiter = "wait" /\ child = "exited"
    /\ waiter' = "reaped" /\ child' = "reaped"
    /\ UNCHANGED <<opts, closed, written, pipe, rdr, sender, out, client>>

CloseDone ==
    /\ waiter = "reaped"
    /\ waiter' = "closed"
    /\ UNCHANGED <<opts, session, rdr, sender, out, client>>

Result ==
    /\ waiter = "closed" /\ sender = "gone" /\ \A r \in Readers : rdr[r].pc = "gone"
    /\ waiter' = "done"
    /\ UNCHANGED <<opts, session, rdr, sender, out, client>>

-----------------------------------------------------------------------------
(* The client.                                                             *)

\* ExpectSwitchCase begins with a copy of what is in the buffer.
Expect(cs) ==
    /\ client.pc = "idle"
    /\ client' = [client EXCEPT !.pc = "match", !.tbuf = out, !.cs = cs]
    /\ out' = <<>>
    /\ UNCHANGED <<opts, session, rdr, sender, waiter>>

Send ==
    /\ client.pc = "idle"
    /\ client' = [client EXCEPT !.pc = "send", !.hit = 0]
    /\ UNCHANGED <<opts, session, rdr, sender, waiter, out>>

Close ==
    /\ client.pc = "idle" /\ ~closed
    /\ closed' = TRUE
    /\ child' = IF child = "running" THEN "exited" ELSE child
    /\ UNCHANGED <<opts, written, pipe, rdr, sender, waiter, out, client>>

\* The elements of s that are in A, in their order: the i-th of them is at the
\* place in P that has i places up to it.
Where(s, A) == {p \in DOMAIN s : s[p] \in A}
UpTo(P, p) == Cardinality({q \in P : q <= p})
Only(s, A) ==
    LET P == Where(s, A) IN [i \in 1..Cardinality(P) |-> s[CHOOSE p \in P : UpTo(P, p) = i]]

\* The tokens of s that came through reader r.
Of(r, s) == Only(s, Range(Streams[kind][r]))
Given(s) == [r \in Readers |-> client.got[r] + Len(Of(r, s))]
Idle(c) == [pc |-> "idle", tbuf |-> <<>>, cs |-> <<>>, hit |-> 0, got |-> c.got]

Hits(s) == {i \in 1..Len(client.cs) : Range(s) \cap client.cs[i].re # {}}

\* Cases are tried in order; a case tagged Next is passed over once it has
\* no retries left, and counts down whenever it is looked at.
Taken == {i \in Hits(client.tbuf) : client.cs[i].tag = "next" => client.cs[i].rt > 0}
Case == CHOOSE i \in Taken : \A j \in Taken : i <= j
Retry(i) == [client.cs EXCEPT ![i].rt = @ - 1]
Looked(n) == [i \in 1..Len(client.cs) |->
               IF i \in Hits(client.tbuf) /\ i <= n /\ client.cs[i].tag = "next"
                 THEN Retry(i)[i] ELSE client.cs[i]]

\* What a match takes from tbuf: all of it, or up to the end of the match.
MatchEnd ==
    LET s == client.tbuf
        first == CHOOSE k \in 1..Len(s) : s[k] \in client.cs[Case].re
                                  /\ \A j \in 1..(k - 1) : s[j] \notin client.cs[Case].re
    IN  IF partialMatch THEN first ELSE Len(s)

\* Mutant: the suffix is put after what has arrived in the meantime.
ReturnUnmatchedAfter(suffix) == out' = out \o suffix

ReturnUnmatchedSuffix(suffix) == out' = suffix \o out

\* Tag handling: a Continue with retries left, and a Next, go on.
GoesOn(c) == c.tag = "next" \/ (c.tag = "continue" /\ c.rt > 0)
Tagged(c) ==
    IF c.hit = 0 \/ ~GoesOn(c.cs[c.hit]) THEN Idle(c)
    ELSE [c EXCEPT !.pc = "check",
                   !.cs[c.hit].rt = IF c.cs[c.hit].tag = "continue" THEN @ - 1 ELSE @]

Match ==
    /\ client.pc = "match" /\ Taken # {}
    /\ ReturnUnmatchedSuffix(SubSeq(client.tbuf, MatchEnd + 1, Len(client.tbuf)))
    /\ LET c == [pc |-> "match", tbuf |-> <<>>, cs |-> Looked(Case), hit |-> Case,
                 got |-> Given(SubSeq(client.tbuf, 1, MatchEnd))]
       IN  client' = IF client.cs[Case].send THEN [c EXCEPT !.pc = "send"] ELSE Tagged(c)
    /\ UNCHANGED <<opts, session, rdr, sender, waiter>>

NoMatch ==
    /\ client.pc = "match" /\ Taken = {}
    /\ client' = [client EXCEPT !.pc = "check", !.cs = Looked(Len(client.cs))]
    /\ UNCHANGED <<opts, session, rdr, sender, waiter, out>>

\* Every return without a match hands out what is in tbuf.
GiveUp == client' = Idle([client EXCEPT !.got = Given(client.tbuf)])
Copy(label) == client' = [client EXCEPT !.pc = label, !.tbuf = @ \o out] /\ out' = <<>>

CheckAlive ==
    /\ client.pc = "check"
    /\ IF Check THEN client' = [client EXCEPT !.pc = "select"] /\ UNCHANGED out
       ELSE IF out = <<>> THEN GiveUp /\ UNCHANGED out
       ELSE Copy("select")
    /\ UNCHANGED <<opts, session, rdr, sender, waiter>>

\* Mutant: data that came with the timeout gets no other chance to match.
TimerFiresAtOnce ==
    /\ client.pc = "select"
    /\ GiveUp
    /\ UNCHANGED <<opts, session, rdr, sender, waiter, out>>

TimerFires ==
    /\ client.pc = "select"
    /\ IF out = <<>> THEN GiveUp /\ UNCHANGED out ELSE Copy("match")
    /\ UNCHANGED <<opts, session, rdr, sender, waiter>>

\* The ticker, or the signal on rcv.
Ticker ==
    /\ client.pc \in {"select", "rcv"}
    /\ Copy("match")
    /\ UNCHANGED <<opts, session, rdr, sender, waiter>>

\* Send looks whether the process is alive, and then waits for the sender.
SendChecks ==
    /\ client.pc = "send"
    /\ client' = IF Check THEN [client EXCEPT !.pc = "snd"] ELSE Idle(client)
    /\ UNCHANGED <<opts, session, rdr, sender, waiter, out>>

SendTaken ==
    /\ client.pc = "snd" /\ sender = "wait"
    /\ sender' = "write"
    /\ client' = Tagged(client)
    /\ UNCHANGED <<opts, session, rdr, waiter, out>>

\* Mutant: the timeout of Send is not looked at.
SendNeverTimesOut ==
    /\ client.pc = "snd" /\ sendTimeout /\ sender = "wait"
    /\ client' = Idle(client)
    /\ UNCHANGED <<opts, session, rdr, sender, waiter, out>>

SendTimesOut ==
    /\ client.pc = "snd" /\ sendTimeout
    /\ client' = Idle(client)
    /\ UNCHANGED <<opts, session, rdr, sender, waiter, out>>

ClientStep ==
    \/ Match \/ NoMatch \/ CheckAlive \/ TimerFires \/ Ticker
    \/ SendChecks \/ SendTaken \/ SendTimesOut
ReaderStep(r) == ReadChunk(r) \/ ReadEnds(r) \/ Store(r) \/ Ping(r)
SessionStep == SenderWrites \/ SenderDone \/ WaitReturns \/ CloseDone \/ Result

Next ==
    \/ \E r \in Readers : Output(r) \/ ReaderStep(r)
    \/ Exit \/ SessionStep
    \/ \E cs \in Calls : Expect(cs)
    \/ Send \/ Close \/ ClientStep

Spec == Init /\ [][Next]_vars

\* Goroutines run.  The value of a timer stays in its channel and select
\* chooses among what is ready at random, so the timer is not passed over for
\* ever, nor is done by the sender.
Fairness ==
    /\ WF_vars(ClientStep) /\ SF_vars(TimerFires) /\ WF_vars(SendTimesOut)
    /\ \A r \in {"out", "err"} : WF_vars(r \in Readers /\ ReaderStep(r))
    /\ WF_vars(SenderWrites) /\ SF_vars(SenderDone)
    /\ WF_vars(WaitReturns \/ CloseDone \/ Result)

FairSpec == Spec /\ Fairness

-----------------------------------------------------------------------------
(* Properties.                                                             *)

\* "It returns all output found until match": what the client has been given
\* or is about to match, what is buffered and what is still to be read is,
\* per reader, exactly what the session wrote, in that order; only a reader
\* that ends because its session is not alive drops what it has just read.
OutputKept ==
    \A r \in Readers :
       LET seen == Of(r, client.tbuf \o out) \o rdr[r].chunk
           all == SubSeq(Streams[kind][r], client.got[r] + 1, written[r])
       IN  /\ Len(seen) <= Len(all) /\ SubSeq(all, 1, Len(seen)) = seen
           /\ kind = "pty" \/ rdr[r].pc # "gone" => seen \o pipe[r] = all

\* A lost signal on rcv costs only time: Expect does not time out on a live
\* session while the buffer holds what one of its cases matches.
NoMissedMatch ==
    [][client.pc = "select" /\ client'.pc = "idle" /\ Check
         => \A i \in Hits(client.tbuf \o out) : client.cs[i].tag = "next"]_vars

\* Every call returns, except a Send without a timeout to a session that
\* ended after Send looked whether it was alive.
CallsReturn ==
    client.pc # "idle" ~> client.pc = "idle" \/ (client.pc = "snd" /\ sender = "gone" /\ ~sendTimeout)

\* When the session is over the goroutines end, the readers having read what
\* was left, and the result is sent on the channel that Spawn returned.
ResultComes ==
    child # "running" /\ (kind = "fake" => closed) ~> waiter = "done"

\* Nobody waits for ever: neither the user nor the receiver of the result.
SessionCompletes == CallsReturn /\ ResultComes
=============================================================================
