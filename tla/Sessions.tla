------------------------------ MODULE Sessions ------------------------------
(***************************************************************************)
(* A session of an ssh connection: a client of simplessh or sshclient that *)
(* runs a command or a shell, and the two servers of the repository:       *)
(* sshserver's handler, run by the gliderlabs library, and simplessh's     *)
(* SessionChannel.  The requests, the data of the two directions, the      *)
(* processes and the goroutines that copy between them and the channel     *)
(* interleave, and the connection may be lost.                             *)
(*                                                                         *)
(* A program reads a number of chunks, writes the chunks of its output and *)
(* exits.  Output and error output are one stream here.                    *)
(***************************************************************************)
EXTENDS Integers, SequencesExt, FiniteSetsExt

CONSTANTS
  SessionCalls, \* [server, client, pty, prog, input, shell]: a session and what serves it
  Progs,        \* a function from names to [kind, needs, out, code]
  PipeCap       \* how many chunks a pipe or a terminal holds

VARIABLES
  call,
  usr,    \* the client: pc, input (still to be sent), got, status
  chn,    \* the channel: reqs, sin (to the server), toC (to the client), closed (by the server), lost
  hd,     \* the server's handler: pc, isPty, exitStatus
  prs,    \* the processes "shell" and "cmd": st, prog, in, eof, read, out, wrote, code, tty
  cps     \* the copying goroutines: st, dir, proc, hold, closer

sesVars == <<call, usr, chn, hd, prs, cps>>

Copiers == 1..4
Procs == {"shell", "cmd"}
NoProc == [st |-> "none", prog |-> "", in |-> <<>>, eof |-> FALSE, read |-> 0, out |-> <<>>, wrote |-> 0, code |-> 0, tty |-> FALSE]
NoCopier == [st |-> "off", dir |-> "", proc |-> "", hold |-> 0, closer |-> "", failed |-> FALSE]

Open1 == ~chn.closed /\ ~chn.lost
\* The channel after a message to the client, and after Close.
Told(c, m) == IF c.closed \/ c.lost THEN c ELSE [c EXCEPT !.toC = Append(@, m)]
Closed1(c) == IF c.closed \/ c.lost THEN [c EXCEPT !.closed = TRUE]
              ELSE [c EXCEPT !.closed = TRUE, !.toC = Append(@, [m |-> "close"])]
Data(k) == [m |-> "data", v |-> k]
Reply == [m |-> "reply"]
ExitStatus(c) == [m |-> "exit-status", v |-> c]

Started(p, tty) == [NoProc EXCEPT !.st = "running", !.prog = p, !.tty = tty]
Prog(p) == Progs[prs[p].prog]

\* CopyReadWriters between the channel and a process: two goroutines and what
\* they call, once, when the first of them ends.
CopyReadWriters(c, i, p, closer) ==
    [c EXCEPT ![i] = [NoCopier EXCEPT !.st = "on", !.dir = "in", !.proc = p, !.closer = closer],
              ![i + 1] = [NoCopier EXCEPT !.st = "on", !.dir = "out", !.proc = p, !.closer = closer]]

-----------------------------------------------------------------------------
(* The clients.  x/crypto/ssh is external.                                 *)

\* What a call asks the server for: a terminal first if its own input is one
\* (RunCommand), and then that the shell or the command is started.
StartRequest == IF call.prog = "" THEN "shell" ELSE "exec"
FirstRequest == IF call.pty THEN "pty-req" ELSE StartRequest

ClientCalls ==
    /\ usr.pc = "call"
    /\ usr' = [usr EXCEPT !.pc = IF call.pty THEN "pty" ELSE "start"]
    /\ chn' = [chn EXCEPT !.reqs = Append(@, FirstRequest)]
    /\ UNCHANGED <<call, hd, prs, cps>>

\* The call's result.  The deferred function of sshclient's RunCommand sends to
\* a channel that nobody reads.
CallReturns(u) == [u EXCEPT !.pc = IF call.client = "RunCommand" THEN "done <- true" ELSE "returned"]

\* One message of the server's.  The output is only collected, and the input
\* only sent, once the request to start is answered; a channel that is closed
\* before that is an error.
ClientReads ==
    /\ chn.toC # <<>> /\ usr.pc \in {"pty", "start", "wait"}
    /\ LET m == Head(chn.toC)
           rest == [chn EXCEPT !.toC = Tail(@)]
       IN  CASE m.m = "reply" /\ usr.pc = "pty" ->
                  /\ usr' = [usr EXCEPT !.pc = "start"]
                  /\ chn' = [rest EXCEPT !.reqs = Append(@, StartRequest)]
             [] m.m = "reply" /\ usr.pc # "pty" ->
                  usr' = [usr EXCEPT !.pc = "wait", !.got = usr.held, !.held = <<>>] /\ chn' = rest
             [] m.m = "data" ->
                  /\ usr' = IF usr.pc = "wait" THEN [usr EXCEPT !.got = Append(@, m.v)] ELSE [usr EXCEPT !.held = Append(@, m.v)]
                  /\ chn' = rest
             [] m.m = "exit-status" -> usr' = [usr EXCEPT !.status = <<m.v>>] /\ chn' = rest
             [] m.m = "close" -> usr' = CallReturns(usr) /\ chn' = rest
    /\ UNCHANGED <<call, hd, prs, cps>>

ClientLost ==
    /\ chn.lost /\ chn.toC = <<>> /\ usr.pc \in {"pty", "start", "wait"}
    /\ usr' = CallReturns(usr)
    /\ UNCHANGED <<call, chn, hd, prs, cps>>

\* The goroutine that copies the client's input, and the end of it.
ClientSends ==
    /\ usr.pc = "wait" /\ ~usr.eof /\ ~chn.lost
    /\ IF usr.input = <<>> THEN usr' = [usr EXCEPT !.eof = TRUE] ELSE usr' = [usr EXCEPT !.input = Tail(@)]
    /\ chn' = [chn EXCEPT !.sin = Append(@, IF usr.input = <<>> THEN 0 ELSE Head(usr.input))]
    /\ UNCHANGED <<call, hd, prs, cps>>

ConnLost ==
    /\ ~chn.lost /\ usr.pc \in {"pty", "start", "wait"}
    /\ chn' = [chn EXCEPT !.lost = TRUE, !.toC = <<>>]
    /\ UNCHANGED <<call, usr, hd, prs, cps>>

-----------------------------------------------------------------------------
(* sshserver.                                                              *)

\* The gliderlabs library: a request is answered, and starts the handler.
SessionRequest ==
    /\ call.server = "sshserver" /\ chn.reqs # <<>>
    /\ hd' = IF Head(chn.reqs) = "pty-req" THEN [hd EXCEPT !.isPty = TRUE] ELSE [hd EXCEPT !.pc = "begin"]
    /\ chn' = Told([chn EXCEPT !.reqs = Tail(@)], Reply)
    /\ UNCHANGED <<call, usr, prs, cps>>

\* sshSessionShellExecHandle, up to the start of a process.  With a terminal it
\* starts the shell, whatever was asked for; if that fails, the shell is run
\* without one.
BeginPty ==
    /\ hd.pc = "begin" /\ hd.isPty
    /\ \/ /\ hd' = [hd EXCEPT !.pc = "wait"]
          /\ prs' = [prs EXCEPT !["cmd"] = Started("sh", TRUE)]
          /\ cps' = CopyReadWriters(cps, 1, "cmd", "nil")
          /\ UNCHANGED chn
       \/ /\ hd' = [hd EXCEPT !.pc = "exec", !.isPty = FALSE, !.shell = TRUE]
          /\ chn' = Told(chn, Data("swich"))
          /\ UNCHANGED <<prs, cps>>
    /\ UNCHANGED <<call, usr>>

\* What a command built into the handler writes, and its exit status.  scat
\* writes what is left of its buffer after the bytes it read.
Is(out, code) == [out |-> out, code |-> code]
Files(kind) ==
    CASE kind = "scat file" -> Is(<<"zeros">>, 0)
      [] kind = "scat block" -> Is(<<>>, 0)
      [] kind = "scat missing" -> Is(<<>>, 2)
      [] kind = "stouch" -> Is(<<>>, 0)
Scmd(kind) ==
    CASE kind = "scmd" -> Is(<<>>, 0)
      [] kind = "scmd pgrepenv" -> Is(<<"report">>, 0)
      [] kind = "scmd pgrepenv none" -> Is(<<"no process">>, 2)
      [] kind \in {"scmd chmod", "scmd chmod failed"} -> Is(<<kind>>, 0)
ScmdPid(kind) == IF kind = "scmd pid" THEN Is(<<"pid">>, 0) ELSE Is(<<>>, 2)
Others(kind) == Is(IF kind = "scmd unknown" THEN <<"not found">> ELSE <<>>, 2)

FileKinds == {"scat file", "scat block", "scat missing", "stouch"}
ScmdKinds == {"scmd", "scmd pgrepenv", "scmd pgrepenv none", "scmd chmod", "scmd chmod failed"}
PidKinds == {"scmd pid", "scmd pid other"}
OtherKinds == {"scmd unknown", "rsync missing"}
Builtins == FileKinds \cup ScmdKinds \cup PidKinds \cup OtherKinds
Builtin(kind) ==
    CASE kind \in FileKinds -> Files(kind)
      [] kind \in ScmdKinds -> Scmd(kind)
      [] kind \in PidKinds -> ScmdPid(kind)
      [] kind \in OtherKinds -> Others(kind)

BeginExec ==
    /\ hd.pc = "begin" /\ ~hd.isPty
    /\ LET kind == Progs[call.prog].kind
       IN  IF kind \in Builtins
           THEN /\ hd' = [hd EXCEPT !.pc = "exit", !.exitStatus = Builtin(kind).code]
                /\ chn' = FoldLeft(LAMBDA c, v : Told(c, Data(v)), chn, Builtin(kind).out)
           ELSE hd' = [hd EXCEPT !.pc = "exec"] /\ UNCHANGED chn
    /\ UNCHANGED <<call, usr, prs, cps>>

\* The process, with its output copied by the goroutine of exec.Cmd and its
\* input by one of the handler's; what is not found is run by the shell.
Exec ==
    /\ hd.pc = "exec"
    /\ LET p == IF hd.shell THEN "sh" ELSE call.prog
       IN  IF Progs[p].kind = "no start"
           THEN hd' = [hd EXCEPT !.pc = "exit", !.exitStatus = 2] /\ UNCHANGED <<prs, cps>>
           ELSE /\ hd' = [hd EXCEPT !.pc = "wait"]
                /\ prs' = [prs EXCEPT !["cmd"] = Started(p, FALSE)]
                /\ cps' = CopyReadWriters(cps, 1, "cmd", "stdin")
    /\ UNCHANGED <<call, usr, chn>>

\* Mutant: the handler waits for the process and not for its output.
OutputCopiedNot == TRUE

\* cmd.Wait also waits for the goroutine that copies the output of a command.
OutputCopied == hd.isPty \/ cps[2].st = "done"

\* getExitCode.
getExitCode == IF prs["cmd"].code # 0 THEN prs["cmd"].code ELSE IF ~hd.isPty /\ cps[2].failed THEN 127 ELSE 0

\* The deferred f.Close, for a terminal, comes before the exit status.
Wait ==
    /\ hd.pc = "wait" /\ prs["cmd"].st = "exited" /\ OutputCopied
    /\ hd' = [hd EXCEPT !.pc = "exit", !.exitStatus = getExitCode]
    /\ prs' = [prs EXCEPT !["cmd"].st = IF hd.isPty THEN "closed" ELSE @]
    /\ UNCHANGED <<call, usr, chn, cps>>

\* Exit sends the status and closes the channel.
Exit ==
    /\ hd.pc = "exit" /\ call.server = "sshserver"
    /\ chn' = Closed1(Told(chn, ExitStatus(hd.exitStatus)))
    /\ hd' = [hd EXCEPT !.pc = "end"]
    /\ UNCHANGED <<call, usr, prs, cps>>

-----------------------------------------------------------------------------
(* simplessh's SessionChannel.                                             *)

\* A shell is started on a terminal, whatever is asked for.
SessionChannel ==
    /\ call.server = "simplessh" /\ hd.pc = "none"
    /\ hd' = [hd EXCEPT !.pc = IF call.shell THEN "loop" ELSE "end"]
    /\ prs' = IF call.shell THEN [prs EXCEPT !["shell"] = Started("sh", TRUE)] ELSE prs
    /\ UNCHANGED <<call, usr, chn, cps>>

\* pty-req and shell both start a pair of copying goroutines.
RequestPtyShell ==
    /\ hd.pc = "loop" /\ chn.reqs # <<>> /\ Head(chn.reqs) \in {"pty-req", "shell"}
    /\ cps' = CopyReadWriters(cps, IF Head(chn.reqs) = "pty-req" THEN 1 ELSE 3, "shell", "close")
    /\ chn' = Told([chn EXCEPT !.reqs = Tail(@)], Reply)
    /\ UNCHANGED <<call, usr, hd, prs>>

RequestExec ==
    /\ hd.pc = "loop" /\ chn.reqs # <<>> /\ Head(chn.reqs) = "exec"
    /\ hd' = [hd EXCEPT !.pc = "execWait"]
    /\ prs' = [prs EXCEPT !["cmd"] = Started(IF Progs[call.prog].kind = "path" THEN call.prog ELSE "sh: not found", TRUE)]
    /\ cps' = CopyReadWriters(cps, 3, "cmd", "execClose")
    /\ chn' = [chn EXCEPT !.reqs = Tail(@)]
    /\ UNCHANGED <<call, usr>>

\* The status of a process that was killed is not sent as one.
ExecExited ==
    /\ hd.pc = "execWait" /\ prs["cmd"].st = "exited"
    /\ chn' = IF prs["cmd"].code = -1 THEN chn ELSE Told(chn, ExitStatus(prs["cmd"].code))
    /\ hd' = [hd EXCEPT !.pc = "execReply"]
    /\ UNCHANGED <<call, usr, prs, cps>>

ExecReply ==
    /\ hd.pc = "execReply"
    /\ chn' = Told(chn, Reply)
    /\ hd' = [hd EXCEPT !.pc = "execClose"]
    /\ UNCHANGED <<call, usr, prs, cps>>

\* close: the channel is closed, the shell is waited for.
ExecClose ==
    /\ hd.pc = "execClose"
    /\ chn' = Closed1(chn)
    /\ hd' = [hd EXCEPT !.pc = "c.Wait"]
    /\ UNCHANGED <<call, usr, prs, cps>>

-----------------------------------------------------------------------------
(* The copying goroutines and the processes.                               *)

\* Mutant: the end of the client's input does not close that of the process.
FinishInputOpen(i, failed) ==
    /\ cps' = [cps EXCEPT ![i].st = "done", ![i].failed = failed, ![i].hold = 0]
    /\ chn' = IF cps[i].closer \in {"execClose", "close"} THEN Closed1(chn) ELSE chn
    /\ UNCHANGED <<call, usr, hd, prs>>

\* A copier ends and calls its close function.
Finish(i, failed) ==
    /\ cps' = [cps EXCEPT ![i].st = "done", ![i].failed = failed, ![i].hold = 0]
    /\ chn' = IF cps[i].closer \in {"execClose", "close"} THEN Closed1(chn) ELSE chn
    /\ prs' = IF cps[i].closer = "stdin" /\ cps[i].dir = "in" THEN [prs EXCEPT ![cps[i].proc].eof = TRUE] ELSE prs
    /\ UNCHANGED <<call, usr, hd>>

CopyIn(i) ==
    /\ cps[i].st = "on" /\ cps[i].dir = "in"
    /\ LET p == cps[i].proc
       IN  IF chn.sin # <<>> /\ Head(chn.sin) # 0
           THEN IF prs[p].st = "running"
                THEN /\ Len(prs[p].in) < PipeCap
                     /\ prs' = [prs EXCEPT ![p].in = Append(@, Head(chn.sin))]
                     /\ chn' = [chn EXCEPT !.sin = Tail(@)]
                     /\ UNCHANGED <<call, usr, hd, cps>>
                ELSE Finish(i, TRUE)
           ELSE (chn.sin # <<>> \/ ~Open1) /\ Finish(i, FALSE)

CopyOutRead(i) ==
    /\ cps[i].st = "on" /\ cps[i].dir = "out" /\ cps[i].hold = 0
    /\ LET p == cps[i].proc
       IN  IF prs[p].st # "closed" /\ prs[p].out # <<>>
           THEN /\ cps' = [cps EXCEPT ![i].hold = Head(prs[p].out)]
                /\ prs' = [prs EXCEPT ![p].out = Tail(@)]
                /\ UNCHANGED <<call, usr, chn, hd>>
           ELSE prs[p].st \in {"exited", "closed"} /\ Finish(i, FALSE)

CopyOutWrite(i) ==
    /\ cps[i].st = "on" /\ cps[i].hold # 0
    /\ IF Open1
       THEN /\ chn' = Told(chn, Data(cps[i].hold))
            /\ cps' = [cps EXCEPT ![i].hold = 0]
            /\ UNCHANGED <<call, usr, hd, prs>>
       ELSE Finish(i, TRUE)

\* A process, external.  It is killed when nobody reads its output.
Reader(p) == {i \in Copiers : cps[i].st # "off" /\ cps[i].dir = "out" /\ cps[i].proc = p}
Killed(p) == ~prs[p].tty /\ \E i \in Reader(p) : cps[i].st = "done"

ProcStep(p) ==
    /\ prs[p].st = "running"
    /\ LET r == prs[p]
           wants == r.read < Prog(p).needs
       IN  prs' = [prs EXCEPT ![p] =
              CASE Killed(p) -> [r EXCEPT !.st = "exited", !.code = -1]
                [] ~Killed(p) /\ wants /\ r.in # <<>> -> [r EXCEPT !.in = Tail(@), !.read = @ + 1]
                [] ~Killed(p) /\ wants /\ r.in = <<>> /\ r.eof -> [r EXCEPT !.read = Prog(p).needs]
                [] ~Killed(p) /\ ~wants /\ r.wrote < Len(Prog(p).out) /\ Len(r.out) < PipeCap ->
                      [r EXCEPT !.out = Append(@, Prog(p).out[r.wrote + 1]), !.wrote = @ + 1]
                [] ~Killed(p) /\ ~wants /\ r.wrote = Len(Prog(p).out) -> [r EXCEPT !.st = "exited", !.code = Prog(p).code]
                [] OTHER -> r]
    /\ prs' # prs
    /\ UNCHANGED <<call, usr, chn, hd, cps>>

-----------------------------------------------------------------------------

Calling == [pc |-> "call", input |-> <<>>, eof |-> FALSE, held |-> <<>>, got |-> <<>>, status |-> <<>>]
NewChannel == [reqs |-> <<>>, sin |-> <<>>, toC |-> <<>>, closed |-> FALSE, lost |-> FALSE]
NoHandler == [pc |-> "none", isPty |-> FALSE, shell |-> FALSE, exitStatus |-> 0]

SesInit ==
    /\ call \in SessionCalls
    /\ usr = [Calling EXCEPT !.input = call.input] /\ chn = NewChannel /\ hd = NoHandler
    /\ prs = [p \in Procs |-> NoProc]
    /\ cps = [i \in Copiers |-> NoCopier]

SesClient == ClientCalls \/ ClientReads \/ ClientLost
SesServer == SessionRequest \/ BeginPty \/ BeginExec \/ Exec \/ Wait \/ Exit
             \/ SessionChannel \/ RequestPtyShell \/ RequestExec \/ ExecExited \/ ExecReply \/ ExecClose
Copy(i) == CopyIn(i) \/ CopyOutRead(i) \/ CopyOutWrite(i)

SesNext ==
    \/ SesClient \/ ClientSends \/ SesServer \/ ConnLost
    \/ \E i \in Copiers : Copy(i)
    \/ \E p \in Procs : ProcStep(p)

SesFairness ==
    /\ WF_sesVars(SesClient) /\ WF_sesVars(ClientSends) /\ WF_sesVars(SesServer)
    /\ \A i \in Copiers : WF_sesVars(Copy(i))
    /\ \A p \in Procs : WF_sesVars(ProcStep(p))

-----------------------------------------------------------------------------
(* Properties.                                                             *)

\* What the session is to print, and its exit status.
Ran == IF call.pty \/ hd.shell THEN "sh" ELSE call.prog
Result ==
    LET p == Progs[Ran]
        r == IF p.kind \in Builtins THEN Builtin(p.kind)
             ELSE IF p.kind = "no start" THEN [out |-> <<>>, code |-> 2] ELSE [out |-> p.out, code |-> p.code]
    IN  [r EXCEPT !.out = IF hd.shell THEN <<"swich">> \o @ ELSE @]

\* A command run through sshserver, without a terminal and over a connection
\* that holds, gives the client the whole of its output, in order, and the exit
\* status of the process.  With a terminal, or by simplessh, the end of the
\* output may be lost, and nothing of it comes twice or out of order unless
\* two pairs of goroutines copy it; a status that comes is the right one.
SessionResult ==
    /\ call.server = "sshserver" =>
          /\ IsPrefix(usr.got, Result.out)
          /\ usr.status # <<>> => usr.status = <<Result.code>>
          /\ usr.pc \in {"returned", "done <- true"} /\ ~chn.lost =>
                usr.status = <<Result.code>> /\ (~hd.isPty => usr.got = Result.out)
    /\ call.server = "simplessh" =>
          /\ IsInjective(usr.got)
          /\ call.prog # "" => IsPrefix(usr.got, Progs[prs["cmd"].prog].out)
          /\ usr.status # <<>> => usr.status = <<Progs[prs["cmd"].prog].code>>

\* Every call returns and, of sshserver, every handler, with the connection or
\* without it, unless the program waits for input that the client never sends
\* to its terminal or simplessh asks for too early (a command's request is
\* answered when it has exited); RunCommand stops at its deferred send.
SessionReturns ==
    <>[](\/ usr.pc \in {"returned", "done <- true"} /\ (call.server = "sshserver" => hd.pc = "end")
         \/ call.server = "simplessh" /\ (~call.shell \/ (call.prog # "" /\ Progs[call.prog].needs > 0))
         \/ call.pty /\ (chn.lost \/ Len(call.input) < Progs["sh"].needs))
=============================================================================
