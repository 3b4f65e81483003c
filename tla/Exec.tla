------------------------------- MODULE Exec --------------------------------
(***************************************************************************)
(* Packages sexec and goreaper: goroutines run commands, scripts and       *)
(* programs that are only in memory, with a timeout or without one, and    *)
(* collect their output; a reaper waits for every child of the process,    *)
(* those that it inherits when it has pid 1 and, too, those that os/exec   *)
(* waits for.                                                              *)
(*                                                                         *)
(* A program is a record [found, text, out, code, ends, forks]: does       *)
(* LookPath find it; its text, [shebang, source], for GetScriptPath; what  *)
(* it prints, its exit status, whether it ends by itself, and whether it   *)
(* leaves a process behind that has its output open ("no", "ends",         *)
(* "stays").                                                               *)
(***************************************************************************)
EXTENDS Integers, Sequences

CONSTANTS
  ExCallers,     \* strings, the names of their temporary directories, too
  Works,         \* what the callers do: a set of functions to records
                 \* [fn, prog, name, args, timeout, more], see Prepare
  Reapers,       \* [start, pid1, disable]: the call of goreaper's Start
  Shell,         \* the shell that LookPath finds, or "none"
  SigCap         \* the capacity of the channel of signals, 3

\* A status is a byte; no directory that is made is the one in PATH; and the
\* interpreter of a script is not called BASH_SOURCE.
ASSUME ExecAssumption ==
    /\ \A w \in Works, c \in ExCallers :
          /\ w[c].prog.code \in 0..255 /\ c # "bin" /\ w[c].name # "bin"
          /\ w[c].prog.text.shebang \in Seq(STRING \ {"BASH_SOURCE"})
    /\ Shell \in STRING \ {"program", "memory", "busy"}

VARIABLES
  work, host,    \* chosen among Works and Reapers
  PATH,          \* the set of the directories of the variable
  cmdRun,        \* of each caller
  prc,           \* the process of each caller
  orphan,        \* and the process it leaves behind
  rp             \* the reaper

exVars == <<work, host, PATH, cmdRun, prc, orphan, rp>>
exFixed == <<work, host>>

Prg(c) == work[c].prog

-----------------------------------------------------------------------------
(* The arguments: [t, v], t the type that the switch finds.                *)

NoCmd == [arg |-> {}, arg0 |-> "none", out |-> "none", err |-> "none", files |-> {}, hooks |-> {}, clean |-> FALSE, bad |-> FALSE]

KnownTypes == {"string", "arg0", "scriptname", "file", "writer", "cmd", "prestart", "started", "end", "bool"}

\* The loop ends with an error at a type it does not know: the arguments before
\* that one.  ExecCommand and ExecBytes take the timeout and the variables out
\* first: skip, their types.
TakenOut == {"duration", "map"}
UpToUnknown(args, skip) == {i \in DOMAIN args : \A j \in 1..i : args[j].t \in KnownTypes \cup skip}
FirstOr(args, among, none) == IF among = {} THEN none ELSE args[CHOOSE i \in among : \A j \in among : i <= j].v
LastOr(args, among, none) == IF among = {} THEN none ELSE args[CHOOSE i \in among : \A j \in among : i >= j].v

\* The first writer is the standard output, the second the standard error.
\* A script keeps its files open and can be named twice, a command closes them.
ParseArgs(fn, args, skip) ==
    LET seen == UpToUnknown(args, skip)
        Of(types) == {i \in seen : args[i].t \in types}
        ValuesOf(type) == {args[i].v : i \in Of({type})}
        writers == Of({"file", "writer"})
    IN  [arg |-> ValuesOf("string"),
         arg0 |-> LastOr(args, IF fn = "script" /\ Of({"scriptname"}) # {} THEN Of({"scriptname"}) ELSE Of({"arg0"}), "none"),
         out |-> FirstOr(args, writers, "none"), err |-> FirstOr(args, {i \in writers : \E j \in writers : j < i}, "none"),
         files |-> IF fn = "script" THEN {} ELSE ValuesOf("file"),
         hooks |-> {args[i].t : i \in seen} \cap {"prestart", "started", "end"},
         clean |-> LastOr(args, Of({"bool"}), FALSE),
         bad |-> seen # DOMAIN args]

HasArg(args) == \E i \in DOMAIN args : args[i].t = "string"

\* The interpreter that the first line of a script names: what follows the
\* first blank, if there is one, and the whole line if not.
GetScriptPath(text) ==
    IF text.shebang = <<>> THEN <<>>
    ELSE IF text.source THEN <<"BASH_SOURCE">>
    ELSE IF Len(text.shebang) > 1 THEN Tail(text.shebang) ELSE text.shebang

\* The environment of the process.
EnrovimentMergeWithCurrentEnv(more) == [k \in DOMAIN more \cup {"PATH"} |-> IF k \in DOMAIN more THEN more[k] ELSE PATH]
EnvOf(cmd, more) == IF cmd.clean THEN more ELSE EnrovimentMergeWithCurrentEnv(more)

-----------------------------------------------------------------------------
(* A call.                                                                 *)

Ends(c, err) == cmdRun' = [cmdRun EXCEPT ![c] = [@ EXCEPT !.pc = "return", !.result = err]]
Ready(c, cmd, bin, r) == cmdRun' = [cmdRun EXCEPT ![c] = [r EXCEPT !.pc = "start", !.cmd = cmd, !.bin = bin]]
Begins(c, cmd, bin, r) ==
    IF cmd.bad
    THEN cmdRun' = [cmdRun EXCEPT ![c] = [r EXCEPT !.pc = "return", !.result = "unsupported", !.cmd = cmd]]
    ELSE Ready(c, cmd, bin, r)

\* ExecCommandCtxEnvTimeout, ExecCommandCtxScriptEnvTimeout and
\* ExecCommandCtxShellEnvTimeout, up to cmd.Start.
Command(c) ==
    /\ cmdRun[c].pc = "call" /\ work[c].fn = "command"
    /\ Begins(c, ParseArgs("command", work[c].args, TakenOut), IF Prg(c).found THEN "program" ELSE "none", cmdRun[c])
    /\ UNCHANGED <<exFixed, PATH, prc, orphan, rp>>

Script(c) ==
    /\ cmdRun[c].pc = "call" /\ work[c].fn = "script"
    /\ Begins(c, ParseArgs("script", work[c].args, {}), IF Prg(c).found THEN "program" ELSE "none", cmdRun[c])
    /\ UNCHANGED <<exFixed, PATH, prc, orphan, rp>>

ShellScript(c) ==
    /\ cmdRun[c].pc = "call" /\ work[c].fn = "shell"
    /\ IF Shell = "none" THEN Ends(c, "noshell") ELSE Begins(c, ParseArgs("script", work[c].args, {}), Shell, cmdRun[c])
    /\ UNCHANGED <<exFixed, PATH, prc, orphan, rp>>

\* open: the file in memory and, if it has a name, the directory with a link to
\* it.  If the directory cannot be made or the program cannot be read, the
\* result is set to nil before the deferred function closes it: a panic.
Opened(c) == [cmdRun[c] EXCEPT !.mem = TRUE, !.dir = work[c].name # "none"]

\* ExecBytesCtxEnvTimeout.  A script is read again and run by its interpreter;
\* the file of a script that looks at BASH_SOURCE is not closed.
Bytes(c) ==
    /\ cmdRun[c].pc = "call" /\ work[c].fn = "bytes"
    /\ LET bin == IF HasArg(work[c].args) THEN <<>> ELSE GetScriptPath(Prg(c).text)
           Parsed(fn) == ParseArgs(fn, work[c].args, TakenOut)
       IN  \/ cmdRun' = [cmdRun EXCEPT ![c] = [@ EXCEPT !.pc = "panic", !.mem = TRUE]]
           \/ bin \notin {<<>>, <<"BASH_SOURCE">>}
              /\ Begins(c, Parsed("script"), IF bin = <<Shell>> THEN Shell ELSE "none", cmdRun[c])
           \/ bin = <<"BASH_SOURCE">> /\ Begins(c, Parsed("command"), "memory", [Opened(c) EXCEPT !.nodel = TRUE])
           \/ bin = <<>> /\ Begins(c, Parsed("command"), "memory", Opened(c))
    /\ UNCHANGED <<exFixed, PATH, prc, orphan, rp>>

\* PathJointList, PathRemove
Without(path, d) == path \ {d}
DirOf(c) == IF work[c].name = "none" THEN c ELSE work[c].name

\* ExecBytesToFileEnvTimeout, up to cmd.Start: PATH is given its directory, and
\* what it is to be afterwards is computed now.  The file is still open for
\* writing when it is to be executed.
ToFile(c) ==
    /\ cmdRun[c].pc = "call" /\ work[c].fn = "tofile"
    /\ PATH' = PATH \cup {DirOf(c)}
    /\ Begins(c, ParseArgs("command", work[c].args, {}), "busy", [cmdRun[c] EXCEPT !.dir = TRUE, !.restore = <<Without(PATH', DirOf(c))>>])
    /\ UNCHANGED <<exFixed, prc, orphan, rp>>

Start(c) ==
    /\ cmdRun[c].pc = "start"
    /\ IF cmdRun[c].fired THEN Ends(c, "context") /\ UNCHANGED <<prc, orphan>>
       ELSE IF cmdRun[c].bin \in {"none", "busy"} THEN Ends(c, "start") /\ UNCHANGED <<prc, orphan>>
       ELSE /\ cmdRun' = [cmdRun EXCEPT ![c].pc = "wait"]
            /\ prc' = [prc EXCEPT ![c] = [st |-> "running", code |-> 0, out |-> <<>>, env |-> EnvOf(cmdRun[c].cmd, work[c].more)]]
            /\ orphan' = [orphan EXCEPT ![c] = IF Prg(c).forks = "no" THEN "none" ELSE "child"]
    /\ UNCHANGED <<exFixed, PATH, rp>>

\* The error that cmd.Wait makes of a status.
Status(code) == CASE code = 0 -> "nil" [] code = -1 -> "killed" [] OTHER -> "exit"

WaitError(c) ==
    IF prc[c].st = "reaped" THEN "nochild"
    ELSE IF cmdRun[c].fired /\ prc[c].code = 0 THEN "context" ELSE Status(prc[c].code)

\* cmd.Wait, its first part: the process.
WaitProcess(c) ==
    /\ cmdRun[c].pc = "wait" /\ prc[c].st \in {"zombie", "reaped"}
    /\ prc' = [prc EXCEPT ![c].st = "reaped"]
    /\ cmdRun' = [cmdRun EXCEPT ![c] = [@ EXCEPT !.pc = "copy", !.result = WaitError(c)]]
    /\ UNCHANGED <<exFixed, PATH, orphan, rp>>

\* Does os/exec copy the output?  It does not for a file, nor for no writer.
Copies(c) == cmdRun[c].cmd.out = "none" \/ \E i \in DOMAIN work[c].args : work[c].args[i].t = "writer" /\ work[c].args[i].v \in {cmdRun[c].cmd.out, cmdRun[c].cmd.err}

\* cmd.Wait, its second part: the output is copied until all who have it open
\* are gone.  There is no WaitDelay.
WaitCopied(c) ==
    /\ cmdRun[c].pc = "copy"
    /\ Copies(c) => orphan[c] \notin {"child", "adopted"}
    /\ cmdRun' = [cmdRun EXCEPT ![c] = [@ EXCEPT !.pc = "return", !.out = IF cmdRun[c].cmd.out = "none" THEN prc[c].out ELSE <<>>]]
    /\ UNCHANGED <<exFixed, PATH, prc, orphan, rp>>

\* Mutant: the file in memory is not closed.
DeferredNot(c) == cmdRun[c]

\* The deferred functions: files of arguments are closed, the file in memory
\* and its directory are removed; of a directory that was given only the
\* empty name is.
Deferred(c) ==
    [cmdRun[c] EXCEPT !.closed = cmdRun[c].cmd.files,
                      !.mem = cmdRun[c].nodel, !.dir = @ /\ (cmdRun[c].nodel \/ (work[c].fn = "tofile" /\ work[c].name # "none"))]

Returns(c) ==
    /\ cmdRun[c].pc = "return"
    /\ cmdRun' = [cmdRun EXCEPT ![c] = [Deferred(c) EXCEPT !.pc = "returned"]]
    /\ PATH' = IF cmdRun[c].restore # <<>> THEN cmdRun[c].restore[1] ELSE PATH
    /\ UNCHANGED <<exFixed, prc, orphan, rp>>

-----------------------------------------------------------------------------
(* Processes, external.  dies: the children that die; ours is told.        *)

Raised(r) == [r EXCEPT !.pend = r.pc # "starting" /\ r.pc # "off", !.late = @ \/ r.pc \notin {"starting", "off"}]

Die(c, code) ==
    /\ prc' = [prc EXCEPT ![c] = [@ EXCEPT !.st = "zombie", !.code = code]]
    /\ orphan' = [orphan EXCEPT ![c] = IF @ = "child" THEN "adopted" ELSE @]
    /\ rp' = Raised(rp)

Prints(c) ==
    /\ prc[c].st = "running" /\ Len(prc[c].out) < Len(Prg(c).out)
    /\ prc' = [prc EXCEPT ![c].out = Append(@, Prg(c).out[Len(@) + 1])]
    /\ UNCHANGED <<exFixed, PATH, cmdRun, orphan, rp>>

ProcessEnds(c) ==
    /\ prc[c].st = "running" /\ prc[c].out = Prg(c).out /\ Prg(c).ends
    /\ Die(c, Prg(c).code)
    /\ UNCHANGED <<exFixed, PATH, cmdRun>>

OrphanEnds(c) ==
    /\ orphan[c] \in {"child", "adopted"} /\ Prg(c).forks = "ends"
    /\ IF orphan[c] = "adopted" /\ host.pid1
       THEN orphan' = [orphan EXCEPT ![c] = "zombie"] /\ rp' = Raised(rp)
       ELSE orphan' = [orphan EXCEPT ![c] = "gone"] /\ UNCHANGED rp
    /\ UNCHANGED <<exFixed, PATH, cmdRun, prc>>

\* The timeout: os/exec kills the process, if it has started it.
Timeout(c) ==
    /\ work[c].timeout /\ ~cmdRun[c].fired /\ cmdRun[c].pc \in {"start", "wait"}
    /\ cmdRun' = [cmdRun EXCEPT ![c].fired = TRUE]
    /\ IF prc[c].st = "running" THEN Die(c, -1) ELSE UNCHANGED <<prc, orphan, rp>>
    /\ UNCHANGED <<exFixed, PATH>>

-----------------------------------------------------------------------------
(* The reaper.                                                             *)

\* start
StartReaper ==
    /\ rp.pc = "off" /\ host.start /\ (host.disable \/ host.pid1)
    /\ rp' = [rp EXCEPT !.pc = "starting"]
    /\ UNCHANGED <<exFixed, PATH, cmdRun, prc, orphan>>

\* signal.Notify: from now on the process is told of its children.
Notify ==
    /\ rp.pc = "starting"
    /\ rp' = [rp EXCEPT !.pc = "idle"]
    /\ UNCHANGED <<exFixed, PATH, cmdRun, prc, orphan>>

\* The runtime passes the signal on, unless the channel is full.
Signal ==
    /\ rp.pend
    /\ rp' = [rp EXCEPT !.pend = FALSE, !.sigs = IF @ < SigCap THEN @ + 1 ELSE @]
    /\ UNCHANGED <<exFixed, PATH, cmdRun, prc, orphan>>

\* One round of sigChildHandler's loop.
sigChildHandler ==
    /\ rp.sigs > 0
    /\ rp' = [rp EXCEPT !.sigs = @ - 1, !.notified = TRUE]
    /\ UNCHANGED <<exFixed, PATH, cmdRun, prc, orphan>>

WakeReaper ==
    /\ rp.pc = "idle" /\ rp.notified
    /\ rp' = [rp EXCEPT !.pc = "wait4", !.notified = FALSE]
    /\ UNCHANGED <<exFixed, PATH, cmdRun, prc, orphan>>

Children == {c \in ExCallers : prc[c].st \in {"running", "zombie"}}
Adopted == IF host.pid1 THEN {c \in ExCallers : orphan[c] \in {"adopted", "zombie"}} ELSE {}
Dead == {c \in ExCallers : prc[c].st = "zombie"}
DeadAdopted == {c \in ExCallers : orphan[c] = "zombie"}

\* Mutant: the reaper takes one child for every notification.
Wait4Once ==
    /\ rp.pc = "wait4"
    /\ rp' = [rp EXCEPT !.pc = "idle"]
    /\ \/ \E c \in Dead : prc' = [prc EXCEPT ![c].st = "reaped"] /\ UNCHANGED orphan
       \/ \E c \in DeadAdopted : orphan' = [orphan EXCEPT ![c] = "reaped"] /\ UNCHANGED prc
       \/ Dead \cup DeadAdopted = {} /\ UNCHANGED <<prc, orphan>>
    /\ UNCHANGED <<exFixed, PATH, cmdRun>>

\* Wait4 for any child, until there is none: without WNOHANG it blocks until one
\* dies, with it the loop goes round.
Wait4 ==
    /\ rp.pc = "wait4"
    /\ \/ \E c \in Dead : prc' = [prc EXCEPT ![c].st = "reaped"] /\ UNCHANGED <<orphan, rp>>
       \/ \E c \in DeadAdopted : orphan' = [orphan EXCEPT ![c] = "reaped"] /\ UNCHANGED <<prc, rp>>
       \/ Children \cup Adopted = {} /\ rp' = [rp EXCEPT !.pc = "idle"] /\ UNCHANGED <<prc, orphan>>
    /\ UNCHANGED <<exFixed, PATH, cmdRun>>

-----------------------------------------------------------------------------

NoRun == [pc |-> "call", cmd |-> NoCmd, bin |-> "none", result |-> "nil", out |-> <<>>, fired |-> FALSE,
          mem |-> FALSE, dir |-> FALSE, nodel |-> FALSE, restore |-> <<>>, closed |-> {}]

NoProcess == [st |-> "none", code |-> 0, out |-> <<>>, env |-> <<>>]
ReaperOff == [pc |-> "off", pend |-> FALSE, sigs |-> 0, notified |-> FALSE, late |-> FALSE]

ExInit ==
    /\ work \in Works /\ host \in Reapers
    /\ PATH = {"bin"}
    /\ cmdRun = [c \in ExCallers |-> NoRun]
    /\ prc = [c \in ExCallers |-> NoProcess]
    /\ orphan = [c \in ExCallers |-> "none"]
    /\ rp = ReaperOff

ExCaller(c) ==
    \/ Command(c) \/ Script(c) \/ ShellScript(c) \/ Bytes(c) \/ ToFile(c)
    \/ Start(c) \/ WaitProcess(c) \/ WaitCopied(c) \/ Returns(c)
ExProcess(c) == Prints(c) \/ ProcessEnds(c)
ExReaper == StartReaper \/ Notify \/ WakeReaper \/ Wait4

ExNext ==
    \/ \E c \in ExCallers : ExCaller(c) \/ ExProcess(c) \/ OrphanEnds(c) \/ Timeout(c)
    \/ ExReaper \/ Signal \/ sigChildHandler

ExecSpec == ExInit /\ [][ExNext]_exVars

ExFairness ==
    /\ \A c \in ExCallers : /\ WF_exVars(ExCaller(c)) /\ WF_exVars(ExProcess(c))
                            /\ WF_exVars(OrphanEnds(c)) /\ WF_exVars(Timeout(c))
    /\ WF_exVars(ExReaper) /\ WF_exVars(Signal) /\ WF_exVars(sigChildHandler)

-----------------------------------------------------------------------------
(* Properties.                                                             *)

Done(c) == cmdRun[c].pc = "returned"
Reaps == rp.pc \notin {"off", "starting"}
OneFile == \A c, d \in ExCallers : work[c].fn = "tofile" /\ work[d].fn = "tofile" => c = d

\* What a call returns is true: no error only if the program printed all it has
\* and ended with status 0 by itself, a status only if it is the program's, a
\* kill only after the timeout, and an unknown status only beside the reaper; no
\* process of the call is left running; and nothing else is left behind, no file
\* in memory, directory or open file of a command, and no entry in PATH.  What
\* is left, after all: the files of a script that reads BASH_SOURCE, the program
\* in a directory that was given, and PATH when two calls changed it at once.
ExecResult ==
    \A c \in ExCallers : Done(c) =>
        /\ prc[c].st \in {"none", "reaped"}
        /\ cmdRun[c].result = "nil" => prc[c].st = "reaped" /\ prc[c].code = 0 /\ prc[c].out = Prg(c).out
        /\ cmdRun[c].result = "exit" => prc[c].code = Prg(c).code /\ Prg(c).code # 0
        /\ cmdRun[c].result \in {"killed", "context"} => work[c].timeout
        /\ cmdRun[c].result = "nochild" => Reaps
        /\ cmdRun[c].result = "start" => ~Prg(c).found \/ work[c].fn \in {"tofile", "bytes"}
        /\ prc[c].st = "reaped" => /\ \A k \in DOMAIN work[c].more : prc[c].env[k] = work[c].more[k]
                                   /\ "PATH" \in DOMAIN prc[c].env <=> ~cmdRun[c].cmd.clean \/ "PATH" \in DOMAIN work[c].more
        /\ cmdRun[c].cmd.out = "none" /\ prc[c].st = "reaped" => cmdRun[c].out = prc[c].out
        /\ cmdRun[c].mem => cmdRun[c].nodel /\ Prg(c).text.source
        /\ cmdRun[c].dir => (cmdRun[c].nodel \/ (work[c].fn = "tofile" /\ work[c].name # "none"))
        /\ ~cmdRun[c].cmd.bad => cmdRun[c].closed =
              IF work[c].fn \in {"command", "tofile"} \/ cmdRun[c].bin = "memory"
              THEN {work[c].args[i].v : i \in {j \in DOMAIN work[c].args : work[c].args[j].t = "file"}} ELSE {}
        /\ OneFile /\ work[c].fn = "tofile" => PATH = {"bin"}

\* Every call returns, if its program ends or the timeout kills it and nobody
\* who is left has the output open that os/exec copies; and the reaper leaves no
\* dead child once it has been told of one, however many signals were merged or
\* dropped on the way ("so we ain't loosing it").
AllReaped ==
    <>[](/\ \A c \in ExCallers : \/ cmdRun[c].pc \in {"returned", "panic"}
                                 \/ ~Prg(c).ends /\ ~work[c].timeout
                                 \/ Prg(c).forks = "stays" /\ Copies(c)
         /\ Reaps /\ rp.late => Dead \cup DeadAdopted = {})
=============================================================================
