--------------------------- MODULE DeliveryProofs ---------------------------
(***************************************************************************)
(* Proofs about what is brought from one end to the other: what a call of  *)
(* package sexec returns is true of its program, for any callers, programs *)
(* and reapers; and what a relay hands on is what was sent, in order and   *)
(* without gaps, for every kind of relay and however much the peers send.  *)
(* After them, when work is begun: the goroutine of cron serves every      *)
(* second once.                                                            *)
(***************************************************************************)
EXTENDS Exec, Relay, Cron, TLAPS

-----------------------------------------------------------------------------
(* Exec: the inductive invariant.                                          *)

\* The shapes of the records.
RunFields == {"pc", "cmd", "bin", "result", "out", "fired", "mem", "dir", "nodel", "restore", "closed"}
IsRun(r) == DOMAIN r = RunFields /\ r = [f \in RunFields |-> r[f]]
ProcessFields == {"st", "code", "out", "env"}
IsProcess(p) == DOMAIN p = ProcessFields /\ p = [f \in ProcessFields |-> p[f]]
ReaperFields == {"pc", "pend", "sigs", "notified", "late"}
IsReaper(r) == DOMAIN r = ReaperFields /\ r = [f \in ReaperFields |-> r[f]]

\* The files among the arguments of a call.
FilesOf(w) == {w.args[i].v : i \in {j \in DOMAIN w.args : w.args[j].t = "file"}}

\* The process of a call in each state of the call.
InStep(r, p) ==
    /\ r.pc \in {"call", "start", "wait", "copy", "return", "returned", "panic"}
    /\ p.st \in {"none", "running", "zombie", "reaped"}
    /\ r.pc \in {"call", "start", "panic"} => p.st = "none"
    /\ r.pc = "wait" => p.st # "none"
    /\ r.pc = "copy" => p.st = "reaped"
    /\ r.pc \in {"return", "returned"} => p.st \in {"none", "reaped"}
    /\ r.pc = "call" => r = NoRun

\* What is known of a process that is dead, and of the one that a reaper took.
Ended(w, r, p, reaps) ==
    /\ r.fired => w.timeout
    /\ p.st \in {"zombie", "reaped"} =>
          \/ p.code = w.prog.code /\ p.out = w.prog.out
          \/ p.code = -1 /\ r.fired
    /\ p.st = "reaped" /\ r.pc = "wait" => reaps

\* What the error that is going to be returned says.
Reported(w, r, p, reaps) ==
    /\ r.pc = "start" /\ r.bin \in {"none", "busy"} => ~w.prog.found \/ w.fn \in {"tofile", "bytes"}
    /\ r.pc \in {"copy", "return", "returned"} =>
          /\ r.result = "nil" => p.st = "reaped" /\ p.code = 0 /\ p.out = w.prog.out
          /\ r.result = "exit" => p.code = w.prog.code /\ w.prog.code # 0
          /\ r.result \in {"killed", "context"} => w.timeout
          /\ r.result = "nochild" => reaps
          /\ r.result = "start" => ~w.prog.found \/ w.fn \in {"tofile", "bytes"}

\* The environment and the output.
Given(w, r, p) ==
    /\ p.st # "none" =>
          /\ \A k \in DOMAIN w.more : p.env[k] = w.more[k]
          /\ "PATH" \in DOMAIN p.env <=> ~r.cmd.clean \/ "PATH" \in DOMAIN w.more
    /\ r.pc \in {"return", "returned"} /\ r.cmd.out = "none" /\ p.st = "reaped" => r.out = p.out

\* What is left and what is closed.
Cleaned(w, r) ==
    /\ r.nodel => w.prog.text.source
    /\ r.pc = "returned" =>
          /\ r.mem => r.nodel
          /\ r.dir => r.nodel \/ (w.fn = "tofile" /\ w.name # "none")
          /\ r.closed = r.cmd.files
    /\ r.pc \notin {"call", "panic"} /\ ~r.cmd.bad =>
          r.cmd.files = IF w.fn \in {"command", "tofile"} \/ r.bin = "memory" THEN FilesOf(w) ELSE {}

CallOk(w, r, p, reaps) ==
    InStep(r, p) /\ Ended(w, r, p, reaps) /\ Reported(w, r, p, reaps) /\ Given(w, r, p) /\ Cleaned(w, r)

\* PATH beside the one call that extends it.
PathOk ==
    /\ \A c \in ExCallers : work[c].fn # "tofile" => cmdRun[c].restore = <<>>
    /\ OneFile => \A c \in ExCallers : work[c].fn = "tofile" =>
          /\ cmdRun[c].pc \in {"call", "returned"} => PATH = {"bin"}
          /\ cmdRun[c].pc \notin {"call", "returned", "panic"} => cmdRun[c].restore = <<{"bin"}>>

Shapes ==
    /\ work \in Works
    /\ DOMAIN cmdRun = ExCallers /\ cmdRun = [c \in ExCallers |-> cmdRun[c]]
    /\ DOMAIN prc = ExCallers /\ prc = [c \in ExCallers |-> prc[c]]
    /\ \A c \in ExCallers : IsRun(cmdRun[c]) /\ IsProcess(prc[c])
    /\ IsReaper(rp)

EInv == Shapes /\ PathOk /\ \A c \in ExCallers : CallOk(work[c], cmdRun[c], prc[c], Reaps)

-----------------------------------------------------------------------------
(* Steps of one call.                                                      *)

\* A reaper that starts makes no claim about a call wrong.
LEMMA MoreReaps ==
    ASSUME NEW w, NEW r, NEW p, NEW a, NEW b, CallOk(w, r, p, a), a => b
    PROVE  CallOk(w, r, p, b)
BY Zenon DEF CallOk, Ended, Reported

\* A step of one call and its process.
LEMMA Framed ==
    ASSUME EInv, NEW c \in ExCallers, NEW r, NEW p, UNCHANGED work,
           cmdRun' = [cmdRun EXCEPT ![c] = r], prc' = [prc EXCEPT ![c] = p],
           IsRun(r), IsProcess(p), IsReaper(rp'), Reaps => Reaps',
           CallOk(work[c], r, p, Reaps'), PathOk'
    PROVE  EInv'
<1>1. /\ DOMAIN cmdRun' = ExCallers /\ cmdRun' = [d \in ExCallers |-> cmdRun'[d]]
      /\ cmdRun'[c] = r /\ \A d \in ExCallers : d # c => cmdRun'[d] = cmdRun[d]
    BY Zenon DEF EInv, Shapes
<1>2. /\ DOMAIN prc' = ExCallers /\ prc' = [d \in ExCallers |-> prc'[d]]
      /\ prc'[c] = p /\ \A d \in ExCallers : d # c => prc'[d] = prc[d]
    BY Zenon DEF EInv, Shapes
<1>3. Shapes'
    BY <1>1, <1>2, Zenon DEF EInv, Shapes
<1>4. ASSUME NEW d \in ExCallers
      PROVE  CallOk(work'[d], cmdRun'[d], prc'[d], Reaps')
    BY <1>1, <1>2, MoreReaps DEF EInv
<1>. QED BY <1>3, <1>4, Zenon DEF EInv

\* The same, when the process stays as it is.
LEMMA FramedCall ==
    ASSUME EInv, NEW c \in ExCallers, NEW r, UNCHANGED <<work, prc, rp>>,
           cmdRun' = [cmdRun EXCEPT ![c] = r],
           IsRun(r), CallOk(work[c], r, prc[c], Reaps), PathOk'
    PROVE  EInv'
<1>1. prc' = [prc EXCEPT ![c] = prc[c]]
    BY Zenon DEF EInv, Shapes
<1>2. IsProcess(prc[c]) /\ IsReaper(rp') /\ (Reaps <=> Reaps')
    BY Zenon DEF EInv, Shapes, Reaps
<1>3. CallOk(work[c], r, prc[c], Reaps')
    BY <1>2, MoreReaps
<1>. QED BY <1>1, <1>2, <1>3, Framed, Zenon

\* PATH and what it is to be are not touched.
LEMMA PathStays ==
    ASSUME EInv, NEW c \in ExCallers, NEW r, UNCHANGED <<work, PATH>>,
           cmdRun' = [cmdRun EXCEPT ![c] = r], r.restore = cmdRun[c].restore,
           work[c].fn = "tofile" => cmdRun[c].pc \notin {"call", "returned", "panic"} /\ r.pc \notin {"call", "returned", "panic"}
    PROVE  PathOk'
<1>1. cmdRun'[c] = r /\ \A d \in ExCallers : d # c => cmdRun'[d] = cmdRun[d]
    BY Zenon DEF EInv, Shapes
<1>2. OneFile' <=> OneFile
    BY Zenon DEF OneFile
<1>. QED BY <1>1, <1>2, Zenon DEF EInv, PathOk

-----------------------------------------------------------------------------
(* The arguments.                                                          *)

\* The files among the arguments that a command closes are those it was
\* given.
LEMMA Parsed ==
    ASSUME NEW fn \in {"command", "script"}, NEW w, NEW skip \in {{}, TakenOut}
    PROVE  LET cmd == ParseArgs(fn, w.args, skip)
           IN  ~cmd.bad => cmd.files = IF fn = "command" THEN FilesOf(w) ELSE {}
<1>. DEFINE cmd == ParseArgs(fn, w.args, skip)
<1>1. cmd.bad <=> UpToUnknown(w.args, skip) # DOMAIN w.args
    BY Zenon DEF ParseArgs
<1>2. cmd.files = IF fn = "script" THEN {} ELSE {w.args[i].v : i \in {j \in UpToUnknown(w.args, skip) : w.args[j].t \in {"file"}}}
    BY Zenon DEF ParseArgs
<1>. QED BY <1>1, <1>2, Zenon DEF FilesOf

\* A call that gets to cmd.Start, or whose arguments are wrong.
LEMMA BeginsWell ==
    ASSUME EInv, NEW c \in ExCallers, cmdRun[c].pc = "call", UNCHANGED <<work, prc, rp>>,
           NEW fn \in {"command", "script"}, NEW skip \in {{}, TakenOut}, NEW bin, NEW r,
           Begins(c, ParseArgs(fn, work[c].args, skip), bin, r),
           IsRun(r), ~r.fired, r.nodel => Prg(c).text.source,
           bin \in {"none", "busy"} => ~Prg(c).found \/ work[c].fn \in {"tofile", "bytes"},
           fn = "command" <=> work[c].fn \in {"command", "tofile"} \/ bin = "memory",
           PathOk'
    PROVE  EInv'
<1>. DEFINE cmd == ParseArgs(fn, work[c].args, skip)
            bad == [r EXCEPT !.pc = "return", !.result = "unsupported", !.cmd = cmd]
            good == [r EXCEPT !.pc = "start", !.cmd = cmd, !.bin = bin]
<1>1. ~cmd.bad => cmd.files = IF fn = "command" THEN FilesOf(work[c]) ELSE {}
    BY Parsed, Zenon
<1>2. prc[c].st = "none"
    BY Zenon DEF EInv, CallOk, InStep
<1>3. CASE cmd.bad
  <2>1. cmdRun' = [cmdRun EXCEPT ![c] = bad]
      BY <1>3, Zenon DEF Begins
  <2>2. /\ bad.pc = "return" /\ bad.result = "unsupported" /\ bad.cmd = cmd
        /\ bad.fired = r.fired /\ bad.nodel = r.nodel
      BY Zenon DEF IsRun, RunFields
  <2>0. IsRun(bad)
      BY Zenon DEF IsRun, RunFields
  <2>. HIDE DEF bad
  <2>3. CallOk(work[c], bad, prc[c], Reaps)
      BY <1>2, <1>3, <2>2, Zenon DEF CallOk, InStep, Ended, Reported, Given, Cleaned, Prg
  <2>. QED BY <2>0, <2>1, <2>3, FramedCall, Zenon
<1>4. CASE ~cmd.bad
  <2>1. cmdRun' = [cmdRun EXCEPT ![c] = good]
      BY <1>4, Zenon DEF Begins, Ready
  <2>2. /\ good.pc = "start" /\ good.cmd = cmd /\ good.bin = bin
        /\ good.fired = r.fired /\ good.nodel = r.nodel
      BY Zenon DEF IsRun, RunFields
  <2>0. IsRun(good)
      BY Zenon DEF IsRun, RunFields
  <2>. HIDE DEF good
  <2>3. CallOk(work[c], good, prc[c], Reaps)
      BY <1>1, <1>2, <1>4, <2>2, Zenon DEF CallOk, InStep, Ended, Reported, Given, Cleaned, Prg
  <2>. QED BY <2>0, <2>1, <2>3, FramedCall, Zenon
<1>. QED BY <1>3, <1>4, Zenon

\* What a call is before it begins.
LEMMA Fresh ==
    ASSUME EInv, NEW c \in ExCallers, cmdRun[c].pc = "call"
    PROVE  IsRun(cmdRun[c]) /\ ~cmdRun[c].fired /\ ~cmdRun[c].nodel /\ cmdRun[c].restore = <<>>
<1>1. cmdRun[c] = NoRun
    BY Zenon DEF EInv, CallOk, InStep
<1>. QED BY <1>1 DEF EInv, Shapes, NoRun

\* No call but ExecBytesToFile touches PATH.
LEMMA BeginsAway ==
    ASSUME EInv, NEW c \in ExCallers, UNCHANGED <<work, PATH>>, work[c].fn # "tofile",
           NEW cmd, NEW bin, NEW r, Begins(c, cmd, bin, r), IsRun(r), r.restore = cmdRun[c].restore
    PROVE  PathOk'
<1>. DEFINE bad == [r EXCEPT !.pc = "return", !.result = "unsupported", !.cmd = cmd]
            good == [r EXCEPT !.pc = "start", !.cmd = cmd, !.bin = bin]
<1>1. bad.restore = cmdRun[c].restore /\ good.restore = cmdRun[c].restore
    BY DEF IsRun, RunFields
<1>2. cmdRun' = [cmdRun EXCEPT ![c] = bad] \/ cmdRun' = [cmdRun EXCEPT ![c] = good]
    BY DEF Begins, Ready
<1>. HIDE DEF bad, good
<1>. QED BY <1>1, <1>2, PathStays, Zenon

\* A call that ends at once, or after it was prepared, without a process.
LEMMA EndsWell ==
    ASSUME EInv, NEW c \in ExCallers, cmdRun[c].pc \in {"call", "start"}, UNCHANGED <<work, PATH, prc, rp>>,
           NEW err, Ends(c, err), err \notin {"nil", "exit", "killed", "nochild"},
           err = "context" => work[c].timeout,
           err = "start" => ~Prg(c).found \/ work[c].fn \in {"tofile", "bytes"},
           cmdRun[c].pc = "call" => work[c].fn = "shell"
    PROVE  EInv'
<1>. DEFINE r == [cmdRun[c] EXCEPT !.pc = "return", !.result = err]
<1>1. IsRun(cmdRun[c]) /\ prc[c].st = "none" /\ CallOk(work[c], cmdRun[c], prc[c], Reaps)
    BY Zenon DEF EInv, Shapes, CallOk, InStep
<1>2. /\ r.pc = "return" /\ r.result = err /\ r.cmd = cmdRun[c].cmd /\ r.fired = cmdRun[c].fired
      /\ r.nodel = cmdRun[c].nodel /\ r.bin = cmdRun[c].bin /\ r.restore = cmdRun[c].restore
    BY <1>1, Zenon DEF IsRun, RunFields
<1>3. IsRun(r)
    BY <1>1, Zenon DEF IsRun, RunFields
<1>4. cmdRun' = [cmdRun EXCEPT ![c] = r]
    BY Zenon DEF Ends
<1>. HIDE DEF r
<1>5. ~r.cmd.bad => r.cmd.files = IF work[c].fn \in {"command", "tofile"} \/ r.bin = "memory" THEN FilesOf(work[c]) ELSE {}
  <2>1. CASE cmdRun[c].pc = "start"
      BY <1>1, <1>2, <2>1, Zenon DEF CallOk, Cleaned
  <2>2. CASE cmdRun[c].pc = "call"
    <3>1. cmdRun[c] = NoRun
        BY <2>2, Zenon DEF EInv, CallOk, InStep
    <3>. QED BY <1>2, <2>2, <3>1 DEF NoRun, NoCmd
  <2>. QED BY <2>1, <2>2, Zenon
<1>6. CallOk(work[c], r, prc[c], Reaps)
    BY <1>1, <1>2, <1>5, Zenon DEF CallOk, InStep, Ended, Reported, Given, Cleaned, Prg
<1>7. PathOk'
    BY <1>2, <1>4, PathStays, Zenon
<1>. QED BY <1>3, <1>4, <1>6, <1>7, FramedCall, Zenon

\* A command, a shell line or a script begins.
LEMMA CommandWell ==
    ASSUME EInv, NEW c \in ExCallers, Command(c) \/ Script(c) \/ ShellScript(c)
    PROVE  EInv'
<1>1. cmdRun[c].pc = "call" /\ UNCHANGED <<work, PATH, prc, rp>>
    BY Zenon DEF Command, Script, ShellScript, exFixed
<1>2. IsRun(cmdRun[c]) /\ ~cmdRun[c].fired /\ ~cmdRun[c].nodel /\ cmdRun[c].restore = <<>>
    BY <1>1, Fresh, Zenon
<1>. DEFINE bin == IF Prg(c).found THEN "program" ELSE "none"
<1>3. bin \in {"program", "none"} /\ (bin = "none" => ~Prg(c).found)
    OBVIOUS
<1>. HIDE DEF bin
<1>4. CASE Command(c)
  <2>1. work[c].fn = "command" /\ Begins(c, ParseArgs("command", work[c].args, TakenOut), bin, cmdRun[c])
      BY <1>4, Zenon DEF Command, bin
  <2>2. PathOk'
      BY <1>1, <1>2, <2>1, BeginsAway, Zenon
  <2>. QED BY <1>1, <1>2, <1>3, <2>1, <2>2, BeginsWell, Zenon
<1>5. CASE Script(c)
  <2>1. work[c].fn = "script" /\ Begins(c, ParseArgs("script", work[c].args, {}), bin, cmdRun[c])
      BY <1>5, Zenon DEF Script, bin
  <2>2. PathOk'
      BY <1>1, <1>2, <2>1, BeginsAway, Zenon
  <2>. QED BY <1>1, <1>2, <1>3, <2>1, <2>2, BeginsWell, Zenon
<1>6. CASE ShellScript(c)
  <2>1. work[c].fn = "shell"
      BY <1>6, Zenon DEF ShellScript
  <2>2. CASE Shell = "none"
    <3>1. Ends(c, "noshell")
        BY <1>6, <2>2, Zenon DEF ShellScript
    <3>. QED BY <1>1, <2>1, <3>1, EndsWell, Zenon
  <2>3. CASE Shell # "none"
    <3>1. Begins(c, ParseArgs("script", work[c].args, {}), Shell, cmdRun[c])
        BY <1>6, <2>3, Zenon DEF ShellScript
    <3>2. PathOk'
        BY <1>1, <1>2, <2>1, <3>1, BeginsAway, Zenon
    <3>3. Shell \notin {"none", "busy", "memory"}
        BY <2>3, ExecAssumption, Zenon
    <3>. QED BY <1>1, <1>2, <2>1, <3>1, <3>2, <3>3, BeginsWell, Zenon
  <2>. QED BY <2>2, <2>3
<1>. QED BY <1>4, <1>5, <1>6

\* Only a script that reads BASH_SOURCE has no interpreter of another name.
LEMMA SourceOnly ==
    ASSUME EInv, NEW c \in ExCallers, GetScriptPath(Prg(c).text) = <<"BASH_SOURCE">>
    PROVE  Prg(c).text.source
<1>. DEFINE s == Prg(c).text.shebang
<1>1. s \in Seq(STRING \ {"BASH_SOURCE"})
    BY ExecAssumption, Zenon DEF EInv, Shapes, Prg
<1>. HIDE DEF s
<1>2. s # <<>> /\ Len(s) > 1 => Tail(s) # <<"BASH_SOURCE">>
  <2>1. Len(s) > 1 => Tail(s)[1] = s[2] /\ s[2] # "BASH_SOURCE"
      BY <1>1
  <2>2. <<"BASH_SOURCE">>[1] = "BASH_SOURCE"
      OBVIOUS
  <2>. QED BY <2>1, <2>2, Zenon
<1>3. s # <<"BASH_SOURCE">>
    BY <1>1
<1>. QED BY <1>2, <1>3, Zenon DEF GetScriptPath, s

\* A program in memory, or the script that turns out to be in it.
LEMMA BytesWell ==
    ASSUME EInv, NEW c \in ExCallers, Bytes(c)
    PROVE  EInv'
<1>. DEFINE bin == IF HasArg(work[c].args) THEN <<>> ELSE GetScriptPath(Prg(c).text)
            run == IF bin = <<Shell>> THEN Shell ELSE "none"
            panic == [cmdRun[c] EXCEPT !.pc = "panic", !.mem = TRUE]
            kept == [Opened(c) EXCEPT !.nodel = TRUE]
<1>1. cmdRun[c].pc = "call" /\ work[c].fn = "bytes" /\ UNCHANGED <<work, PATH, prc, rp>>
    BY Zenon DEF Bytes, exFixed
<1>2. IsRun(cmdRun[c]) /\ ~cmdRun[c].fired /\ ~cmdRun[c].nodel /\ cmdRun[c].restore = <<>>
    BY <1>1, Fresh, Zenon
<1>3. \/ cmdRun' = [cmdRun EXCEPT ![c] = panic]
      \/ Begins(c, ParseArgs("script", work[c].args, TakenOut), run, cmdRun[c])
      \/ bin = <<"BASH_SOURCE">> /\ Begins(c, ParseArgs("command", work[c].args, TakenOut), "memory", kept)
      \/ Begins(c, ParseArgs("command", work[c].args, TakenOut), "memory", Opened(c))
    BY Zenon DEF Bytes
<1>4. run # "memory" /\ (bin = <<"BASH_SOURCE">> => Prg(c).text.source)
    BY ExecAssumption, SourceOnly, Zenon
<1>5. panic.pc = "panic" /\ panic.fired = cmdRun[c].fired /\ panic.nodel = cmdRun[c].nodel /\ panic.restore = cmdRun[c].restore
    BY <1>2, Zenon DEF IsRun, RunFields
<1>6. IsRun(panic)
    BY <1>2, Zenon DEF IsRun, RunFields
<1>7. Opened(c).fired = cmdRun[c].fired /\ Opened(c).nodel = cmdRun[c].nodel /\ Opened(c).restore = cmdRun[c].restore
    BY <1>2, Zenon DEF IsRun, RunFields, Opened
<1>8. IsRun(Opened(c))
    BY <1>2, Zenon DEF IsRun, RunFields, Opened
<1>9. kept.fired = cmdRun[c].fired /\ kept.restore = cmdRun[c].restore
    BY <1>7, <1>8, Zenon DEF IsRun, RunFields
<1>10. IsRun(kept)
    BY <1>8, Zenon DEF IsRun, RunFields
<1>. HIDE DEF bin, run, panic, kept
<1>11. CASE cmdRun' = [cmdRun EXCEPT ![c] = panic]
  <2>1. prc[c].st = "none"
      BY <1>1, Zenon DEF EInv, CallOk, InStep
  <2>2. CallOk(work[c], panic, prc[c], Reaps)
      BY <1>2, <1>5, <2>1, Zenon DEF CallOk, InStep, Ended, Reported, Given, Cleaned
  <2>3. PathOk'
      BY <1>1, <1>5, <1>11, PathStays, Zenon
  <2>. QED BY <1>1, <1>6, <1>11, <2>2, <2>3, FramedCall, Zenon
<1>12. CASE Begins(c, ParseArgs("script", work[c].args, TakenOut), run, cmdRun[c])
  <2>1. PathOk'
      BY <1>1, <1>2, <1>12, BeginsAway, Zenon
  <2>. QED BY <1>1, <1>2, <1>4, <1>12, <2>1, BeginsWell, Zenon
<1>13. CASE bin = <<"BASH_SOURCE">> /\ Begins(c, ParseArgs("command", work[c].args, TakenOut), "memory", kept)
  <2>1. PathOk'
      BY <1>1, <1>9, <1>10, <1>13, BeginsAway, Zenon
  <2>. QED BY <1>1, <1>2, <1>4, <1>9, <1>10, <1>13, <2>1, BeginsWell, Zenon
<1>14. CASE Begins(c, ParseArgs("command", work[c].args, TakenOut), "memory", Opened(c))
  <2>1. PathOk'
      BY <1>1, <1>7, <1>8, <1>14, BeginsAway, Zenon
  <2>. QED BY <1>1, <1>2, <1>7, <1>8, <1>14, <2>1, BeginsWell, Zenon
<1>. QED BY <1>3, <1>11, <1>12, <1>13, <1>14, Zenon

\* A program in a directory that is added to PATH.
LEMMA ToFileWell ==
    ASSUME EInv, NEW c \in ExCallers, ToFile(c)
    PROVE  EInv'
<1>. DEFINE cmd == ParseArgs("command", work[c].args, {})
            back == PATH' \ {DirOf(c)}
            r == [cmdRun[c] EXCEPT !.dir = TRUE, !.restore = <<back>>]
            bad == [r EXCEPT !.pc = "return", !.result = "unsupported", !.cmd = cmd]
            good == [r EXCEPT !.pc = "start", !.cmd = cmd, !.bin = "busy"]
<1>1. /\ cmdRun[c].pc = "call" /\ work[c].fn = "tofile" /\ UNCHANGED <<work, prc, rp>>
      /\ PATH' = PATH \cup {DirOf(c)} /\ Begins(c, cmd, "busy", r)
    BY DEF ToFile, exFixed, Without
<1>2. IsRun(cmdRun[c]) /\ ~cmdRun[c].fired /\ ~cmdRun[c].nodel
    BY <1>1, Fresh, Zenon
<1>3. r.fired = cmdRun[c].fired /\ r.nodel = cmdRun[c].nodel /\ r.restore = <<back>>
    BY <1>2, Zenon DEF IsRun, RunFields
<1>4. IsRun(r)
    BY <1>2, Zenon DEF IsRun, RunFields
<1>5. DirOf(c) # "bin"
    BY ExecAssumption, Zenon DEF EInv, Shapes, DirOf
<1>. HIDE DEF r
<1>6. /\ bad.restore = <<back>> /\ good.restore = <<back>>
      /\ bad.pc = "return" /\ good.pc = "start"
    BY <1>3, <1>4 DEF IsRun, RunFields
<1>7. cmdRun' = [cmdRun EXCEPT ![c] = bad] \/ cmdRun' = [cmdRun EXCEPT ![c] = good]
    BY <1>1, Zenon DEF Begins, Ready
<1>. HIDE DEF bad, good
<1>8. /\ cmdRun'[c].restore = <<back>> /\ cmdRun'[c].pc \in {"return", "start"}
      /\ \A d \in ExCallers : d # c => cmdRun'[d] = cmdRun[d]
    BY <1>6, <1>7, Zenon DEF EInv, Shapes
<1>9. PathOk'
  <2>1. OneFile' => OneFile /\ \A d \in ExCallers : work[d].fn = "tofile" => d = c
      BY <1>1, Zenon DEF OneFile
  <2>2. OneFile => PATH = {"bin"}
      BY <1>1, Zenon DEF EInv, PathOk
  <2>3. OneFile => back = {"bin"}
      BY <1>1, <1>5, <2>2, Zenon
  <2>. QED BY <1>1, <1>8, <2>1, <2>3, Zenon DEF EInv, PathOk
<1>. QED BY <1>1, <1>2, <1>3, <1>4, <1>9, BeginsWell, Zenon

-----------------------------------------------------------------------------
(* The process.                                                            *)

\* cmd.Start, or its error.
LEMMA StartWell ==
    ASSUME EInv, NEW c \in ExCallers, Start(c)
    PROVE  EInv'
<1>1. cmdRun[c].pc = "start" /\ UNCHANGED <<work, PATH, rp>>
    BY Zenon DEF Start, exFixed
<1>2. IsRun(cmdRun[c]) /\ prc[c].st = "none" /\ CallOk(work[c], cmdRun[c], prc[c], Reaps)
    BY <1>1, Zenon DEF EInv, Shapes, CallOk, InStep
<1>3. CASE cmdRun[c].fired
  <2>1. Ends(c, "context") /\ UNCHANGED prc /\ work[c].timeout
      BY <1>2, <1>3, Zenon DEF Start, CallOk, Ended
  <2>. QED BY <1>1, <2>1, EndsWell, Zenon
<1>4. CASE ~cmdRun[c].fired /\ cmdRun[c].bin \in {"none", "busy"}
  <2>1. Ends(c, "start") /\ UNCHANGED prc
      BY <1>4, Zenon DEF Start
  <2>2. ~Prg(c).found \/ work[c].fn \in {"tofile", "bytes"}
      BY <1>1, <1>2, <1>4, Zenon DEF CallOk, Reported, Prg
  <2>. QED BY <1>1, <2>1, <2>2, EndsWell, Zenon
<1>5. CASE ~cmdRun[c].fired /\ cmdRun[c].bin \notin {"none", "busy"}
  <2>. DEFINE r == [cmdRun[c] EXCEPT !.pc = "wait"]
              env == EnvOf(cmdRun[c].cmd, work[c].more)
              p == [st |-> "running", code |-> 0, out |-> <<>>, env |-> env]
  <2>1. cmdRun' = [cmdRun EXCEPT ![c] = r] /\ prc' = [prc EXCEPT ![c] = p]
      BY <1>5, Zenon DEF Start
  <2>2. /\ r.pc = "wait" /\ r.cmd = cmdRun[c].cmd /\ r.fired = cmdRun[c].fired
        /\ r.nodel = cmdRun[c].nodel /\ r.bin = cmdRun[c].bin /\ r.restore = cmdRun[c].restore
      BY <1>2, Zenon DEF IsRun, RunFields
  <2>3. IsRun(r)
      BY <1>2, Zenon DEF IsRun, RunFields
  <2>4. p.st = "running" /\ p.env = env
      BY Zenon
  <2>5. IsProcess(p)
      BY Zenon DEF IsProcess, ProcessFields
  <2>6. /\ \A k \in DOMAIN work[c].more : env[k] = work[c].more[k]
        /\ "PATH" \in DOMAIN env <=> ~cmdRun[c].cmd.clean \/ "PATH" \in DOMAIN work[c].more
      BY Zenon DEF EnvOf, EnrovimentMergeWithCurrentEnv
  <2>. HIDE DEF r, p, env
  <2>7. CallOk(work[c], r, p, Reaps)
    <3>1. InStep(r, p)
        BY <1>1, <1>2, <2>2, <2>4, <2>6, Zenon DEF CallOk, InStep
    <3>2. Ended(work[c], r, p, Reaps)
        BY <1>1, <1>2, <2>2, <2>4, <2>6, Zenon DEF CallOk, InStep, Ended
    <3>3. Reported(work[c], r, p, Reaps)
        BY <1>1, <1>2, <2>2, <2>4, <2>6, Zenon DEF CallOk, InStep, Ended, Reported
    <3>4. Given(work[c], r, p)
        BY <1>1, <1>2, <2>2, <2>4, <2>6, Zenon DEF CallOk, InStep, Given
    <3>5. Cleaned(work[c], r)
        BY <1>1, <1>2, <2>2, <2>4, <2>6, Zenon DEF CallOk, InStep, Cleaned
    <3>. QED BY <3>1, <3>2, <3>3, <3>4, <3>5, Zenon DEF CallOk
  <2>8. PathOk'
      BY <1>1, <2>1, <2>2, PathStays, Zenon
  <2>9. IsReaper(rp') /\ (Reaps <=> Reaps')
      BY <1>1, Zenon DEF EInv, Shapes, Reaps
  <2>10. CallOk(work[c], r, p, Reaps')
      BY <2>7, <2>9, MoreReaps
  <2>. QED BY <1>1, <2>1, <2>3, <2>5, <2>8, <2>9, <2>10, Framed, Zenon
<1>. QED BY <1>3, <1>4, <1>5, Zenon

\* The error of a process that ended by itself.
LEMMA StatusOf ==
    ASSUME NEW k \in 0..255
    PROVE  Status(k) = IF k = 0 THEN "nil" ELSE "exit"
BY DEF Status

\* cmd.Wait sees the end of the process, or that somebody else has.
LEMMA WaitWell ==
    ASSUME EInv, NEW c \in ExCallers, WaitProcess(c)
    PROVE  EInv'
<1>. DEFINE r == [cmdRun[c] EXCEPT !.pc = "copy", !.result = WaitError(c)]
            p == [prc[c] EXCEPT !.st = "reaped"]
<1>1. /\ cmdRun[c].pc = "wait" /\ prc[c].st \in {"zombie", "reaped"} /\ UNCHANGED <<work, PATH, rp>>
      /\ cmdRun' = [cmdRun EXCEPT ![c] = r] /\ prc' = [prc EXCEPT ![c] = p]
    BY Zenon DEF WaitProcess, exFixed
<1>2. IsRun(cmdRun[c]) /\ IsProcess(prc[c]) /\ CallOk(work[c], cmdRun[c], prc[c], Reaps)
    BY <1>1, Zenon DEF EInv, Shapes
<1>3. /\ r.pc = "copy" /\ r.result = WaitError(c) /\ r.cmd = cmdRun[c].cmd /\ r.fired = cmdRun[c].fired
      /\ r.nodel = cmdRun[c].nodel /\ r.bin = cmdRun[c].bin /\ r.restore = cmdRun[c].restore
    BY <1>2, Zenon DEF IsRun, RunFields
<1>4. IsRun(r)
    BY <1>2, Zenon DEF IsRun, RunFields
<1>5. p.st = "reaped" /\ p.code = prc[c].code /\ p.out = prc[c].out /\ p.env = prc[c].env
    BY <1>2, Zenon DEF IsProcess, ProcessFields
<1>6. IsProcess(p)
    BY <1>2, Zenon DEF IsProcess, ProcessFields
<1>. HIDE DEF r, p
<1>7. IsReaper(rp') /\ (Reaps <=> Reaps')
    BY <1>1, Zenon DEF EInv, Shapes, Reaps
<1>8. work[c].prog.code \in 0..255
    BY ExecAssumption, Zenon DEF EInv, Shapes
<1>9. Reported(work[c], r, p, Reaps)
  <2>1. CASE prc[c].st = "reaped"
      BY <1>1, <1>2, <1>3, <2>1, Zenon DEF WaitError, Reported, CallOk, Ended
  <2>2. CASE prc[c].st = "zombie" /\ cmdRun[c].fired
    <3>1. work[c].timeout
        BY <1>2, <2>2, Zenon DEF CallOk, Ended
    <3>2. r.result \in {"context", "killed", "exit"} /\ (r.result = "exit" => prc[c].code \notin {0, -1})
        BY <1>3, <2>2, Zenon DEF WaitError, Status
    <3>. QED BY <1>2, <1>3, <1>5, <2>2, <3>1, <3>2, Zenon DEF Reported, CallOk, Ended
  <2>3. CASE prc[c].st = "zombie" /\ ~cmdRun[c].fired
    <3>1. prc[c].code = work[c].prog.code /\ prc[c].out = work[c].prog.out
        BY <1>2, <2>3, Zenon DEF CallOk, Ended
    <3>2. r.result = IF prc[c].code = 0 THEN "nil" ELSE "exit"
      <4>1. Status(prc[c].code) = IF prc[c].code = 0 THEN "nil" ELSE "exit"
          BY <1>8, <3>1, StatusOf, Zenon
      <4>2. WaitError(c) = Status(prc[c].code)
          BY <2>3, Zenon DEF WaitError
      <4>. QED BY <1>3, <4>1, <4>2, Zenon
    <3>. QED BY <1>3, <1>5, <3>1, <3>2, Zenon DEF Reported
  <2>. QED BY <1>1, <2>1, <2>2, <2>3, Zenon
<1>10. CallOk(work[c], r, p, Reaps)
  <2>1. InStep(r, p)
      BY <1>1, <1>2, <1>3, <1>5, <1>9, Zenon DEF CallOk, InStep
  <2>2. Ended(work[c], r, p, Reaps)
      BY <1>1, <1>2, <1>3, <1>5, <1>9, Zenon DEF CallOk, InStep, Ended
  <2>3. Given(work[c], r, p)
      BY <1>1, <1>2, <1>3, <1>5, <1>9, Zenon DEF CallOk, InStep, Given
  <2>4. Cleaned(work[c], r)
      BY <1>1, <1>2, <1>3, <1>5, <1>9, Zenon DEF CallOk, InStep, Cleaned
  <2>. QED BY <2>1, <2>2, <1>9, <2>3, <2>4, Zenon DEF CallOk
<1>11. CallOk(work[c], r, p, Reaps')
    BY <1>7, <1>10, MoreReaps
<1>12. PathOk'
    BY <1>1, <1>3, PathStays, Zenon
<1>. QED BY <1>1, <1>4, <1>6, <1>7, <1>11, <1>12, Framed, Zenon

\* cmd.Wait has the output.
LEMMA CopiedWell ==
    ASSUME EInv, NEW c \in ExCallers, WaitCopied(c)
    PROVE  EInv'
<1>. DEFINE out == IF cmdRun[c].cmd.out = "none" THEN prc[c].out ELSE <<>>
            r == [cmdRun[c] EXCEPT !.pc = "return", !.out = out]
<1>1. /\ cmdRun[c].pc = "copy" /\ UNCHANGED <<work, PATH, prc, rp>>
      /\ cmdRun' = [cmdRun EXCEPT ![c] = r]
    BY DEF WaitCopied, exFixed
<1>2. IsRun(cmdRun[c]) /\ CallOk(work[c], cmdRun[c], prc[c], Reaps)
    BY Zenon DEF EInv, Shapes
<1>3. /\ r.pc = "return" /\ r.result = cmdRun[c].result /\ r.cmd = cmdRun[c].cmd /\ r.fired = cmdRun[c].fired
      /\ r.nodel = cmdRun[c].nodel /\ r.bin = cmdRun[c].bin /\ r.restore = cmdRun[c].restore /\ r.out = out
    BY <1>2, Zenon DEF IsRun, RunFields
<1>4. IsRun(r)
    BY <1>2, Zenon DEF IsRun, RunFields
<1>. HIDE DEF r
<1>5. CallOk(work[c], r, prc[c], Reaps)
  <2>1. InStep(r, prc[c])
      BY <1>1, <1>2, <1>3, Zenon DEF CallOk, InStep
  <2>2. Ended(work[c], r, prc[c], Reaps)
      BY <1>1, <1>2, <1>3, Zenon DEF CallOk, InStep, Ended
  <2>3. Reported(work[c], r, prc[c], Reaps)
      BY <1>1, <1>2, <1>3, Zenon DEF CallOk, InStep, Ended, Reported
  <2>4. Given(work[c], r, prc[c])
      BY <1>1, <1>2, <1>3, Zenon DEF CallOk, InStep, Given
  <2>5. Cleaned(work[c], r)
      BY <1>1, <1>2, <1>3, Zenon DEF CallOk, InStep, Cleaned
  <2>. QED BY <2>1, <2>2, <2>3, <2>4, <2>5, Zenon DEF CallOk
<1>6. PathOk'
    BY <1>1, <1>3, PathStays, Zenon
<1>. QED BY <1>1, <1>4, <1>5, <1>6, FramedCall, Zenon

\* The deferred calls, and the return.
LEMMA ReturnsWell ==
    ASSUME EInv, NEW c \in ExCallers, Returns(c)
    PROVE  EInv'
<1>. DEFINE r == [Deferred(c) EXCEPT !.pc = "returned"]
<1>1. /\ cmdRun[c].pc = "return" /\ UNCHANGED <<work, prc, rp>>
      /\ cmdRun' = [cmdRun EXCEPT ![c] = r]
      /\ PATH' = IF cmdRun[c].restore # <<>> THEN cmdRun[c].restore[1] ELSE PATH
    BY DEF Returns, exFixed
<1>2. IsRun(cmdRun[c]) /\ CallOk(work[c], cmdRun[c], prc[c], Reaps)
    BY Zenon DEF EInv, Shapes
<1>3. IsRun(Deferred(c))
    BY <1>2, Zenon DEF IsRun, RunFields, Deferred
<1>4. /\ Deferred(c).result = cmdRun[c].result /\ Deferred(c).cmd = cmdRun[c].cmd /\ Deferred(c).fired = cmdRun[c].fired
      /\ Deferred(c).nodel = cmdRun[c].nodel /\ Deferred(c).bin = cmdRun[c].bin /\ Deferred(c).restore = cmdRun[c].restore
      /\ Deferred(c).out = cmdRun[c].out /\ Deferred(c).mem = cmdRun[c].nodel /\ Deferred(c).closed = cmdRun[c].cmd.files
    BY <1>2, Zenon DEF IsRun, RunFields, Deferred
<1>5. Deferred(c).dir => cmdRun[c].nodel \/ (work[c].fn = "tofile" /\ work[c].name # "none")
    BY <1>2, Zenon DEF IsRun, RunFields, Deferred
<1>6. /\ r.pc = "returned" /\ r.result = cmdRun[c].result /\ r.cmd = cmdRun[c].cmd /\ r.fired = cmdRun[c].fired
      /\ r.nodel = cmdRun[c].nodel /\ r.bin = cmdRun[c].bin /\ r.restore = cmdRun[c].restore
      /\ r.out = cmdRun[c].out /\ r.mem = cmdRun[c].nodel /\ r.closed = cmdRun[c].cmd.files /\ r.dir = Deferred(c).dir
    BY <1>3, <1>4, Zenon DEF IsRun, RunFields
<1>7. IsRun(r)
    BY <1>3, Zenon DEF IsRun, RunFields
<1>. HIDE DEF r
<1>8. CallOk(work[c], r, prc[c], Reaps)
  <2>1. InStep(r, prc[c])
      BY <1>1, <1>2, <1>5, <1>6, Zenon DEF CallOk, InStep
  <2>2. Ended(work[c], r, prc[c], Reaps)
      BY <1>1, <1>2, <1>5, <1>6, Zenon DEF CallOk, InStep, Ended
  <2>3. Reported(work[c], r, prc[c], Reaps)
      BY <1>1, <1>2, <1>5, <1>6, Zenon DEF CallOk, InStep, Ended, Reported
  <2>4. Given(work[c], r, prc[c])
      BY <1>1, <1>2, <1>5, <1>6, Zenon DEF CallOk, InStep, Given
  <2>5. Cleaned(work[c], r)
      BY <1>1, <1>2, <1>5, <1>6, Zenon DEF CallOk, InStep, Cleaned
  <2>. QED BY <2>1, <2>2, <2>3, <2>4, <2>5, Zenon DEF CallOk
<1>9. PathOk'
  <2>1. cmdRun'[c] = r /\ \A d \in ExCallers : d # c => cmdRun'[d] = cmdRun[d]
      BY <1>1, Zenon DEF EInv, Shapes
  <2>2. OneFile' <=> OneFile
      BY <1>1, Zenon DEF OneFile
  <2>3. CASE work[c].fn # "tofile"
    <3>1. PATH' = PATH
        BY <1>1, <2>3, Zenon DEF EInv, PathOk
    <3>. QED BY <1>1, <1>6, <2>1, <2>2, <2>3, <3>1, Zenon DEF EInv, PathOk
  <2>4. CASE work[c].fn = "tofile"
    <3>1. OneFile => PATH' = {"bin"}
        BY <1>1, <2>4 DEF EInv, PathOk
    <3>2. OneFile => \A d \in ExCallers : work[d].fn = "tofile" => d = c
        BY <2>4, Zenon DEF OneFile
    <3>. QED BY <1>1, <1>6, <2>1, <2>2, <2>4, <3>1, <3>2 DEF EInv, PathOk
  <2>. QED BY <2>3, <2>4
<1>. QED BY <1>1, <1>7, <1>8, <1>9, FramedCall, Zenon

\* A signal only ever finds the reaper, or nobody.
LEMMA RaisedKeeps ==
    ASSUME NEW r, IsReaper(r)
    PROVE  IsReaper(Raised(r)) /\ Raised(r).pc = r.pc
<1>1. IsReaper(Raised(r))
    BY Zenon DEF IsReaper, ReaperFields, Raised
<1>2. Raised(r).pc = r.pc
    BY DEF IsReaper, ReaperFields, Raised
<1>. QED BY <1>1, <1>2

\* A step of a process, or of a timeout, leaves PATH alone.
LEMMA ProcessStep ==
    ASSUME EInv, NEW c \in ExCallers, NEW p, UNCHANGED <<work, PATH, cmdRun>>,
           prc' = [prc EXCEPT ![c] = p], IsProcess(p), IsReaper(rp'), Reaps => Reaps',
           CallOk(work[c], cmdRun[c], p, Reaps')
    PROVE  EInv'
<1>1. cmdRun' = [cmdRun EXCEPT ![c] = cmdRun[c]] /\ IsRun(cmdRun[c])
    BY Zenon DEF EInv, Shapes
<1>2. PathOk'
    BY Zenon DEF EInv, PathOk, OneFile
<1>. QED BY <1>1, <1>2, Framed, Zenon

\* The process prints, ends or dies.
LEMMA ProcessWell ==
    ASSUME EInv, NEW c \in ExCallers, ExProcess(c)
    PROVE  EInv'
<1>1. IsRun(cmdRun[c]) /\ IsProcess(prc[c]) /\ IsReaper(rp) /\ CallOk(work[c], cmdRun[c], prc[c], Reaps)
    BY Zenon DEF EInv, Shapes
<1>2. prc[c].st = "running" /\ UNCHANGED <<work, PATH, cmdRun>>
    BY Zenon DEF ExProcess, Prints, ProcessEnds, exFixed
<1>3. CASE Prints(c)
  <2>. DEFINE p == [prc[c] EXCEPT !.out = Append(@, Prg(c).out[Len(@) + 1])]
  <2>1. prc' = [prc EXCEPT ![c] = p] /\ rp' = rp
      BY <1>3, Zenon DEF Prints
  <2>2. p.st = "running" /\ p.env = prc[c].env
      BY <1>1, <1>2, Zenon DEF IsProcess, ProcessFields
  <2>3. IsProcess(p)
      BY <1>1, Zenon DEF IsProcess, ProcessFields
  <2>. HIDE DEF p
  <2>4. CallOk(work[c], cmdRun[c], p, Reaps)
      BY <1>1, <1>2, <2>2, Zenon DEF CallOk, InStep, Ended, Reported, Given
  <2>5. Reaps <=> Reaps'
      BY <2>1 DEF Reaps
  <2>6. CallOk(work[c], cmdRun[c], p, Reaps')
      BY <2>4, <2>5, MoreReaps
  <2>. QED BY <1>1, <1>2, <2>1, <2>3, <2>5, <2>6, ProcessStep, Zenon
<1>4. CASE ProcessEnds(c)
  <2>. DEFINE p == [prc[c] EXCEPT !.st = "zombie", !.code = Prg(c).code]
  <2>1. prc' = [prc EXCEPT ![c] = p] /\ rp' = Raised(rp) /\ prc[c].out = Prg(c).out
      BY <1>4, Zenon DEF ProcessEnds, Die
  <2>2. p.st = "zombie" /\ p.env = prc[c].env /\ p.code = Prg(c).code /\ p.out = prc[c].out
      BY <1>1, Zenon DEF IsProcess, ProcessFields
  <2>3. IsProcess(p)
      BY <1>1, Zenon DEF IsProcess, ProcessFields
  <2>. HIDE DEF p
  <2>4. CallOk(work[c], cmdRun[c], p, Reaps)
    <3>1. InStep(cmdRun[c], p)
        BY <1>1, <1>2, <2>1, <2>2, Zenon DEF CallOk, InStep
    <3>2. Ended(work[c], cmdRun[c], p, Reaps)
        BY <1>1, <1>2, <2>1, <2>2, Zenon DEF CallOk, InStep, Ended, Prg
    <3>3. Reported(work[c], cmdRun[c], p, Reaps)
        BY <1>1, <1>2, <2>1, <2>2, Zenon DEF CallOk, InStep, Ended, Reported, Prg
    <3>4. Given(work[c], cmdRun[c], p)
        BY <1>1, <1>2, <2>1, <2>2, Zenon DEF CallOk, InStep, Given
    <3>5. Cleaned(work[c], cmdRun[c])
        BY <1>1, <1>2, <2>1, <2>2, Zenon DEF CallOk, InStep, Cleaned, Prg
    <3>. QED BY <3>1, <3>2, <3>3, <3>4, <3>5, Zenon DEF CallOk
  <2>5. IsReaper(rp') /\ (Reaps <=> Reaps')
      BY <1>1, <2>1, RaisedKeeps, Zenon DEF Reaps
  <2>6. CallOk(work[c], cmdRun[c], p, Reaps')
      BY <2>4, <2>5, MoreReaps
  <2>. QED BY <1>2, <2>1, <2>3, <2>5, <2>6, ProcessStep, Zenon
<1>. QED BY <1>3, <1>4 DEF ExProcess

\* The context's time is over: the process is killed.
LEMMA TimeoutWell ==
    ASSUME EInv, NEW c \in ExCallers, Timeout(c)
    PROVE  EInv'
<1>. DEFINE r == [cmdRun[c] EXCEPT !.fired = TRUE]
            p == [prc[c] EXCEPT !.st = "zombie", !.code = -1]
<1>1. IsRun(cmdRun[c]) /\ IsProcess(prc[c]) /\ IsReaper(rp) /\ CallOk(work[c], cmdRun[c], prc[c], Reaps)
    BY Zenon DEF EInv, Shapes
<1>2. /\ work[c].timeout /\ cmdRun[c].pc \in {"start", "wait"} /\ UNCHANGED <<work, PATH>>
      /\ cmdRun' = [cmdRun EXCEPT ![c] = r] /\ ~cmdRun[c].fired
    BY Zenon DEF Timeout, exFixed
<1>3. /\ r.pc = cmdRun[c].pc /\ r.cmd = cmdRun[c].cmd /\ r.fired = TRUE
      /\ r.nodel = cmdRun[c].nodel /\ r.bin = cmdRun[c].bin /\ r.restore = cmdRun[c].restore
    BY <1>1, Zenon DEF IsRun, RunFields
<1>4. IsRun(r)
    BY <1>1, Zenon DEF IsRun, RunFields
<1>5. p.st = "zombie" /\ p.code = -1 /\ p.env = prc[c].env
    BY <1>1, Zenon DEF IsProcess, ProcessFields
<1>6. IsProcess(p)
    BY <1>1, Zenon DEF IsProcess, ProcessFields
<1>. HIDE DEF r, p
<1>7. PathOk'
    BY <1>2, <1>3, PathStays, Zenon
<1>8. CASE prc[c].st = "running"
  <2>1. prc' = [prc EXCEPT ![c] = p] /\ rp' = Raised(rp)
      BY <1>8, Zenon DEF Timeout, Die, p
  <2>2. IsReaper(rp') /\ (Reaps <=> Reaps')
      BY <1>1, <2>1, RaisedKeeps, Zenon DEF Reaps
  <2>3. CallOk(work[c], r, p, Reaps)
      BY <1>1, <1>2, <1>3, <1>5, <1>8, Zenon DEF CallOk, InStep, Ended, Reported, Given, Cleaned
  <2>4. CallOk(work[c], r, p, Reaps')
      BY <2>2, <2>3, MoreReaps
  <2>. QED BY <1>2, <1>4, <1>6, <1>7, <2>1, <2>2, <2>4, Framed, Zenon
<1>9. CASE prc[c].st # "running"
  <2>1. UNCHANGED <<prc, rp>>
      BY <1>9, Zenon DEF Timeout
  <2>2. CallOk(work[c], r, prc[c], Reaps)
      BY <1>1, <1>2, <1>3, Zenon DEF CallOk, InStep, Ended, Reported, Given, Cleaned
  <2>. QED BY <1>2, <1>4, <1>7, <2>1, <2>2, FramedCall, Zenon
<1>. QED BY <1>8, <1>9

-----------------------------------------------------------------------------
(* The reaper, and all steps.                                              *)

\* A step of the reaper that takes no process.
LEMMA ReaperStep ==
    ASSUME EInv, UNCHANGED <<work, PATH, cmdRun, prc>>, IsReaper(rp'), Reaps => Reaps'
    PROVE  EInv'
<1>1. Shapes' /\ PathOk'
    BY Zenon DEF EInv, Shapes, PathOk, OneFile
<1>2. ASSUME NEW d \in ExCallers
      PROVE  CallOk(work'[d], cmdRun'[d], prc'[d], Reaps')
  <2>1. CallOk(work[d], cmdRun[d], prc[d], Reaps')
      BY MoreReaps DEF EInv
  <2>. QED BY <2>1, Zenon
<1>. QED BY <1>1, <1>2, Zenon DEF EInv

\* The reaper, its signals and the orphans.
LEMMA ReaperWell ==
    ASSUME EInv, StartReaper \/ Notify \/ WakeReaper \/ Wait4 \/ Signal \/ sigChildHandler \/ \E c \in ExCallers : OrphanEnds(c)
    PROVE  EInv'
<1>1. IsReaper(rp)
    BY Zenon DEF EInv, Shapes
<1>2. CASE Wait4 /\ \E c \in Dead : prc' = [prc EXCEPT ![c].st = "reaped"] /\ UNCHANGED <<orphan, rp>>
  <2>1. PICK c \in Dead : prc' = [prc EXCEPT ![c].st = "reaped"] /\ UNCHANGED rp
      BY <1>2, Zenon
  <2>. DEFINE p == [prc[c] EXCEPT !.st = "reaped"]
  <2>2. /\ c \in ExCallers /\ prc[c].st = "zombie" /\ rp.pc = "wait4" /\ UNCHANGED <<work, PATH, cmdRun>>
        /\ prc' = [prc EXCEPT ![c] = p]
      BY <1>2, <2>1, Zenon DEF Wait4, Dead, exFixed
  <2>3. IsProcess(prc[c]) /\ CallOk(work[c], cmdRun[c], prc[c], Reaps)
      BY <2>2, Zenon DEF EInv, Shapes
  <2>4. p.st = "reaped" /\ p.code = prc[c].code /\ p.out = prc[c].out /\ p.env = prc[c].env
      BY <2>3, Zenon DEF IsProcess, ProcessFields
  <2>5. IsProcess(p)
      BY <2>3, Zenon DEF IsProcess, ProcessFields
  <2>6. Reaps /\ Reaps'
      BY <2>1, <2>2, Zenon DEF Reaps
  <2>. HIDE DEF p
  <2>7. CallOk(work[c], cmdRun[c], p, TRUE)
      BY <2>2, <2>3, <2>4, Zenon DEF CallOk, InStep, Ended, Reported, Given
  <2>8. CallOk(work[c], cmdRun[c], p, Reaps')
      BY <2>6, <2>7, MoreReaps, Zenon
  <2>. QED BY <1>1, <2>1, <2>2, <2>5, <2>6, <2>8, ProcessStep, Zenon
<1>3. ASSUME NEW c \in ExCallers, OrphanEnds(c)
      PROVE  EInv'
  <2>1. UNCHANGED <<work, PATH, cmdRun, prc>> /\ (rp' = rp \/ rp' = Raised(rp))
      BY <1>3, Zenon DEF OrphanEnds, exFixed
  <2>2. IsReaper(rp') /\ rp'.pc = rp.pc
      BY <1>1, <2>1, RaisedKeeps, Zenon
  <2>. QED BY <2>1, <2>2, ReaperStep, Zenon DEF Reaps
<1>4. CASE StartReaper
  <2>1. UNCHANGED <<work, PATH, cmdRun, prc>> /\ rp.pc = "off" /\ rp' = [rp EXCEPT !.pc = "starting"]
      BY <1>4, Zenon DEF StartReaper, exFixed
  <2>2. IsReaper(rp')
      BY <1>1, <2>1, Zenon DEF IsReaper, ReaperFields
  <2>. QED BY <2>1, <2>2, ReaperStep DEF Reaps
<1>5. CASE Notify
  <2>1. UNCHANGED <<work, PATH, cmdRun, prc>> /\ rp' = [rp EXCEPT !.pc = "idle"]
      BY <1>5, Zenon DEF Notify, exFixed
  <2>2. IsReaper(rp')
      BY <1>1, <2>1, Zenon DEF IsReaper, ReaperFields
  <2>3. rp'.pc = "idle"
      BY <1>1, <2>1 DEF IsReaper, ReaperFields
  <2>. QED BY <2>1, <2>2, <2>3, ReaperStep DEF Reaps
<1>6. CASE WakeReaper
  <2>1. UNCHANGED <<work, PATH, cmdRun, prc>> /\ rp' = [rp EXCEPT !.pc = "wait4", !.notified = FALSE]
      BY <1>6, Zenon DEF WakeReaper, exFixed
  <2>2. IsReaper(rp')
      BY <1>1, <2>1, Zenon DEF IsReaper, ReaperFields
  <2>3. rp'.pc = "wait4"
      BY <1>1, <2>1 DEF IsReaper, ReaperFields
  <2>. QED BY <2>1, <2>2, <2>3, ReaperStep DEF Reaps
<1>7. CASE Wait4 /\ UNCHANGED prc
  <2>1. UNCHANGED <<work, PATH, cmdRun, prc>> /\ (rp' = rp \/ rp' = [rp EXCEPT !.pc = "idle"])
      BY <1>7, Zenon DEF Wait4, exFixed
  <2>2. IsReaper(rp')
      BY <1>1, <2>1, Zenon DEF IsReaper, ReaperFields
  <2>3. rp'.pc \in {rp.pc, "idle"}
      BY <1>1, <2>1 DEF IsReaper, ReaperFields
  <2>. QED BY <2>1, <2>2, <2>3, ReaperStep DEF Reaps
<1>8. CASE Signal
  <2>. DEFINE n == IF rp.sigs < SigCap THEN rp.sigs + 1 ELSE rp.sigs
  <2>1. UNCHANGED <<work, PATH, cmdRun, prc>> /\ rp' = [rp EXCEPT !.pend = FALSE, !.sigs = n]
      BY <1>1, <1>8, Zenon DEF Signal, exFixed, IsReaper, ReaperFields
  <2>. HIDE DEF n
  <2>2. IsReaper(rp')
      BY <1>1, <2>1, Zenon DEF IsReaper, ReaperFields
  <2>3. rp'.pc = rp.pc
      BY <1>1, <2>1 DEF IsReaper, ReaperFields
  <2>. QED BY <2>1, <2>2, <2>3, ReaperStep DEF Reaps
<1>9. CASE sigChildHandler
  <2>1. UNCHANGED <<work, PATH, cmdRun, prc>> /\ rp' = [rp EXCEPT !.sigs = @ - 1, !.notified = TRUE]
      BY <1>9, Zenon DEF sigChildHandler, exFixed
  <2>2. IsReaper(rp')
      BY <1>1, <2>1, Zenon DEF IsReaper, ReaperFields
  <2>3. rp'.pc = rp.pc
      BY <1>1, <2>1 DEF IsReaper, ReaperFields
  <2>. QED BY <2>1, <2>2, <2>3, ReaperStep DEF Reaps
<1>10. Wait4 => (\E c \in Dead : prc' = [prc EXCEPT ![c].st = "reaped"] /\ UNCHANGED <<orphan, rp>>) \/ UNCHANGED prc
    BY Zenon DEF Wait4
<1>. QED BY <1>2, <1>3, <1>4, <1>5, <1>6, <1>7, <1>8, <1>9, <1>10, Zenon

\* Every step keeps the invariant.
LEMMA ExKept ==
    ASSUME EInv, [ExNext]_exVars
    PROVE  EInv'
<1>1. CASE UNCHANGED exVars
  <2>1. UNCHANGED <<work, PATH, cmdRun, prc, rp>>
      BY <1>1 DEF exVars
  <2>2. IsReaper(rp') /\ (Reaps => Reaps')
      BY <2>1, Zenon DEF EInv, Shapes, Reaps
  <2>. QED BY <2>1, <2>2, ReaperStep
<1>2. ASSUME NEW c \in ExCallers, ExCaller(c)
      PROVE  EInv'
    BY <1>2, CommandWell, BytesWell, ToFileWell, StartWell, WaitWell, CopiedWell, ReturnsWell, Zenon DEF ExCaller
<1>3. CASE ExNext
    BY <1>2, <1>3, ProcessWell, TimeoutWell, ReaperWell, Zenon DEF ExNext, ExReaper
<1>. QED BY <1>1, <1>3

\* The invariant holds before any call.
LEMMA ExStarts ==
    ASSUME ExInit
    PROVE  EInv
<1>1. /\ work \in Works /\ PATH = {"bin"} /\ DOMAIN cmdRun = ExCallers /\ DOMAIN prc = ExCallers
      /\ \A c \in ExCallers : cmdRun[c] = NoRun /\ prc[c] = NoProcess
    BY DEF ExInit
<1>2. cmdRun = [c \in ExCallers |-> cmdRun[c]] /\ prc = [c \in ExCallers |-> prc[c]]
    BY DEF ExInit
<1>3. IsRun(NoRun) /\ NoRun.pc = "call" /\ NoRun.restore = <<>> /\ ~NoRun.fired /\ ~NoRun.nodel
    BY Zenon DEF IsRun, RunFields, NoRun
<1>4. IsProcess(NoProcess) /\ NoProcess.st = "none"
    BY DEF IsProcess, ProcessFields, NoProcess
<1>5. IsReaper(rp)
    BY Zenon DEF ExInit, ReaperOff, IsReaper, ReaperFields
<1>6. Shapes
    BY <1>1, <1>2, <1>3, <1>4, <1>5, Zenon DEF Shapes
<1>7. PathOk
    BY <1>1, <1>3, Zenon DEF PathOk
<1>8. ASSUME NEW c \in ExCallers
      PROVE  CallOk(work[c], NoRun, NoProcess, Reaps)
    BY <1>3, <1>4, Zenon DEF CallOk, InStep, Ended, Reported, Given, Cleaned
<1>. QED BY <1>1, <1>6, <1>7, <1>8 DEF EInv

\* What the invariant says of a call that has returned.
LEMMA ExSays ==
    ASSUME EInv
    PROVE  ExecResult
<1>1. ASSUME NEW c \in ExCallers, Done(c)
      PROVE  /\ prc[c].st \in {"none", "reaped"}
             /\ cmdRun[c].result = "nil" => prc[c].st = "reaped" /\ prc[c].code = 0 /\ prc[c].out = Prg(c).out
             /\ cmdRun[c].result = "exit" => prc[c].code = Prg(c).code /\ Prg(c).code # 0
             /\ cmdRun[c].result \in {"killed", "context"} => work[c].timeout
             /\ cmdRun[c].result = "nochild" => Reaps
             /\ cmdRun[c].result = "start" => ~Prg(c).found \/ work[c].fn \in {"tofile", "bytes"}
  <2>1. InStep(cmdRun[c], prc[c]) /\ Reported(work[c], cmdRun[c], prc[c], Reaps)
      BY Zenon DEF EInv, CallOk
  <2>. QED BY <1>1, <2>1, Zenon DEF Done, InStep, Reported, Prg
<1>2. ASSUME NEW c \in ExCallers, Done(c)
      PROVE  /\ prc[c].st = "reaped" => /\ \A k \in DOMAIN work[c].more : prc[c].env[k] = work[c].more[k]
                                        /\ "PATH" \in DOMAIN prc[c].env <=> ~cmdRun[c].cmd.clean \/ "PATH" \in DOMAIN work[c].more
             /\ cmdRun[c].cmd.out = "none" /\ prc[c].st = "reaped" => cmdRun[c].out = prc[c].out
  <2>1. Given(work[c], cmdRun[c], prc[c])
      BY Zenon DEF EInv, CallOk
  <2>. QED BY <1>2, <2>1, Zenon DEF Done, Given
<1>3. ASSUME NEW c \in ExCallers, Done(c)
      PROVE  /\ cmdRun[c].mem => cmdRun[c].nodel /\ Prg(c).text.source
             /\ cmdRun[c].dir => (cmdRun[c].nodel \/ (work[c].fn = "tofile" /\ work[c].name # "none"))
             /\ ~cmdRun[c].cmd.bad => cmdRun[c].closed =
                   IF work[c].fn \in {"command", "tofile"} \/ cmdRun[c].bin = "memory"
                   THEN {work[c].args[i].v : i \in {j \in DOMAIN work[c].args : work[c].args[j].t = "file"}} ELSE {}
  <2>1. Cleaned(work[c], cmdRun[c])
      BY Zenon DEF EInv, CallOk
  <2>. QED BY <1>3, <2>1, Zenon DEF Done, Cleaned, Prg, FilesOf
<1>4. ASSUME NEW c \in ExCallers, Done(c)
      PROVE  OneFile /\ work[c].fn = "tofile" => PATH = {"bin"}
    BY <1>4, Zenon DEF EInv, PathOk, Done
<1>. QED BY <1>1, <1>2, <1>3, <1>4, Zenon DEF ExecResult

\* Whatever programs are run at once, with whatever arguments, and however the
\* reaper and the timeouts come between: what a call returns is true, and it
\* leaves behind only what ExecResult names.
THEOREM CallsTellTheTruth == ExecSpec => []ExecResult
BY ExStarts, ExKept, ExSays, PTL DEF ExecSpec

-----------------------------------------------------------------------------
(* Relay: the inductive invariant.                                         *)

Msgs == {"bin", "text"} \X Nat

\* Every message of s was sent before every one of t.
Ahead(s, t) == \A i \in DOMAIN s, j \in DOMAIN t : s[i][2] < t[j][2]

Meant(kd, m) == kd = "vncproxy" => m[1] = "bin"

\* One direction of a relay of kind kd: S has been sent by x, I is not read, H
\* is held by the copier at c and G was received.
Channel(kd, x, S, I, H, G, c) ==
    /\ S \in Seq(Msgs) /\ I \in Seq(Msgs) /\ H \in Seq(Msgs) /\ G \in Seq(Msgs)
    /\ \A i \in DOMAIN S : S[i][2] = i /\ (x = "dst" => S[i][1] = "bin")
    /\ c # "write" => H = <<>>
    /\ InTurn(G) /\ InTurn(H) /\ InTurn(I)
    /\ Ahead(G, H) /\ Ahead(G, I) /\ Ahead(H, I)
    /\ Range(G) \cup Range(H) \cup Range(I) \subseteq Range(S)
    /\ \A m \in Range(G) \cup Range(H) : Meant(kd, m)
    /\ \A m \in Range(G), k \in Range(S) : Meant(kd, k) /\ k[2] < m[2] => k \in Range(G)
    /\ c \in {"read", "write"} =>
         \A k \in Range(S) : Meant(kd, k) => k \in Range(G) \cup Range(H) \cup Range(I)

\* Both directions are as they should be.
RelayInv ==
    /\ copier \in [Sides -> {"read", "write", "done", "over"}]
    /\ DOMAIN sent = Sides /\ DOMAIN inbox = Sides /\ DOMAIN held = Sides /\ DOMAIN got = Sides
    /\ \A x \in Sides : Channel(kind, x, sent[x], inbox[x], held[x], got[Other(x)], copier[x])

-----------------------------------------------------------------------------
(* Sequences of messages. *)

\* Facts about no messages.
LEMMA NoMessages ==
    ASSUME NEW s
    PROVE  InTurn(<<>>) /\ Ahead(s, <<>>) /\ Ahead(<<>>, s) /\ <<>> \in Seq(Msgs) /\ Range(<<>>) = {}
    BY DEF InTurn, Ahead, Range

\* One sequence of messages behind another.
LEMMA Chained ==
    ASSUME NEW s \in Seq(Msgs), NEW t \in Seq(Msgs)
    PROVE  /\ s \o t \in Seq(Msgs)
           /\ InTurn(s) /\ InTurn(t) /\ Ahead(s, t) => InTurn(s \o t)
           /\ \A r : Ahead(s, r) /\ Ahead(t, r) => Ahead(s \o t, r)
           /\ Range(s \o t) = Range(s) \cup Range(t)
<1>1. /\ Len(s) \in Nat /\ DOMAIN s = 1..Len(s) /\ Len(t) \in Nat /\ DOMAIN t = 1..Len(t)
      /\ DOMAIN (s \o t) = 1..(Len(s) + Len(t))
      /\ \A i \in DOMAIN s : (s \o t)[i] = s[i]
      /\ \A i \in DOMAIN (s \o t) : i \notin DOMAIN s => i - Len(s) \in DOMAIN t /\ (s \o t)[i] = t[i - Len(s)]
      /\ \A i \in DOMAIN t : Len(s) + i \in DOMAIN (s \o t) /\ (s \o t)[Len(s) + i] = t[i]
    OBVIOUS
<1>2. s \o t \in Seq(Msgs)
    OBVIOUS
<1>3. InTurn(s) /\ InTurn(t) /\ Ahead(s, t) => InTurn(s \o t)
  <2>1. SUFFICES ASSUME InTurn(s), InTurn(t), Ahead(s, t),
                        NEW i \in DOMAIN (s \o t), NEW j \in DOMAIN (s \o t), i < j
                 PROVE  (s \o t)[i][2] < (s \o t)[j][2]
      BY Zenon DEF InTurn
  <2>2. CASE i \in DOMAIN s /\ j \in DOMAIN s
      BY <1>1, <2>1, <2>2, Zenon DEF InTurn
  <2>3. CASE i \in DOMAIN s /\ j \notin DOMAIN s
      BY <1>1, <2>1, <2>3, Zenon DEF Ahead
  <2>4. CASE i \notin DOMAIN s /\ j \notin DOMAIN s
    <3>1. i - Len(s) < j - Len(s) /\ i - Len(s) \in DOMAIN t /\ j - Len(s) \in DOMAIN t
        BY <1>1, <2>1, <2>4
    <3>. QED BY <1>1, <2>1, <2>4, <3>1, Zenon DEF InTurn
  <2>5. i \notin DOMAIN s => j \notin DOMAIN s
      BY <1>1, <2>1
  <2>. QED BY <2>2, <2>3, <2>4, <2>5, Zenon
<1>4. \A r : Ahead(s, r) /\ Ahead(t, r) => Ahead(s \o t, r)
    BY <1>1, Zenon DEF Ahead
<1>5. Range(s \o t) = Range(s) \cup Range(t)
    BY <1>1 DEF Range
<1>. QED BY <1>2, <1>3, <1>4, <1>5

\* A read takes the first k messages.
LEMMA Parted ==
    ASSUME NEW s \in Seq(Msgs), NEW k \in 1..Len(s), InTurn(s)
    PROVE  LET a == SubSeq(s, 1, k)
               b == SubSeq(s, k + 1, Len(s))
           IN  /\ a \in Seq(Msgs) /\ b \in Seq(Msgs)
               /\ InTurn(a) /\ InTurn(b) /\ Ahead(a, b)
               /\ Range(s) = Range(a) \cup Range(b)
               /\ \A r : Ahead(r, s) => Ahead(r, a) /\ Ahead(r, b)
               /\ s[1] \in Range(a) /\ (k = 1 => Range(a) = {s[1]})
<1>. DEFINE a == SubSeq(s, 1, k)
            b == SubSeq(s, k + 1, Len(s))
<1>1. /\ Len(s) \in Nat /\ DOMAIN s = 1..Len(s) /\ k \in Nat /\ k >= 1 /\ k <= Len(s)
      /\ DOMAIN a = 1..k /\ \A i \in DOMAIN a : a[i] = s[i]
      /\ DOMAIN b = 1..(Len(s) - k) /\ \A i \in DOMAIN b : b[i] = s[i + k]
    OBVIOUS
<1>2. a \in Seq(Msgs) /\ b \in Seq(Msgs)
    OBVIOUS
<1>. HIDE DEF a, b
<1>3. /\ \A i \in DOMAIN a : i \in DOMAIN s /\ i \in Nat /\ i <= k
      /\ \A i \in DOMAIN b : i + k \in DOMAIN s /\ i \in Nat /\ i + k > k
      /\ \A i \in DOMAIN s : i \in DOMAIN a \/ (i - k \in DOMAIN b /\ (i - k) + k = i)
    BY <1>1
<1>4. InTurn(a) /\ InTurn(b) /\ Ahead(a, b)
  <2>1. InTurn(a)
      BY <1>1, <1>3, Zenon DEF InTurn
  <2>2. InTurn(b)
    <3>1. \A i, j \in DOMAIN b : i < j => i + k < j + k
        BY <1>1, <1>3
    <3>. QED BY <1>1, <1>3, <3>1, Zenon DEF InTurn
  <2>3. Ahead(a, b)
    <3>1. \A i \in DOMAIN a, j \in DOMAIN b : i < j + k
        BY <1>1, <1>3
    <3>. QED BY <1>1, <1>3, <3>1, Zenon DEF InTurn, Ahead
  <2>. QED BY <2>1, <2>2, <2>3
<1>5. Range(s) = Range(a) \cup Range(b)
  <2>1. \A m \in Range(s) : m \in Range(a) \cup Range(b)
      BY <1>1, <1>3 DEF Range
  <2>2. \A m \in Range(a) \cup Range(b) : m \in Range(s)
      BY <1>1, <1>3 DEF Range
  <2>. QED BY <2>1, <2>2
<1>6. \A r : Ahead(r, s) => Ahead(r, a) /\ Ahead(r, b)
    BY <1>1, <1>3 DEF Ahead
<1>7. s[1] \in Range(a) /\ (k = 1 => Range(a) = {s[1]})
    BY <1>1 DEF Range
<1>. QED BY <1>2, <1>4, <1>5, <1>6, <1>7, Zenon DEF a, b

\* The numbers of the messages are their places in what was sent.
LEMMA SentNext ==
    ASSUME NEW S \in Seq(Msgs), NEW I \in Seq(Msgs), NEW t \in {"bin", "text"},
           \A i \in DOMAIN S : S[i][2] = i, Range(I) \subseteq Range(S), InTurn(I)
    PROVE  LET m == <<t, Len(S) + 1>>
           IN  /\ Append(S, m) \in Seq(Msgs) /\ Append(I, m) \in Seq(Msgs)
               /\ Range(Append(S, m)) = Range(S) \cup {m} /\ Range(Append(I, m)) = Range(I) \cup {m}
               /\ InTurn(Append(I, m))
               /\ \A r : Ahead(r, I) /\ Range(r) \subseteq Range(S) => Ahead(r, Append(I, m))
               /\ \A k \in Range(S) : k[2] < m[2] /\ ~(m[2] < k[2])
<1>. DEFINE m == <<t, Len(S) + 1>>
<1>1. m \in Msgs /\ m[1] = t /\ m[2] = Len(S) + 1 /\ Len(S) \in Nat /\ Len(I) \in Nat
    BY DEF Msgs
<1>. HIDE DEF m
<1>2. /\ DOMAIN S = 1..Len(S) /\ DOMAIN I = 1..Len(I)
      /\ DOMAIN Append(S, m) = 1..(Len(S) + 1) /\ DOMAIN Append(I, m) = 1..(Len(I) + 1)
      /\ \A i \in DOMAIN S : Append(S, m)[i] = S[i]
      /\ \A i \in DOMAIN I : Append(I, m)[i] = I[i]
      /\ Append(S, m)[Len(S) + 1] = m /\ Append(I, m)[Len(I) + 1] = m
    BY <1>1
<1>3. /\ \A i \in 1..(Len(S) + 1) : i \in DOMAIN S \/ i = Len(S) + 1
      /\ \A i \in 1..(Len(I) + 1) : i \in DOMAIN I \/ i = Len(I) + 1
      /\ \A i \in DOMAIN I : ~(Len(I) + 1 < i)
      /\ Len(S) + 1 \in 1..(Len(S) + 1) /\ Len(I) + 1 \in 1..(Len(I) + 1) /\ ~(Len(I) + 1 < Len(I) + 1)
      /\ DOMAIN S \subseteq 1..(Len(S) + 1) /\ DOMAIN I \subseteq 1..(Len(I) + 1)
    BY <1>1, <1>2
<1>4. Append(S, m) \in Seq(Msgs) /\ Append(I, m) \in Seq(Msgs)
    BY <1>1
<1>5. Range(Append(S, m)) = Range(S) \cup {m} /\ Range(Append(I, m)) = Range(I) \cup {m}
  <2>1. Range(Append(S, m)) = Range(S) \cup {m}
      BY <1>2, <1>3 DEF Range
  <2>2. Range(Append(I, m)) = Range(I) \cup {m}
      BY <1>2, <1>3 DEF Range
  <2>. QED BY <2>1, <2>2
<1>6. \A k \in Range(S) : k[2] < m[2] /\ ~(m[2] < k[2])
    BY <1>1, <1>2 DEF Range
<1>7. InTurn(Append(I, m))
  <2>1. \A i \in DOMAIN I : I[i][2] < m[2]
      BY <1>6 DEF Range
  <2>. QED BY <1>2, <1>3, <2>1, Zenon DEF InTurn
<1>8. ASSUME NEW r, Ahead(r, I), Range(r) \subseteq Range(S)
      PROVE  Ahead(r, Append(I, m))
  <2>1. \A i \in DOMAIN r : r[i][2] < m[2]
      BY <1>6, <1>8 DEF Range
  <2>. QED BY <1>2, <1>3, <1>8, <2>1, Zenon DEF Ahead
<1>. QED BY <1>4, <1>5, <1>6, <1>7, <1>8, Zenon DEF m

-----------------------------------------------------------------------------
(* The steps of one direction. *)

\* The peer sends one more message.
LEMMA ChannelSends ==
    ASSUME NEW kd, NEW x, NEW S, NEW I, NEW H, NEW G, NEW c, Channel(kd, x, S, I, H, G, c),
           NEW t \in {"bin", "text"}, x = "dst" => t = "bin"
    PROVE  LET m == <<t, Len(S) + 1>> IN Channel(kd, x, Append(S, m), Append(I, m), H, G, c)
<1>. DEFINE m == <<t, Len(S) + 1>>
            T == Append(S, m)
            J == Append(I, m)
<1>1. /\ S \in Seq(Msgs) /\ I \in Seq(Msgs) /\ H \in Seq(Msgs) /\ G \in Seq(Msgs)
      /\ \A i \in DOMAIN S : S[i][2] = i
      /\ Range(G) \subseteq Range(S) /\ Range(H) \subseteq Range(S) /\ Range(I) \subseteq Range(S)
      /\ InTurn(I) /\ Ahead(G, I) /\ Ahead(H, I)
    BY Zenon DEF Channel
<1>2. /\ T \in Seq(Msgs) /\ J \in Seq(Msgs)
      /\ Range(T) = Range(S) \cup {m} /\ Range(J) = Range(I) \cup {m}
      /\ InTurn(J) /\ Ahead(G, J) /\ Ahead(H, J)
      /\ \A k \in Range(S) : ~(m[2] < k[2])
    BY <1>1, SentNext, Zenon
<1>3. \A i \in DOMAIN T : T[i][2] = i /\ (x = "dst" => T[i][1] = "bin")
  <2>1. /\ DOMAIN T = 1..(Len(S) + 1) /\ \A i \in DOMAIN S : T[i] = S[i]
        /\ T[Len(S) + 1] = m /\ DOMAIN S = 1..Len(S) /\ Len(S) \in Nat
      BY <1>1
  <2>2. m[1] = t /\ m[2] = Len(S) + 1
      OBVIOUS
  <2>3. \A i \in 1..(Len(S) + 1) : i \in DOMAIN S \/ i = Len(S) + 1
      BY <2>1
  <2>. HIDE DEF m, T
  <2>. QED BY <2>1, <2>2, <2>3 DEF Channel
<1>. HIDE DEF m, T, J
<1>4. /\ c # "write" => H = <<>>
      /\ InTurn(G) /\ InTurn(H) /\ Ahead(G, H)
      /\ \A n \in Range(G) \cup Range(H) : Meant(kd, n)
    BY Zenon DEF Channel
<1>5. Range(G) \cup Range(H) \cup Range(J) \subseteq Range(T)
    BY <1>1, <1>2, Zenon
<1>6. \A n \in Range(G), k \in Range(T) : Meant(kd, k) /\ k[2] < n[2] => k \in Range(G)
    BY <1>1, <1>2, Zenon DEF Channel
<1>7. c \in {"read", "write"} =>
         \A k \in Range(T) : Meant(kd, k) => k \in Range(G) \cup Range(H) \cup Range(J)
    BY <1>2, Zenon DEF Channel
<1>8. Channel(kd, x, T, J, H, G, c)
    BY <1>1, <1>2, <1>3, <1>4, <1>5, <1>6, <1>7, Zenon DEF Channel
<1>. QED BY <1>8 DEF m, T, J

\* Read: the first messages are taken, or one that is passed over.
LEMMA ChannelReads ==
    ASSUME NEW kd, NEW x, NEW S, NEW I, NEW H, NEW G, Channel(kd, x, S, I, H, G, "read"),
           NEW k \in 1..Len(I), k = 1 \/ x = "dst" \/ kd # "vncproxy"
    PROVE  LET a == SubSeq(I, 1, k)
               b == SubSeq(I, k + 1, Len(I))
           IN  IF Meant(kd, I[1]) THEN Channel(kd, x, S, b, a, G, "write")
                                  ELSE Channel(kd, x, S, b, <<>>, G, "read")
<1>. DEFINE a == SubSeq(I, 1, k)
            b == SubSeq(I, k + 1, Len(I))
<1>1. /\ S \in Seq(Msgs) /\ I \in Seq(Msgs) /\ G \in Seq(Msgs) /\ H = <<>>
      /\ InTurn(I) /\ InTurn(G) /\ Ahead(G, I)
      /\ Range(G) \subseteq Range(S) /\ Range(I) \subseteq Range(S)
      /\ \A i \in DOMAIN S : S[i][2] = i /\ (x = "dst" => S[i][1] = "bin")
    BY Zenon DEF Channel
<1>2. /\ a \in Seq(Msgs) /\ b \in Seq(Msgs)
      /\ InTurn(a) /\ InTurn(b) /\ Ahead(a, b)
      /\ Range(I) = Range(a) \cup Range(b)
      /\ Ahead(G, a) /\ Ahead(G, b)
      /\ I[1] \in Range(a) /\ (k = 1 => Range(a) = {I[1]})
    BY <1>1, Parted, Zenon
<1>3. Range(H) = {}
    BY <1>1, NoMessages, Zenon
<1>. HIDE DEF a, b
<1>4. /\ \A m \in Range(G) : Meant(kd, m)
      /\ \A m \in Range(G), j \in Range(S) : Meant(kd, j) /\ j[2] < m[2] => j \in Range(G)
      /\ \A j \in Range(S) : Meant(kd, j) => j \in Range(G) \cup Range(I)
    BY <1>3, Zenon DEF Channel
<1>5. x = "dst" => \A m \in Range(S) : m[1] = "bin"
    BY <1>1 DEF Range
<1>6. CASE Meant(kd, I[1])
  <2>1. \A m \in Range(a) : Meant(kd, m)
    <3>1. CASE k = 1
        BY <1>2, <1>6, <3>1
    <3>2. CASE x = "dst" \/ kd # "vncproxy"
        BY <1>1, <1>2, <1>5, <3>2, Zenon DEF Meant
    <3>. QED BY <3>1, <3>2
  <2>2. Range(G) \cup Range(a) \cup Range(b) \subseteq Range(S)
      BY <1>1, <1>2, Zenon
  <2>3. \A j \in Range(S) : Meant(kd, j) => j \in Range(G) \cup Range(a) \cup Range(b)
      BY <1>2, <1>4, Zenon
  <2>4. Channel(kd, x, S, b, a, G, "write")
      BY <1>1, <1>2, <1>4, <2>1, <2>2, <2>3, Zenon DEF Channel
  <2>. QED BY <1>6, <2>4 DEF a, b
<1>7. CASE ~Meant(kd, I[1])
  <2>1. Range(a) = {I[1]}
      BY <1>1, <1>2, <1>5, <1>7, Zenon DEF Meant
  <2>2. Range(G) \cup Range(<<>>) \cup Range(b) \subseteq Range(S)
      BY <1>1, <1>2, NoMessages, Zenon
  <2>3. \A j \in Range(S) : Meant(kd, j) => j \in Range(G) \cup Range(<<>>) \cup Range(b)
      BY <1>2, <1>4, <1>7, <2>1, Zenon
  <2>4. \A m \in Range(G) \cup Range(<<>>) : Meant(kd, m)
      BY <1>4, NoMessages, Zenon
  <2>5. <<>> \in Seq(Msgs) /\ InTurn(<<>>) /\ Ahead(G, <<>>) /\ Ahead(<<>>, b)
      BY NoMessages
  <2>6. Channel(kd, x, S, b, <<>>, G, "read")
      BY <1>1, <1>2, <1>4, <2>2, <2>3, <2>4, <2>5, Zenon DEF Channel
  <2>. QED BY <1>7, <2>6 DEF a, b
<1>. QED BY <1>6, <1>7, Zenon

\* Write: the peer takes what the copier holds.
LEMMA ChannelWrites ==
    ASSUME NEW kd, NEW x, NEW S, NEW I, NEW H, NEW G, Channel(kd, x, S, I, H, G, "write")
    PROVE  Channel(kd, x, S, I, <<>>, G \o H, "read")
<1>1. /\ S \in Seq(Msgs) /\ I \in Seq(Msgs) /\ H \in Seq(Msgs) /\ G \in Seq(Msgs)
      /\ \A i \in DOMAIN S : S[i][2] = i /\ (x = "dst" => S[i][1] = "bin")
      /\ InTurn(G) /\ InTurn(H) /\ InTurn(I)
      /\ Ahead(G, H) /\ Ahead(G, I) /\ Ahead(H, I)
      /\ Range(G) \cup Range(H) \cup Range(I) \subseteq Range(S)
      /\ \A m \in Range(G) \cup Range(H) : Meant(kd, m)
      /\ \A k \in Range(S) : Meant(kd, k) => k \in Range(G) \cup Range(H) \cup Range(I)
    BY Zenon DEF Channel
<1>2. /\ G \o H \in Seq(Msgs) /\ InTurn(G \o H) /\ Ahead(G \o H, I)
      /\ Range(G \o H) = Range(G) \cup Range(H)
    BY <1>1, Chained, Zenon
<1>3. /\ <<>> \in Seq(Msgs) /\ InTurn(<<>>) /\ Ahead(G \o H, <<>>) /\ Ahead(<<>>, I) /\ Range(<<>>) = {}
    BY NoMessages
<1>4. ASSUME NEW m \in Range(G \o H), NEW k \in Range(S), Meant(kd, k), k[2] < m[2]
      PROVE  k \in Range(G \o H)
  <2>1. ASSUME k \in Range(I)
        PROVE  FALSE
    <3>1. m[2] < k[2]
        BY <1>2, <2>1, Zenon DEF Ahead, Range
    <3>2. m \in Range(S)
        BY <1>1, <1>2, Zenon
    <3>3. k[2] \in Nat /\ m[2] \in Nat
        BY <1>1, <3>2 DEF Range, Msgs
    <3>. QED BY <1>4, <3>1, <3>3
  <2>. QED BY <1>1, <1>2, <1>4, <2>1, Zenon
<1>5. /\ Range(G \o H) \cup Range(<<>>) \cup Range(I) \subseteq Range(S)
      /\ \A m \in Range(G \o H) \cup Range(<<>>) : Meant(kd, m)
      /\ \A k \in Range(S) : Meant(kd, k) => k \in Range(G \o H) \cup Range(<<>>) \cup Range(I)
    BY <1>1, <1>2, <1>3, Zenon
<1>. QED BY <1>1, <1>2, <1>3, <1>4, <1>5, Zenon DEF Channel

\* The copier ends, and what it held is lost.
LEMMA ChannelEnds ==
    ASSUME NEW kd, NEW x, NEW S, NEW I, NEW H, NEW G, NEW c, Channel(kd, x, S, I, H, G, c),
           NEW d \in {"done", "over"}
    PROVE  Channel(kd, x, S, I, <<>>, G, d)
<1>1. <<>> \in Seq(Msgs) /\ InTurn(<<>>) /\ Ahead(G, <<>>) /\ Ahead(<<>>, I) /\ Range(<<>>) = {}
    BY NoMessages
<1>. QED BY <1>1, Zenon DEF Channel

-----------------------------------------------------------------------------
\* A step of one direction leaves the other as it is.
LEMMA OneDirection ==
    ASSUME RelayInv, NEW x \in Sides, UNCHANGED kind,
           DOMAIN sent' = Sides, DOMAIN inbox' = Sides, DOMAIN held' = Sides, DOMAIN got' = Sides,
           copier' \in [Sides -> {"read", "write", "done", "over"}],
           \A y \in Sides \ {x} : /\ sent'[y] = sent[y] /\ inbox'[y] = inbox[y] /\ held'[y] = held[y]
                                 /\ got'[Other(y)] = got[Other(y)] /\ copier'[y] = copier[y],
           Channel(kind, x, sent'[x], inbox'[x], held'[x], got'[Other(x)], copier'[x])
    PROVE  RelayInv'
<1>1. \A y \in Sides : Channel(kind, y, sent'[y], inbox'[y], held'[y], got'[Other(y)], copier'[y])
    BY Zenon DEF RelayInv
<1>. QED BY <1>1, Zenon DEF RelayInv, Other

\* Every step of the relay keeps the invariant.
LEMMA RelayStep ==
    ASSUME RelayInv, [RelayNext]_relayVars
    PROVE  RelayInv'
<1>. USE DEF Nothing
<1>1. /\ copier \in [Sides -> {"read", "write", "done", "over"}]
      /\ DOMAIN sent = Sides /\ DOMAIN inbox = Sides /\ DOMAIN held = Sides /\ DOMAIN got = Sides
      /\ \A x \in Sides : Channel(kind, x, sent[x], inbox[x], held[x], got[Other(x)], copier[x])
    BY Zenon DEF RelayInv
<1>2. \A x, y \in Sides : Other(x) \in Sides /\ (x # y => Other(x) # Other(y))
    BY DEF Other, Sides
<1>3. ASSUME NEW x \in Sides, PeerSends(x)
      PROVE  RelayInv'
  <2>1. PICK t \in {"bin", "text"} :
           /\ x = "dst" => t = "bin"
           /\ sent' = [sent EXCEPT ![x] = Append(@, <<t, Len(sent[x]) + 1>>)]
           /\ inbox' = [inbox EXCEPT ![x] = Append(@, <<t, Len(sent[x]) + 1>>)]
           /\ UNCHANGED <<kind, held, got, copier>>
      BY <1>3, Zenon DEF PeerSends
  <2>2. Channel(kind, x, sent'[x], inbox'[x], held[x], got[Other(x)], copier[x])
    <3>1. sent'[x] = Append(sent[x], <<t, Len(sent[x]) + 1>>) /\ inbox'[x] = Append(inbox[x], <<t, Len(sent[x]) + 1>>)
        BY <1>1, <2>1, Zenon
    <3>. QED BY <1>1, <2>1, <3>1, ChannelSends, Zenon
  <2>. QED BY <1>1, <2>1, <2>2, OneDirection, Zenon
<1>4. ASSUME NEW x \in Sides, Read(x)
      PROVE  RelayInv'
  <2>1. PICK k \in 1..Len(inbox[x]) :
           /\ k = 1 \/ x = "dst" \/ kind # "vncproxy"
           /\ inbox' = [inbox EXCEPT ![x] = SubSeq(@, k + 1, Len(@))]
           /\ IF Passes(inbox[x][1]) THEN Copier(x, "write", SubSeq(inbox[x], 1, k)) ELSE Copier(x, "read", Nothing)
    <3>1. inbox[x] \in Seq(Msgs) /\ inbox[x] # <<>>
        BY <1>1, <1>4, Zenon DEF Read, Channel
    <3>2. 1 \in 1..Len(inbox[x])
        BY <3>1
    <3>3. x = "src" \/ x = "dst"
        BY DEF Sides
    <3>. QED BY <1>4, <3>2, <3>3, Zenon DEF Read
  <2>2. copier[x] = "read" /\ UNCHANGED <<kind, sent, got>>
      BY <1>4, Zenon DEF Read, relayPeers
  <2>3. Passes(inbox[x][1]) <=> Meant(kind, inbox[x][1])
      BY DEF Passes, Meant
  <2>4. Channel(kind, x, sent[x], inbox'[x], held'[x], got[Other(x)], copier'[x])
    <3>1. inbox'[x] = SubSeq(inbox[x], k + 1, Len(inbox[x]))
        BY <1>1, <2>1, Zenon
    <3>2. CASE Passes(inbox[x][1])
      <4>1. copier'[x] = "write" /\ held'[x] = SubSeq(inbox[x], 1, k)
          BY <1>1, <2>1, <3>2, Zenon DEF Copier
      <4>. QED BY <1>1, <2>1, <2>2, <2>3, <3>1, <3>2, <4>1, ChannelReads, Zenon
    <3>3. CASE ~Passes(inbox[x][1])
      <4>1. copier'[x] = "read" /\ held'[x] = <<>>
          BY <1>1, <2>1, <3>3, Zenon DEF Copier
      <4>. QED BY <1>1, <2>1, <2>2, <2>3, <3>1, <3>3, <4>1, ChannelReads, Zenon
    <3>. QED BY <3>2, <3>3, Zenon
  <2>5. /\ copier' \in [Sides -> {"read", "write", "done", "over"}] /\ DOMAIN held' = Sides
        /\ \A y \in Sides \ {x} : copier'[y] = copier[y] /\ held'[y] = held[y]
      BY <1>1, <2>1, Zenon DEF Copier
  <2>6. DOMAIN inbox' = Sides /\ \A y \in Sides \ {x} : inbox'[y] = inbox[y]
      BY <1>1, <2>1, Zenon
  <2>. QED BY <1>1, <2>2, <2>4, <2>5, <2>6, OneDirection, Zenon
<1>5. ASSUME NEW x \in Sides, Write(x)
      PROVE  RelayInv'
  <2>1. /\ copier[x] = "write" /\ UNCHANGED <<kind, sent, inbox>>
        /\ got' = [got EXCEPT ![Other(x)] = @ \o held[x]]
        /\ Copier(x, "read", Nothing)
      BY <1>5, Zenon DEF Write, relayPeers
  <2>2. /\ copier' \in [Sides -> {"read", "write", "done", "over"}] /\ DOMAIN held' = Sides
        /\ copier'[x] = "read" /\ held'[x] = <<>>
        /\ \A y \in Sides \ {x} : copier'[y] = copier[y] /\ held'[y] = held[y]
      BY <1>1, <2>1, Zenon DEF Copier
  <2>3. /\ DOMAIN got' = Sides /\ got'[Other(x)] = got[Other(x)] \o held[x]
        /\ \A y \in Sides \ {x} : got'[Other(y)] = got[Other(y)]
      BY <1>1, <1>2, <2>1, Zenon
  <2>4. Channel(kind, x, sent[x], inbox[x], <<>>, got[Other(x)] \o held[x], "read")
      BY <1>1, <2>1, ChannelWrites, Zenon
  <2>. QED BY <1>1, <2>1, <2>2, <2>3, <2>4, OneDirection, Zenon
<1>6. ASSUME NEW x \in Sides, CopyEnds(x) \/ CloseBoth(x) \/ Tells(x) \/ (x = "src" /\ DeadlineError)
      PROVE  RelayInv'
  <2>1. /\ UNCHANGED <<kind, sent, inbox, got>>
        /\ copier'[x] \in {"done", "over"} /\ copier' \in [Sides -> {"read", "write", "done", "over"}]
        /\ \A y \in Sides \ {x} : copier'[y] = copier[y]
      BY <1>1, <1>6, Zenon DEF CopyEnds, CloseBoth, Tells, DeadlineError, Copier, relayPeers
  <2>2. /\ DOMAIN held' = Sides /\ held'[x] = <<>>
        /\ \A y \in Sides \ {x} : held'[y] = held[y]
    <3>1. CASE CopyEnds(x) \/ (x = "src" /\ DeadlineError)
        BY <1>1, <3>1, Zenon DEF CopyEnds, DeadlineError, Copier
    <3>2. CASE CloseBoth(x) \/ Tells(x)
      <4>1. copier[x] = "done" /\ UNCHANGED held
          BY <3>2, Zenon DEF CloseBoth, Tells
      <4>. QED BY <1>1, <4>1, Zenon DEF Channel
    <3>. QED BY <1>6, <3>1, <3>2
  <2>3. Channel(kind, x, sent[x], inbox[x], <<>>, got[Other(x)], copier'[x])
      BY <1>1, <2>1, ChannelEnds
  <2>. QED BY <1>1, <2>1, <2>2, <2>3, OneDirection, Zenon
<1>7. ASSUME \/ \E x \in Sides : PeerEnds(x) \/ PeerStalls(x)
             \/ Vanishes \/ DeadlinePasses \/ Pong \/ MainEnds \/ UNCHANGED relayVars
      PROVE  RelayInv'
  <2>1. UNCHANGED <<kind, sent, inbox, held, got, copier>>
      BY <1>7, Zenon DEF PeerEnds, PeerStalls, Vanishes, DeadlinePasses, Pong, MainEnds, relayVars, relayPeers
  <2>. QED BY <1>1, <2>1, Zenon DEF RelayInv, Other
<1>8. "src" \in Sides
    BY DEF Sides
<1>. QED BY <1>3, <1>4, <1>5, <1>6, <1>7, <1>8 DEF RelayNext

\* For every kind of relay, whatever the peers send and whenever a connection is
\* closed, a peer stalls or vanishes or a deadline passes: what a peer has
\* received is what the other has sent for it, from the start, in order and
\* without gaps, and nothing is lost while the copier runs.
THEOREM RelaysKeepOrder == RelaySpec => []RelayInOrder
<1>1. RelayInit => RelayInv
  <2>1. SUFFICES ASSUME RelayInit
                 PROVE  RelayInv
      OBVIOUS
  <2>2. /\ copier = [x \in Sides |-> "read"] /\ sent = [x \in Sides |-> <<>>] /\ inbox = sent
        /\ held = [x \in Sides |-> <<>>] /\ got = [x \in Sides |-> <<>>]
      BY <2>1 DEF RelayInit, Nothing
  <2>3. \A x \in Sides : Other(x) \in Sides
      BY DEF Other, Sides
  <2>4. ASSUME NEW x \in Sides
        PROVE  Channel(kind, x, <<>>, <<>>, <<>>, <<>>, "read")
      BY NoMessages DEF Channel
  <2>5. \A x \in Sides : Channel(kind, x, sent[x], inbox[x], held[x], got[Other(x)], copier[x])
      BY <2>2, <2>3, <2>4
  <2>. QED BY <2>2, <2>5 DEF RelayInv
<1>2. RelayInv /\ [RelayNext]_relayVars => RelayInv'
    BY RelayStep
<1>3. RelayInv => RelayInOrder
  <2>1. SUFFICES ASSUME RelayInv, NEW x \in Sides
                 PROVE  /\ InTurn(OnTheWay(x))
                        /\ Range(got[Other(x)]) \subseteq Wanted(x)
                        /\ \A m \in Range(got[Other(x)]), k \in Wanted(x) : k[2] < m[2] => k \in Range(got[Other(x)])
                        /\ copier[x] \in {"read", "write"} => Wanted(x) \subseteq Range(OnTheWay(x))
      BY Zenon DEF RelayInOrder
  <2>. DEFINE G == got[Other(x)]
              H == held[x]
              I == inbox[x]
  <2>2. Channel(kind, x, sent[x], I, H, G, copier[x])
      BY <2>1, Zenon DEF RelayInv
  <2>3. /\ I \in Seq(Msgs) /\ H \in Seq(Msgs) /\ G \in Seq(Msgs)
        /\ InTurn(G) /\ InTurn(H) /\ InTurn(I) /\ Ahead(G, H) /\ Ahead(G, I) /\ Ahead(H, I)
      BY <2>2, Zenon DEF Channel
  <2>4. G \o H \in Seq(Msgs) /\ InTurn(G \o H) /\ Ahead(G \o H, I) /\ Range(G \o H) = Range(G) \cup Range(H)
      BY <2>3, Chained, Zenon
  <2>5. InTurn(G \o H \o I) /\ Range(G \o H \o I) = Range(G) \cup Range(H) \cup Range(I)
      BY <2>3, <2>4, Chained, Zenon
  <2>6. Wanted(x) = {m \in Range(sent[x]) : Meant(kind, m)}
      BY DEF Wanted, Passes, Meant
  <2>7. OnTheWay(x) = G \o H \o I
      BY DEF OnTheWay
  <2>. HIDE DEF G, H, I
  <2>8. /\ Range(G) \subseteq Wanted(x)
        /\ \A m \in Range(G), k \in Wanted(x) : k[2] < m[2] => k \in Range(G)
        /\ copier[x] \in {"read", "write"} => Wanted(x) \subseteq Range(G) \cup Range(H) \cup Range(I)
      BY <2>2, <2>6, Zenon DEF Channel
  <2>. QED BY <2>5, <2>7, <2>8, Zenon DEF G
<1>. QED BY <1>1, <1>2, <1>3, PTL DEF RelaySpec

-----------------------------------------------------------------------------
(* Cron: the inductive invariant.                                          *)

\* The goroutine sleeps until this second or the next.
Awake ==
    /\ second \in Seconds /\ wake \in Nat /\ wake <= second + 1
    /\ started \in [Names \X Seconds -> Nat]

\* Nothing is started in a second before the goroutine looks at it.
NotYet ==
    \A x \in Names \X Seconds : x[2] > second \/ (x[2] = second /\ second >= wake) => started[x] = 0

\* What has been in the list since the start of the second is there unchanged.
Steady ==
    /\ DOMAIN jobs \subseteq Names
    /\ \A m \in DOMAIN seen : m \in DOMAIN jobs /\ jobs[m] = seen[m]

KInv == Awake /\ NotYet /\ Steady /\ EverySecondServed

\* The second and the answers of the tasks are not touched by the callers.
LEMMA CallersKeep ==
    ASSUME KInv, NEW m \in Names,
           (\E s \in Specs : NewCronJob(m, s)) \/ DeleteTask(m)
              \/ \E patch \in [Fields -> Values \cup {ANY, Keep}] : UpdateTask(m, patch)
    PROVE  KInv'
<1>1. UNCHANGED <<second, wake, started>>
    BY Zenon DEF NewCronJob, DeleteTask, UpdateTask
<1>2. DOMAIN seen' \subseteq DOMAIN seen /\ \A k \in DOMAIN seen' : seen'[k] = seen[k]
    BY Zenon DEF NewCronJob, DeleteTask, UpdateTask, Drop
<1>3. Awake' /\ NotYet'
    BY <1>1, Zenon DEF KInv, Awake, NotYet
<1>4. Steady'
  <2>1. CASE \E s \in Specs : NewCronJob(m, s)
      BY <2>1, Zenon DEF KInv, Steady, NewCronJob, Set
  <2>2. CASE DeleteTask(m)
      BY <1>2, <2>2, Zenon DEF KInv, Steady, DeleteTask
  <2>3. CASE \E patch \in [Fields -> Values \cup {ANY, Keep}] : UpdateTask(m, patch)
      BY <2>3, Zenon DEF KInv, Steady, UpdateTask, Set, Drop
  <2>. QED BY <2>1, <2>2, <2>3
<1>5. EverySecondServed'
    BY <1>1, <1>2, Zenon DEF KInv, EverySecondServed, Matches
<1>. QED BY <1>3, <1>4, <1>5 DEF KInv

\* The goroutine looks at the list.
LEMMA ProcessKeeps ==
    ASSUME KInv, ProcessJobs
    PROVE  KInv'
<1>1. /\ second >= wake /\ wake' = second + 1 /\ UNCHANGED <<jobs, second, seen>>
      /\ second \in Nat /\ second \in Seconds
    BY SecondsAssumption, Zenon DEF ProcessJobs, NextSecond, KInv, Awake
<1>2. \A x \in Names \X Seconds :
         /\ started'[x] \in Nat
         /\ x[2] = second => started'[x] = IF x[1] \in DOMAIN jobs /\ Matches(jobs[x[1]], second) THEN 1 ELSE 0
         /\ x[2] # second => started'[x] = started[x]
  <2>1. SUFFICES ASSUME NEW x \in Names \X Seconds
                 PROVE  /\ started'[x] \in Nat
                        /\ x[2] = second => started'[x] = IF x[1] \in DOMAIN jobs /\ Matches(jobs[x[1]], second) THEN 1 ELSE 0
                        /\ x[2] # second => started'[x] = started[x]
      BY Zenon
  <2>2. started'[x] = started[x] + (IF x[2] = second /\ x[1] \in DOMAIN jobs /\ Matches(jobs[x[1]], second) THEN 1 ELSE 0)
      BY Zenon DEF ProcessJobs
  <2>3. started[x] \in Nat /\ (x[2] = second => started[x] = 0)
      BY <1>1 DEF KInv, Awake, NotYet
  <2>. HIDE DEF Matches
  <2>. QED BY <2>2, <2>3
<1>3. started' = [x \in Names \X Seconds |-> started'[x]]
    BY Zenon DEF ProcessJobs
<1>4. Awake'
    BY <1>1, <1>2, <1>3 DEF Awake
<1>5. NotYet'
    BY <1>1, <1>2 DEF KInv, NotYet
<1>6. Steady'
    BY <1>1 DEF KInv, Steady
<1>7. \A x \in Names \X Seconds : started'[x] <= 1
    BY <1>2 DEF KInv, EverySecondServed
<1>8. ASSUME NEW k \in DOMAIN seen', Matches(seen'[k], second')
      PROVE  started'[<<k, second'>>] = 1
  <2>1. k \in Names /\ k \in DOMAIN jobs /\ jobs[k] = seen[k] /\ <<k, second>> \in Names \X Seconds
      BY <1>1 DEF KInv, Steady
  <2>2. Matches(jobs[k], second)
      BY <1>1, <1>8, <2>1
  <2>. QED BY <1>1, <1>2, <2>1, <2>2
<1>9. EverySecondServed'
    BY <1>7, <1>8 DEF EverySecondServed
<1>. QED BY <1>4, <1>5, <1>6, <1>9 DEF KInv

\* The clock goes on to a second in which nothing was started.
LEMMA TickKeeps ==
    ASSUME KInv, CronTick
    PROVE  KInv'
<1>1. /\ second + 1 \in Seconds /\ wake > second /\ second' = second + 1 /\ seen' = jobs
      /\ UNCHANGED <<jobs, wake, started>>
      /\ second \in Nat /\ wake \in Nat /\ wake <= second + 1
    BY SecondsAssumption DEF CronTick, KInv, Awake
<1>2. wake = second'
    BY <1>1
<1>3. Awake'
    BY <1>1 DEF KInv, Awake
<1>4. NotYet'
  <2>1. SUFFICES ASSUME NEW x \in Names \X Seconds, x[2] > second' \/ x[2] = second'
                 PROVE  started'[x] = 0
      BY DEF NotYet
  <2>2. x[2] \in Nat
      BY SecondsAssumption, Zenon
  <2>3. x[2] > second
      BY <1>1, <2>1, <2>2
  <2>4. started[x] = 0
      BY <2>3 DEF KInv, NotYet
  <2>. QED BY <1>1, <2>4
<1>5. Steady'
    BY <1>1 DEF KInv, Steady
<1>6. EverySecondServed'
    BY <1>1, <1>2 DEF KInv, EverySecondServed
<1>. QED BY <1>3, <1>4, <1>5, <1>6 DEF KInv

\* For any jobs, inserted, changed and deleted at any moment, and any number of
\* seconds: no task is started twice in a second by processJobs, and one whose
\* job is there from the start of a second it matches is started in it.
THEOREM SecondsAreServed == CronSpec => []EverySecondServed
<1>1. CronInit => KInv
  <2>1. SUFFICES ASSUME CronInit
                 PROVE  KInv
      OBVIOUS
  <2>2. /\ DOMAIN jobs = {} /\ DOMAIN seen = {} /\ second = 0 /\ wake = 0
        /\ started = [x \in Names \X Seconds |-> 0]
      BY <2>1 DEF CronInit, Nobody
  <2>. QED BY <2>2, SecondsAssumption DEF KInv, Awake, NotYet, Steady, EverySecondServed
<1>2. KInv /\ [CronNext]_cronVars => KInv'
  <2>1. SUFFICES ASSUME KInv, [CronNext]_cronVars
                 PROVE  KInv'
      OBVIOUS
  <2>2. CASE CronNext
      BY <2>1, <2>2, CallersKeep, ProcessKeeps, TickKeeps DEF CronNext
  <2>3. CASE UNCHANGED cronVars
      BY <2>1, <2>3, Zenon DEF cronVars, KInv, Awake, NotYet, Steady, EverySecondServed, Matches
  <2>. QED BY <2>1, <2>2, <2>3
<1>3. KInv => EverySecondServed
    BY DEF KInv
<1>. QED BY <1>1, <1>2, <1>3, PTL DEF CronSpec
=============================================================================
