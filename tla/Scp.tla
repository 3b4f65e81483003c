-------------------------------- MODULE Scp --------------------------------
(***************************************************************************)
(* The scp protocol of packages sshserver and sshclient: a source          *)
(* (scpToRemote, scpToClient, or the scp of OpenSSH) that walks a tree and *)
(* a sink (scpFromClient, scpFromRemote) that builds one.                  *)
(*                                                                         *)
(* The stream between them is a sequence of writes, each a sequence of     *)
(* tokens: the command byte <<"C">>, <<"D">> or <<"E">>, the rest of a     *)
(* header line <<"line", name, size>>, a byte of a file <<"byte", b>>, or  *)
(* NUL.  The sink reads command bytes and file contents directly, and      *)
(* lines with a bufio.Scanner, which reads ahead as much as the transport  *)
(* hands out.                                                              *)
(***************************************************************************)
EXTENDS Integers, Sequences, SequencesExt

CONSTANTS
  Trees,      \* the items to copy: records [name, dir, items] (items: a sequence
              \* of items for a directory, of bytes for a file)
  Sources,    \* who sends: "openssh", "client" (scpToRemote), "server" (scpToClient)
  Transports, \* "pipe" (io.Pipe: a read returns what one write wrote), "stream"
  NewName     \* the name at the destination, or NoName after a trailing separator

NoName == "none"
NUL == <<"nul">>
END == [name |-> "end", dir |-> TRUE, items |-> <<>>]

VARIABLES
  tree, source, transport, newName,   \* the setting
  opts,            \* the options of the copy, of "q" (IsQuiet) and "r" (IsRecursive)
  todo, sending,   \* the items left to send; the bytes left of the file being sent
  srcErr,          \* the source has failed: "no", "file" (OpenSSH goes on), "stop"
  pipe, srcDone,   \* written and not read; has the source closed its end?
  acks,            \* NULs the source has still to wait for, as OpenSSH does
  sink,            \* the sink: [pc, cmd, path, size, tmp, dir, first]
  scanned,         \* what the scanner has read ahead
  dst              \* the destination: a function from paths

scpSetting == <<tree, source, transport, newName, opts>>
scpSource == <<todo, sending, srcErr, srcDone>>
scpVars == <<scpSetting, scpSource, pipe, acks, sink, scanned, dst>>

NotSending == <<NUL>>

\* A directory is only sent with -r.
ScpInit ==
    /\ source \in Sources /\ transport \in Transports /\ newName \in {NoName, NewName}
    /\ opts \in SUBSET {"q", "r"} /\ tree \in {t \in Trees : t.dir => "r" \in opts}
    /\ todo = <<tree>> /\ sending = NotSending /\ srcErr = "no" /\ srcDone = FALSE
    /\ pipe = <<>> /\ acks = 1
    /\ sink = [pc |-> "start", cmd |-> NUL, path |-> <<>>, size |-> 0, tmp |-> <<>>, dir |-> <<>>, first |-> TRUE]
    /\ scanned = <<>>
    /\ dst = [p \in {} |-> <<>>]

\* scpToRemote and scpFromRemote add the options to "-t" or "-f" without a
\* space: one word, which the server looks for among the words of its command
\* line.  A caller of SCP that copies over a pipe starts the other side itself.
RemoteOpts(mode) ==
    <<mode>> \o (IF "q" \in opts THEN <<"q">> ELSE <<>>) \o (IF "r" \in opts THEN <<"r">> ELSE <<>>)
SlideHasElem(mode) == RemoteOpts(mode) = <<mode>>
Runs(side, mode) == source = side /\ transport = "stream" => SlideHasElem(mode)

-----------------------------------------------------------------------------
(* The source.                                                             *)

\* OpenSSH waits for every answer; the sources of the packages never read one.
MayWrite(answers) ==
    /\ ~srcDone /\ srcErr # "stop" /\ (source = "openssh" => acks = 0) /\ Runs("server", "f")
    /\ acks' = acks + (IF source = "openssh" THEN answers ELSE 0)

Put(s) == pipe' = Append(pipe, s)
Header(i) == <<"line", i.name, IF i.dir THEN 0 ELSE Len(i.items)>>

\* processDir and sendDir; sendEndDir when the items are done.
SendDir ==
    /\ todo # <<>> /\ sending = NotSending /\ todo[1].dir /\ todo[1] # END
    /\ MayWrite(1)
    /\ Put(<<<<"D">>, Header(todo[1])>>)
    /\ \/ todo' = todo[1].items \o <<END>> \o Tail(todo) /\ UNCHANGED srcErr
       \/ source # "openssh" /\ todo' = Tail(todo) /\ srcErr' = "stop"  \* Open or Readdir fails
    /\ UNCHANGED <<scpSetting, sending, srcDone, sink, scanned, dst>>

SendEndDir ==
    /\ todo # <<>> /\ todo[1] = END /\ sending = NotSending
    /\ MayWrite(1)
    /\ Put(<<<<"E">>, Header(END)>>)
    /\ todo' = Tail(todo)
    /\ UNCHANGED <<scpSetting, sending, srcErr, srcDone, sink, scanned, dst>>

SendFileHeader ==
    /\ todo # <<>> /\ ~todo[1].dir /\ sending = NotSending
    /\ MayWrite(1)
    /\ Put(<<<<"C">>, Header(todo[1])>>)
    /\ sending' = todo[1].items
    /\ UNCHANGED <<scpSetting, todo, srcErr, srcDone, sink, scanned, dst>>

\* The file cannot be opened.  OpenSSH sends a message (0x1) and goes on.
SendFileFails ==
    /\ todo # <<>> /\ ~todo[1].dir /\ sending = NotSending
    /\ MayWrite(0)
    /\ IF source = "openssh" THEN srcErr' = "file" /\ Put(<<<<"1">>, Header(todo[1])>>)
                             ELSE srcErr' = "stop" /\ UNCHANGED pipe
    /\ todo' = Tail(todo)
    /\ UNCHANGED <<scpSetting, sending, srcDone, sink, scanned, dst>>

\* bufcopy.Copy and the NUL.  sendFile of the server closes the file twice,
\* and the second error stops it.
SendFile ==
    /\ sending # NotSending
    /\ IF sending = <<>>
         THEN /\ MayWrite(1) /\ Put(<<NUL>>)
              /\ sending' = NotSending /\ todo' = Tail(todo)
              /\ srcErr' = IF source = "server" THEN "stop" ELSE srcErr
         ELSE /\ MayWrite(0)
              /\ \E k \in 1..Len(sending) :
                    Put(SubSeq(sending, 1, k)) /\ sending' = SubSeq(sending, k + 1, Len(sending))
              /\ UNCHANGED <<todo, srcErr>>
    /\ UNCHANGED <<scpSetting, srcDone, sink, scanned, dst>>

\* The source is done, was never started, stops after an error, or is cut off.
SourceCloses ==
    /\ ~srcDone /\ (source = "openssh" /\ todo = <<>> => acks = 0)
    /\ srcDone' = TRUE
    /\ srcErr' = IF todo = <<>> \/ ~Runs("server", "f") THEN srcErr ELSE "stop"
    /\ UNCHANGED <<scpSetting, todo, sending, pipe, acks, sink, scanned, dst>>

-----------------------------------------------------------------------------
(* The sink.                                                               *)

\* What a Read may return from, and what is left after reading n tokens.
Avail == IF pipe = <<>> THEN <<>> ELSE IF transport = "pipe" THEN pipe[1] ELSE FlattenSeq(pipe)
Rest(n) ==
    LET left == SubSeq(Avail, n + 1, Len(Avail))
        others == IF transport = "pipe" THEN Tail(pipe) ELSE <<>>
    IN  IF left = <<>> THEN others ELSE <<left>> \o others
Cut == pipe = <<>> /\ srcDone

Ack == acks' = IF acks > 0 THEN acks - 1 ELSE 0
Sink(label) == sink' = [sink EXCEPT !.pc = label]
Error == Sink("error") /\ UNCHANGED <<pipe, acks, scanned, dst>>

Commands == {<<"C">>, <<"D">>, <<"E">>, <<"1">>}

\* A server that is not asked to be a sink returns, with exit status 0.
SinkStarts ==
    /\ sink.pc = "start"
    /\ Ack /\ Sink(IF Runs("client", "t") THEN "cmd" ELSE "done")
    /\ UNCHANGED <<scpSetting, scpSource, pipe, scanned, dst>>

\* The byte of the next command.  The end of the input is no error, and an
\* unknown command ends the sink without one.
ReadCmd ==
    /\ sink.pc = "cmd"
    /\ \/ Cut /\ Sink("done") /\ UNCHANGED pipe
       \/ /\ pipe # <<>> /\ pipe' = Rest(1)
          /\ CASE Avail[1] = NUL -> sink' = [sink EXCEPT !.first = FALSE]
               [] Avail[1] \in Commands -> sink' = [sink EXCEPT !.pc = "scan", !.cmd = Avail[1]]
               [] OTHER -> Sink("done")
    /\ UNCHANGED <<scpSetting, scpSource, acks, scanned, dst>>

Lines == {i \in 1..Len(scanned) : scanned[i][1] = "line"}
Line == CHOOSE i \in Lines : \A j \in Lines : i <= j

\* Scan reads until it has a line, and whatever comes with it.
ScanReads ==
    /\ sink.pc = "scan" /\ Lines = {} /\ pipe # <<>>
    /\ \E k \in 1..Len(Avail) : scanned' = scanned \o SubSeq(Avail, 1, k) /\ pipe' = Rest(k)
    /\ UNCHANGED <<scpSetting, scpSource, acks, sink, dst>>

Name == IF newName # NoName /\ sink.first THEN newName ELSE scanned[Line][2]
Path == Append(sink.dir, Name)
MadeDir == <<NUL>>
Store(p, v) == dst' = [q \in DOMAIN dst \cup {p} |-> IF q = p THEN v ELSE dst[q]]

ScanEnd ==
    [sink EXCEPT !.pc = "cmd", !.dir = IF @ = <<>> THEN @ ELSE Front(@), !.first = FALSE]

\* A line is there, and is the header alone: E goes back out of the
\* directory, D makes one and enters it, C starts a file.  The answer is sent
\* before the directory or the temporary file is made, which may fail.
ScanLine ==
    /\ sink.pc = "scan" /\ Lines # {} /\ Line = 1 /\ sink.cmd # <<"1">>
    /\ scanned' = Tail(scanned) /\ Ack
    /\ \/ sink.cmd = <<"E">> /\ sink' = ScanEnd /\ UNCHANGED dst
       \/ /\ sink.cmd = <<"D">> /\ Store(Path, MadeDir)
          /\ sink' = [sink EXCEPT !.pc = "cmd", !.dir = Path, !.first = FALSE]
       \/ /\ sink.cmd = <<"C">> /\ UNCHANGED dst
          /\ sink' = [sink EXCEPT !.pc = "file", !.tmp = <<>>, !.path = Path, !.size = scanned[1][3]]
       \/ sink.cmd # <<"E">> /\ Sink("error") /\ UNCHANGED dst
    /\ UNCHANGED <<scpSetting, scpSource, pipe>>

\* The line does not parse, is the message of an error, or the input has ended.
ScanFails ==
    /\ sink.pc = "scan"
    /\ (Lines # {} /\ (Line # 1 \/ sink.cmd = <<"1">>)) \/ (Lines = {} /\ Cut /\ sink.cmd # <<"E">>)
    /\ Error
    /\ UNCHANGED <<scpSetting, scpSource>>

\* At the end of the input Scan returns an empty line, which is enough for E.
ScanCut ==
    /\ sink.pc = "scan" /\ sink.cmd = <<"E">> /\ Lines = {} /\ Cut
    /\ sink' = ScanEnd /\ Ack
    /\ UNCHANGED <<scpSetting, scpSource, pipe, scanned, dst>>

\* The contents go into a temporary file.
ReadFile ==
    /\ sink.pc = "file" /\ Len(sink.tmp) < sink.size
    /\ \/ Cut /\ Error
       \/ /\ pipe # <<>>
          /\ \E k \in 1..Len(Avail) :
                /\ k <= sink.size - Len(sink.tmp)
                /\ sink' = [sink EXCEPT !.tmp = @ \o SubSeq(Avail, 1, k)]
                /\ pipe' = Rest(k)
          /\ UNCHANGED <<acks, scanned, dst>>
    /\ UNCHANGED <<scpSetting, scpSource>>

\* Mutant: the file is put in its place before it is complete.
RenameEarly ==
    /\ sink.pc = "file" /\ sink.tmp # <<>>
    /\ Store(sink.path, sink.tmp) /\ UNCHANGED sink
    /\ UNCHANGED <<scpSetting, scpSource, pipe, acks, scanned>>

\* The temporary file is complete and is renamed, which may fail.
Rename ==
    /\ sink.pc = "file" /\ Len(sink.tmp) = sink.size
    /\ \/ Store(sink.path, sink.tmp) /\ Sink("nul") /\ UNCHANGED <<pipe, acks, scanned>>
       \/ Error
    /\ UNCHANGED <<scpSetting, scpSource>>

\* The byte after the contents is read and not looked at.
ReadNul ==
    /\ sink.pc = "nul"
    /\ \/ Cut /\ Error
       \/ /\ pipe # <<>> /\ pipe' = Rest(1) /\ Ack
          /\ sink' = [sink EXCEPT !.pc = "cmd", !.tmp = <<>>, !.path = <<>>, !.size = 0, !.first = FALSE]
          /\ UNCHANGED <<scanned, dst>>
    /\ UNCHANGED <<scpSetting, scpSource>>

ScpNext ==
    \/ SendDir \/ SendEndDir \/ SendFileHeader \/ SendFileFails \/ SendFile \/ SourceCloses
    \/ SinkStarts \/ ReadCmd \/ ScanReads \/ ScanLine \/ ScanFails \/ ScanCut \/ ReadFile \/ Rename \/ ReadNul

ScpSpec == ScpInit /\ [][ScpNext]_scpVars

-----------------------------------------------------------------------------
(* Properties.                                                             *)

\* The paths of the tree and what is at each, level by level.
Placed(i, p) == [path |-> p, item |-> i]
Level0 == {Placed([tree EXCEPT !.name = IF newName = NoName THEN @ ELSE newName],
                  <<IF newName = NoName THEN tree.name ELSE newName>>)}
Below(s) == UNION {{Placed(x.item.items[k], Append(x.path, x.item.items[k].name)) :
                      k \in 1..Len(x.item.items)} : x \in {y \in s : y.item.dir}}
Expected ==
    LET all == Level0 \cup Below(Level0) \cup Below(Below(Level0))
    IN  [p \in {x.path : x \in all} |->
          LET x == CHOOSE y \in all : y.path = p IN IF x.item.dir THEN MadeDir ELSE x.item.items]

\* A source that waits for answers, as OpenSSH does, or a transport that hands
\* out writes one by one.
InStep == source = "openssh" \/ transport = "pipe"

\* Whatever is at the destination, at any moment and however the copy ends,
\* is at the place it has in the source, and is all of it: scpFromClient and
\* scpFromRemote write a temporary file and rename it, and keep to the
\* directory the source is in.
FilesWhole ==
    InStep => \A p \in DOMAIN dst : p \in DOMAIN Expected /\ dst[p] = Expected[p]

\* A sink that ends without an error, on a source that has sent everything
\* without one, has built the whole tree.
TreeArrives ==
    InStep /\ srcErr = "no" /\ srcDone /\ sink.pc = "done" => dst = Expected

\* Nothing is wrong at the destination, and in the end nothing is missing.
CopyWhole == FilesWhole /\ TreeArrives

\* "to-scp [send scp -t ]": when neither scpToRemote nor the server it asks
\* has an error to report, the server has received something.
SendsToSink ==
    source = "client" /\ srcErr = "no" /\ srcDone /\ sink.pc = "done" => DOMAIN dst # {}

\* "use a scanner for processing individual commands, but not files
\* themselves": what the scanner has read ahead is never part of a file.
ScannerReadsCommands == \A i \in 1..Len(scanned) : scanned[i][1] # "byte"
=============================================================================
