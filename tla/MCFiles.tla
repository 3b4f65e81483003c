------------------------------ MODULE MCFiles -------------------------------
(***************************************************************************)
(* The packages that keep their state in files, on small instances.  The   *)
(* modules share nothing, so a behaviour drives one of them.               *)
(***************************************************************************)
EXTENDS LockedFile, LogRotate, CopyRotate

CONSTANT Parts

VARIABLE part   \* which of them is driven

\* Empty, one byte, two bytes: growing, shrinking, equal size, and contents
\* that differ in a byte only.
MCContents == {<<>>, <<"a">>, <<"a", "b">>, <<"b", "a">>}
MCBytes == {"a", "b"}

\* Messages of one and two units and one that is too large, for a file of two.
Mixed == <<1, 2, 1, 3>>

MCInit ==
    /\ part \in Parts /\ Init /\ LogInit /\ CopyInit
    /\ part # "locked" => file = <<>>
    /\ part # "log" => ~faulty
    /\ part # "copy" => kind = "logs" /\ zone = "east"

MCNext ==
    /\ \/ part = "locked" /\ Next /\ UNCHANGED <<logVars, copyVars>>
       \/ part = "log" /\ LogNext /\ UNCHANGED <<vars, copyVars>>
       \/ part = "copy" /\ CopyNext /\ UNCHANGED <<vars, logVars>>
    /\ UNCHANGED part

MCSpec == MCInit /\ [][MCNext]_<<vars, logVars, copyVars, part>>
=============================================================================
