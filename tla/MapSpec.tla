------------------------------- MODULE MapSpec -------------------------------
(***************************************************************************)
(* What a map promises its users: a finite function from keys to values    *)
(* that Put extends or overwrites, Del restricts, Get looks up, and Items  *)
(* lists.  `call' is the last call with what it was given or answered.     *)
(***************************************************************************)
EXTENDS Functions

CONSTANTS AllKeys, Vals

VARIABLES content, call

\* A call: its name, its key, and the pairs passed to it or returned by it.
Call(name, k, pairs) == [op |-> name, key |-> k, pairs |-> pairs]

MInit == content = [k \in {} |-> 0] /\ call = Call("new", 0, {})

MPut(k, v) ==
    /\ content' = [j \in DOMAIN content \cup {k} |-> IF j = k THEN v ELSE content[j]]
    /\ call' = Call("Put", k, {<<k, v>>})

MDel(k) ==
    /\ content' = Restrict(content, DOMAIN content \ {k})
    /\ call' = Call("Del", k, {})

MGet(k) ==
    /\ call' = Call("Get", k, IF k \in DOMAIN content THEN {<<k, content[k]>>} ELSE {})
    /\ UNCHANGED content

MItems ==
    /\ call' = Call("Items", 0, {<<k, content[k]>> : k \in DOMAIN content})
    /\ UNCHANGED content

MNext ==
    \/ \E k \in AllKeys : MDel(k) \/ MGet(k) \/ \E v \in Vals : MPut(k, v)
    \/ MItems

MSpec == MInit /\ [][MNext]_<<content, call>>
=============================================================================
