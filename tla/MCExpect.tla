------------------------------ MODULE MCExpect ------------------------------
EXTENDS Expect

MCSetups == {<<"pty", TRUE, TRUE>>, <<"pty", FALSE, FALSE>>, <<"session", TRUE, FALSE>>,
             <<"session", FALSE, TRUE>>, <<"fake", TRUE, TRUE>>}

MCStreams == [pty |-> [out |-> <<1, 2, 3>>],
              session |-> [out |-> <<1, 2>>, err |-> <<11>>],
              fake |-> [out |-> <<1, 2>>]]

C(re, tag, rt, send) == [re |-> re, tag |-> tag, rt |-> rt, send |-> send]
MCCalls == {<<C({2}, "none", 0, FALSE)>>,
            <<C({1}, "continue", 1, TRUE), C({2, 11}, "ok", 0, FALSE)>>,
            <<C({1}, "next", 1, FALSE), C({3}, "fail", 0, FALSE)>>}
=============================================================================
