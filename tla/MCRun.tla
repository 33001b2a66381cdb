------------------------------- MODULE MCRun -------------------------------
(* A small instance of Run: one worker with a queue of two tests.          *)
EXTENDS Run

TwoInARow == {[w \in {0} |-> <<"t1", "t2">>]}
=============================================================================
