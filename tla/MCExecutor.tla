----------------------------- MODULE MCExecutor -----------------------------
(* A small instance of Executor: two workers with one test each.           *)
EXTENDS Executor

OneEach == {[w \in {0, 1} |-> IF w = 0 THEN <<"t1">> ELSE <<"t2">>]}
=============================================================================
