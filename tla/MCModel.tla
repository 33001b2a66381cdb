------------------------------- MODULE MCModel -------------------------------
(* A small instance of ModelLifecycle: six pairs, two trainings of up to    *)
(* four epochs.                                                             *)
EXTENDS ModelLifecycle
=============================================================================
