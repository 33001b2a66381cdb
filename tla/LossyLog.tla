------------------------------- MODULE LossyLog -------------------------------
(***************************************************************************)
(* What a trace sink promises: accepted events are recorded in the order   *)
(* in which they were accepted, each at most once and as Record says;      *)
(* closing draws a line behind the events accepted so far, nothing behind  *)
(* the line is recorded, and the sink reports completion only when         *)
(* everything before the line has been recorded and is in the file.  A     *)
(* sink that fails may lose a tail, and the file may end in a torn line.   *)
(***************************************************************************)
EXTENDS Naturals, Sequences

CONSTANTS
    Events,
    Record(_),   \* the lines of one event: one, or none if it is filtered
    Torn         \* an incomplete line

VARIABLES
    accepted,    \* events accepted so far
    limit,       \* how many of them precede the closing line
    taken,       \* how many have been looked at
    log,         \* lines produced
    file,        \* lines in the file
    state        \* "open", "closing", "complete" or "failed"

logVars == <<accepted, limit, taken, log, file, state>>

LogInit ==
    /\ accepted = <<>> /\ limit = 0 /\ taken = 0
    /\ log = <<>> /\ file = <<>>
    /\ state = "open"

Accept(e) ==
    /\ state \in {"open", "closing"}
    /\ accepted' = Append(accepted, e)
    /\ UNCHANGED <<limit, taken, log, file, state>>

DrawLine ==
    /\ state = "open"
    /\ state' = "closing"
    /\ limit' = Len(accepted)
    /\ UNCHANGED <<accepted, taken, log, file>>

Take ==
    /\ taken < Len(accepted)
    /\ state # "open" => taken < limit
    /\ taken' = taken + 1
    /\ log' = log \o Record(accepted[taken + 1])
    /\ UNCHANGED <<accepted, limit, file, state>>

\* What a file may hold of the lines produced.
Remains(lines) ==
    LET prefixes == {SubSeq(lines, 1, n) : n \in 0 .. Len(lines)}
    IN  prefixes \cup {Append(p, Torn) : p \in prefixes}

Store ==
    /\ file' \in Remains(log)
    /\ UNCHANGED <<accepted, limit, taken, log, state>>

Complete ==
    /\ state = "closing"
    /\ taken = limit
    /\ file = log
    /\ state' = "complete"
    /\ UNCHANGED <<accepted, limit, taken, log, file>>

\* A failing sink may store what is left in the same step.
Fail ==
    /\ state \in {"open", "closing"}
    /\ state' = "failed"
    /\ file' \in {file} \cup Remains(log)
    /\ UNCHANGED <<accepted, limit, taken, log>>

LogNext ==
    \/ \E e \in Events : Accept(e)
    \/ DrawLine \/ Take \/ Store \/ Complete \/ Fail

LogSpec == LogInit /\ [][LogNext]_logVars
=============================================================================
