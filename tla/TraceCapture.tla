----------------------------- MODULE TraceCapture -----------------------------
(***************************************************************************)
(* EventSink (python/conflictgraph/tracing.py): a bounded queue between    *)
(* the thread that submits events and a writer thread that normalises them *)
(* and writes JSON lines, and close, called from a third thread.           *)
(*                                                                         *)
(* The writer's output is buffered: a writer that fails, or a process that *)
(* is killed, leaves some of the lines in the file, and perhaps a torn one.*)
(***************************************************************************)
EXTENDS TraceGraph

CONSTANTS
    Events,        \* events that may be submitted
    Capacity,      \* capacity of the queue
    SinkPrefixes,  \* exclude_prefixes of the sink's normaliser
    MaxEvents      \* bound on the number of submitted events

VARIABLES
    queue,      \* the queue, with the sentinel close puts
    writer,     \* the writer thread: "running", "done" or "failed"
    lines,      \* lines written
    file,       \* lines in the file, once the writer has ended
    quality,    \* the sink's TraceQuality
    closer,     \* the thread that calls close
    alive,      \* FALSE: the process was killed
    accepted,   \* history: events for which submit returned True
    limit,      \* history: how many of them precede the sentinel
    taken       \* history: how many the writer took from the queue

history == <<accepted, limit, taken>>
sinkVars == <<queue, writer, lines, file, quality, closer, alive, history>>

Line(type) == [test |-> "", type |-> type, ident |-> <<>>, op |-> "", mode |-> "", at |-> 0]
Sentinel == Line("sentinel")
TornLine == Line("torn")

\* Times are nanoseconds since the epoch; that of a line that is no event is 0.
EventType ==
    [test : STRING, type : STRING, ident : Seq(STRING) \ {<<>>}, op : STRING, mode : STRING,
     at : Nat \ {0}]

ASSUME TraceCaptureAssumption ==
    /\ Capacity \in Nat \ {0}
    /\ MaxEvents \in Nat
    /\ Events \subseteq EventType
    /\ \A p \in SinkPrefixes : p \in Seq(STRING) /\ Len(p) > 1 /\ "$RUN_TMP" \notin ToSet(p)

SinkInit ==
    /\ queue = <<>>
    /\ writer = "running"
    /\ lines = <<>>
    /\ file = <<>>
    /\ quality = NoQuality
    /\ closer = "open"
    /\ alive = TRUE
    /\ accepted = <<>>
    /\ limit = 0
    /\ taken = 0

Closed == closer \in {"closed", "raised"}

\* submit: put_nowait, or a dropped event.
Submit(e) ==
    /\ alive /\ ~Closed
    /\ quality.captured < MaxEvents
    /\ IF Len(queue) < Capacity
       THEN /\ queue' = Append(queue, e)
            /\ accepted' = Append(accepted, e)
            /\ quality' = [quality EXCEPT !.captured = @ + 1]
       ELSE /\ quality' = [quality EXCEPT !.captured = @ + 1, !.dropped = @ + 1]
            /\ UNCHANGED <<queue, accepted>>
    /\ UNCHANGED <<writer, lines, file, closer, alive, limit, taken>>
-----------------------------------------------------------------------------
(***************************************************************************)
(* _consume.                                                               *)
(***************************************************************************)

CanTake == alive /\ writer = "running" /\ queue # <<>>

Took ==
    /\ queue' = Tail(queue)
    /\ taken' = taken + 1
    /\ UNCHANGED <<closer, alive, accepted, limit>>

\* The line, if any, that the writer makes of an event.
Recorded(e) == Normalized(e, SinkPrefixes)

Counted(e) ==
    [quality EXCEPT !.processed = @ + 1, !.unattributed = IF e.test = "" THEN @ + 1 ELSE @]

\* Faulty loop: it ends for a flag that close sets, not for the sentinel.
ConsumeWhileOpen ==
    /\ closer = "open"
    /\ CanTake
    /\ ~Raises(Head(queue).type, Head(queue).ident)
    /\ Took
    /\ LET kept == Recorded(Head(queue)) IN
          /\ lines' = lines \o kept
          /\ quality' = IF kept = <<>> THEN quality ELSE Counted(kept[1])
    /\ UNCHANGED <<writer, file>>

\* An event is normalised and written, or filtered.
Consume ==
    /\ CanTake
    /\ Head(queue) # Sentinel
    /\ ~Raises(Head(queue).type, Head(queue).ident)
    /\ Took
    /\ LET kept == Recorded(Head(queue)) IN
          /\ lines' = lines \o kept
          /\ quality' = IF kept = <<>> THEN quality ELSE Counted(kept[1])
    /\ UNCHANGED <<writer, file>>

\* What a file may hold of lines that were written to its buffer.
Remains ==
    LET prefixes == {SubSeq(lines, 1, n) : n \in 0 .. Len(lines)}
    IN  prefixes \cup {Append(p, TornLine) : p \in prefixes}

\* The normaliser raises on the event: the file is closed, the loop is left.
NormalizerRaises ==
    /\ CanTake
    /\ Raises(Head(queue).type, Head(queue).ident)
    /\ queue' = Tail(queue)
    /\ writer' = "failed"
    /\ file' = lines
    /\ UNCHANGED <<lines, quality, closer, alive, history>>

\* Opening or writing the file raises.
WriteFails ==
    /\ alive /\ writer = "running"
    /\ writer' = "failed"
    /\ file' \in Remains
    /\ UNCHANGED <<queue, lines, quality, closer, alive, history>>

\* The sentinel: the file is closed, which writes out the buffer.
Stop ==
    /\ CanTake
    /\ Head(queue) = Sentinel
    /\ queue' = Tail(queue)
    /\ writer' = "done"
    /\ file' = lines
    /\ UNCHANGED <<lines, quality, closer, alive, history>>
-----------------------------------------------------------------------------
(***************************************************************************)
(* close.                                                                  *)
(***************************************************************************)

CallClose ==
    /\ alive /\ closer = "open"
    /\ closer' = "putting"
    /\ UNCHANGED <<queue, writer, lines, file, quality, alive, history>>

\* put blocks while the queue is full.
PutSentinel ==
    /\ alive /\ closer = "putting"
    /\ Len(queue) < Capacity
    /\ queue' = Append(queue, Sentinel)
    /\ closer' = "joining"
    /\ limit' = Len(accepted)
    /\ UNCHANGED <<writer, lines, file, quality, alive, accepted, taken>>

\* Faulty join: close does not look whether the writer has ended.
JoinWithoutLooking ==
    /\ alive /\ closer = "joining"
    /\ closer' = IF writer = "failed" THEN "raised" ELSE "closed"
    /\ UNCHANGED <<queue, writer, lines, file, quality, alive, history>>

\* The writer has ended: close returns, or reports the writer's failure.
Join ==
    /\ alive /\ closer = "joining"
    /\ writer # "running"
    /\ closer' = IF writer = "failed" THEN "raised" ELSE "closed"
    /\ UNCHANGED <<queue, writer, lines, file, quality, alive, history>>

JoinTimesOut ==
    /\ alive /\ closer = "joining"
    /\ writer = "running"
    /\ closer' = "raised"
    /\ UNCHANGED <<queue, writer, lines, file, quality, alive, history>>

\* The process is killed, or exits while the daemon thread still writes.
Exit ==
    /\ alive
    /\ alive' = FALSE
    /\ IF writer = "running" THEN file' \in Remains ELSE UNCHANGED file
    /\ UNCHANGED <<queue, writer, lines, quality, closer, history>>

WriterStep == Consume \/ NormalizerRaises \/ Stop
CloserStep == PutSentinel \/ Join \/ JoinTimesOut

SinkStep ==
    \/ \E e \in Events : Submit(e)
    \/ WriterStep \/ WriteFails
    \/ CallClose \/ CloserStep
    \/ Exit
-----------------------------------------------------------------------------
(***************************************************************************)
(* Properties.                                                             *)
(***************************************************************************)

LogState ==
    CASE closer = "closed" -> "complete"
      [] closer = "raised" \/ (closer # "closed" /\ ~alive) -> "failed"
      [] closer = "joining" /\ alive -> "closing"
      [] OTHER -> "open"

Promise == INSTANCE LossyLog WITH
    Record <- Recorded, Torn <- TornLine, log <- lines, state <- LogState

\* The sink implements LossyLog: whatever submits, drops, failures and a
\* concurrent close do, events reach the file in order and at most once, and
\* close returns normally only when every event accepted before its sentinel
\* has been written or filtered.  (An event accepted later is lost although
\* submit returned True: LossyLog does not promise it.)
ImplementsLossyLog == Promise!LogSpec

\* close returns or raises, unless the writer failed: then nobody empties the
\* queue and close may wait for a free slot forever.
CloseReturns == [](writer # "failed") => (closer = "putting" ~> Closed \/ ~alive)
=============================================================================
