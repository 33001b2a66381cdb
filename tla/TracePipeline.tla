---------------------------- MODULE TracePipeline ----------------------------
(***************************************************************************)
(* From a traced run to the predictions the scheduler loads: the trace     *)
(* that EventSink wrote is read again by "conflictgraph trace replay"      *)
(* (cli.py trace_replay, tracing.py read_events), put through the          *)
(* normaliser a second time (with the exclude_prefixes of conflictgraph.   *)
(* yaml, where the sink has those of its own policy), judged by            *)
(* require_quality, made into a graph and written to                       *)
(* artifacts/graphs/latest.json (types.py dump_json).                      *)
(* Predictions of a trained model are the subject of ModelLifecycle.       *)
(***************************************************************************)
EXTENDS TraceCapture

CONSTANTS
    ReplayPrefixes,   \* tracing.exclude_prefixes, for the replay's normaliser
    MinimumQuality    \* tracing.minimum_quality, a percentage

ASSUME TracePipelineAssumption ==
    /\ MinimumQuality \in 0 .. 100
    /\ \A p \in ReplayPrefixes : p \in Seq(STRING) /\ Len(p) > 1

VARIABLES
    phase,       \* what trace replay is doing
    replayed,    \* the events read_events returned
    seen,        \* the TraceQuality of the replay
    graph,       \* the graph built
    latest       \* latest.json: "absent", "torn" or "whole"; its predictions

replayVars == <<phase, replayed, seen, graph, latest>>
vars == <<sinkVars, replayVars>>

NoPredictions == [state |-> "absent", predictions |-> <<>>]

Init ==
    /\ SinkInit
    /\ phase = "capture"
    /\ replayed = <<>>
    /\ seen = NoQuality
    /\ graph = EmptyGraph
    /\ latest = NoPredictions

Capture ==
    /\ phase = "capture"
    /\ SinkStep
    /\ UNCHANGED replayVars

\* The operator replays the file once the traced process is gone.
StartReplay ==
    /\ phase = "capture"
    /\ ~alive
    /\ phase' = "read"
    /\ UNCHANGED <<sinkVars, replayed, seen, graph, latest>>

\* seq without the elements in drop.
Without(seq, drop) ==
    LET kept[i \in 0 .. Len(seq)] ==
            IF i = 0 THEN <<>> ELSE IF seq[i] \in drop THEN kept[i - 1] ELSE Append(kept[i - 1], seq[i])
    IN  kept[Len(seq)]

Whole(trace) == Without(trace, {TornLine})

\* Lines, normalised a second time.
Again(whole) == [i \in DOMAIN whole |-> normalize_event(whole[i], ReplayPrefixes)]

\* The lines of which the second normalisation leaves an event.
Kept(events) == Without(events, {e \in ToSet(events) : e.ident = Nothing})

\* read_events: a line that does not parse is counted and skipped; an event
\* on which the normaliser raises ends the command.
ReadEvents ==
    /\ phase = "read"
    /\ LET whole == Whole(file)
           events == Kept(Again(whole))
       IN  IF \E i \in DOMAIN whole : Raises(whole[i].type, whole[i].ident)
           THEN phase' = "crashed" /\ UNCHANGED <<replayed, seen>>
           ELSE /\ phase' = "judge"
                /\ replayed' = events
                /\ seen' = [captured |-> Len(file), processed |-> Len(events), dropped |-> 0,
                            unattributed |-> Len(SelectSeq(events, LAMBDA e : e.test = "")),
                            failures |-> Len(file) - Len(whole)]
    /\ UNCHANGED <<sinkVars, graph, latest>>

\* require_quality.
Judge ==
    /\ phase = "judge"
    /\ phase' = IF ScoreAtLeast(seen, MinimumQuality) THEN "build" ELSE "rejected"
    /\ UNCHANGED <<sinkVars, replayed, seen, graph, latest>>

Build ==
    /\ phase = "build"
    /\ graph' = from_events(replayed)
    /\ phase' = "dump"
    /\ UNCHANGED <<sinkVars, replayed, seen, latest>>

\* dump_json truncates the file and writes it.
Truncate ==
    /\ phase = "dump"
    /\ latest' = [state |-> "torn", predictions |-> <<>>]
    /\ phase' = "write"
    /\ UNCHANGED <<sinkVars, replayed, seen, graph>>

WriteLatest ==
    /\ phase = "write"
    /\ latest' = [state |-> "whole", predictions |-> predict_graph(graph)]
    /\ phase' = "done"
    /\ UNCHANGED <<sinkVars, replayed, seen, graph>>

Over == phase \in {"done", "rejected", "crashed"} /\ UNCHANGED vars

Next == Capture \/ StartReplay \/ ReadEvents \/ Judge \/ Build \/ Truncate \/ WriteLatest \/ Over

Spec == Init /\ [][Next]_vars

\* The writer thread and the closing thread keep running.
FairSpec ==
    /\ Spec
    /\ WF_vars(phase = "capture" /\ WriterStep /\ UNCHANGED replayVars)
    /\ WF_vars(phase = "capture" /\ CloserStep /\ UNCHANGED replayVars)
-----------------------------------------------------------------------------
(***************************************************************************)
(* Properties.                                                             *)
(***************************************************************************)

\* A line that the replay's normaliser should leave as it is: it ends in no blank
\* (of "/tmp/a /" the first pass makes "/tmp/a ", and the second "/tmp/a"), and
\* it is no read below a prefix that only the replay leaves out.
Stable(line) ==
    /\ strip(line.ident) = line.ident
    /\ line.type \in PathTypes /\ line.op = "READ" =>
          ~\E p \in ReplayPrefixes \ SinkPrefixes : IsPrefix(p, line.ident)

\* The trace is normalised twice, by the sink and by the replay, and the
\* second pass changes many identifiers again.  Every stable line of the trace
\* is still there after it, in the order of the lines and with all its other
\* fields, and two of them are about one resource after it exactly when they
\* were before it.
ReplayKeepsTrace ==
    phase \notin {"capture", "read", "crashed"} =>
        LET whole == Whole(file)
            stable == {i \in DOMAIN whole : Stable(whole[i])}
        IN  \E at \in [stable -> DOMAIN replayed] :
                /\ \A i, j \in stable : i < j => at[i] < at[j]
                /\ \A i \in stable :
                      replayed[at[i]] = [whole[i] EXCEPT !.ident = replayed[at[i]].ident]
                /\ \A i, j \in stable :
                      (ResourceOf(replayed[at[i]]) = ResourceOf(replayed[at[j]]))
                          <=> (ResourceOf(whole[i]) = ResourceOf(whole[j]))

Least(S) == CHOOSE x \in S : \A y \in S : x <= y
Greatest(S) == CHOOSE x \in S : \A y \in S : x >= y

\* Whatever order the threads of a test reached the file in, an edge of the
\* graph says how often, in which modes, from when and until when its test
\* used the resource, and the two indexes name the same accesses.
GraphMatchesTrace ==
    phase \in {"dump", "write", "done"} =>
        LET of(t, r) == {i \in DOMAIN replayed : replayed[i].test = t /\ ResourceOf(replayed[i]) = r}
        IN  /\ DOMAIN graph.edges = {<<replayed[i].test, ResourceOf(replayed[i])>> : i \in DOMAIN replayed}
            /\ \A key \in DOMAIN graph.edges :
                  LET edge == graph.edges[key]
                      at == {replayed[i].at : i \in of(key[1], key[2])}
                  IN  /\ edge.first = Least(at) /\ edge.last = Greatest(at)
                      /\ edge.modes = {replayed[i].mode : i \in of(key[1], key[2])}
                      /\ \A op \in DOMAIN edge.counts : edge.counts[op] =
                            Cardinality({i \in of(key[1], key[2]) : replayed[i].op = op})
            /\ \A t \in DOMAIN graph.testResources, r \in DOMAIN graph.resourceTests :
                  /\ (r \in graph.testResources[t]) <=> (<<t, r>> \in DOMAIN graph.edges)
                  /\ (t \in graph.resourceTests[r]) <=> (<<t, r>> \in DOMAIN graph.edges)

\* What an event is about: the path its text comes to when "." and ".." are
\* resolved (two slashes in front name a root of their own), an address and a
\* port with all loopback addresses taken for one, a key of a database, the
\* file a command runs.
Denoted(e) ==
    CASE e.type \in PathTypes -> <<e.type, NormPath(strip(e.ident))>>
      [] e.type \in EndpointTypes ->
            LET pair == HostAndPort(e.type, e.ident)
                address == Address[pair[1]]
            IN  <<e.type, IF address \in Loopback THEN Loopback ELSE {address}, Port[pair[2]]>>
      [] e.type = "REDIS_KEY" ->
            LET key == strip(e.ident) IN <<e.type, IF Numbered(key) THEN key ELSE <<"0">> \o key>>
      [] e.type = "PROCESS" -> <<e.type, CommandName(e.ident)>>
      [] OTHER -> <<e.type, strip(e.ident)>>

Mutates(e) == is_mutating(e.op, e.mode)

\* Neither pass of the normaliser leaves the event out.
Survives(e) ==
    /\ Recorded(e) # <<>>
    /\ Normalized(Recorded(e)[1], ReplayPrefixes) # <<>>

\* Events of two tests that must not run together.
Collide(e, f) ==
    /\ e.test # "" /\ f.test # "" /\ e.test # f.test
    /\ Survives(e) /\ Survives(f)
    /\ Denoted(e) = Denoted(f)
    /\ Mutates(e)
    /\ Mutates(f) \/ f.op = "READ"

\* End to end: when close returned and the replay finished, every two
\* accepted events of two tests that collide on what they denote, however each
\* of them spells it, gave the pair a risk of 0.65 or more in the latest graph.
ConflictIsPredicted ==
    closer = "closed" /\ latest.state = "whole" =>
        \A i, j \in 1 .. limit :
            Collide(accepted[i], accepted[j]) =>
                LET pair == {accepted[i].test, accepted[j].test} IN
                /\ pair \in DOMAIN latest.predictions
                /\ latest.predictions[pair] >= 650000

\* docs/architecture.md:22 "A trace below the configured quality threshold is
\* rejected before graph construction.": a trace of which the sink dropped a
\* larger share than the threshold allows is not made into a graph.
LossyTraceIsRejected ==
    closer = "closed" /\ phase \in {"build", "dump", "write", "done"} =>
        100 * quality.dropped <= (100 - MinimumQuality) * quality.captured
=============================================================================
