------------------------------ MODULE TraceGraph ------------------------------
(***************************************************************************)
(* From trace events to predictions: the normaliser                        *)
(* (python/conflictgraph/normalize.py), the test-resource graph and the    *)
(* heuristic predictor (graph.py), and the quality of a trace (types.py).  *)
(*                                                                         *)
(* An identifier is a text, written as the sequence of its parts, and a    *)
(* normal form is such a text again:                                       *)
(*  - a path: its root and the parts between slashes (or backslashes).     *)
(*    The root is "" for a relative path, "//" for exactly two slashes in  *)
(*    front and "/" for one, or three and more.  A root alone has no part, *)
(*    and the first part of a relative path is not empty;                  *)
(*  - any other text: the parts between the colons, of an endpoint the     *)
(*    host, port and a protocol in front of them.  A command line is one   *)
(*    part; a process name has several only when it is one word without a  *)
(*    slash that has colons, as normal forms do.                           *)
(* Blanks at the ends of a text belong to its first and last part.  What   *)
(* Python's ipaddress, int, isdigit, split and basename make of one part   *)
(* is given by constants.  Redaction is off, no repository root is set (no *)
(* command sets one), and pair_history, which nothing in the package       *)
(* fills, is left out.  Weights are in thousandths and probabilities in    *)
(* millionths, rounded up.                                                 *)
(***************************************************************************)
EXTENDS Integers, Sequences, FiniteSets, SequencesExt

CONSTANTS
    LStrip, RStrip,  \* parts with blanks in front, at the end: the part without them
    Ephemeral,       \* path segments a runner makes up (pytest-1, tmp8f3k2a)
    IgnoredNames,    \* last segments with an ignored suffix
    Address,         \* host texts that parse: the compressed address
    Loopback,        \* loopback addresses
    Port,            \* texts that int takes for a port: the number
    Digits,          \* parts that are numbers
    Executable,      \* command lines, but bare names: the base name of the first word
    NoEdgeRisk       \* default_no_edge_risk, the predictor's floor

Nothing == <<>>     \* None
Void == ""          \* a part without a character
Empty == <<Void>>   \* the text without a character

\* Parts the normaliser puts in.
Marks == {"/", "//", "$RUN_TMP", "TCP", "UDP", "REDIS", "EXEC"}

\* Parts without blanks at their ends.
Solid(parts) == parts \cap (DOMAIN LStrip \cup DOMAIN RStrip) = {}

ASSUME TraceGraphAssumption ==
    /\ \A t \in DOMAIN LStrip : LStrip[t] \in STRING \ DOMAIN LStrip
    /\ \A t \in DOMAIN RStrip : /\ RStrip[t] \in STRING \ DOMAIN RStrip
                                /\ t \notin DOMAIN LStrip => RStrip[t] \notin DOMAIN LStrip
    /\ Solid(Marks)
    /\ "$RUN_TMP" \notin IgnoredNames
    /\ Ephemeral \cap {"/", "//"} = {}
    /\ \A h \in DOMAIN Address : /\ Address[h] \in STRING \cap DOMAIN Address
                                 /\ Address[Address[h]] = Address[h]
    /\ "127.0.0.1" \in Loopback \cap DOMAIN Address /\ Address["127.0.0.1"] = "127.0.0.1"
    /\ \A p \in DOMAIN Port : /\ Port[p] \in STRING \cap DOMAIN Port /\ Solid({Port[p]})
                              /\ Port[Port[p]] = Port[p]
    /\ "0" \in Digits /\ "REDIS" \notin Digits
    /\ \A c \in DOMAIN Executable : c # Void /\ Executable[c] \in STRING /\ Solid({Executable[c]})
    /\ NoEdgeRisk \in 0 .. 1000

PathTypes == {"FILE", "DIRECTORY", "FILE_LOCK", "UNIX_SOCKET", "DATABASE_RESOURCE"}
EndpointTypes == {"TCP_ENDPOINT", "UDP_ENDPOINT"}

At(f, key, default) == IF key \in DOMAIN f THEN f[key] ELSE default
-----------------------------------------------------------------------------
(***************************************************************************)
(* ResourceNormalizer.                                                     *)
(***************************************************************************)

\* str.strip.
strip(text) ==
    [i \in DOMAIN text |->
        LET part == IF i = 1 THEN At(LStrip, text[i], text[i]) ELSE text[i]
        IN  IF i = Len(text) THEN At(RStrip, part, part) ELSE part]

\* The parts that ".", ".." and doubled slashes leave.
Resolved(parts) ==
    LET walk[i \in 0 .. Len(parts)] ==
            IF i = 0 THEN <<>>
            ELSE IF parts[i] \in {Void, "."} THEN walk[i - 1]
            ELSE IF parts[i] = ".." THEN Front(walk[i - 1])
            ELSE Append(walk[i - 1], parts[i])
    IN  walk[Len(parts)]

\* A relative path gets a slash in front; then posixpath.normpath.
NormPath(path) == <<IF path[1] = "//" THEN "//" ELSE "/">> \o Resolved(Tail(path))

Unnamed == {Empty, <<Void, "(null)">>, <<Void, "<unknown>">>}

Excluded(path, op, prefixes) ==
    op = "READ" /\ ((\E p \in prefixes : IsPrefix(p, path)) \/ Last(path) \in IgnoredNames)

\* _path.
PathId(text, op, prefixes) ==
    LET path == NormPath(strip(text)) IN
    IF strip(text) \in Unnamed \/ Excluded(path, op, prefixes) THEN Nothing
    ELSE [i \in DOMAIN path |-> IF path[i] \in Ephemeral THEN "$RUN_TMP" ELSE path[i]]

Protocol(type) == IF type = "TCP_ENDPOINT" THEN "TCP" ELSE "UDP"

OwnPrefixes(type) == IF type = "TCP_ENDPOINT" THEN {"TCP", "tcp"} ELSE {"UDP", "udp"}

\* Host and port of an endpoint: a protocol in front is taken off when it is
\* that of the type.
HostAndPort(type, text) ==
    LET value == strip(text) IN IF value[1] \in OwnPrefixes(type) THEN Tail(value) ELSE value

Parses(pair) == Len(pair) = 2 /\ pair[1] \in DOMAIN Address /\ pair[2] \in DOMAIN Port

Alias(address) == IF address \in Loopback THEN "127.0.0.1" ELSE address

\* Faulty endpoint: an address with the protocol in front is not recognised.
BareEndpointId(type, text) ==
    LET pair == strip(text) IN
    IF Parses(pair) THEN <<Protocol(type), Alias(Address[pair[1]]), Port[pair[2]]>> ELSE Nothing

\* _endpoint.
EndpointId(type, text) ==
    LET pair == HostAndPort(type, text) IN
    IF Parses(pair) THEN <<Protocol(type), Alias(Address[pair[1]]), Port[pair[2]]>> ELSE Nothing

\* A number in front of a key is its database.
Numbered(key) == Len(key) > 1 /\ key[1] \in Digits

\* Faulty key: a key without a number is not taken to be in database 0.
KeyAsGivenId(text) == IF strip(text) = Empty THEN Nothing ELSE <<"REDIS">> \o strip(text)

\* _redis.
RedisId(text) ==
    LET key == strip(text) IN
    IF key = Empty \/ (Numbered(key) /\ Tail(key) = Empty) THEN Nothing
    ELSE IF Numbered(key) THEN <<"REDIS">> \o key
    ELSE <<"REDIS", "0">> \o key

\* The base name of the first word of a command line.
CommandName(text) ==
    LET value == strip(text) IN IF Len(value) > 1 THEN value ELSE <<At(Executable, value[1], value[1])>>

\* _process.
ProcessId(text) ==
    LET name == CommandName(text) IN IF name = Empty THEN Nothing ELSE <<"EXEC">> \o name

\* A command line that begins with NUL has no first word: IndexError.
Raises(type, text) == type = "PROCESS" /\ strip(text) = <<"NUL">>

\* prefixes: the exclude_prefixes of the policy, normalised.
normalize_identifier(type, text, op, prefixes) ==
    CASE type \in PathTypes -> PathId(text, op, prefixes)
      [] type \in EndpointTypes -> EndpointId(type, text)
      [] type = "REDIS_KEY" -> RedisId(text)
      [] type = "PROCESS" -> ProcessId(text)
      [] OTHER -> IF strip(text) = Empty THEN Nothing ELSE strip(text)

normalize_event(e, prefixes) ==
    [e EXCEPT !.ident = normalize_identifier(e.type, e.ident, e.op, prefixes)]

\* The events normalize_event leaves of one event.
Normalized(e, prefixes) ==
    IF normalize_event(e, prefixes).ident = Nothing THEN <<>> ELSE <<normalize_event(e, prefixes)>>

is_mutating(op, mode) ==
    \/ op \in {"WRITE", "CREATE", "DELETE", "RENAME", "BIND", "LOCK"}
    \/ mode \in {"WRITE", "EXCLUSIVE"}
-----------------------------------------------------------------------------
(***************************************************************************)
(* TestResourceGraph.                                                      *)
(***************************************************************************)

EmptyGraph == [edges |-> <<>>, testResources |-> <<>>, resourceTests |-> <<>>]

NewAggregate == [counts |-> <<>>, modes |-> {}, first |-> 0, last |-> 0]

\* f with f[key] set to value, whether or not f had the key.
Set(f, key, value) == [k \in DOMAIN f \cup {key} |-> IF k = key THEN value ELSE f[k]]

\* Faulty aggregate: the events are taken to come in the order of time.
observe_in_order(aggregate, e) ==
    [counts |-> Set(aggregate.counts, e.op, At(aggregate.counts, e.op, 0) + 1),
     modes |-> aggregate.modes \cup {e.mode},
     first |-> IF aggregate.first = 0 THEN e.at ELSE aggregate.first,
     last |-> e.at]

\* A first access of 0 counts as not set.
observe(aggregate, e) ==
    [counts |-> Set(aggregate.counts, e.op, At(aggregate.counts, e.op, 0) + 1),
     modes |-> aggregate.modes \cup {e.mode},
     first |-> IF aggregate.first = 0 \/ e.at < aggregate.first THEN e.at ELSE aggregate.first,
     last |-> IF e.at > aggregate.last THEN e.at ELSE aggregate.last]

ResourceOf(e) == <<e.type, e.ident>>

add_event(graph, e) ==
    LET resource == ResourceOf(e)
        key == <<e.test, resource>>
    IN  [edges |-> Set(graph.edges, key, observe(At(graph.edges, key, NewAggregate), e)),
         testResources |-> Set(graph.testResources, e.test,
                               At(graph.testResources, e.test, {}) \cup {resource}),
         resourceTests |-> Set(graph.resourceTests, resource,
                               At(graph.resourceTests, resource, {}) \cup {e.test})]

from_events(events) == FoldLeft(add_event, EmptyGraph, events)

\* Any recorded operation with any recorded mode.
mutating(edge) == \E op \in DOMAIN edge.counts, mode \in edge.modes : is_mutating(op, mode)

PairsOf(tests) == {pair \in SUBSET tests : Cardinality(pair) = 2}

\* candidate_pairs(include_readonly=True): pairs that share a resource.
candidate_pairs(graph) == UNION {PairsOf(tests) : tests \in {graph.resourceTests[r] : r \in DOMAIN graph.resourceTests}}
-----------------------------------------------------------------------------
(***************************************************************************)
(* pair_features: on how many shared resources the two tests meet in each  *)
(* of the ways the predictor knows.                                        *)
(***************************************************************************)

pair_features(graph, a, b) ==
    LET shared == graph.testResources[a] \cap graph.testResources[b]
        edge(t, r) == graph.edges[<<t, r>>]
        does(t, r, op) == op \in DOMAIN edge(t, r).counts
        writes(t, r) == mutating(edge(t, r))
        both(op) == {r \in shared : does(a, r, op) /\ does(b, r, op)}
        meet(t, u, r) == writes(t, r) /\ does(u, r, "READ")
        lost(t, u, r) == does(t, r, "DELETE") /\ does(u, r, "READ")
        bothWrite == {r \in shared : writes(a, r) /\ writes(b, r)}
    IN  [shared |-> shared,
         bind |-> Cardinality(both("BIND")),
         create |-> Cardinality(both("CREATE")),
         locks |-> Cardinality(both("LOCK")),
         unixSockets |-> Cardinality({r \in shared : r[1] = "UNIX_SOCKET"}),
         redisWrites |-> Cardinality({r \in bothWrite : r[1] = "REDIS_KEY"}),
         deleteRead |-> Cardinality({r \in shared : lost(a, b, r) \/ lost(b, a, r)}),
         writeWrite |-> Cardinality(bothWrite),
         readWrite |-> Cardinality({r \in shared : meet(a, b, r) \/ meet(b, a, r)})]

\* Every signal counts as often as it occurs.
SignalWeights(f) ==
    LET times(count, weight) == [i \in 1 .. count |-> weight]
    IN  times(f.bind, 995) \o times(f.create, 970) \o times(f.locks, 920)
        \o times(f.unixSockets, 940) \o times(f.redisWrites, 900)
        \o times(f.deleteRead, 880) \o times(f.writeWrite, 820) \o times(f.readWrite, 650)

Certain == 1000000

\* HeuristicPredictor.score: a noisy or of the signals over the floor; a pair
\* that only reads what it shares gets a little for each rare resource.
score(graph, f) ==
    LET weights == SignalWeights(f)
        unless(clear, weight) == (clear * (1000 - weight)) \div 1000
        clear == FoldLeft(unless, Certain - 1000 * NoEdgeRisk, weights)
        rarity(sum, r) == sum + 1000 \div Cardinality(graph.resourceTests[r])
        readOnly == 1000 * NoEdgeRisk + FoldLeft(rarity, 0, SetToSeq(f.shared))
    IN  IF weights # <<>> THEN Certain - clear
        ELSE IF readOnly < 20000 THEN readOnly ELSE 20000

Pair(pair) == CHOOSE p \in pair \X pair : p[1] # p[2]

\* predict_graph: a probability for every candidate pair.
predict_graph(graph) ==
    [pair \in candidate_pairs(graph) |->
        score(graph, pair_features(graph, Pair(pair)[1], Pair(pair)[2]))]
-----------------------------------------------------------------------------
(***************************************************************************)
(* TraceQuality: completeness times attribution rate, compared with a      *)
(* percentage.                                                             *)
(***************************************************************************)

NoQuality == [captured |-> 0, processed |-> 0, dropped |-> 0, unattributed |-> 0, failures |-> 0]

ScoreAtLeast(q, percent) ==
    100 * (q.processed - q.unattributed) >= percent * (q.captured + q.dropped)
=============================================================================
