------------------------------- MODULE MCPyRun -------------------------------
(* A small instance of PyRun: two workers, three tests, one of which leaves *)
(* a descendant behind; calls in good surroundings, and calls that differ   *)
(* from them in one thing that the command has to notice.                   *)
EXTENDS PyRun

Unset == [type |-> "unset"]

Good == [Defaults EXCEPT !.workers = Number(2)]

\* One bad field each: the wrong kind, out of range, missing.
FieldSets ==
    {[Good EXCEPT !.workers = n] : n \in {Text, Number(0), Number(1025)}}
    \cup {[Good EXCEPT !.version = n] : n \in {Text, Number(2)}}
    \cup {[Good EXCEPT ![f] = n] : f \in SectionNumbers, n \in {Text, Number(-1)}}
    \cup {[Good EXCEPT ![f] = Number(1001)] : f \in Fractions}
    \cup {[Good EXCEPT ![f] = ""] : f \in RequiredTexts}
    \cup {[Good EXCEPT !.parses = FALSE], [Good EXCEPT !.mode = "kernel"],
          [Good EXCEPT !.mode = "ebpf"], [Good EXCEPT !.redact_paths = TRUE]}

Mapping(fields) == [state |-> "mapping", unknown |-> FALSE, fields |-> fields]
BadFiles ==
    {Mapping(f) : f \in FieldSets} \cup
    { [state |-> "absent", default |-> FALSE], [state |-> "broken"],
      [state |-> "mapping", unknown |-> TRUE, fields |-> Good] }

\* A call that reaches the executor with every test.
GoodCall ==
    [file |-> Mapping(Good), environment |-> <<>>, linux |-> FALSE,
     options |-> [workers |-> Unset, timeout |-> 300],
     collection |-> [ran |-> TRUE, code |-> 0, found |-> Tests],
     graph |-> [state |-> "object", valid |-> TRUE, pairs |-> {{"t1", "t2"}, {"t1", "gone"}}]]

Calls ==
    {GoodCall,
     [GoodCall EXCEPT !.options.workers = Number(1), !.collection.found = {"t1", "t2"},
                      !.graph = [state |-> "absent"],
                      !.file = [state |-> "absent", default |-> TRUE]]}
    \cup {[GoodCall EXCEPT !.file = f] : f \in BadFiles}
    \cup {[GoodCall EXCEPT !.environment = e] : e \in
              { [workers |-> Number(0)], [workers |-> Text], [mode |-> "ebpf"] }}
    \cup {[GoodCall EXCEPT !.options.workers = Number(0)], [GoodCall EXCEPT !.options.timeout = 0]}
    \cup {[GoodCall EXCEPT !.collection = c] : c \in
              { [ran |-> TRUE, code |-> 5, found |-> {}], [ran |-> TRUE, code |-> 0, found |-> {}],
                [ran |-> TRUE, code |-> 2, found |-> {}], [ran |-> FALSE, code |-> 0, found |-> {}] }}
    \cup {[GoodCall EXCEPT !.graph = g] : g \in
              { [state |-> "torn"], [state |-> "object", valid |-> FALSE, pairs |-> {}] }}
=============================================================================
