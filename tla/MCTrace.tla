------------------------------- MODULE MCTrace -------------------------------
(* A small instance of TracePipeline: two tests, a queue of two, and events *)
(* that spell a path, an endpoint and a Redis key in different ways.  "a "  *)
(* and "k " are names that end in a blank.                                  *)
EXTENDS TracePipeline

Blanks == "a " :> "a" @@ "k " :> "k" @@ " " :> ""
FrontBlanks == " " :> "" @@ " /" :> "/"
Addresses == "127.0.0.1" :> "127.0.0.1" @@ "[::1]" :> "::1" @@ "::1" :> "::1" @@ "" :> "0.0.0.0" @@ "0.0.0.0" :> "0.0.0.0"
PortNumbers == "80" :> "80" @@ "080" :> "80"
Commands == "/bin/sh -c x" :> "sh" @@ "/bin/" :> ""

\* The sink's policy and the configured one leave out different reads.
PolicyPrefixes == { <<"/", "usr", "lib">> }
ConfiguredPrefixes == { <<"/", "usr", "lib">>, <<"/", "opt">> }

Event(test, type, ident, op, mode, at) ==
    [test |-> test, type |-> type, ident |-> ident, op |-> op, mode |-> mode, at |-> at]

\* "/tmp/a" in different spellings; a read that only the replay leaves out; a
\* name that ends in a blank, below the root with two slashes, in an event
\* nobody could attribute.
FileEvents ==
    { Event("t1", "FILE", <<"/", "tmp", "a">>, "WRITE", "WRITE", 3),
      Event("t1", "FILE", <<"", "tmp", "x", "..", "a ">>, "READ", "READ", 2),
      Event("t2", "FILE", <<" /", "tmp", "", ".", "a">>, "READ", "READ", 2),
      Event("t1", "FILE", <<"/", "opt", "x">>, "READ", "READ", 1),
      Event("", "FILE", <<"//", "tmp", "a ", " ">>, "DELETE", "WRITE", 4) }

OtherEvents ==
    { Event("t1", "TCP_ENDPOINT", <<"tcp", "127.0.0.1", "80">>, "BIND", "EXCLUSIVE", 1),
      Event("t2", "TCP_ENDPOINT", <<"[::1]", "080">>, "BIND", "EXCLUSIVE", 2),
      Event("t1", "REDIS_KEY", <<"k ">>, "WRITE", "WRITE", 1),
      Event("t2", "REDIS_KEY", <<"0", "k">>, "DELETE", "WRITE", 1),
      Event("t2", "PROCESS", <<"NUL">>, "EXEC", "EXECUTE", 1) }

TraceEvents == FileEvents \cup OtherEvents
=============================================================================
