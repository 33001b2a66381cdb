----------------------------- MODULE Attribution -----------------------------
(***************************************************************************)
(* Attribution of kernel events to test executions by the Rust tracer      *)
(* (tracer/src/attribution.rs, control_server and run_ebpf of              *)
(* tracer/src/main.rs, the tracepoints of tracer/ebpf/src/main.rs).        *)
(*                                                                         *)
(* The kernel and the coordinator are external: tasks are forked and exit, *)
(* their identifiers may be given out again, and each tracepoint puts an   *)
(* event into a bounded ring buffer.  The coordinator announces an         *)
(* execution and its end on a connection of its own each; every connection *)
(* is served by a task of its own, in no particular order.  Each event     *)
(* carries the execution that really caused it (owner), which the tracer   *)
(* cannot see.                                                             *)
(***************************************************************************)
EXTENDS Integers, Sequences, FiniteSets, SequencesExt

CONSTANTS
    Executions,     \* test executions
    Pids,           \* task identifiers, positive
    HostPid,        \* the task that starts tests and other host processes
    RingCapacity,   \* events the ring buffer holds
    MaxDepth,       \* longest ancestry resolve follows (64 in the code)
    PidReuse        \* an identifier may be given out again

Host == "host"
None == "none"

ASSUME AttributionAssumption ==
    /\ Pids \subseteq Nat \ {0}
    /\ HostPid \in Pids
    /\ RingCapacity \in Nat \ {0}
    /\ MaxDepth \in Nat \ {0}
    /\ PidReuse \in BOOLEAN
    /\ Executions \cap {Host, None, "free", "zombie", "dead"} = {}

VARIABLES
    owner,      \* per task: its execution, Host, or "zombie", "free", "dead"
    group,      \* per task: its process (thread group)
    cgroup,     \* per process: the execution whose cgroup it is in, or None
    stage,      \* per execution: what the coordinator has done
    root,       \* per execution: root PID, 0 before the start
    control,    \* control messages sent and not handled
    ring,       \* the ring buffer
    cgroups, processes, parents,   \* the registry of the tracer
    late,       \* history: executions registered after they were unregistered
    emitted     \* attributions made: [execution, owner]

kernel == <<owner, group, cgroup>>
coordinator == <<stage, root>>
registry == <<cgroups, processes, parents, late>>
vars == <<kernel, coordinator, control, ring, registry, emitted>>

Init ==
    /\ owner = [p \in Pids |-> IF p = HostPid THEN Host ELSE "free"]
    /\ group = [p \in Pids |-> p]
    /\ cgroup = [p \in Pids |-> None]
    /\ stage = [e \in Executions |-> "idle"]
    /\ root = [e \in Executions |-> 0]
    /\ control = <<>>
    /\ ring = <<>>
    /\ cgroups = {}
    /\ processes = [p \in Pids |-> None]
    /\ parents = [p \in Pids |-> 0]
    /\ late = {}
    /\ emitted = {}
-----------------------------------------------------------------------------
(***************************************************************************)
(* Kernel: tasks and tracepoints.                                          *)
(***************************************************************************)

Running(p) == owner[p] \in Executions \cup {Host}

Event(op, p, child) ==
    [op |-> op, pid |-> group[p], cgroup |-> cgroup[group[p]], parent |-> p,
     child |-> child, owner |-> owner[p]]

\* An event that finds the ring full is lost.
Submit(e) == ring' = IF Len(ring) < RingCapacity THEN Append(ring, e) ELSE ring

\* Task p starts a process (it becomes its own group) or a thread.
ForkTask(p, c, o, thread) ==
    /\ Running(p)
    /\ owner[c] = "free"
    /\ owner' = [owner EXCEPT ![c] = o]
    /\ group' = [group EXCEPT ![c] = IF thread THEN group[p] ELSE c]
    /\ cgroup' = [cgroup EXCEPT ![c] = cgroup[group[p]]]
    /\ Submit(Event("fork", p, c))

Fork(p, c, thread) ==
    /\ ForkTask(p, c, owner[p], thread)
    /\ UNCHANGED <<coordinator, control, registry, emitted>>

\* Where an identifier goes when its task is gone.
Recycled == IF PidReuse THEN "free" ELSE "dead"

\* The coordinator has yet to wait for p.
Awaited(p) == \E e \in Executions : root[e] = p /\ owner[p] = e /\ stage[e] \notin {"reaped", "over"}

\* The exit tracepoint fires for every task and names its process.  The
\* identifier of a process is held until its last task is gone and the process
\* has been waited for.
Exit(p) ==
    /\ Running(p)
    /\ p # HostPid
    /\ \A q \in Pids : q # p /\ Running(q) => group[q] # p
    /\ owner' = [owner EXCEPT ![p] = IF Awaited(p) THEN "zombie" ELSE Recycled]
    /\ Submit(Event("exit", p, p))
    /\ UNCHANGED <<group, cgroup, coordinator, control, registry, emitted>>

\* A file or socket is used.
Access(p) ==
    /\ Running(p)
    /\ Submit(Event("access", p, p))
    /\ UNCHANGED <<kernel, coordinator, control, registry, emitted>>
-----------------------------------------------------------------------------
(***************************************************************************)
(* Coordinator: executeOne, CgroupTracer.Register and its cleanup.         *)
(***************************************************************************)

Start(e, p) ==
    /\ stage[e] = "idle"
    /\ ForkTask(HostPid, p, e, FALSE)
    /\ stage' = [stage EXCEPT ![e] = "started"]
    /\ root' = [root EXCEPT ![e] = p]
    /\ UNCHANGED <<control, registry, emitted>>

Send(action, e) == control' = Append(control, [action |-> action, execution |-> e, pid |-> root[e]])

Announce(e) ==
    /\ stage[e] = "started"
    /\ Send("register", e)
    /\ stage' = [stage EXCEPT ![e] = "announced"]
    /\ UNCHANGED <<kernel, root, ring, registry, emitted>>

\* Writing cgroup.procs moves the process the root PID names; its children
\* stay where they are.
MoveIntoCgroup(e) ==
    /\ stage[e] = "announced"
    /\ cgroup' = IF owner[root[e]] = e THEN [cgroup EXCEPT ![root[e]] = e] ELSE cgroup
    /\ stage' = [stage EXCEPT ![e] = "placed"]
    /\ UNCHANGED <<owner, group, root, control, ring, registry, emitted>>

\* command.Wait returns: the root PID is free again.
Reap(e) ==
    /\ stage[e] = "placed"
    /\ owner[root[e]] = "zombie"
    /\ owner' = [owner EXCEPT ![root[e]] = Recycled]
    /\ stage' = [stage EXCEPT ![e] = "reaped"]
    /\ UNCHANGED <<group, cgroup, root, control, ring, registry, emitted>>

\* The execution is unregistered, after Wait; or before, when the process could
\* not be moved into the cgroup.
Withdraw(e) ==
    /\ stage[e] \in {"announced", "reaped"}
    /\ Send("unregister", e)
    /\ owner' = IF owner[root[e]] = "zombie" THEN [owner EXCEPT ![root[e]] = Recycled] ELSE owner
    /\ stage' = [stage EXCEPT ![e] = "over"]
    /\ UNCHANGED <<group, cgroup, root, ring, registry, emitted>>
-----------------------------------------------------------------------------
(***************************************************************************)
(* Control server and registry.                                            *)
(***************************************************************************)

Register(m) ==
    /\ cgroups' = cgroups \cup {m.execution}
    /\ processes' = [processes EXCEPT ![m.pid] = m.execution]
    /\ UNCHANGED parents

\* Faulty unregister: the processes of the execution are kept.
UnregisterCgroup(m) ==
    /\ cgroups' = cgroups \ {m.execution}
    /\ UNCHANGED <<processes, parents>>

\* Of the parent links, those of processes still attributed are kept.
Unregister(m) ==
    LET kept == [p \in Pids |-> IF processes[p] = m.execution THEN None ELSE processes[p]]
        live == {p \in Pids : kept[p] # None}
    IN  /\ cgroups' = cgroups \ {m.execution}
        /\ processes' = kept
        /\ parents' = [p \in Pids |-> IF p \in live \/ parents[p] \in live THEN parents[p] ELSE 0]

Unregistering(e) ==
    \E i \in DOMAIN control : control[i].execution = e /\ control[i].action = "unregister"

\* Any message may be the next one: nothing orders the connections' tasks.
HandleControl(i) ==
    /\ late' = late \cup {e \in Executions :
                            /\ control[i].execution = e /\ control[i].action = "register"
                            /\ stage[e] = "over" /\ ~Unregistering(e)}
    /\ IF control[i].action = "register" THEN Register(control[i]) ELSE Unregister(control[i])
    /\ control' = RemoveAt(control, i)
    /\ UNCHANGED <<kernel, coordinator, ring, emitted>>
-----------------------------------------------------------------------------
(***************************************************************************)
(* The poll loop of run_ebpf.                                              *)
(***************************************************************************)

\* Ancestry of p, itself first, 0 when it ends.
Ancestor(links, p) ==
    LET up[i \in 0 .. MaxDepth - 1] ==
            IF i = 0 THEN p ELSE IF up[i - 1] = 0 THEN 0 ELSE links[up[i - 1]]
    IN  up

\* The cgroup decides, then the closest attributed ancestor.
Resolve(owners, links, cg, p) ==
    LET up == Ancestor(links, p)
        hits == {i \in DOMAIN up : up[i] # 0 /\ owners[up[i]] # None}
    IN  IF cg \in cgroups THEN cg
        ELSE IF hits = {} THEN None
        ELSE owners[up[CHOOSE i \in hits : \A j \in hits : i <= j]]

\* Faulty fork: parent and child are mistaken for each other.
ForkSwapped(e) ==
    IF e.op # "fork" THEN <<processes, parents>>
    ELSE <<IF processes[e.child] = None THEN processes
              ELSE [processes EXCEPT ![e.parent] = processes[e.child]],
           [parents EXCEPT ![e.parent] = e.child]>>

\* The processes and parents after a fork event: the child inherits the
\* execution its parent is attributed to.
AfterFork(e) ==
    IF e.op # "fork" THEN <<processes, parents>>
    ELSE <<IF processes[e.parent] = None THEN processes
              ELSE [processes EXCEPT ![e.child] = processes[e.parent]],
           [parents EXCEPT ![e.child] = e.parent]>>

\* An event nobody is registered for is counted and skipped, an exit too.
SkipEvent ==
    /\ ring # <<>>
    /\ LET e == Head(ring)
           forked == AfterFork(e)
       IN  /\ Resolve(forked[1], forked[2], e.cgroup, e.pid) = None
           /\ processes' = forked[1]
           /\ parents' = forked[2]
    /\ ring' = Tail(ring)
    /\ UNCHANGED <<kernel, coordinator, control, cgroups, late, emitted>>

\* An exit removes the process; the event goes to the writer, unless it is
\* filtered or the writer's queue is full.
AttributeEvent ==
    /\ ring # <<>>
    /\ LET e == Head(ring)
           forked == AfterFork(e)
           found == Resolve(forked[1], forked[2], e.cgroup, e.pid)
       IN  /\ found # None
           /\ processes' = IF e.op = "exit" THEN [forked[1] EXCEPT ![e.pid] = None] ELSE forked[1]
           /\ parents' = IF e.op = "exit" THEN [forked[2] EXCEPT ![e.pid] = 0] ELSE forked[2]
           /\ emitted' \in {emitted, emitted \cup {[execution |-> found, owner |-> e.owner]}}
    /\ ring' = Tail(ring)
    /\ UNCHANGED <<kernel, coordinator, control, cgroups, late>>

Next ==
    \/ \E p, c \in Pids, thread \in BOOLEAN : Fork(p, c, thread)
    \/ \E p \in Pids : Exit(p) \/ Access(p)
    \/ \E e \in Executions :
          \/ \E p \in Pids : Start(e, p)
          \/ Announce(e) \/ MoveIntoCgroup(e) \/ Reap(e) \/ Withdraw(e)
    \/ \E i \in DOMAIN control : HandleControl(i)
    \/ SkipEvent
    \/ AttributeEvent

Spec == Init /\ [][Next]_vars
-----------------------------------------------------------------------------
(***************************************************************************)
(* Properties.                                                             *)
(***************************************************************************)

\* No event is assigned to a test that did not cause it
\* (docs/tracing.md:20), whatever is lost, delayed or handled out of order.
NeverMisattributed == \A a \in emitted : a.execution = a.owner

Pending(e) == \E i \in DOMAIN control : control[i].execution = e

Mapped(e) == e \in cgroups \/ \E p \in Pids : processes[p] = e

\* docs/tracing.md:20 "An unregister message removes the execution mapping
\* after its process exits.": when all messages of an execution are handled,
\* the tracer keeps no mapping to it, and no event still in the ring brings one
\* back; except that it keeps one for good when the tasks of the two
\* connections handled the messages in the wrong order (main.rs:174).
UnregisterRemovesMapping ==
    \A e \in Executions : stage[e] = "over" /\ ~Pending(e) => (Mapped(e) <=> e \in late)
=============================================================================
