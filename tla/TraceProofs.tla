----------------------------- MODULE TraceProofs -----------------------------
(***************************************************************************)
(* Proofs about the trace pipeline, for every set of events and every      *)
(* capacity of the queue.                                                  *)
(*                                                                         *)
(* The event sink implements LossyLog: however submits, the writer, its    *)
(* failures, a concurrent close and the end of the process interleave,     *)
(* events reach the file in order and at most once, and close returns only *)
(* when all before its sentinel are in.  The replay normalises the lines a *)
(* second time without losing or confusing any that end in no blank; the   *)
(* graph says what the replayed events say; and a conflict between two     *)
(* accepted events is a prediction in the end.                             *)
(***************************************************************************)
EXTENDS TracePipeline, FiniteSetTheorems, TLAPS

(***************************************************************************)
(* Induction over the naturals, stated about sets.                         *)
(***************************************************************************)

\* Every nonempty set of naturals has a least element.
LEMMA LeastNat ==
    ASSUME NEW T \in SUBSET Nat, T # {}
    PROVE  \E m \in T : \A n \in T : m <= n
<1> DEFINE R == {ss \in Nat \X Nat : ss[1] < ss[2]}
<1>1. IsWellFoundedOn(R, Nat)
  BY NatLessThanWellFounded DEF OpToRel
<1>2. PICK m \in T : \A n \in T : ~(<<n, m>> \in R)
  <2> HIDE DEF R
  <2> QED  BY <1>1, WFMin, Zenon
<1>3. \A n \in T : m <= n
  <2> TAKE n \in T
  <2>1. n \in Nat /\ m \in Nat  OBVIOUS
  <2>2. ASSUME n < m PROVE FALSE
    <3>1. <<n, m>> \in Nat \X Nat  BY <2>1
    <3>2. <<n, m>>[1] < <<n, m>>[2]  BY <2>2
    <3>3. <<n, m>> \in R  BY <3>1, <3>2, Zenon
    <3> QED  BY <3>3, <1>2
  <2> QED  BY <2>1, <2>2
<1> QED  BY <1>3

\* A set that holds 0 and the successor of each of its elements holds Nat.
LEMMA SetInduction ==
    ASSUME NEW T \in SUBSET Nat, 0 \in T, \A n \in T : n + 1 \in T
    PROVE  Nat \subseteq T
<1>1. ASSUME Nat \ T # {} PROVE FALSE
  <2>1. PICK m \in Nat \ T : \A n \in Nat \ T : m <= n
    <3>1. Nat \ T \in SUBSET Nat  OBVIOUS
    <3> QED  BY <1>1, <3>1, LeastNat
  <2>2. m - 1 \in Nat /\ m - 1 < m  BY <2>1
  <2>3. m - 1 \in T  BY <2>1, <2>2
  <2>4. (m - 1) + 1 = m  BY <2>1
  <2> QED  BY <2>1, <2>3, <2>4
<1> QED  BY <1>1
-----------------------------------------------------------------------------
\* The lines the writer may write.
Written ==
    {normalize_event(e, SinkPrefixes) : e \in {f \in Events : normalize_event(f, SinkPrefixes).ident # Nothing}}

SinkTypes ==
    /\ queue \in Seq(Events \cup {Sentinel})
    /\ accepted \in Seq(Events)
    /\ lines \in Seq(Written)
    /\ taken \in Nat /\ limit \in Nat
    /\ writer \in {"running", "done", "failed"}
    /\ closer \in {"open", "putting", "joining", "closed", "raised"}
    /\ alive \in BOOLEAN

\* The sentinel is not in the queue yet.
Unclosed == closer \in {"open", "putting"}

\* While the writer runs, the queue holds what was accepted and not taken, in
\* order; the sentinel stands behind the limit.
OpenOrder ==
    writer = "running" /\ Unclosed =>
        /\ Len(accepted) = taken + Len(queue)
        /\ \A i \in 1 .. Len(queue) : queue[i] = accepted[taken + i]

ClosingOrder ==
    writer = "running" /\ ~Unclosed =>
        /\ taken <= limit /\ limit <= Len(accepted)
        /\ Len(queue) > limit - taken
        /\ \A i \in 1 .. limit - taken : queue[i] = accepted[taken + i]
        /\ queue[limit - taken + 1] = Sentinel

\* A writer that saw the sentinel has taken and stored all before it.
DoneInv ==
    /\ writer = "done" => ~Unclosed /\ taken = limit /\ file = lines
    /\ closer = "closed" => writer = "done"

SinkInv == SinkTypes /\ OpenOrder /\ ClosingOrder /\ DoneInv
-----------------------------------------------------------------------------
(***************************************************************************)
(* The invariant of the sink.                                              *)
(***************************************************************************)

\* An event gives a line, or none.
LEMMA NormalizedIsSeq ==
    ASSUME NEW e \in Events
    PROVE  Recorded(e) \in Seq(Written)
<1>1. normalize_event(e, SinkPrefixes).ident # Nothing => normalize_event(e, SinkPrefixes) \in Written
  BY DEF Written
<1> QED
  BY <1>1 DEF Normalized, Recorded

\* Neither the sentinel nor a torn line is an event.
LEMMA MarksAreNoEvents == Sentinel \notin Events /\ TornLine \notin Events
<1>1. Sentinel.at = 0 /\ TornLine.at = 0
  BY DEF Sentinel, TornLine, Line
<1>2. \A e \in Events : e.at # 0
  BY TraceCaptureAssumption DEF EventType
<1> QED
  BY <1>1, <1>2

\* What stands at the head of the queue.
LEMMA HeadOfQueue ==
    ASSUME SinkInv, CanTake
    PROVE  /\ Len(queue) \in Nat \ {0} /\ Head(queue) = queue[1]
           /\ Unclosed => taken < Len(accepted)
           /\ Unclosed \/ taken < limit => Head(queue) = accepted[taken + 1] /\ Head(queue) \in Events
           /\ ~Unclosed => (Head(queue) = Sentinel <=> taken = limit)
           /\ Unclosed => Head(queue) # Sentinel
           /\ ~Unclosed => taken <= limit /\ limit <= Len(accepted)
<1>1. Len(queue) \in Nat \ {0} /\ Head(queue) = queue[1] /\ Len(accepted) \in Nat /\ taken \in Nat /\ limit \in Nat
  BY DEF SinkInv, SinkTypes, CanTake
<1>2. \A i \in 1 .. Len(accepted) : accepted[i] \in Events
  BY DEF SinkInv, SinkTypes
<1>3. writer = "running"
  BY DEF CanTake
<1>4. CASE Unclosed
  <2>1. Len(accepted) = taken + Len(queue) /\ queue[1] = accepted[taken + 1]
    BY <1>1, <1>3, <1>4 DEF SinkInv, OpenOrder
  <2>2. taken < Len(accepted) /\ taken + 1 \in 1 .. Len(accepted)
    BY <1>1, <2>1
  <2> QED
    BY <1>1, <1>2, <1>4, <2>1, <2>2, MarksAreNoEvents
<1>5. CASE ~Unclosed
  <2>1. /\ taken <= limit /\ limit <= Len(accepted)
        /\ taken < limit => queue[1] = accepted[taken + 1]
        /\ taken = limit => queue[1] = Sentinel
    BY <1>1, <1>3, <1>5 DEF SinkInv, ClosingOrder
  <2>2. taken < limit => accepted[taken + 1] \in Events
    BY <1>1, <1>2, <2>1
  <2> QED
    BY <1>1, <1>5, <2>1, <2>2, MarksAreNoEvents
<1> QED
  BY <1>4, <1>5

\* The invariant holds when the sink is opened.
LEMMA SinkStart == Init => SinkInv
  BY DEF Init, SinkInit, SinkInv, SinkTypes, OpenOrder, ClosingOrder, DoneInv, Unclosed

\* Accepting an event.
LEMMA SubmitInv ==
    ASSUME SinkInv, NEW e \in Events, Submit(e)
    PROVE  SinkInv'
<1>1. UNCHANGED <<writer, lines, file, closer, alive, limit, taken>>
  BY DEF Submit
<1>2. CASE UNCHANGED <<queue, accepted>>
  BY <1>1, <1>2 DEF SinkInv, SinkTypes, OpenOrder, ClosingOrder, DoneInv, Unclosed
<1>3. CASE queue' = Append(queue, e) /\ accepted' = Append(accepted, e)
  <2>1. /\ queue \in Seq(Events \cup {Sentinel}) /\ accepted \in Seq(Events)
        /\ queue' \in Seq(Events \cup {Sentinel}) /\ accepted' \in Seq(Events)
        /\ Len(queue') = Len(queue) + 1 /\ Len(accepted') = Len(accepted) + 1
        /\ \A i \in 1 .. Len(queue) : queue'[i] = queue[i]
        /\ \A i \in 1 .. Len(accepted) : accepted'[i] = accepted[i]
        /\ queue'[Len(queue) + 1] = e /\ accepted'[Len(accepted) + 1] = e
        /\ Len(queue) \in Nat /\ Len(accepted) \in Nat /\ taken \in Nat /\ limit \in Nat
    BY <1>3 DEF SinkInv, SinkTypes
  <2>2. SinkTypes' /\ DoneInv'
    BY <1>1, <2>1 DEF SinkInv, SinkTypes, DoneInv, Unclosed
  <2>3. OpenOrder'
    <3> SUFFICES ASSUME writer = "running", Unclosed, NEW i \in 1 .. Len(queue) + 1
                 PROVE  /\ Len(accepted') = taken + Len(queue')
                        /\ queue'[i] = accepted'[taken + i]
      BY <1>1, <2>1 DEF OpenOrder, Unclosed
    <3>1. Len(accepted) = taken + Len(queue) /\ \A j \in 1 .. Len(queue) : queue[j] = accepted[taken + j]
      BY DEF SinkInv, OpenOrder
    <3>2. CASE i = Len(queue) + 1
      BY <2>1, <3>1, <3>2
    <3>3. CASE i \in 1 .. Len(queue)
      BY <2>1, <3>1, <3>3
    <3> QED
      BY <2>1, <3>1, <3>2, <3>3
  <2>4. ClosingOrder'
    <3> SUFFICES ASSUME writer = "running", ~Unclosed
                 PROVE  /\ taken <= limit /\ limit <= Len(accepted')
                        /\ Len(queue') > limit - taken
                        /\ \A i \in 1 .. limit - taken : queue'[i] = accepted'[taken + i]
                        /\ queue'[limit - taken + 1] = Sentinel
      BY <1>1 DEF ClosingOrder, Unclosed
    <3>1. /\ taken <= limit /\ limit <= Len(accepted)
          /\ Len(queue) > limit - taken
          /\ \A i \in 1 .. limit - taken : queue[i] = accepted[taken + i]
          /\ queue[limit - taken + 1] = Sentinel
      BY DEF SinkInv, ClosingOrder
    <3>2. ASSUME NEW i \in 1 .. limit - taken PROVE queue'[i] = accepted'[taken + i]
      <4>1. i \in 1 .. Len(queue) /\ taken + i \in 1 .. Len(accepted)
        BY <2>1, <3>1
      <4> QED
        BY <2>1, <3>1, <4>1
    <3>3. limit - taken + 1 \in 1 .. Len(queue)
      BY <2>1, <3>1, SMTT(30)
    <3>4. queue'[limit - taken + 1] = queue[limit - taken + 1]
      BY <2>1, <3>3
    <3>5. limit <= Len(accepted') /\ Len(queue') > limit - taken
      BY <2>1, <3>1
    <3> QED
      BY <3>1, <3>2, <3>4, <3>5
  <2> QED
    BY <2>2, <2>3, <2>4 DEF SinkInv
<1> QED
  BY <1>2, <1>3 DEF Submit

\* The writer takes an event: the queue moves up.
LEMMA ConsumeInv ==
    ASSUME SinkInv, Consume
    PROVE  SinkInv'
<1>1. /\ CanTake /\ Head(queue) # Sentinel /\ queue' = Tail(queue) /\ taken' = taken + 1
      /\ lines' = lines \o Recorded(Head(queue))
      /\ UNCHANGED <<closer, alive, accepted, limit, writer, file>>
      /\ writer = "running"
  BY DEF Consume, Took, CanTake
<1>2. /\ queue \in Seq(Events \cup {Sentinel}) /\ queue # <<>>
      /\ queue' \in Seq(Events \cup {Sentinel}) /\ Len(queue') = Len(queue) - 1
      /\ \A i \in 1 .. Len(queue) - 1 : queue'[i] = queue[i + 1]
      /\ Len(queue) \in Nat /\ Len(accepted) \in Nat /\ taken \in Nat /\ limit \in Nat
  BY <1>1 DEF SinkInv, SinkTypes, CanTake
<1>3. Head(queue) \in Events /\ (~Unclosed => taken < limit)
  BY <1>1, <1>2, HeadOfQueue
<1>4. SinkTypes'
  <2>1. lines' \in Seq(Written)
    BY <1>1, <1>3, NormalizedIsSeq DEF SinkInv, SinkTypes
  <2> QED
    BY <1>1, <1>2, <2>1 DEF SinkInv, SinkTypes
<1>5. OpenOrder'
  <2> SUFFICES ASSUME Unclosed
               PROVE  /\ Len(accepted) = taken + 1 + Len(queue')
                      /\ \A i \in 1 .. Len(queue') : queue'[i] = accepted[taken + 1 + i]
    BY <1>1 DEF OpenOrder, Unclosed
  <2>1. Len(accepted) = taken + Len(queue) /\ \A j \in 1 .. Len(queue) : queue[j] = accepted[taken + j]
    BY <1>1 DEF SinkInv, OpenOrder
  <2>2. ASSUME NEW i \in 1 .. Len(queue') PROVE queue'[i] = accepted[taken + 1 + i]
    <3>1. i \in 1 .. Len(queue) - 1 /\ i + 1 \in 1 .. Len(queue) /\ taken + (i + 1) = taken + 1 + i
      BY <1>2
    <3> QED
      BY <1>2, <2>1, <3>1
  <2> QED
    BY <1>2, <2>1, <2>2
<1>6. ClosingOrder'
  <2> SUFFICES ASSUME ~Unclosed
               PROVE  /\ taken + 1 <= limit /\ limit <= Len(accepted)
                      /\ Len(queue') > limit - (taken + 1)
                      /\ \A i \in 1 .. limit - (taken + 1) : queue'[i] = accepted[taken + 1 + i]
                      /\ queue'[limit - (taken + 1) + 1] = Sentinel
    BY <1>1 DEF ClosingOrder, Unclosed
  <2>1. /\ limit <= Len(accepted)
        /\ Len(queue) > limit - taken
        /\ \A i \in 1 .. limit - taken : queue[i] = accepted[taken + i]
        /\ queue[limit - taken + 1] = Sentinel
    BY <1>1 DEF SinkInv, ClosingOrder
  <2>2. ASSUME NEW i \in 1 .. limit - (taken + 1) PROVE queue'[i] = accepted[taken + 1 + i]
    <3>1. i \in 1 .. Len(queue) - 1 /\ i + 1 \in 1 .. limit - taken /\ taken + (i + 1) = taken + 1 + i
      BY <1>2, <2>1
    <3> QED
      BY <1>2, <2>1, <3>1
  <2>3. queue'[limit - (taken + 1) + 1] = Sentinel
    <3>1. limit - taken \in 1 .. Len(queue) - 1 /\ limit - (taken + 1) + 1 = limit - taken
      BY <1>2, <1>3, <2>1
    <3>2. queue'[limit - taken] = queue[limit - taken + 1]
      BY <1>2, <3>1
    <3> QED
      BY <2>1, <3>1, <3>2
  <2> QED
    BY <1>2, <1>3, <2>1, <2>2, <2>3
<1>7. DoneInv'
  BY <1>1 DEF SinkInv, DoneInv
<1> QED
  BY <1>4, <1>5, <1>6, <1>7 DEF SinkInv

\* The writer ends.
LEMMA WriterEndsInv ==
    ASSUME SinkInv, NormalizerRaises \/ WriteFails \/ Stop
    PROVE  SinkInv'
<1>1. /\ UNCHANGED <<lines, closer, alive, accepted, limit, taken>> /\ writer = "running"
      /\ writer' \in {"failed", "done"}
      /\ closer # "closed"
  BY DEF NormalizerRaises, WriteFails, Stop, CanTake, history, SinkInv, DoneInv
<1>2. queue' \in Seq(Events \cup {Sentinel})
  <2>1. queue \in Seq(Events \cup {Sentinel})
    BY DEF SinkInv, SinkTypes
  <2>2. queue' = queue \/ (queue # <<>> /\ queue' = Tail(queue))
    BY DEF NormalizerRaises, WriteFails, Stop, CanTake
  <2> QED
    BY <2>1, <2>2
<1>3. writer' = "done" => ~Unclosed /\ taken = limit /\ file' = lines
  <2> SUFFICES ASSUME Stop PROVE ~Unclosed /\ taken = limit /\ file' = lines
    BY <1>1 DEF NormalizerRaises, WriteFails
  <2>1. CanTake /\ Head(queue) = Sentinel /\ file' = lines
    BY DEF Stop
  <2> QED
    BY <2>1, HeadOfQueue
<1> QED
  BY <1>1, <1>2, <1>3 DEF SinkInv, SinkTypes, OpenOrder, ClosingOrder, DoneInv, Unclosed

\* The steps of close and the end of the process.
LEMMA CloseInv ==
    ASSUME SinkInv, CallClose \/ PutSentinel \/ Join \/ JoinTimesOut \/ Exit
    PROVE  SinkInv'
<1>1. CASE PutSentinel
  <2>1. /\ closer = "putting" /\ closer' = "joining" /\ queue' = Append(queue, Sentinel) /\ limit' = Len(accepted)
        /\ UNCHANGED <<writer, lines, file, alive, accepted, taken>>
    BY <1>1 DEF PutSentinel
  <2>2. /\ queue \in Seq(Events \cup {Sentinel}) /\ queue' \in Seq(Events \cup {Sentinel})
        /\ Len(queue') = Len(queue) + 1
        /\ \A i \in 1 .. Len(queue) : queue'[i] = queue[i]
        /\ queue'[Len(queue) + 1] = Sentinel
        /\ Len(queue) \in Nat /\ Len(accepted) \in Nat /\ taken \in Nat
    BY <2>1 DEF SinkInv, SinkTypes
  <2>3. SinkTypes' /\ OpenOrder' /\ DoneInv'
    BY <2>1, <2>2 DEF SinkInv, SinkTypes, OpenOrder, DoneInv, Unclosed
  <2>4. ClosingOrder'
    <3> SUFFICES ASSUME writer = "running"
                 PROVE  /\ taken <= Len(accepted)
                        /\ Len(queue') > Len(accepted) - taken
                        /\ \A i \in 1 .. Len(accepted) - taken : queue'[i] = accepted[taken + i]
                        /\ queue'[Len(accepted) - taken + 1] = Sentinel
      BY <2>1, <2>2 DEF ClosingOrder
    <3>1. Len(accepted) = taken + Len(queue) /\ \A j \in 1 .. Len(queue) : queue[j] = accepted[taken + j]
      BY <2>1 DEF SinkInv, OpenOrder, Unclosed
    <3>2. Len(accepted) - taken = Len(queue)
      BY <2>2, <3>1
    <3> QED
      BY <2>2, <3>1, <3>2
  <2> QED
    BY <2>3, <2>4 DEF SinkInv
<1>2. CASE CallClose
  BY <1>2 DEF CallClose, history, SinkInv, SinkTypes, OpenOrder, ClosingOrder, DoneInv, Unclosed
<1>3. CASE Join \/ JoinTimesOut
  BY <1>3 DEF Join, JoinTimesOut, history, SinkInv, SinkTypes, OpenOrder, ClosingOrder, DoneInv, Unclosed
<1>4. CASE Exit
  BY <1>4 DEF Exit, history, SinkInv, SinkTypes, OpenOrder, ClosingOrder, DoneInv, Unclosed
<1> QED
  BY <1>1, <1>2, <1>3, <1>4

\* The replay only reads what the sink wrote.
LEMMA NextIsSinkStep == [Next]_vars => SinkStep \/ UNCHANGED sinkVars
  BY DEF Next, Capture, StartReplay, ReadEvents, Judge, Build, Truncate, WriteLatest, Over, vars

\* Every step of the pipeline keeps the invariant of the sink.
LEMMA SinkStepInv == SinkInv /\ [Next]_vars => SinkInv'
<1> SUFFICES ASSUME SinkInv, SinkStep \/ UNCHANGED sinkVars PROVE SinkInv'
  BY NextIsSinkStep
<1>1. CASE UNCHANGED sinkVars
  BY <1>1 DEF sinkVars, history, SinkInv, SinkTypes, OpenOrder, ClosingOrder, DoneInv, Unclosed
<1>2. CASE SinkStep
  BY <1>2, SubmitInv, ConsumeInv, WriterEndsInv, CloseInv DEF SinkStep, WriterStep, CloserStep
<1> QED
  BY <1>1, <1>2

\* The queue keeps the order of the accepted events, and a writer that saw the
\* sentinel has stored all before it.
THEOREM SinkInvariant == Spec => []SinkInv
  BY SinkStart, SinkStepInv, PTL DEF Spec
-----------------------------------------------------------------------------
(***************************************************************************)
(* The sink implements LossyLog.                                           *)
(***************************************************************************)

\* The whole of the lines is one of the things a file may hold.
LEMMA AllRemains ==
    ASSUME SinkInv
    PROVE  /\ lines \in Remains
           /\ Promise!Remains(lines) = Remains
<1>1. lines \in Seq(Written)
  BY DEF SinkInv, SinkTypes
<1>2. lines = SubSeq(lines, 1, Len(lines)) /\ Len(lines) \in 0 .. Len(lines)
  BY <1>1, SMTT(30)
<1>3. lines \in Remains
  BY <1>2 DEF Remains
<1>4. Promise!Remains(lines) = Remains
  BY DEF Remains, Promise!Remains
<1> QED
  BY <1>3, <1>4

\* The state of the log while the process lives.
LEMMA LogStates ==
    ASSUME SinkInv
    PROVE  /\ closer = "closed" => LogState = "complete"
           /\ closer = "raised" => LogState = "failed"
           /\ closer # "closed" /\ ~alive => LogState = "failed"
           /\ closer = "joining" /\ alive => LogState = "closing"
           /\ Unclosed /\ alive => LogState = "open"
  BY DEF LogState, Unclosed

\* What the log's state is in the next state.
LEMMA LogStatesNext ==
    ASSUME SinkInv'
    PROVE  /\ closer' = "closed" => LogState' = "complete"
           /\ closer' = "raised" => LogState' = "failed"
           /\ closer' # "closed" /\ ~alive' => LogState' = "failed"
           /\ closer' = "joining" /\ alive' => LogState' = "closing"
           /\ Unclosed' /\ alive' => LogState' = "open"
  BY DEF LogState, Unclosed

\* Every step of the sink is a step of the log, or is none of its business.
LEMMA SinkStepIsLogStep ==
    ASSUME SinkInv, SinkInv', SinkStep
    PROVE  [Promise!LogNext]_(Promise!logVars)
<1> USE DEF Promise!logVars
<1>1. ASSUME NEW e \in Events, Submit(e) PROVE Promise!LogNext \/ UNCHANGED Promise!logVars
  <2>1. /\ UNCHANGED <<lines, file, closer, alive, limit, taken>> /\ alive /\ closer \notin {"closed", "raised"}
        /\ accepted' = Append(accepted, e) \/ accepted' = accepted
    BY <1>1 DEF Submit, Closed
  <2>2. LogState' = LogState
    BY <2>1 DEF LogState
  <2>3. LogState \in {"open", "closing"}
    BY <2>1, LogStates DEF SinkInv, SinkTypes, Unclosed
  <2>4. CASE accepted' = accepted
    BY <2>1, <2>2, <2>4
  <2>5. CASE accepted' = Append(accepted, e)
    <3>1. Promise!Accept(e)
      BY <2>1, <2>2, <2>3, <2>5 DEF Promise!Accept
    <3> QED
      BY <3>1 DEF Promise!LogNext
  <2> QED
    BY <2>1, <2>4, <2>5
<1>2. ASSUME Consume PROVE Promise!LogNext
  <2>1. /\ CanTake /\ Head(queue) # Sentinel /\ taken' = taken + 1
        /\ lines' = lines \o Recorded(Head(queue))
        /\ UNCHANGED <<closer, alive, accepted, limit, file>>
    BY <1>2 DEF Consume, Took
  <2>2. /\ Head(queue) = accepted[taken + 1] /\ taken < Len(accepted)
        /\ ~Unclosed => taken < limit
    <3>1. taken \in Nat /\ limit \in Nat /\ Len(accepted) \in Nat
      BY DEF SinkInv, SinkTypes
    <3> QED
      BY <2>1, <3>1, HeadOfQueue
  <2>3. LogState' = LogState /\ (LogState # "open" => ~Unclosed)
    BY <2>1, LogStates DEF LogState, CanTake
  <2>4. Promise!Take
    BY <2>1, <2>2, <2>3 DEF Promise!Take
  <2> QED
    BY <2>4 DEF Promise!LogNext
<1>3. ASSUME NormalizerRaises \/ WriteFails \/ Stop PROVE Promise!LogNext
  <2>1. UNCHANGED <<lines, closer, alive, accepted, limit, taken>> /\ file' \in Remains
    BY <1>3, AllRemains DEF NormalizerRaises, WriteFails, Stop, history
  <2>2. LogState' = LogState
    BY <2>1 DEF LogState
  <2>3. Promise!Store
    BY <2>1, <2>2, AllRemains DEF Promise!Store
  <2> QED
    BY <2>3 DEF Promise!LogNext
<1>4. ASSUME CallClose PROVE UNCHANGED Promise!logVars
  <2>1. UNCHANGED <<lines, file, alive, accepted, limit, taken>> /\ alive /\ closer = "open" /\ closer' = "putting"
    BY <1>4 DEF CallClose, history
  <2>2. LogState' = LogState
    BY <2>1, LogStates, LogStatesNext DEF Unclosed
  <2> QED
    BY <2>1, <2>2
<1>5. ASSUME PutSentinel PROVE Promise!LogNext
  <2>1. /\ UNCHANGED <<lines, file, alive, accepted, taken>> /\ alive /\ closer = "putting" /\ closer' = "joining"
        /\ limit' = Len(accepted)
    BY <1>5 DEF PutSentinel
  <2>2. LogState = "open" /\ LogState' = "closing"
    BY <2>1, LogStates, LogStatesNext DEF Unclosed
  <2>3. Promise!DrawLine
    BY <2>1, <2>2 DEF Promise!DrawLine
  <2> QED
    BY <2>3 DEF Promise!LogNext
<1>6. ASSUME Join \/ JoinTimesOut PROVE Promise!LogNext
  <2>1. /\ UNCHANGED <<lines, file, alive, accepted, limit, taken>> /\ alive /\ closer = "joining"
        /\ \/ closer' = "raised"
           \/ closer' = "closed" /\ writer = "done"
    BY <1>6 DEF Join, JoinTimesOut, history, SinkInv, SinkTypes
  <2>2. LogState = "closing"
    BY <2>1, LogStates
  <2>3. CASE closer' = "raised"
    <3>1. LogState' = "failed"
      BY <2>3, LogStatesNext
    <3>2. Promise!Fail
      BY <2>1, <2>2, <3>1 DEF Promise!Fail
    <3> QED
      BY <3>2 DEF Promise!LogNext
  <2>4. CASE closer' = "closed" /\ writer = "done"
    <3>1. LogState' = "complete" /\ taken = limit /\ file = lines
      BY <2>4, LogStatesNext DEF SinkInv, DoneInv
    <3>2. Promise!Complete
      BY <2>1, <2>2, <3>1 DEF Promise!Complete
    <3> QED
      BY <3>2 DEF Promise!LogNext
  <2> QED
    BY <2>1, <2>3, <2>4
<1>7. ASSUME Exit PROVE Promise!LogNext \/ UNCHANGED Promise!logVars
  <2>1. /\ UNCHANGED <<lines, closer, accepted, limit, taken>> /\ alive /\ ~alive'
        /\ file' \in {file} \cup Remains
        /\ writer # "running" => file' = file
    BY <1>7 DEF Exit, history
  <2>2. CASE closer = "closed"
    <3>1. LogState = "complete" /\ LogState' = "complete" /\ file' = file
      BY <2>1, <2>2, LogStates, LogStatesNext DEF SinkInv, DoneInv
    <3> QED
      BY <2>1, <3>1
  <2>3. CASE closer = "raised"
    <3>1. LogState' = LogState
      BY <2>1, <2>3, LogStates, LogStatesNext
    <3>2. CASE file' = file
      BY <2>1, <3>1, <3>2
    <3>3. CASE file' \in Remains
      <4>1. Promise!Store
        BY <2>1, <3>1, <3>3, AllRemains DEF Promise!Store
      <4> QED
        BY <4>1 DEF Promise!LogNext
    <3> QED
      BY <2>1, <3>2, <3>3
  <2>4. CASE closer \notin {"closed", "raised"}
    <3>1. LogState \in {"open", "closing"} /\ LogState' = "failed"
      BY <2>1, <2>4, LogStates, LogStatesNext DEF SinkInv, SinkTypes, Unclosed
    <3>2. Promise!Fail
      BY <2>1, <3>1, AllRemains DEF Promise!Fail
    <3> QED
      BY <3>2 DEF Promise!LogNext
  <2> QED
    BY <2>2, <2>3, <2>4
<1> QED
  BY <1>1, <1>2, <1>3, <1>4, <1>5, <1>6, <1>7 DEF SinkStep, WriterStep, CloserStep

\* The trace sink keeps the promise of LossyLog: order, no duplicates, nothing
\* behind the closing line, and completion only with everything stored.
THEOREM SinkKeepsPromise == Spec => ImplementsLossyLog
<1>1. Init => Promise!LogInit
  BY DEF Init, SinkInit, LogState, Promise!LogInit
<1>2. SinkInv /\ SinkInv' /\ [Next]_vars => [Promise!LogNext]_(Promise!logVars)
  <2> SUFFICES ASSUME SinkInv, SinkInv', [Next]_vars PROVE [Promise!LogNext]_(Promise!logVars)
    OBVIOUS
  <2>1. CASE SinkStep
    BY <2>1, SinkStepIsLogStep
  <2>2. CASE UNCHANGED sinkVars
    <3>1. UNCHANGED <<lines, file, closer, alive, accepted, limit, taken>>
      BY <2>2 DEF sinkVars, history
    <3>2. LogState' = LogState
      BY <3>1 DEF LogState
    <3> QED
      BY <3>1, <3>2 DEF Promise!logVars
  <2> QED
    BY <2>1, <2>2, NextIsSinkStep
<1>3. Spec => Promise!LogSpec
  BY <1>1, <1>2, SinkInvariant, PTL DEF Spec, Promise!LogSpec
<1> QED
  BY <1>3 DEF ImplementsLossyLog
-----------------------------------------------------------------------------
(***************************************************************************)
(* Sequences: leaving out elements, walking a path.                        *)
(***************************************************************************)

\* The recursive definition of Without has a solution.
LEMMA WithoutRecursion ==
    ASSUME NEW S, NEW s \in Seq(S), NEW drop
    PROVE  \E k : /\ DOMAIN k = 0 .. Len(s) /\ k[0] = <<>>
                  /\ \A i \in 1 .. Len(s) : k[i] = IF s[i] \in drop THEN k[i - 1] ELSE Append(k[i - 1], s[i])
                  /\ Without(s, drop) = k[Len(s)]
<1> DEFINE Keep(before, i) == IF s[i] \in drop THEN before ELSE Append(before, s[i])
           Sol(k, n) == /\ DOMAIN k = 0 .. n /\ k[0] = <<>>
                        /\ \A i \in 1 .. n : k[i] = Keep(k[i - 1], i)
           Has(n) == \E k : Sol(k, n)
           T == {n \in Nat : Has(n)}
<1>0. Len(s) \in Nat  OBVIOUS
<1> HIDE DEF Keep
<1>1. 0 \in T
  <2>1. Sol([j \in 0 .. 0 |-> <<>>], 0)  OBVIOUS
  <2> QED  BY <2>1
<1>2. ASSUME NEW n \in T PROVE n + 1 \in T
  <2>1. n \in Nat /\ n + 1 \in Nat  OBVIOUS
  <2>2. PICK k : Sol(k, n)  OBVIOUS
  <2> DEFINE g == [j \in 0 .. n + 1 |-> IF j = n + 1 THEN Keep(k[n], n + 1) ELSE k[j]]
  <2>3. DOMAIN g = 0 .. n + 1 /\ g[0] = <<>>  BY <2>1, <2>2
  <2>4. \A i \in 1 .. n + 1 : g[i] = Keep(g[i - 1], i)
    <3> TAKE i \in 1 .. n + 1
    <3>1. CASE i = n + 1
      <4>1. i - 1 = n /\ n \in 0 .. n + 1 /\ n # n + 1 /\ i \in 0 .. n + 1  BY <3>1, <2>1
      <4>2. g[i - 1] = k[n] /\ g[i] = Keep(k[n], n + 1)  BY <4>1, <3>1
      <4> QED  BY <3>1, <4>2
    <3>2. CASE i # n + 1
      <4>1. i \in 1 .. n /\ i - 1 \in 0 .. n + 1 /\ i \in 0 .. n + 1 /\ i - 1 # n + 1  BY <3>2, <2>1
      <4>2. g[i] = k[i] /\ g[i - 1] = k[i - 1]  BY <3>2, <4>1
      <4> QED  BY <4>1, <4>2, <2>2
    <3> QED  BY <3>1, <3>2
  <2>5. Sol(g, n + 1)
    <3> HIDE DEF g
    <3> QED  BY <2>3, <2>4
  <2> HIDE DEF Sol
  <2> QED  BY <2>1, <2>5
<1>3. Nat \subseteq T
  <2> HIDE DEF T
  <2>1. T \in SUBSET Nat  BY DEF T
  <2> QED  BY <1>1, <1>2, <2>1, SetInduction
<1>4. PICK f : Sol(f, Len(s))
  <2> HIDE DEF Sol
  <2> QED  BY <1>0, <1>3
<1> DEFINE f1 == [i \in 0 .. Len(s) |-> f[i]]
           D(h) == h = [i \in 0 .. Len(s) |-> IF i = 0 THEN <<>> ELSE Keep(h[i - 1], i)]
<1>5. D(f1)
  <2>1. ASSUME NEW i \in 0 .. Len(s) PROVE f1[i] = IF i = 0 THEN <<>> ELSE Keep(f1[i - 1], i)
    <3>1. CASE i = 0  BY <3>1, <1>4
    <3>2. CASE i # 0
      <4>1. i \in 1 .. Len(s) /\ i - 1 \in 0 .. Len(s)  BY <3>2, <1>0
      <4>2. f1[i] = f[i] /\ f1[i - 1] = f[i - 1] /\ f[i] = Keep(f[i - 1], i)  BY <4>1, <1>4
      <4> HIDE DEF f1
      <4> QED  BY <3>2, <4>2
    <3> QED  BY <3>1, <3>2
  <2>2. f1 = [i \in 0 .. Len(s) |-> f1[i]]  OBVIOUS
  <2> HIDE DEF f1
  <2>3. [i \in 0 .. Len(s) |-> f1[i]] = [i \in 0 .. Len(s) |-> IF i = 0 THEN <<>> ELSE Keep(f1[i - 1], i)]
    BY <2>1
  <2> QED  BY <2>2, <2>3
<1>6. Without(s, drop) = (CHOOSE h : D(h))[Len(s)]
  BY DEF Without, Keep
<1>7. PICK h : h = CHOOSE g : D(g)  OBVIOUS
<1>8. D(h)
  <2> HIDE DEF D
  <2> QED  BY <1>5, <1>7
<1>9. DOMAIN h = 0 .. Len(s) /\ h[0] = <<>> /\ \A i \in 1 .. Len(s) : h[i] = Keep(h[i - 1], i)
  <2>1. \A i \in 0 .. Len(s) : h[i] = IF i = 0 THEN <<>> ELSE Keep(h[i - 1], i)  BY <1>8
  <2>2. \A i \in 1 .. Len(s) : i \in 0 .. Len(s) /\ i # 0  BY <1>0
  <2>3. 0 \in 0 .. Len(s)  BY <1>0
  <2>4. DOMAIN h = 0 .. Len(s)  BY <1>8
  <2> HIDE DEF D
  <2> QED  BY <2>1, <2>2, <2>3, <2>4
<1> HIDE DEF D, T, Has, Sol, f1
<1>10. \A i \in 1 .. Len(s) : h[i] = IF s[i] \in drop THEN h[i - 1] ELSE Append(h[i - 1], s[i])
  BY <1>9 DEF Keep
<1>11. Without(s, drop) = h[Len(s)]  BY <1>6, <1>7
<1> QED  BY <1>9, <1>10, <1>11

\* What Without leaves has none of drop, and a sequence that has none is left
\* as it is.
LEMMA WithoutFacts ==
    ASSUME NEW S, NEW s \in Seq(S), NEW drop
    PROVE  /\ Without(s, drop) \in Seq(S \ drop)
           /\ (\A i \in 1 .. Len(s) : s[i] \notin drop) => Without(s, drop) = s
<1>1. PICK k : /\ DOMAIN k = 0 .. Len(s) /\ k[0] = <<>>
               /\ \A i \in 1 .. Len(s) : k[i] = IF s[i] \in drop THEN k[i - 1] ELSE Append(k[i - 1], s[i])
               /\ Without(s, drop) = k[Len(s)]
  BY WithoutRecursion
<1>0. Len(s) \in Nat /\ \A i \in 1 .. Len(s) : s[i] \in S  OBVIOUS
<1> DEFINE T == {n \in Nat : n <= Len(s) => k[n] \in Seq(S \ drop)}
           U == {n \in Nat : n <= Len(s) => k[n] = SubSeq(s, 1, n)}
<1>2. Nat \subseteq T
  <2>1. 0 \in T
    <3>1. <<>> \in Seq(S \ drop)  OBVIOUS
    <3>2. k[0] \in Seq(S \ drop)  BY <1>1, <3>1
    <3> QED  BY <3>2
  <2>2. ASSUME NEW n \in T PROVE n + 1 \in T
    <3>1. n \in Nat /\ n + 1 \in Nat  OBVIOUS
    <3>2. ASSUME n + 1 <= Len(s) PROVE k[n + 1] \in Seq(S \ drop)
      <4>1. n + 1 \in 1 .. Len(s) /\ (n + 1) - 1 = n /\ n <= Len(s)  BY <3>1, <3>2, <1>0
      <4>2. k[n + 1] = (IF s[n + 1] \in drop THEN k[n] ELSE Append(k[n], s[n + 1])) /\ k[n] \in Seq(S \ drop)
        BY <4>1, <1>1
      <4>3. s[n + 1] \in S  BY <4>1, <1>0
      <4> HIDE DEF T
      <4> QED  BY <4>2, <4>3
    <3> QED  BY <3>1, <3>2
  <2> HIDE DEF T
  <2>3. T \in SUBSET Nat  BY DEF T
  <2> QED  BY <2>1, <2>2, <2>3, SetInduction
<1>3. ASSUME \A i \in 1 .. Len(s) : s[i] \notin drop PROVE Nat \subseteq U
  <2>1. 0 \in U
    <3>1. SubSeq(s, 1, 0) = <<>>  OBVIOUS
    <3> QED  BY <1>1, <3>1
  <2>2. ASSUME NEW n \in U PROVE n + 1 \in U
    <3>1. n \in Nat /\ n + 1 \in Nat  OBVIOUS
    <3>2. ASSUME n + 1 <= Len(s) PROVE k[n + 1] = SubSeq(s, 1, n + 1)
      <4>1. n + 1 \in 1 .. Len(s) /\ (n + 1) - 1 = n /\ n <= Len(s)  BY <3>1, <3>2, <1>0
      <4>2. k[n + 1] = Append(k[n], s[n + 1]) /\ k[n] = SubSeq(s, 1, n)
        BY <4>1, <1>1, <1>3
      <4> HIDE DEF U
      <4>3. Append(SubSeq(s, 1, n), s[n + 1]) = SubSeq(s, 1, n + 1)  BY <3>1, <4>1, <1>0
      <4> QED  BY <4>2, <4>3
    <3> QED  BY <3>1, <3>2
  <2> HIDE DEF U
  <2>3. U \in SUBSET Nat  BY DEF U
  <2> QED  BY <2>1, <2>2, <2>3, SetInduction
<1>4. SubSeq(s, 1, Len(s)) = s  OBVIOUS
<1>5. k[Len(s)] \in Seq(S \ drop)
  <2>1. Len(s) \in T  BY <1>0, <1>2
  <2> QED  BY <1>0, <2>1
<1>6. ASSUME \A i \in 1 .. Len(s) : s[i] \notin drop PROVE k[Len(s)] = s
  <2>1. Len(s) \in U  BY <1>0, <1>3, <1>6
  <2>2. k[Len(s)] = SubSeq(s, 1, Len(s))  BY <1>0, <2>1
  <2> QED  BY <1>4, <2>2
<1> HIDE DEF T, U
<1> QED  BY <1>1, <1>5, <1>6

\* Every element that is not in drop has its place in what Without leaves, and
\* these places are in order.
LEMMA WithoutPlaces ==
    ASSUME NEW S, NEW s \in Seq(S), NEW drop
    PROVE  \E at \in [1 .. Len(s) -> Nat] :
              /\ \A i \in 1 .. Len(s) : s[i] \notin drop =>
                    at[i] \in 1 .. Len(Without(s, drop)) /\ Without(s, drop)[at[i]] = s[i]
              /\ \A i, j \in 1 .. Len(s) : i < j /\ s[i] \notin drop /\ s[j] \notin drop => at[i] < at[j]
<1>1. PICK k : /\ DOMAIN k = 0 .. Len(s) /\ k[0] = <<>>
               /\ \A i \in 1 .. Len(s) : k[i] = IF s[i] \in drop THEN k[i - 1] ELSE Append(k[i - 1], s[i])
               /\ Without(s, drop) = k[Len(s)]
  BY WithoutRecursion
<1>0. Len(s) \in Nat /\ \A i \in 1 .. Len(s) : s[i] \in S  OBVIOUS
<1> DEFINE Placed(n) ==
             /\ k[n] \in Seq(S)
             /\ \A i \in 0 .. n : Len(k[i]) \in Nat /\ Len(k[i]) <= Len(k[n])
             /\ \A i \in 1 .. n : s[i] \notin drop =>
                   Len(k[i]) = Len(k[i - 1]) + 1 /\ k[n][Len(k[i])] = s[i]
           T == {n \in Nat : n <= Len(s) => Placed(n)}
<1>2. 0 \in T
  <2>1. k[0] \in Seq(S) /\ Len(k[0]) = 0  BY <1>1
  <2>2. Placed(0)  BY <2>1
  <2> HIDE DEF Placed
  <2> QED  BY <2>2
<1>3. ASSUME NEW n \in T PROVE n + 1 \in T
  <2> SUFFICES ASSUME n + 1 <= Len(s) PROVE Placed(n + 1)
    <3> HIDE DEF Placed
    <3> QED  OBVIOUS
  <2>1. n \in Nat /\ n + 1 \in 1 .. Len(s) /\ (n + 1) - 1 = n /\ n <= Len(s)  BY <1>0
  <2>2. Placed(n)
    <3> HIDE DEF Placed
    <3> QED  BY <2>1
  <2>3. k[n + 1] = IF s[n + 1] \in drop THEN k[n] ELSE Append(k[n], s[n + 1])
    BY <1>1, <2>1
  <2>4. s[n + 1] \in S  BY <1>0, <2>1
  <2> HIDE DEF T
  <2>5. CASE s[n + 1] \in drop
    <3>1. k[n + 1] = k[n]  BY <2>3, <2>5
    <3>2. \A i \in 0 .. n + 1 : i \in 0 .. n \/ i = n + 1  BY <2>1
    <3>3. \A i \in 1 .. n + 1 : s[i] \notin drop => i \in 1 .. n  BY <2>1, <2>5
    <3>4. n \in 0 .. n  BY <2>1
    <3> QED  BY <2>2, <3>1, <3>2, <3>3, <3>4
  <2>6. CASE s[n + 1] \notin drop
    <3>1. /\ k[n + 1] = Append(k[n], s[n + 1]) /\ k[n] \in Seq(S)  BY <2>2, <2>3, <2>6
    <3>2. /\ k[n + 1] \in Seq(S) /\ Len(k[n + 1]) = Len(k[n]) + 1 /\ Len(k[n]) \in Nat
          /\ \A j \in 1 .. Len(k[n]) : k[n + 1][j] = k[n][j]
          /\ k[n + 1][Len(k[n]) + 1] = s[n + 1]
      BY <3>1, <2>4
    <3>3. ASSUME NEW i \in 0 .. n + 1 PROVE Len(k[i]) \in Nat /\ Len(k[i]) <= Len(k[n + 1])
      <4>1. CASE i = n + 1
        <5>1. Len(k[n + 1]) \in Nat /\ Len(k[n + 1]) <= Len(k[n + 1])  BY <3>2
        <5> QED  BY <4>1, <5>1
      <4>2. CASE i \in 0 .. n
        <5>1. Len(k[i]) \in Nat /\ Len(k[i]) <= Len(k[n])  BY <2>2, <4>2
        <5> QED  BY <3>2, <5>1
      <4> QED  BY <2>1, <4>1, <4>2
    <3>4. ASSUME NEW i \in 1 .. n + 1, s[i] \notin drop
          PROVE  Len(k[i]) = Len(k[i - 1]) + 1 /\ k[n + 1][Len(k[i])] = s[i]
      <4>1. CASE i = n + 1
        <5>1. k[i - 1] = k[n]  BY <4>1, <2>1
        <5> QED  BY <4>1, <5>1, <3>2
      <4>2. CASE i \in 1 .. n
        <5>1. Len(k[i]) = Len(k[i - 1]) + 1 /\ k[n][Len(k[i])] = s[i]  BY <2>2, <3>4, <4>2
        <5>2. Len(k[i]) \in 1 .. Len(k[n])
          <6>1. i \in 0 .. n /\ i - 1 \in 0 .. n  BY <4>2, <2>1
          <6>2. Len(k[i]) \in Nat /\ Len(k[i]) <= Len(k[n]) /\ Len(k[i - 1]) \in Nat  BY <2>2, <6>1
          <6> QED  BY <5>1, <6>2
        <5> QED  BY <3>2, <5>1, <5>2
      <4> QED  BY <2>1, <4>1, <4>2
    <3> QED  BY <3>2, <3>3, <3>4
  <2> QED  BY <2>5, <2>6
<1>4. Placed(Len(s))
  <2>1. Nat \subseteq T
    <3> HIDE DEF T
    <3>1. T \in SUBSET Nat  BY DEF T
    <3> QED  BY <1>2, <1>3, <3>1, SetInduction
  <2>2. Len(s) \in T  BY <1>0, <2>1
  <2> HIDE DEF Placed
  <2> QED  BY <1>0, <2>2
<1> HIDE DEF T
<1> DEFINE at == [i \in 1 .. Len(s) |-> Len(k[i])]
<1>5. ASSUME NEW i \in 1 .. Len(s), s[i] \notin drop
      PROVE  Len(k[i]) \in 1 .. Len(k[Len(s)]) /\ k[Len(s)][Len(k[i])] = s[i]
  <2>1. i \in 0 .. Len(s) /\ i - 1 \in 0 .. Len(s)  BY <1>0
  <2>2. Len(k[i]) \in Nat /\ Len(k[i - 1]) \in Nat /\ Len(k[i]) <= Len(k[Len(s)]) /\ Len(k[i]) = Len(k[i - 1]) + 1
    BY <1>4, <1>5, <2>1
  <2> QED  BY <1>4, <1>5, <2>2, SMTT(30)
<1>6. ASSUME NEW m \in 0 .. Len(s), NEW n \in 0 .. Len(s), m <= n PROVE Len(k[m]) <= Len(k[n])
  <2> DEFINE U == {d \in Nat : m + d <= Len(s) => Len(k[m]) <= Len(k[m + d])}
  <2>0. \A i \in 0 .. Len(s) : Len(k[i]) \in Nat  BY <1>4
  <2>1. 0 \in U
    <3>1. Len(k[m]) \in Nat /\ m + 0 = m  BY <2>0
    <3> QED  BY <3>1
  <2>2. ASSUME NEW d \in U PROVE d + 1 \in U
    <3>1. d \in Nat /\ d + 1 \in Nat  OBVIOUS
    <3>2. ASSUME m + (d + 1) <= Len(s) PROVE Len(k[m]) <= Len(k[m + (d + 1)])
      <4>1. m + (d + 1) \in 1 .. Len(s) /\ (m + (d + 1)) - 1 = m + d /\ m + d \in 0 .. Len(s) /\ m + d <= Len(s)
        BY <1>0, <3>1, <3>2
      <4>2. Len(k[m]) <= Len(k[m + d])  BY <4>1
      <4>3. Len(k[m + d]) <= Len(k[m + (d + 1)])
        <5>1. CASE s[m + (d + 1)] \in drop
          <6>1. k[m + (d + 1)] = k[m + d]  BY <1>1, <4>1, <5>1
          <6>2. Len(k[m + d]) \in Nat  BY <2>0, <4>1
          <6> QED  BY <6>1, <6>2
        <5>2. CASE s[m + (d + 1)] \notin drop
          <6>1. Len(k[m + (d + 1)]) = Len(k[m + d]) + 1  BY <1>4, <4>1, <5>2
          <6>2. Len(k[m + d]) \in Nat  BY <2>0, <4>1
          <6> QED  BY <6>1, <6>2
        <5> QED  BY <5>1, <5>2
      <4>4. Len(k[m]) \in Nat /\ Len(k[m + d]) \in Nat /\ Len(k[m + (d + 1)]) \in Nat
        <5>1. m + (d + 1) \in 0 .. Len(s)  BY <4>1
        <5> QED  BY <2>0, <4>1, <5>1
      <4> QED  BY <4>2, <4>3, <4>4, SMTT(30)
    <3> QED  BY <3>1, <3>2
  <2>3. Nat \subseteq U
    <3> HIDE DEF U
    <3>1. U \in SUBSET Nat  BY DEF U
    <3> QED  BY <2>1, <2>2, <3>1, SetInduction
  <2>4. n - m \in Nat /\ m + (n - m) = n /\ n <= Len(s)  BY <1>0, <1>6
  <2>5. n - m \in U  BY <2>3, <2>4
  <2> QED  BY <2>4, <2>5
<1>7. ASSUME NEW i \in 1 .. Len(s), NEW j \in 1 .. Len(s), i < j, s[i] \notin drop, s[j] \notin drop
      PROVE  Len(k[i]) < Len(k[j])
  <2>1. i \in 0 .. Len(s) /\ j - 1 \in 0 .. Len(s) /\ i <= j - 1 /\ j \in 0 .. Len(s)  BY <1>0, <1>7
  <2>2. Len(k[i]) <= Len(k[j - 1])  BY <1>6, <2>1
  <2>3. Len(k[j]) = Len(k[j - 1]) + 1  BY <1>4, <1>7
  <2>4. Len(k[i]) \in Nat /\ Len(k[j - 1]) \in Nat /\ Len(k[j]) \in Nat  BY <1>4, <2>1
  <2> QED  BY <2>2, <2>3, <2>4
<1>8. at \in [1 .. Len(s) -> Nat]
  <2>1. \A i \in 1 .. Len(s) : i \in 0 .. Len(s)  BY <1>0
  <2>2. \A i \in 1 .. Len(s) : Len(k[i]) \in Nat  BY <1>4, <2>1
  <2> HIDE DEF Placed
  <2> QED  BY <2>2
<1> HIDE DEF Placed
<1>9. \A i \in 1 .. Len(s) : at[i] = Len(k[i])  OBVIOUS
<1> HIDE DEF at
<1> QED  BY <1>1, <1>5, <1>7, <1>8, <1>9

\* One step of the walk.
Walked(before, part) ==
    IF part \in {Void, "."} THEN before
    ELSE IF part = ".." THEN Front(before)
    ELSE Append(before, part)

\* So has the recursive definition of Resolved.
LEMMA ResolvedRecursion ==
    ASSUME NEW S, NEW s \in Seq(S)
    PROVE  \E k : /\ DOMAIN k = 0 .. Len(s) /\ k[0] = <<>>
                  /\ \A i \in 1 .. Len(s) : k[i] = Walked(k[i - 1], s[i])
                  /\ Resolved(s) = k[Len(s)]
<1> DEFINE Keep(before, i) == Walked(before, s[i])
           Sol(k, n) == /\ DOMAIN k = 0 .. n /\ k[0] = <<>>
                        /\ \A i \in 1 .. n : k[i] = Keep(k[i - 1], i)
           Has(n) == \E k : Sol(k, n)
           T == {n \in Nat : Has(n)}
<1>0. Len(s) \in Nat  OBVIOUS
<1> HIDE DEF Keep
<1>1. 0 \in T
  <2>1. Sol([j \in 0 .. 0 |-> <<>>], 0)  OBVIOUS
  <2> QED  BY <2>1
<1>2. ASSUME NEW n \in T PROVE n + 1 \in T
  <2>1. n \in Nat /\ n + 1 \in Nat  OBVIOUS
  <2>2. PICK k : Sol(k, n)  OBVIOUS
  <2> DEFINE g == [j \in 0 .. n + 1 |-> IF j = n + 1 THEN Keep(k[n], n + 1) ELSE k[j]]
  <2>3. DOMAIN g = 0 .. n + 1 /\ g[0] = <<>>  BY <2>1, <2>2
  <2>4. \A i \in 1 .. n + 1 : g[i] = Keep(g[i - 1], i)
    <3> TAKE i \in 1 .. n + 1
    <3>1. CASE i = n + 1
      <4>1. i - 1 = n /\ n \in 0 .. n + 1 /\ n # n + 1 /\ i \in 0 .. n + 1  BY <3>1, <2>1
      <4>2. g[i - 1] = k[n] /\ g[i] = Keep(k[n], n + 1)  BY <4>1, <3>1
      <4> QED  BY <3>1, <4>2
    <3>2. CASE i # n + 1
      <4>1. i \in 1 .. n /\ i - 1 \in 0 .. n + 1 /\ i \in 0 .. n + 1 /\ i - 1 # n + 1  BY <3>2, <2>1
      <4>2. g[i] = k[i] /\ g[i - 1] = k[i - 1]  BY <3>2, <4>1
      <4> QED  BY <4>1, <4>2, <2>2
    <3> QED  BY <3>1, <3>2
  <2>5. Sol(g, n + 1)
    <3> HIDE DEF g
    <3> QED  BY <2>3, <2>4
  <2> HIDE DEF Sol
  <2> QED  BY <2>1, <2>5
<1>3. Nat \subseteq T
  <2> HIDE DEF T
  <2>1. T \in SUBSET Nat  BY DEF T
  <2> QED  BY <1>1, <1>2, <2>1, SetInduction
<1>4. PICK f : Sol(f, Len(s))
  <2> HIDE DEF Sol
  <2> QED  BY <1>0, <1>3
<1> DEFINE f1 == [i \in 0 .. Len(s) |-> f[i]]
           D(h) == h = [i \in 0 .. Len(s) |-> IF i = 0 THEN <<>> ELSE Keep(h[i - 1], i)]
<1>5. D(f1)
  <2>1. ASSUME NEW i \in 0 .. Len(s) PROVE f1[i] = IF i = 0 THEN <<>> ELSE Keep(f1[i - 1], i)
    <3>1. CASE i = 0  BY <3>1, <1>4
    <3>2. CASE i # 0
      <4>1. i \in 1 .. Len(s) /\ i - 1 \in 0 .. Len(s)  BY <3>2, <1>0
      <4>2. f1[i] = f[i] /\ f1[i - 1] = f[i - 1] /\ f[i] = Keep(f[i - 1], i)  BY <4>1, <1>4
      <4> HIDE DEF f1
      <4> QED  BY <3>2, <4>2
    <3> QED  BY <3>1, <3>2
  <2>2. f1 = [i \in 0 .. Len(s) |-> f1[i]]  OBVIOUS
  <2> HIDE DEF f1
  <2>3. [i \in 0 .. Len(s) |-> f1[i]] = [i \in 0 .. Len(s) |-> IF i = 0 THEN <<>> ELSE Keep(f1[i - 1], i)]
    BY <2>1
  <2> QED  BY <2>2, <2>3
<1>6. Resolved(s) = (CHOOSE h : D(h))[Len(s)]
  BY DEF Resolved, Keep, Walked
<1>7. PICK h : h = CHOOSE g : D(g)  OBVIOUS
<1>8. D(h)
  <2> HIDE DEF D
  <2> QED  BY <1>5, <1>7
<1>9. DOMAIN h = 0 .. Len(s) /\ h[0] = <<>> /\ \A i \in 1 .. Len(s) : h[i] = Keep(h[i - 1], i)
  <2>1. \A i \in 0 .. Len(s) : h[i] = IF i = 0 THEN <<>> ELSE Keep(h[i - 1], i)  BY <1>8
  <2>2. \A i \in 1 .. Len(s) : i \in 0 .. Len(s) /\ i # 0  BY <1>0
  <2>3. 0 \in 0 .. Len(s)  BY <1>0
  <2>4. DOMAIN h = 0 .. Len(s)  BY <1>8
  <2> HIDE DEF D
  <2> QED  BY <2>1, <2>2, <2>3, <2>4
<1> HIDE DEF D, T, Has, Sol, f1
<1>10. \A i \in 1 .. Len(s) : h[i] = Walked(h[i - 1], s[i])
  BY <1>9 DEF Keep
<1>11. Resolved(s) = h[Len(s)]  BY <1>6, <1>7
<1> QED  BY <1>9, <1>10, <1>11

\* Parts that move the walk.
Moves == {Void, ".", ".."}

\* What is left of a path has names only, and names are left as they are.
LEMMA ResolvedFacts ==
    ASSUME NEW S, NEW s \in Seq(S)
    PROVE  /\ Resolved(s) \in Seq(S \ Moves)
           /\ (\A i \in 1 .. Len(s) : s[i] \notin Moves) => Resolved(s) = s
<1>1. PICK k : /\ DOMAIN k = 0 .. Len(s) /\ k[0] = <<>>
               /\ \A i \in 1 .. Len(s) : k[i] = Walked(k[i - 1], s[i])
               /\ Resolved(s) = k[Len(s)]
  BY ResolvedRecursion
<1>0. Len(s) \in Nat /\ \A i \in 1 .. Len(s) : s[i] \in S  OBVIOUS
<1> DEFINE T == {n \in Nat : n <= Len(s) => k[n] \in Seq(S \ Moves)}
           U == {n \in Nat : n <= Len(s) => k[n] = SubSeq(s, 1, n)}
<1>2. Nat \subseteq T
  <2>1. 0 \in T
    <3>1. <<>> \in Seq(S \ Moves)  OBVIOUS
    <3> QED  BY <1>1, <3>1
  <2>2. ASSUME NEW n \in T PROVE n + 1 \in T
    <3>1. n \in Nat /\ n + 1 \in Nat  OBVIOUS
    <3>2. ASSUME n + 1 <= Len(s) PROVE k[n + 1] \in Seq(S \ Moves)
      <4>1. n + 1 \in 1 .. Len(s) /\ (n + 1) - 1 = n /\ n <= Len(s)  BY <3>1, <3>2, <1>0
      <4>2. k[n + 1] = Walked(k[n], s[n + 1]) /\ k[n] \in Seq(S \ Moves) /\ s[n + 1] \in S
        BY <4>1, <1>0, <1>1
      <4> HIDE DEF T
      <4>3. Front(k[n]) \in Seq(S \ Moves)
        <5>1. CASE k[n] = <<>>
          <6>1. Front(k[n]) = SubSeq(<<>>, 1, 0 - 1)  BY <5>1 DEF Front
          <6>2. SubSeq(<<>>, 1, 0 - 1) = <<>>  OBVIOUS
          <6>3. <<>> \in Seq(S \ Moves)  OBVIOUS
          <6> QED  BY <6>1, <6>2, <6>3
        <5>2. CASE k[n] # <<>>
          <6>1. Len(k[n]) \in Nat \ {0}  BY <4>2, <5>2
          <6>2. \A i \in 1 .. Len(k[n]) - 1 : k[n][i] \in S \ Moves  BY <4>2, <6>1
          <6>3. SubSeq(k[n], 1, Len(k[n]) - 1) \in Seq(S \ Moves)  BY <4>2, <6>1, <6>2
          <6> QED  BY <6>3 DEF Front
        <5> QED  BY <5>1, <5>2
      <4>4. s[n + 1] \notin Moves => Append(k[n], s[n + 1]) \in Seq(S \ Moves)
        BY <4>2
      <4> QED  BY <4>2, <4>3, <4>4 DEF Walked, Moves
    <3> QED  BY <3>1, <3>2
  <2> HIDE DEF T
  <2>3. T \in SUBSET Nat  BY DEF T
  <2> QED  BY <2>1, <2>2, <2>3, SetInduction
<1>3. ASSUME \A i \in 1 .. Len(s) : s[i] \notin Moves PROVE Nat \subseteq U
  <2>1. 0 \in U
    <3>1. SubSeq(s, 1, 0) = <<>>  OBVIOUS
    <3> QED  BY <1>1, <3>1
  <2>2. ASSUME NEW n \in U PROVE n + 1 \in U
    <3>1. n \in Nat /\ n + 1 \in Nat  OBVIOUS
    <3>2. ASSUME n + 1 <= Len(s) PROVE k[n + 1] = SubSeq(s, 1, n + 1)
      <4>1. n + 1 \in 1 .. Len(s) /\ (n + 1) - 1 = n /\ n <= Len(s)  BY <3>1, <3>2, <1>0
      <4>2. k[n + 1] = Append(k[n], s[n + 1]) /\ k[n] = SubSeq(s, 1, n)
        BY <4>1, <1>1, <1>3 DEF Walked, Moves
      <4> HIDE DEF U
      <4>3. Append(SubSeq(s, 1, n), s[n + 1]) = SubSeq(s, 1, n + 1)  BY <3>1, <4>1, <1>0
      <4> QED  BY <4>2, <4>3
    <3> QED  BY <3>1, <3>2
  <2> HIDE DEF U
  <2>3. U \in SUBSET Nat  BY DEF U
  <2> QED  BY <2>1, <2>2, <2>3, SetInduction
<1>4. SubSeq(s, 1, Len(s)) = s  OBVIOUS
<1>5. k[Len(s)] \in Seq(S \ Moves)
  <2>1. Len(s) \in T  BY <1>0, <1>2
  <2> QED  BY <1>0, <2>1
<1>6. ASSUME \A i \in 1 .. Len(s) : s[i] \notin Moves PROVE k[Len(s)] = s
  <2>1. Len(s) \in U  BY <1>0, <1>3, <1>6
  <2>2. k[Len(s)] = SubSeq(s, 1, Len(s))  BY <1>0, <2>1
  <2> QED  BY <1>4, <2>2
<1> HIDE DEF T, U
<1> QED  BY <1>1, <1>5, <1>6
-----------------------------------------------------------------------------
(***************************************************************************)
(* The normaliser: what a second pass does to a line of a trace.           *)
(***************************************************************************)

\* STRING, and the texts the normaliser puts in, which the provers do not know
\* to be strings.
Text == STRING \cup Marks \cup {"127.0.0.1", "0"}

LineType ==
    [test : STRING, type : STRING, ident : Seq(Text), op : STRING, mode : STRING, at : Nat \ {0}]

\* No blank at either end.
Stripped(text) == text[1] \notin DOMAIN LStrip /\ text[Len(text)] \notin DOMAIN RStrip

\* A part without its blanks.
LEMMA PartFacts ==
    ASSUME NEW t \in Text
    PROVE  /\ At(LStrip, t, t) \in Text \ DOMAIN LStrip
           /\ At(RStrip, t, t) \in Text \ DOMAIN RStrip
           /\ t \notin DOMAIN LStrip => At(RStrip, t, t) \notin DOMAIN LStrip
  BY TraceGraphAssumption DEF At, Text

\* strip takes the blanks off both ends, and leaves other texts as they are.
LEMMA StripFacts ==
    ASSUME NEW text \in Seq(Text), text # <<>>
    PROVE  /\ strip(text) \in Seq(Text) /\ Len(strip(text)) = Len(text) /\ strip(text) # <<>>
           /\ Stripped(strip(text))
           /\ Stripped(text) => strip(text) = text
<1> DEFINE front(i) == IF i = 1 THEN At(LStrip, text[i], text[i]) ELSE text[i]
           part(i) == IF i = Len(text) THEN At(RStrip, front(i), front(i)) ELSE front(i)
           s == [i \in DOMAIN text |-> part(i)]
<1>1. Len(text) \in Nat \ {0} /\ DOMAIN text = 1 .. Len(text) /\ 1 \in 1 .. Len(text) /\ Len(text) \in 1 .. Len(text)
  OBVIOUS
<1>2. strip(text) = s  BY DEF strip
<1>3. ASSUME NEW i \in 1 .. Len(text)
      PROVE  /\ part(i) \in Text
             /\ i = 1 => part(i) \notin DOMAIN LStrip
             /\ i = Len(text) => part(i) \notin DOMAIN RStrip
  <2>1. text[i] \in Text  OBVIOUS
  <2>2. front(i) \in Text /\ (i = 1 => front(i) \notin DOMAIN LStrip)  BY <2>1, PartFacts
  <2> HIDE DEF front
  <2>3. /\ At(RStrip, front(i), front(i)) \in Text \ DOMAIN RStrip
        /\ front(i) \notin DOMAIN LStrip => At(RStrip, front(i), front(i)) \notin DOMAIN LStrip
    BY <2>2, PartFacts
  <2> QED  BY <2>2, <2>3
<1> HIDE DEF part
<1>4. s \in Seq(Text) /\ Len(s) = Len(text) /\ \A i \in 1 .. Len(text) : s[i] = part(i)
  <2>1. s = [i \in 1 .. Len(text) |-> part(i)]  BY <1>1, SMTT(30)
  <2>2. s \in [1 .. Len(text) -> Text] /\ \A i \in 1 .. Len(text) : s[i] = part(i)  BY <1>3, <2>1
  <2> HIDE DEF s
  <2> QED  BY <1>1, <2>2
<1>5. s # <<>>
  <2> HIDE DEF s
  <2>1. Len(<<>>) = 0  BY SMTT(30)
  <2> QED  BY <1>1, <1>4, <2>1
<1>6. Stripped(s)
  <2> HIDE DEF s
  <2> QED  BY <1>1, <1>3, <1>4, ZenonT(40) DEF Stripped
<1>7. ASSUME Stripped(text) PROVE s = text
  <2>1. \A i \in 1 .. Len(text) : part(i) = text[i]
    BY <1>1, <1>7 DEF part, Stripped, At
  <2>2. text = [i \in 1 .. Len(text) |-> text[i]]  BY <1>1
  <2>3. s = [i \in 1 .. Len(text) |-> part(i)]  BY <1>1
  <2> HIDE DEF s
  <2> QED  BY <2>1, <2>2, <2>3
<1> HIDE DEF s
<1> QED  BY <1>2, <1>4, <1>5, <1>6, <1>7

\* A sequence over a smaller set.
LEMMA Narrowed ==
    ASSUME NEW S, NEW T, NEW s \in Seq(S), \A i \in 1 .. Len(s) : s[i] \in T
    PROVE  s \in Seq(T)
<1>1. s = [i \in 1 .. Len(s) |-> s[i]] /\ Len(s) \in Nat  OBVIOUS
<1> QED  BY <1>1

\* What Tail leaves.
LEMMA TailFacts ==
    ASSUME NEW S, NEW t \in Seq(S), t # <<>>
    PROVE  /\ Tail(t) \in Seq(S) /\ Len(Tail(t)) = Len(t) - 1 /\ Len(t) \in Nat \ {0}
           /\ \A i \in 1 .. Len(t) - 1 : Tail(t)[i] = t[i + 1]
  OBVIOUS

\* A text with parts in front of it.
LEMMA Fronted ==
    ASSUME NEW S, NEW p \in Seq(S), p # <<>>, NEW s \in Seq(S)
    PROVE  /\ p \o s \in Seq(S) /\ p \o s # <<>> /\ (p \o s)[1] = p[1] /\ p[1] \in S
           /\ Len(p \o s) = Len(p) + Len(s) /\ Len(p) \in Nat \ {0} /\ Len(s) \in Nat
           /\ s # <<>> => (p \o s)[Len(p \o s)] = s[Len(s)]
<1>1. /\ Len(p) \in Nat \ {0} /\ Len(s) \in Nat /\ Len(p \o s) = Len(p) + Len(s) /\ p \o s \in Seq(S)
      /\ 1 \in 1 .. Len(p) /\ (p \o s)[1] = p[1] /\ p[1] \in S
  OBVIOUS
<1>2. p \o s # <<>>
  <2>1. Len(<<>>) = 0  OBVIOUS
  <2> QED  BY <1>1, <2>1
<1>3. ASSUME s # <<>> PROVE (p \o s)[Len(p \o s)] = s[Len(s)]
  <2>1. Len(s) \in 1 .. Len(s)  BY <1>3
  <2>2. (p \o s)[Len(p) + Len(s)] = s[Len(s)]  BY <2>1, SMTT(30)
  <2> QED  BY <1>1, <2>2
<1> QED  BY <1>1, <1>2, <1>3

\* One part, and a sequence of it.
LEMMA One ==
    ASSUME NEW S, NEW a \in S
    PROVE  <<a>> \in Seq(S) /\ <<a>> # <<>> /\ <<a>>[1] = a /\ Len(<<a>>) = 1
  OBVIOUS

\* A text of a part and others is its first part and its tail.
LEMMA Split ==
    ASSUME NEW S, NEW a \in S, NEW s \in Seq(S)
    PROVE  Tail(<<a>> \o s) = s /\ (<<a>> \o s)[1] = a
<1> DEFINE t == <<a>> \o s
<1>1. t \in Seq(S) /\ Len(t) = 1 + Len(s) /\ Len(s) \in Nat /\ t # <<>> /\ t[1] = a
  BY One, Fronted
<1>2. \A i \in 1 .. Len(s) : t[i + 1] = s[i]
  <2> TAKE i \in 1 .. Len(s)
  <2>1. (<<a>> \o s)[Len(<<a>>) + i] = s[i]  BY SMTT(30)
  <2>2. Len(<<a>>) + i = i + 1  OBVIOUS
  <2> QED  BY <2>1, <2>2
<1> HIDE DEF t
<1>3. Tail(t) \in Seq(S) /\ Len(Tail(t)) = Len(s) /\ \A i \in 1 .. Len(s) : Tail(t)[i] = t[i + 1]
  BY <1>1, TailFacts
<1>4. Tail(t) = s  BY <1>2, <1>3
<1> QED  BY <1>1, <1>4 DEF t

\* A normal path is a root and names.
Rooted(path) ==
    /\ path \in Seq(Text) /\ path # <<>> /\ path[1] \in {"/", "//"}
    /\ Tail(path) \in Seq(Text \ Moves)

\* Names are texts.
LEMMA NamesAreTexts == \A s \in Seq(Text \ Moves) : s \in Seq(Text)
<1> TAKE s \in Seq(Text \ Moves)
<1>1. \A i \in 1 .. Len(s) : s[i] \in Text \ Moves  OBVIOUS
<1>2. \A i \in 1 .. Len(s) : s[i] \in Text  BY <1>1
<1> QED  BY <1>2

\* normpath makes a root and names of every path, and leaves such a path as it is.
LEMMA NormPathFacts ==
    ASSUME NEW path \in Seq(Text), path # <<>>
    PROVE  /\ Rooted(NormPath(path))
           /\ Rooted(path) => NormPath(path) = path
<1> DEFINE root == IF path[1] = "//" THEN "//" ELSE "/"
           names == Resolved(Tail(path))
<1>1. Tail(path) \in Seq(Text)  OBVIOUS
<1>2. names \in Seq(Text \ Moves) /\ names \in Seq(Text)  BY <1>1, ResolvedFacts, NamesAreTexts
<1>3. root \in Text  BY DEF Text, Marks
<1>4. NormPath(path) = <<root>> \o names  BY DEF NormPath
<1>5. Rooted(NormPath(path))
  <2>1. root \in {"/", "//"}  OBVIOUS
  <2> HIDE DEF root, names
  <2>2. /\ <<root>> \o names \in Seq(Text) /\ <<root>> \o names # <<>> /\ (<<root>> \o names)[1] = root
        /\ Tail(<<root>> \o names) = names
    BY <1>2, <1>3, One, Fronted, Split
  <2> QED  BY <1>2, <1>4, <2>1, <2>2 DEF Rooted
<1>6. ASSUME Rooted(path) PROVE NormPath(path) = path
  <2>1. names = Tail(path)
    <3>1. Tail(path) \in Seq(Text \ Moves)  BY <1>6 DEF Rooted
    <3>2. \A i \in 1 .. Len(Tail(path)) : Tail(path)[i] \notin Moves  BY <3>1
    <3> QED  BY <1>1, <3>2, ResolvedFacts
  <2>2. root = path[1]  BY <1>6 DEF Rooted
  <2>3. <<path[1]>> \o Tail(path) = path  BY SMTT(30)
  <2> HIDE DEF root, names
  <2> QED  BY <1>4, <2>1, <2>2, <2>3
<1> QED  BY <1>5, <1>6

\* A segment with the names a runner makes up replaced.
Sub(p) == IF p \in Ephemeral THEN "$RUN_TMP" ELSE p

\* Replacing these segments leaves a root and names.
LEMMA SubstitutedPath ==
    ASSUME NEW path, Rooted(path), "/" \notin Ephemeral, "//" \notin Ephemeral
    PROVE  LET id == [i \in DOMAIN path |-> Sub(path[i])] IN
           /\ Rooted(id) /\ Len(id) = Len(path)
           /\ [i \in DOMAIN id |-> Sub(id[i])] = id
<1> DEFINE id == [i \in DOMAIN path |-> Sub(path[i])]
<1>1. /\ path \in Seq(Text) /\ path # <<>> /\ path[1] \in {"/", "//"} /\ Tail(path) \in Seq(Text \ Moves)
  BY DEF Rooted
<1>2. Len(path) \in Nat \ {0} /\ DOMAIN path = 1 .. Len(path) /\ 1 \in 1 .. Len(path)  BY <1>1
<1>3. \A i \in 1 .. Len(path) : path[i] \in Text /\ Sub(path[i]) \in Text  BY <1>1 DEF Sub, Text, Marks
<1>4. id \in Seq(Text) /\ Len(id) = Len(path) /\ \A i \in 1 .. Len(path) : id[i] = Sub(path[i])
  BY <1>2, <1>3, SMTT(30)
<1> HIDE DEF id
<1>5. id # <<>>
  <2>1. Len(<<>>) = 0  OBVIOUS
  <2> QED  BY <1>2, <1>4, <2>1
<1>6. id[1] \in {"/", "//"}  BY <1>1, <1>2, <1>4 DEF Sub
<1>7. Tail(id) \in Seq(Text \ Moves)
  <2>1. \A i \in 1 .. Len(path) - 1 : Tail(path)[i] = path[i + 1]  BY <1>1, TailFacts
  <2>2. /\ Tail(id) \in Seq(Text) /\ Len(Tail(id)) = Len(path) - 1
        /\ \A i \in 1 .. Len(path) - 1 : Tail(id)[i] = id[i + 1]
    BY <1>4, <1>5, TailFacts
  <2>3. ASSUME NEW i \in 1 .. Len(path) - 1 PROVE id[i + 1] \in Text \ Moves
    <3>1. i + 1 \in 1 .. Len(path)  BY <1>2
    <3>2. path[i + 1] \in Text \ Moves
      <4>1. Tail(path)[i] = path[i + 1]  BY <2>1
      <4>2. Len(Tail(path)) = Len(path) - 1  BY <1>1
      <4>3. Tail(path)[i] \in Text \ Moves  BY <1>1, <4>2
      <4> QED  BY <4>1, <4>3
    <3>3. "$RUN_TMP" \in Text \ Moves
      <4>1. Void # "$RUN_TMP"  BY Zenon DEF Void
      <4> QED  BY <4>1 DEF Text, Marks, Moves
    <3> QED  BY <1>4, <3>1, <3>2, <3>3 DEF Sub
  <2>4. Len(Tail(id)) = Len(path) - 1 /\ \A i \in 1 .. Len(Tail(id)) : Tail(id)[i] \in Text \ Moves
    BY <2>2, <2>3
  <2> QED  BY <2>2, <2>4, Narrowed
<1>8. Rooted(id)  BY <1>4, <1>5, <1>6, <1>7 DEF Rooted
<1>9. [i \in DOMAIN id |-> Sub(id[i])] = id
  <2>1. DOMAIN id = 1 .. Len(path)  BY <1>4
  <2>2. \A i \in 1 .. Len(path) : Sub(id[i]) = id[i]  BY <1>4 DEF Sub
  <2>3. id = [i \in 1 .. Len(path) |-> id[i]]  BY <1>4, <2>1
  <2> QED  BY <2>1, <2>2, <2>3
<1> QED  BY <1>4, <1>8, <1>9 DEF id

\* Void is none of the parts the normaliser puts in.
LEMMA VoidIsNoMark == Void \notin Marks
<1>1. /\ Void # "/" /\ Void # "//" /\ Void # "$RUN_TMP" /\ Void # "TCP" /\ Void # "UDP"
      /\ Void # "REDIS" /\ Void # "EXEC"
  BY Zenon DEF Void
<1> QED  BY <1>1 DEF Marks

\* The path of a text, and the resource it is a normal form of.
PathOf(text) == NormPath(strip(text))
PathForm(text) == [i \in DOMAIN PathOf(text) |-> Sub(PathOf(text)[i])]

\* A prefix without replaced segments is one of the path before the replacement.
LEMMA PrefixFacts ==
    ASSUME NEW p \in Seq(Text), "$RUN_TMP" \notin ToSet(p), NEW path \in Seq(Text), NEW id \in Seq(Text),
           Len(id) = Len(path), \A i \in 1 .. Len(path) : id[i] = Sub(path[i]), IsPrefix(p, id)
    PROVE  IsPrefix(p, path)
<1>1. Len(p) \in Nat /\ Len(path) \in Nat /\ Len(id) \in Nat /\ Len(p) <= Len(path)  BY DEF IsPrefix
<1>2. SubSeq(p, 1, Len(p)) = SubSeq(id, 1, Len(p))  BY DEF IsPrefix
<1>3. ASSUME NEW i \in 1 .. Len(p) PROVE SubSeq(p, 1, Len(p))[i] = SubSeq(path, 1, Len(p))[i]
  <2>1. SubSeq(p, 1, Len(p))[i] = p[i] /\ SubSeq(id, 1, Len(p))[i] = id[i] /\ SubSeq(path, 1, Len(p))[i] = path[i]
    BY <1>1
  <2>2. p[i] = id[i]  BY <1>2, <2>1
  <2>3. p[i] # "$RUN_TMP"  BY DEF ToSet
  <2>4. id[i] = Sub(path[i])  BY <1>1
  <2>5. id[i] = path[i]  BY <2>2, <2>3, <2>4 DEF Sub
  <2> QED  BY <2>1, <2>2, <2>5
<1>4. /\ SubSeq(p, 1, Len(p)) \in Seq(Text) /\ SubSeq(path, 1, Len(p)) \in Seq(Text)
      /\ Len(SubSeq(p, 1, Len(p))) = Len(p) /\ Len(SubSeq(path, 1, Len(p))) = Len(p)
  BY <1>1
<1>5. SubSeq(p, 1, Len(p)) = SubSeq(path, 1, Len(p))
  <2> DEFINE a == SubSeq(p, 1, Len(p))
             b == SubSeq(path, 1, Len(p))
  <2>1. a \in Seq(Text) /\ b \in Seq(Text) /\ Len(a) = Len(b) /\ \A i \in 1 .. Len(a) : a[i] = b[i]
    BY <1>3, <1>4
  <2> HIDE DEF a, b
  <2>2. a = b  BY <2>1
  <2> QED  BY <2>2 DEF a, b
<1> QED  BY <1>1, <1>5 DEF IsPrefix

\* Prefixes without replaced segments.
Plain(p) == \A s \in p : s \in Seq(STRING) /\ "$RUN_TMP" \notin ToSet(s)

\* A read below a prefix that only the second pass excludes.
LeftOut(op, p, q, id) == op = "READ" /\ \E s \in q \ p : IsPrefix(s, id)

\* A path is left with its normal form; a second pass leaves that as it is,
\* unless it ends in a blank or is a read that only the second pass excludes.
LEMMA PathFacts ==
    ASSUME NEW text \in Seq(Text), text # <<>>, NEW op, NEW p, NEW q
    PROVE  LET id == PathId(text, op, p) IN
           /\ id \in Seq(Text)
           /\ id # Nothing => id = PathForm(text)
           /\ Plain(p) /\ id # Nothing /\ strip(id) = id /\ ~LeftOut(op, p, q, id) =>
                 PathId(id, op, q) = id
<1> DEFINE path == PathOf(text)
           id == PathForm(text)
<1>0. strip(text) \in Seq(Text) /\ strip(text) # <<>>  BY StripFacts
<1>1. Rooted(path)  BY <1>0, NormPathFacts DEF PathOf
<1>2. "/" \notin Ephemeral /\ "//" \notin Ephemeral  BY TraceGraphAssumption
<1>3. id = [i \in DOMAIN path |-> Sub(path[i])]  BY DEF PathForm
<1>4. Rooted(id) /\ Len(id) = Len(path) /\ [i \in DOMAIN id |-> Sub(id[i])] = id
  <2> HIDE DEF path, id
  <2> QED  BY <1>1, <1>2, <1>3, SubstitutedPath
<1>5. PathId(text, op, p) # Nothing => PathId(text, op, p) = id /\ ~Excluded(path, op, p)
  BY DEF PathId, PathForm, PathOf, Sub
<1> HIDE DEF path, id
<1>6. id \in Seq(Text) /\ id # <<>> /\ path \in Seq(Text) /\ path # <<>>  BY <1>1, <1>4 DEF Rooted
<1>7. /\ Len(path) \in Nat \ {0} /\ DOMAIN path = 1 .. Len(path) /\ Len(path) \in 1 .. Len(path)
      /\ \A i \in 1 .. Len(path) : id[i] = Sub(path[i])
  BY <1>3, <1>6
<1>8. ASSUME Plain(p), ~Excluded(path, op, p), strip(id) = id, ~LeftOut(op, p, q, id)
      PROVE  PathId(id, op, q) = id
  <2>1. NormPath(strip(id)) = id  BY <1>4, <1>6, <1>8, NormPathFacts
  <2>2. strip(id) \notin Unnamed
    <3>1. id[1] \in {"/", "//"}  BY <1>4 DEF Rooted
    <3>2. Void # "/" /\ Void # "//"  BY VoidIsNoMark DEF Marks
    <3>3. id[1] # Void  BY <3>1, <3>2
    <3>4. \A u \in Unnamed : u[1] = Void  BY DEF Unnamed, Empty
    <3> QED  BY <1>8, <3>3, <3>4
  <2>3. ~Excluded(id, op, q)
    <3> SUFFICES ASSUME op = "READ" PROVE ~((\E s \in q : IsPrefix(s, id)) \/ Last(id) \in IgnoredNames)
      BY DEF Excluded
    <3>1. Last(id) \notin IgnoredNames
      <4>1. Last(id) = Sub(Last(path))  BY <1>4, <1>7 DEF Last
      <4>2. Last(path) \notin IgnoredNames  BY <1>8 DEF Excluded
      <4> QED  BY <4>1, <4>2, TraceGraphAssumption DEF Sub
    <3>2. ASSUME NEW s \in q PROVE ~IsPrefix(s, id)
      <4>1. CASE s \notin p  BY <1>8, <4>1 DEF LeftOut
      <4>2. CASE s \in p
        <5>1. ~IsPrefix(s, path)  BY <1>8, <4>2 DEF Excluded
        <5>2. s \in Seq(STRING) /\ "$RUN_TMP" \notin ToSet(s)  BY <1>8, <4>2 DEF Plain
        <5>3. s \in Seq(Text)
          <6>1. \A i \in 1 .. Len(s) : s[i] \in Text  BY <5>2 DEF Text
          <6> QED  BY <5>2, <6>1, Narrowed
        <5> QED  BY <1>4, <1>6, <1>7, <5>1, <5>2, <5>3, PrefixFacts
      <4> QED  BY <4>1, <4>2
    <3> QED  BY <3>1, <3>2
  <2>4. PathId(id, op, q) = [i \in DOMAIN id |-> Sub(id[i])]  BY <2>1, <2>2, <2>3 DEF PathId, Sub
  <2> QED  BY <1>4, <2>4
<1>9. Nothing \in Seq(Text)  BY DEF Nothing
<1>10. PathId(text, op, p) \in Seq(Text)  BY <1>5, <1>6, <1>9
<1> QED  BY <1>5, <1>8, <1>10 DEF id

\* The parts of an address, and what takes a protocol off it.
LEMMA Triple ==
    ASSUME NEW S, NEW a \in S, NEW b \in S, NEW c \in S
    PROVE  /\ <<a, b, c>> \in Seq(S) /\ Len(<<a, b, c>>) = 3 /\ <<a, b, c>> # <<>>
           /\ Tail(<<a, b, c>>) = <<b, c>> /\ Len(<<b, c>>) = 2
<1>1. Len(<<a, b, c>>) = 3 /\ <<a, b, c>> \in Seq(S) /\ Len(<<b, c>>) = 2  OBVIOUS
<1>2. Tail(<<a, b, c>>) = [i \in 1 .. 2 |-> <<a, b, c>>[i + 1]]  BY <1>1
<1>3. <<b, c>> = [i \in 1 .. 2 |-> <<b, c>>[i]]  OBVIOUS
<1>4. \A i \in 1 .. 2 : <<a, b, c>>[i + 1] = <<b, c>>[i]  OBVIOUS
<1> QED  BY <1>1, <1>2, <1>3, <1>4

EndpointForm(type, text) ==
    LET pair == HostAndPort(type, text)
    IN  <<Protocol(type), Alias(Address[pair[1]]), Port[pair[2]]>>

\* A second pass leaves an endpoint as it is.
LEMMA EndpointFacts ==
    ASSUME NEW type, NEW text
    PROVE  LET id == EndpointId(type, text) IN
           /\ id \in Seq(Text)
           /\ id # Nothing => id = EndpointForm(type, text) /\ EndpointId(type, id) = id
<1> DEFINE pair == HostAndPort(type, text)
           host == Alias(Address[pair[1]])
           port == Port[pair[2]]
           id == <<Protocol(type), host, port>>
<1>1. EndpointId(type, text) # Nothing => EndpointId(type, text) = id /\ Parses(pair)
  BY DEF EndpointId
<1>2. ASSUME Parses(pair) PROVE id \in Seq(Text) /\ EndpointId(type, id) = id
  <2>1. pair[1] \in DOMAIN Address /\ pair[2] \in DOMAIN Port  BY <1>2 DEF Parses
  <2>2. host \in STRING \cup {"127.0.0.1"} /\ host \in DOMAIN Address /\ Alias(Address[host]) = host
    <3> HIDE DEF pair
    <3> QED  BY <2>1, TraceGraphAssumption DEF Alias
  <2>3. port \in STRING /\ port \in DOMAIN Port /\ Port[port] = port /\ Solid({port})
    <3> HIDE DEF pair
    <3> QED  BY <2>1, TraceGraphAssumption
  <2> HIDE DEF host, port, pair
  <2>4. host \in Text /\ port \in Text  BY <2>2, <2>3 DEF Text
  <2>5. Protocol(type) \in Text /\ Protocol(type) \in Marks /\ Protocol(type) \in OwnPrefixes(type)
    BY DEF Protocol, Text, Marks, OwnPrefixes
  <2>6. /\ id \in Seq(Text) /\ Len(id) = 3 /\ id # <<>> /\ Tail(id) = <<host, port>> /\ Len(<<host, port>>) = 2
        /\ id[1] = Protocol(type) /\ id[3] = port
    BY <2>4, <2>5, Triple
  <2>7. strip(id) = id
    <3>1. id[1] \notin DOMAIN LStrip  BY <2>5, <2>6, TraceGraphAssumption DEF Solid
    <3>2. id[Len(id)] \notin DOMAIN RStrip
      <4>1. id[Len(id)] = port  BY <2>6
      <4> HIDE DEF id
      <4> QED  BY <4>1, <2>3 DEF Solid
    <3> HIDE DEF id
    <3> QED  BY <2>6, <3>1, <3>2, StripFacts DEF Stripped
  <2>8. HostAndPort(type, id) = <<host, port>>
    <3> HIDE DEF id
    <3> QED  BY <2>5, <2>6, <2>7 DEF HostAndPort
  <2>9. <<host, port>>[1] = host /\ <<host, port>>[2] = port  OBVIOUS
  <2>10. Parses(<<host, port>>)  BY <2>2, <2>3, <2>6, <2>9 DEF Parses
  <2>11. EndpointId(type, id) = <<Protocol(type), Alias(Address[host]), Port[port]>>
    <3> HIDE DEF id
    <3> QED  BY <2>8, <2>9, <2>10 DEF EndpointId
  <2> QED  BY <2>2, <2>3, <2>6, <2>11
<1>3. id = EndpointForm(type, text)  BY DEF EndpointForm
<1>4. Nothing \in Seq(Text)  BY DEF Nothing
<1> HIDE DEF id
<1> QED  BY <1>1, <1>2, <1>3, <1>4

KeyForm(text) ==
    LET key == strip(text) IN IF Numbered(key) THEN <<"REDIS">> \o key ELSE <<"REDIS", "0">> \o key

\* A second pass takes the normal form of a key for a key of database 0.
LEMMA RedisFacts ==
    ASSUME NEW text \in Seq(Text), text # <<>>
    PROVE  LET id == RedisId(text) IN
           /\ id \in Seq(Text)
           /\ id # Nothing => id = KeyForm(text)
           /\ id # Nothing /\ strip(id) = id => RedisId(id) = <<"REDIS", "0">> \o id /\ RedisId(id) # Nothing
<1> DEFINE key == strip(text)
           id == KeyForm(text)
<1>0. key \in Seq(Text) /\ key # <<>>  BY StripFacts
<1>1. RedisId(text) # Nothing => RedisId(text) = id  BY DEF RedisId, KeyForm
<1>2. "REDIS" \in Text /\ "0" \in Text  BY DEF Text, Marks
<1>3. /\ <<"REDIS">> \in Seq(Text) /\ <<"REDIS">> # <<>> /\ <<"REDIS">>[1] = "REDIS" /\ Len(<<"REDIS">>) = 1
      /\ <<"REDIS", "0">> \in Seq(Text) /\ <<"REDIS", "0">> # <<>> /\ <<"REDIS", "0">>[1] = "REDIS"
      /\ Len(<<"REDIS", "0">>) = 2
  BY <1>2
<1>4. id \in Seq(Text) /\ Len(id) > 1 /\ Len(id) # 1 /\ id[1] = "REDIS" /\ id # <<>>
  <2>1. id = <<"REDIS">> \o key \/ id = <<"REDIS", "0">> \o key  BY DEF KeyForm
  <2>2. Len(key) \in Nat \ {0}  BY <1>0
  <2> HIDE DEF key, id
  <2>3. CASE id = <<"REDIS">> \o key  BY <1>0, <1>3, <2>2, <2>3, Fronted
  <2>4. CASE id = <<"REDIS", "0">> \o key  BY <1>0, <1>3, <2>2, <2>4, Fronted
  <2> QED  BY <2>1, <2>3, <2>4
<1> HIDE DEF id
<1>5. ASSUME strip(id) = id PROVE RedisId(id) = <<"REDIS", "0">> \o id /\ RedisId(id) # Nothing
  <2>1. id # Empty
    <3>1. Len(<<Void>>) = 1  OBVIOUS
    <3> QED  BY <1>4, <3>1, Zenon DEF Empty
  <2>2. ~Numbered(id)  BY <1>4, TraceGraphAssumption DEF Numbered
  <2>3. RedisId(id) = <<"REDIS", "0">> \o id  BY <1>5, <2>1, <2>2 DEF RedisId
  <2>4. <<"REDIS", "0">> \o id # <<>>  BY <1>3, <1>4, Fronted
  <2> QED  BY <2>3, <2>4 DEF Nothing
<1>6. Nothing \in Seq(Text)  BY DEF Nothing
<1>7. RedisId(text) \in Seq(Text)  BY <1>1, <1>4, <1>6
<1> QED  BY <1>1, <1>5, <1>7 DEF id

CommandForm(text) == <<"EXEC">> \o CommandName(text)

\* A second pass puts a second prefix in front of a command.
LEMMA ProcessFacts ==
    ASSUME NEW text \in Seq(Text), text # <<>>
    PROVE  LET id == ProcessId(text) IN
           /\ id \in Seq(Text)
           /\ id # Nothing => id = CommandForm(text)
           /\ id # Nothing /\ strip(id) = id => ProcessId(id) = <<"EXEC">> \o id /\ ProcessId(id) # Nothing
<1> DEFINE value == strip(text)
           name == CommandName(text)
           id == CommandForm(text)
<1>0. value \in Seq(Text) /\ value # <<>> /\ Len(value) \in Nat \ {0} /\ value[1] \in Text
  <2>1. value \in Seq(Text) /\ value # <<>>  BY StripFacts
  <2> HIDE DEF value
  <2> QED  BY <2>1
<1>1. ProcessId(text) # Nothing => ProcessId(text) = id  BY DEF ProcessId, CommandForm
<1>2. "EXEC" \in Text  BY DEF Text, Marks
<1>3. <<"EXEC">> \in Seq(Text) /\ <<"EXEC">> # <<>> /\ <<"EXEC">>[1] = "EXEC" /\ Len(<<"EXEC">>) = 1  BY <1>2
<1>4. name \in Seq(Text) /\ name # <<>>
  <2>1. name = value \/ name = <<At(Executable, value[1], value[1])>>  BY DEF CommandName
  <2>2. At(Executable, value[1], value[1]) \in Text
    <3> HIDE DEF value
    <3> QED  BY <1>0, TraceGraphAssumption DEF At, Text
  <2> HIDE DEF value, name
  <2> QED  BY <1>0, <2>1, <2>2, One
<1>5. id \in Seq(Text) /\ Len(id) > 1 /\ Len(id) # 1 /\ id # <<>>
  <2>1. Len(name) \in Nat \ {0}
    <3> HIDE DEF name
    <3> QED  BY <1>4
  <2>2. id = <<"EXEC">> \o name  BY DEF CommandForm
  <2> HIDE DEF id, name
  <2>3. Len(<<"EXEC">> \o name) = 1 + Len(name) /\ <<"EXEC">> \o name \in Seq(Text) /\ <<"EXEC">> \o name # <<>>
    BY <1>3, <1>4, Fronted
  <2> QED  BY <2>1, <2>2, <2>3
<1> HIDE DEF id
<1>6. ASSUME strip(id) = id PROVE ProcessId(id) = <<"EXEC">> \o id /\ ProcessId(id) # Nothing
  <2>1. CommandName(id) = id  BY <1>5, <1>6 DEF CommandName
  <2>2. id # Empty
    <3>1. Len(<<Void>>) = 1  OBVIOUS
    <3> QED  BY <1>5, <3>1, Zenon DEF Empty
  <2>3. ProcessId(id) = <<"EXEC">> \o id  BY <2>1, <2>2 DEF ProcessId
  <2>4. <<"EXEC">> \o id # <<>>  BY <1>3, <1>5, Fronted
  <2> QED  BY <2>3, <2>4 DEF Nothing
<1>7. Nothing \in Seq(Text)  BY DEF Nothing
<1>8. ProcessId(text) \in Seq(Text)  BY <1>1, <1>5, <1>7
<1> QED  BY <1>1, <1>6, <1>8 DEF id

\* The normal form of a text, whatever is done with the text.
Form(type, text) ==
    CASE type \in PathTypes -> PathForm(text)
      [] type \in EndpointTypes -> EndpointForm(type, text)
      [] type = "REDIS_KEY" -> KeyForm(text)
      [] type = "PROCESS" -> CommandForm(text)
      [] OTHER -> strip(text)

\* What the second pass makes of the identifier of a line.
Renamed(type, id) ==
    IF type = "REDIS_KEY" THEN <<"REDIS", "0">> \o id
    ELSE IF type = "PROCESS" THEN <<"EXEC">> \o id
    ELSE id

\* The identifier left of a text is its normal form.
LEMMA IdentifierFacts ==
    ASSUME NEW type, NEW text \in Seq(Text), text # <<>>, NEW op, NEW p
    PROVE  LET id == normalize_identifier(type, text, op, p) IN
           /\ id \in Seq(Text)
           /\ id # Nothing => id = Form(type, text)
<1>1. CASE type \in PathTypes
  <2>1. normalize_identifier(type, text, op, p) = PathId(text, op, p)
    BY <1>1 DEF normalize_identifier, PathTypes, EndpointTypes
  <2>2. Form(type, text) = PathForm(text)  BY <1>1 DEF Form, PathTypes, EndpointTypes
  <2> QED  BY <2>1, <2>2, PathFacts
<1>2. CASE type \in EndpointTypes
  <2>1. normalize_identifier(type, text, op, p) = EndpointId(type, text)
    BY <1>2 DEF normalize_identifier, PathTypes, EndpointTypes
  <2>2. Form(type, text) = EndpointForm(type, text)  BY <1>2 DEF Form, PathTypes, EndpointTypes
  <2> QED  BY <2>1, <2>2, EndpointFacts
<1>3. CASE type = "REDIS_KEY"
  <2>1. normalize_identifier(type, text, op, p) = RedisId(text)
    BY <1>3 DEF normalize_identifier, PathTypes, EndpointTypes
  <2>2. Form(type, text) = KeyForm(text)  BY <1>3 DEF Form, PathTypes, EndpointTypes
  <2> QED  BY <2>1, <2>2, RedisFacts
<1>4. CASE type = "PROCESS"
  <2>1. normalize_identifier(type, text, op, p) = ProcessId(text)
    BY <1>4 DEF normalize_identifier, PathTypes, EndpointTypes
  <2>2. Form(type, text) = CommandForm(text)  BY <1>4 DEF Form, PathTypes, EndpointTypes
  <2> QED  BY <2>1, <2>2, ProcessFacts
<1>5. CASE type \notin PathTypes \cup EndpointTypes \cup {"REDIS_KEY", "PROCESS"}
  <2>1. normalize_identifier(type, text, op, p) = IF strip(text) = Empty THEN Nothing ELSE strip(text)
    BY <1>5 DEF normalize_identifier
  <2>2. Form(type, text) = strip(text)  BY <1>5 DEF Form
  <2>3. strip(text) \in Seq(Text) /\ Nothing \in Seq(Text)  BY StripFacts DEF Nothing
  <2> QED  BY <2>1, <2>2, <2>3
<1> QED  BY <1>1, <1>2, <1>3, <1>4, <1>5

\* A second pass renames it at most, unless it ends in a blank or only the
\* second pass excludes it.
LEMMA IdentifierAgain ==
    ASSUME NEW type, NEW text \in Seq(Text), text # <<>>, NEW op, NEW p, NEW q, Plain(p),
           NEW id, id = normalize_identifier(type, text, op, p), id # Nothing, strip(id) = id,
           ~(type \in PathTypes /\ LeftOut(op, p, q, id))
    PROVE  normalize_identifier(type, id, op, q) = Renamed(type, id) /\ normalize_identifier(type, id, op, q) # Nothing
<1>1. CASE type \in PathTypes
  <2>1. id = PathId(text, op, p) /\ normalize_identifier(type, id, op, q) = PathId(id, op, q)
    BY <1>1 DEF normalize_identifier, PathTypes, EndpointTypes
  <2>2. Renamed(type, id) = id  BY <1>1 DEF Renamed, PathTypes
  <2> QED  BY <1>1, <2>1, <2>2, PathFacts
<1>2. CASE type \in EndpointTypes
  <2>1. id = EndpointId(type, text) /\ normalize_identifier(type, id, op, q) = EndpointId(type, id)
    BY <1>2 DEF normalize_identifier, PathTypes, EndpointTypes
  <2>2. Renamed(type, id) = id  BY <1>2 DEF Renamed, EndpointTypes
  <2> QED  BY <2>1, <2>2, EndpointFacts
<1>3. CASE type = "REDIS_KEY"
  <2>1. id = RedisId(text) /\ normalize_identifier(type, id, op, q) = RedisId(id)
    BY <1>3 DEF normalize_identifier, PathTypes, EndpointTypes
  <2>2. Renamed(type, id) = <<"REDIS", "0">> \o id  BY <1>3 DEF Renamed
  <2> QED  BY <2>1, <2>2, RedisFacts
<1>4. CASE type = "PROCESS"
  <2>1. id = ProcessId(text) /\ normalize_identifier(type, id, op, q) = ProcessId(id)
    BY <1>4 DEF normalize_identifier, PathTypes, EndpointTypes
  <2>2. Renamed(type, id) = <<"EXEC">> \o id  BY <1>4 DEF Renamed
  <2> QED  BY <2>1, <2>2, ProcessFacts
<1>5. CASE type \notin PathTypes \cup EndpointTypes \cup {"REDIS_KEY", "PROCESS"}
  <2>1. normalize_identifier(type, id, op, q) = IF strip(id) = Empty THEN Nothing ELSE strip(id)
    BY <1>5 DEF normalize_identifier
  <2>2. id # Empty
    <3>1. id = strip(text) /\ strip(text) # Empty  BY <1>5 DEF normalize_identifier
    <3> QED  BY <3>1
  <2>3. Renamed(type, id) = id  BY <1>5 DEF Renamed
  <2> QED  BY <2>1, <2>2, <2>3
<1> QED  BY <1>1, <1>2, <1>3, <1>4, <1>5

\* Normalising an event leaves all of it but the identifier alone.
LEMMA NormalizedType ==
    ASSUME NEW e \in LineType, e.ident # <<>>, NEW p
    PROVE  LET n == normalize_event(e, p) IN
           /\ n \in LineType
           /\ n.test = e.test /\ n.type = e.type /\ n.op = e.op /\ n.mode = e.mode /\ n.at = e.at
           /\ n.ident # Nothing => n.ident = Form(e.type, e.ident)
<1>1. LET id == normalize_identifier(e.type, e.ident, e.op, p) IN
      id \in Seq(Text) /\ (id # Nothing => id = Form(e.type, e.ident))
  BY IdentifierFacts DEF LineType
<1> QED  BY <1>1 DEF LineType, normalize_event

\* Events are such lines.
LEMMA EventsAreLines == \A e \in Events : e \in LineType /\ e.ident # <<>>
<1>1. \A s \in Seq(STRING) : s \in Seq(Text)
  <2> TAKE s \in Seq(STRING)
  <2>1. \A i \in 1 .. Len(s) : s[i] \in STRING  OBVIOUS
  <2>2. \A i \in 1 .. Len(s) : s[i] \in Text  BY <2>1 DEF Text
  <2> QED  BY <2>2
<1>2. ASSUME NEW e \in EventType PROVE e \in LineType /\ e.ident # <<>>
  BY <1>1 DEF EventType, LineType
<1> QED  BY <1>2, TraceCaptureAssumption

\* Where the lines of a trace come from.
LEMMA WrittenFrom ==
    ASSUME NEW d \in Written
    PROVE  \E e \in Events :
              /\ d = normalize_event(e, SinkPrefixes) /\ d \in LineType
              /\ d.type = e.type /\ d.op = e.op
              /\ d.ident = normalize_identifier(e.type, e.ident, e.op, SinkPrefixes) /\ d.ident # Nothing
<1>1. PICK e \in Events : d = normalize_event(e, SinkPrefixes) /\ normalize_event(e, SinkPrefixes).ident # Nothing
  BY DEF Written
<1>2. e \in LineType /\ e.ident # <<>>  BY EventsAreLines
<1>3. d \in LineType  BY <1>1, <1>2, NormalizedType
<1>4. /\ d.type = e.type /\ d.op = e.op
      /\ d.ident = normalize_identifier(e.type, e.ident, e.op, SinkPrefixes) /\ d.ident # Nothing
  BY <1>1, <1>2 DEF normalize_event, LineType
<1> QED  BY <1>1, <1>3, <1>4

\* The lines of a trace are no torn ones.
LEMMA WrittenType ==
    ASSUME NEW d \in Written
    PROVE  d \in LineType /\ d # TornLine /\ d.ident # <<>>
<1>1. d \in LineType /\ d.ident # <<>>  BY WrittenFrom DEF Nothing
<1>2. d.at # 0 /\ TornLine.at = 0
  BY <1>1 DEF LineType, TornLine, Line
<1> QED  BY <1>1, <1>2

\* The second pass drops no stable line of a trace.
LEMMA SecondPass ==
    ASSUME NEW d \in Written, Stable(d)
    PROVE  /\ normalize_event(d, ReplayPrefixes) = [d EXCEPT !.ident = Renamed(d.type, d.ident)]
           /\ normalize_event(d, ReplayPrefixes).ident = Renamed(d.type, d.ident)
           /\ normalize_event(d, ReplayPrefixes).ident # Nothing
<1>1. PICK e \in Events :
         /\ d = normalize_event(e, SinkPrefixes) /\ d \in LineType
         /\ d.type = e.type /\ d.op = e.op
         /\ d.ident = normalize_identifier(e.type, e.ident, e.op, SinkPrefixes) /\ d.ident # Nothing
  BY WrittenFrom
<1>2. e.ident \in Seq(Text) /\ e.ident # <<>>  BY EventsAreLines DEF LineType
<1>3. /\ strip(d.ident) = d.ident
      /\ ~(d.type \in PathTypes /\ LeftOut(d.op, SinkPrefixes, ReplayPrefixes, d.ident))
      /\ Plain(SinkPrefixes)
  BY TraceCaptureAssumption DEF Stable, LeftOut, Plain
<1>4. /\ normalize_identifier(d.type, d.ident, d.op, ReplayPrefixes) = Renamed(d.type, d.ident)
      /\ normalize_identifier(d.type, d.ident, d.op, ReplayPrefixes) # Nothing
  <2>1. d.ident = normalize_identifier(d.type, e.ident, d.op, SinkPrefixes)  BY <1>1
  <2> QED  BY <1>1, <1>2, <1>3, <2>1, IdentifierAgain
<1> QED  BY <1>1, <1>4 DEF normalize_event, LineType

\* A part in front of two identifiers keeps them apart.
LEMMA PrefixKeepsApart ==
    ASSUME NEW S, NEW p \in Seq(S), NEW s \in Seq(S), NEW t \in Seq(S)
    PROVE  p \o s = p \o t => s = t
<1> HAVE p \o s = p \o t
<1>1. Len(s) = Len(t) /\ Len(s) \in Nat /\ Len(p) \in Nat
  <2>1. Len(p \o s) = Len(p) + Len(s) /\ Len(p \o t) = Len(p) + Len(t) OBVIOUS
  <2>2. Len(p \o s) = Len(p \o t) OBVIOUS
  <2>3. Len(p) \in Nat /\ Len(s) \in Nat /\ Len(t) \in Nat OBVIOUS
  <2> QED  BY <2>1, <2>2, <2>3
<1>2. ASSUME NEW i \in 1 .. Len(s) PROVE s[i] = t[i]
  <2>1. (p \o s)[Len(p) + i] = s[i]  BY <1>1, SMTT(30)
  <2>2. (p \o t)[Len(p) + i] = t[i]  BY <1>1, SMTT(30)
  <2> QED  BY <2>1, <2>2
<1> QED  BY <1>1, <1>2

\* The second pass tells apart what stable lines told apart, and no more.
LEMMA SecondPassIsFaithful ==
    ASSUME NEW d \in Written, NEW e \in Written, Stable(d), Stable(e)
    PROVE  ResourceOf(normalize_event(d, ReplayPrefixes)) = ResourceOf(normalize_event(e, ReplayPrefixes))
              <=> ResourceOf(d) = ResourceOf(e)
<1>1. d \in LineType /\ e \in LineType
  BY WrittenType
<1>2. /\ normalize_event(d, ReplayPrefixes).type = d.type /\ normalize_event(e, ReplayPrefixes).type = e.type
      /\ normalize_event(d, ReplayPrefixes).ident = Renamed(d.type, d.ident)
      /\ normalize_event(e, ReplayPrefixes).ident = Renamed(e.type, e.ident)
  BY <1>1, SecondPass DEF LineType
<1>3. d.ident \in Seq(Text) /\ e.ident \in Seq(Text)
  BY <1>1 DEF LineType
<1>4. ASSUME d.type = e.type PROVE Renamed(d.type, d.ident) = Renamed(d.type, e.ident) <=> d.ident = e.ident
  <2>1. <<"REDIS", "0">> \in Seq(Text) /\ <<"EXEC">> \in Seq(Text)  BY DEF Text, Marks
  <2>2. <<"REDIS", "0">> \o d.ident = <<"REDIS", "0">> \o e.ident <=> d.ident = e.ident
    BY <1>3, <2>1, PrefixKeepsApart, Zenon
  <2>3. <<"EXEC">> \o d.ident = <<"EXEC">> \o e.ident <=> d.ident = e.ident
    BY <1>3, <2>1, PrefixKeepsApart, Zenon
  <2> QED  BY <2>2, <2>3 DEF Renamed
<1> QED  BY <1>2, <1>4 DEF ResourceOf

\* Two parts in front.
LEMMA Joined ==
    ASSUME NEW S, NEW a \in S, NEW b \in S
    PROVE  <<a>> \o <<b>> = <<a, b>>
<1> DEFINE s == <<a>> \o <<b>>
<1>1. s \in Seq(S) /\ Len(s) = 2 /\ s[1] = a /\ s[2] = b  OBVIOUS
<1>2. <<a, b>> \in Seq(S) /\ Len(<<a, b>>) = 2 /\ <<a, b>>[1] = a /\ <<a, b>>[2] = b  OBVIOUS
<1> HIDE DEF s
<1>3. s = [i \in 1 .. 2 |-> s[i]] /\ <<a, b>> = [i \in 1 .. 2 |-> <<a, b>>[i]]  BY <1>1, <1>2
<1>4. \A i \in 1 .. 2 : s[i] = <<a, b>>[i]  BY <1>1, <1>2
<1>5. s = <<a, b>>  BY <1>3, <1>4
<1> QED  BY <1>5 DEF s

\* Events that denote one thing have one normal form.
LEMMA SameForm ==
    ASSUME NEW e \in LineType, NEW f \in LineType, e.ident # <<>>, f.ident # <<>>, Denoted(e) = Denoted(f)
    PROVE  e.type = f.type /\ Form(e.type, e.ident) = Form(f.type, f.ident)
<1>1. e.type = f.type
  <2>1. Denoted(e)[1] = e.type /\ Denoted(f)[1] = f.type  BY DEF Denoted
  <2> QED  BY <2>1
<1>2. CASE e.type \in PathTypes
  <2>1. \A d \in {e, f} : Denoted(d) = <<d.type, PathOf(d.ident)>> /\ Form(d.type, d.ident) = PathForm(d.ident)
    BY <1>1, <1>2 DEF Denoted, Form, PathOf, PathTypes, EndpointTypes
  <2>2. PathOf(e.ident) = PathOf(f.ident)  BY <2>1
  <2> QED  BY <2>1, <2>2 DEF PathForm
<1>3. CASE e.type \in EndpointTypes
  <2> DEFINE address(d) == Address[HostAndPort(d.type, d.ident)[1]]
             port(d) == Port[HostAndPort(d.type, d.ident)[2]]
             hosts(d) == IF address(d) \in Loopback THEN Loopback ELSE {address(d)}
  <2>1. \A d \in {e, f} : /\ Denoted(d) = <<d.type, hosts(d), port(d)>>
                          /\ Form(d.type, d.ident) = <<Protocol(d.type), Alias(address(d)), port(d)>>
    BY <1>1, <1>3 DEF Denoted, Form, EndpointForm, PathTypes, EndpointTypes
  <2>2. hosts(e) = hosts(f) /\ port(e) = port(f)
    <3>1. <<e.type, hosts(e), port(e)>> = <<f.type, hosts(f), port(f)>>  BY <2>1
    <3> HIDE DEF hosts, port
    <3> QED  BY <3>1
  <2>3. Alias(address(e)) = Alias(address(f))
    <3> HIDE DEF address
    <3> QED  BY <2>2 DEF Alias
  <2> HIDE DEF address, port
  <2> QED  BY <1>1, <2>1, <2>2, <2>3
<1>4. CASE e.type = "REDIS_KEY"
  <2> DEFINE number(key) == IF Numbered(key) THEN key ELSE <<"0">> \o key
  <2>1. ASSUME NEW d \in {e, f}
        PROVE  Denoted(d) = <<d.type, number(strip(d.ident))>> /\ Form(d.type, d.ident) = <<"REDIS">> \o number(strip(d.ident))
    <3>1. d.type = "REDIS_KEY"  BY <1>1, <1>4
    <3>2. Denoted(d) = <<d.type, number(strip(d.ident))>>  BY <3>1 DEF Denoted, PathTypes, EndpointTypes
    <3>3. Form(d.type, d.ident) = KeyForm(d.ident)  BY <3>1 DEF Form, PathTypes, EndpointTypes
    <3>4. strip(d.ident) \in Seq(Text)  BY StripFacts DEF LineType
    <3>5. \A key \in Seq(Text) : <<"REDIS", "0">> \o key = <<"REDIS">> \o (<<"0">> \o key)
      <4> TAKE key \in Seq(Text)
      <4>1. "REDIS" \in Text /\ "0" \in Text  BY DEF Text, Marks
      <4>2. <<"REDIS">> \in Seq(Text) /\ <<"0">> \in Seq(Text) /\ <<"REDIS", "0">> \in Seq(Text)  BY <4>1
      <4>3. <<"REDIS">> \o <<"0">> = <<"REDIS", "0">>  BY <4>1, Joined
      <4>4. (<<"REDIS">> \o <<"0">>) \o key = <<"REDIS">> \o (<<"0">> \o key)  BY <4>2
      <4> QED  BY <4>3, <4>4
    <3> QED  BY <3>2, <3>3, <3>4, <3>5 DEF KeyForm
  <2>2. number(strip(e.ident)) = number(strip(f.ident))
    <3> HIDE DEF number
    <3>1. <<e.type, number(strip(e.ident))>> = <<f.type, number(strip(f.ident))>>  BY <2>1
    <3> QED  BY <3>1
  <2> HIDE DEF number
  <2>3. Form(e.type, e.ident) = Form(f.type, f.ident)  BY <2>1, <2>2
  <2> QED  BY <1>1, <2>3
<1>5. CASE e.type = "PROCESS"
  <2>1. \A d \in {e, f} : Denoted(d) = <<d.type, CommandName(d.ident)>> /\ Form(d.type, d.ident) = <<"EXEC">> \o CommandName(d.ident)
    BY <1>1, <1>5 DEF Denoted, Form, CommandForm, PathTypes, EndpointTypes
  <2>2. CommandName(e.ident) = CommandName(f.ident)
    <3>1. <<e.type, CommandName(e.ident)>> = <<f.type, CommandName(f.ident)>>  BY <2>1
    <3> QED  BY <3>1
  <2> QED  BY <1>1, <2>1, <2>2
<1>6. CASE e.type \notin PathTypes \cup EndpointTypes \cup {"REDIS_KEY", "PROCESS"}
  <2>1. \A d \in {e, f} : Denoted(d) = <<d.type, strip(d.ident)>> /\ Form(d.type, d.ident) = strip(d.ident)
    BY <1>1, <1>6 DEF Denoted, Form
  <2> QED  BY <2>1
<1> QED  BY <1>1, <1>2, <1>3, <1>4, <1>5, <1>6

\* What the two passes make of an event.
Twice(e) == normalize_event(normalize_event(e, SinkPrefixes), ReplayPrefixes)

\* An event that survives both passes keeps its fields, and gets its form.
LEMMA TwiceFacts ==
    ASSUME NEW e \in Events, Survives(e)
    PROVE  /\ normalize_event(e, SinkPrefixes) \in Written
           /\ Recorded(e) = <<normalize_event(e, SinkPrefixes)>>
           /\ Twice(e) \in LineType /\ Twice(e).ident # Nothing
           /\ Twice(e).test = e.test /\ Twice(e).op = e.op /\ Twice(e).mode = e.mode
           /\ ResourceOf(Twice(e)) = <<e.type, Form(e.type, Form(e.type, e.ident))>>
<1> DEFINE n == normalize_event(e, SinkPrefixes)
           m == normalize_event(n, ReplayPrefixes)
<1>1. e \in LineType /\ e.ident # <<>>  BY EventsAreLines
<1>2. n.ident # Nothing /\ Recorded(e) = <<n>>  BY DEF Survives, Recorded, Normalized
<1>3. m.ident # Nothing
  <2> HIDE DEF n
  <2> QED  BY <1>2 DEF Survives, Normalized
<1>4. /\ n \in LineType /\ n.ident # <<>>
      /\ n.test = e.test /\ n.type = e.type /\ n.op = e.op /\ n.mode = e.mode
      /\ n.ident = Form(e.type, e.ident)
  BY <1>1, <1>2, NormalizedType DEF Nothing
<1>5. n \in Written  BY <1>2 DEF Written
<1> HIDE DEF n
<1>6. /\ m \in LineType /\ m.test = n.test /\ m.type = n.type /\ m.op = n.op /\ m.mode = n.mode
      /\ m.ident = Form(n.type, n.ident)
  BY <1>3, <1>4, NormalizedType
<1>7. Twice(e) = m  BY DEF Twice, n
<1> HIDE DEF m
<1>8. ResourceOf(m) = <<e.type, Form(e.type, Form(e.type, e.ident))>>  BY <1>4, <1>6 DEF ResourceOf
<1>9. Recorded(e) = <<normalize_event(e, SinkPrefixes)>> /\ normalize_event(e, SinkPrefixes) \in Written
  BY <1>2, <1>5 DEF n
<1> QED  BY <1>3, <1>4, <1>6, <1>7, <1>8, <1>9

\* Two spellings of one thing meet in one resource.
LEMMA SpellingsMeet ==
    ASSUME NEW e \in Events, NEW f \in Events, Survives(e), Survives(f), Denoted(e) = Denoted(f)
    PROVE  ResourceOf(Twice(e)) = ResourceOf(Twice(f))
<1>1. e \in LineType /\ f \in LineType /\ e.ident # <<>> /\ f.ident # <<>>  BY EventsAreLines
<1>2. e.type = f.type /\ Form(e.type, e.ident) = Form(f.type, f.ident)  BY <1>1, SameForm
<1> QED  BY <1>2, TwiceFacts
-----------------------------------------------------------------------------
(***************************************************************************)
(* The replay.                                                             *)
(***************************************************************************)

\* The file holds lines of the writer and perhaps a torn one.
FileInv == file \in Seq(Written \cup {TornLine})

\* The replay holds what the normaliser leaves of the whole lines of the file.
ReplayInv ==
    phase \notin {"capture", "read", "crashed"} =>
        replayed = Kept(Again(Whole(file)))

\* What is left of the lines when their buffer is lost is a trace.
LEMMA RemainsAreLines ==
    ASSUME SinkInv
    PROVE  \A f \in Remains : f \in Seq(Written \cup {TornLine})
<1>1. lines \in Seq(Written)
  BY DEF SinkInv, SinkTypes
<1>2. ASSUME NEW n \in 0 .. Len(lines)
      PROVE  /\ SubSeq(lines, 1, n) \in Seq(Written \cup {TornLine})
             /\ Append(SubSeq(lines, 1, n), TornLine) \in Seq(Written \cup {TornLine})
  <2>1. SubSeq(lines, 1, n) \in Seq(Written)  BY <1>1
  <2>2. SubSeq(lines, 1, n) \in Seq(Written \cup {TornLine})
    <3>1. \A s \in Seq(Written) : s \in Seq(Written \cup {TornLine})  OBVIOUS
    <3> QED  BY <2>1, <3>1
  <2> QED  BY <2>2
<1> QED  BY <1>2 DEF Remains

\* The file is a trace in every state.
LEMMA FileStep == SinkInv /\ FileInv /\ [Next]_vars => FileInv'
<1> SUFFICES ASSUME SinkInv, FileInv, SinkStep \/ UNCHANGED sinkVars PROVE FileInv'
  BY NextIsSinkStep
<1>1. file' = file \/ file' \in Remains
  BY AllRemains DEF SinkStep, WriterStep, CloserStep, Submit, Consume, NormalizerRaises, Stop, WriteFails,
     CallClose, PutSentinel, Join, JoinTimesOut, Exit, sinkVars
<1> QED  BY <1>1, RemainsAreLines DEF FileInv

\* The replay reads the file once.
LEMMA ReplayStep == ReplayInv /\ [Next]_vars => ReplayInv'
<1> SUFFICES ASSUME ReplayInv, [Next]_vars PROVE ReplayInv'
  OBVIOUS
<1>1. CASE Capture
  BY <1>1 DEF Capture, replayVars, ReplayInv
<1>2. CASE StartReplay
  BY <1>2 DEF StartReplay, ReplayInv
<1>3. CASE ReadEvents
  <2>1. file' = file  BY <1>3 DEF ReadEvents, sinkVars
  <2>2. \/ phase' = "crashed"
        \/ replayed' = Kept(Again(Whole(file)))
    BY <1>3 DEF ReadEvents
  <2> QED  BY <2>1, <2>2 DEF ReplayInv
<1>4. CASE Judge \/ Build \/ Truncate \/ WriteLatest \/ Over \/ UNCHANGED vars
  <2>1. file' = file /\ replayed' = replayed /\ (phase' \notin {"capture", "read", "crashed"} => phase \notin {"capture", "read", "crashed"})
    BY <1>4 DEF Judge, Build, Truncate, WriteLatest, Over, vars, sinkVars, replayVars
  <2> QED  BY <2>1 DEF ReplayInv
<1> QED  BY <1>1, <1>2, <1>3, <1>4 DEF Next

\* The file is a trace, and the replay what the normaliser leaves of it.
LEMMA ReplayInvariant == Spec => [](SinkInv /\ FileInv /\ ReplayInv)
<1>1. Init => FileInv /\ ReplayInv
  BY DEF Init, SinkInit, FileInv, ReplayInv
<1> QED  BY <1>1, SinkStart, SinkStepInv, FileStep, ReplayStep, PTL DEF Spec

\* The replayed events are what the second pass leaves of the whole lines, in
\* their order.
LEMMA ReplayedLines ==
    ASSUME FileInv, ReplayInv, phase \notin {"capture", "read", "crashed"}
    PROVE  LET whole == Whole(file) IN
           /\ whole \in Seq(Written) /\ replayed \in Seq(LineType)
           /\ \E at \in [1 .. Len(whole) -> Nat] :
                 /\ \A i \in 1 .. Len(whole) : normalize_event(whole[i], ReplayPrefixes).ident # Nothing =>
                       /\ at[i] \in 1 .. Len(replayed)
                       /\ replayed[at[i]] = normalize_event(whole[i], ReplayPrefixes)
                 /\ \A i, j \in 1 .. Len(whole) :
                       /\ i < j
                       /\ normalize_event(whole[i], ReplayPrefixes).ident # Nothing
                       /\ normalize_event(whole[j], ReplayPrefixes).ident # Nothing
                       => at[i] < at[j]
<1> DEFINE whole == Whole(file)
           again == Again(whole)
           drop == {e \in ToSet(again) : e.ident = Nothing}
<1>1. whole \in Seq(Written) /\ Len(whole) \in Nat
  <2>1. whole \in Seq((Written \cup {TornLine}) \ {TornLine})
    BY WithoutFacts DEF FileInv, Whole
  <2>2. (Written \cup {TornLine}) \ {TornLine} = Written
    BY WrittenType
  <2> HIDE DEF whole
  <2> QED  BY <2>1, <2>2
<1> HIDE DEF whole
<1>2. ASSUME NEW i \in 1 .. Len(whole) PROVE normalize_event(whole[i], ReplayPrefixes) \in LineType
  <2>1. whole[i] \in Written  BY <1>1
  <2> QED  BY <2>1, WrittenType, NormalizedType
<1>3. /\ again \in Seq(LineType) /\ Len(again) = Len(whole)
      /\ \A i \in 1 .. Len(whole) : again[i] = normalize_event(whole[i], ReplayPrefixes)
  <2>1. again = [i \in 1 .. Len(whole) |-> normalize_event(whole[i], ReplayPrefixes)]  BY <1>1 DEF Again
  <2>2. again \in [1 .. Len(whole) -> LineType]  BY <1>2, <2>1
  <2>3. \A i \in 1 .. Len(whole) : again[i] = normalize_event(whole[i], ReplayPrefixes)  BY <2>1
  <2> HIDE DEF again
  <2> QED  BY <1>1, <2>2, <2>3
<1>4. replayed = Without(again, drop)  BY DEF ReplayInv, Kept, whole
<1> HIDE DEF again
<1>5. replayed \in Seq(LineType \ drop)  BY <1>3, <1>4, WithoutFacts
<1>6. replayed \in Seq(LineType)
  <2> HIDE DEF drop
  <2>1. \A i \in 1 .. Len(replayed) : replayed[i] \in LineType  BY <1>5
  <2> QED  BY <1>5, <2>1, Narrowed
<1>7. ASSUME NEW i \in 1 .. Len(whole)
      PROVE  again[i] \notin drop <=> normalize_event(whole[i], ReplayPrefixes).ident # Nothing
  <2>1. again[i] \in ToSet(again)
    <3>1. i \in DOMAIN again  BY <1>3
    <3> QED  BY <3>1 DEF ToSet
  <2> QED  BY <1>3, <2>1
<1> HIDE DEF drop
<1>8. PICK at \in [1 .. Len(again) -> Nat] :
         /\ \A i \in 1 .. Len(again) : again[i] \notin drop =>
               at[i] \in 1 .. Len(replayed) /\ replayed[at[i]] = again[i]
         /\ \A i, j \in 1 .. Len(again) : i < j /\ again[i] \notin drop /\ again[j] \notin drop => at[i] < at[j]
  BY <1>3, <1>4, WithoutPlaces
<1>9. \E a \in [1 .. Len(whole) -> Nat] :
                 /\ \A i \in 1 .. Len(whole) : normalize_event(whole[i], ReplayPrefixes).ident # Nothing =>
                       /\ a[i] \in 1 .. Len(replayed)
                       /\ replayed[a[i]] = normalize_event(whole[i], ReplayPrefixes)
                 /\ \A i, j \in 1 .. Len(whole) :
                       /\ i < j
                       /\ normalize_event(whole[i], ReplayPrefixes).ident # Nothing
                       /\ normalize_event(whole[j], ReplayPrefixes).ident # Nothing
                       => a[i] < a[j]
  <2> SUFFICES ASSUME TRUE
               PROVE  /\ at \in [1 .. Len(whole) -> Nat]
                      /\ \A i \in 1 .. Len(whole) : normalize_event(whole[i], ReplayPrefixes).ident # Nothing =>
                            /\ at[i] \in 1 .. Len(replayed)
                            /\ replayed[at[i]] = normalize_event(whole[i], ReplayPrefixes)
                      /\ \A i, j \in 1 .. Len(whole) :
                            /\ i < j
                            /\ normalize_event(whole[i], ReplayPrefixes).ident # Nothing
                            /\ normalize_event(whole[j], ReplayPrefixes).ident # Nothing
                            => at[i] < at[j]
    OBVIOUS
  <2> QED  BY <1>3, <1>7, <1>8
<1> QED  BY <1>1, <1>6, <1>9 DEF whole

\* The second normalisation, of the replay, drops no stable line of a trace,
\* changes nothing of it but the identifier, and identifies and separates no
\* two resources that the first did not.
THEOREM ReplayIsFaithful == Spec => []ReplayKeepsTrace
<1>1. FileInv /\ ReplayInv => ReplayKeepsTrace
  <2> DEFINE whole == Whole(file)
             stable == {i \in DOMAIN whole : Stable(whole[i])}
             Kept2(at) ==
                /\ \A i, j \in stable : i < j => at[i] < at[j]
                /\ \A i \in stable : replayed[at[i]] = [whole[i] EXCEPT !.ident = replayed[at[i]].ident]
                /\ \A i, j \in stable :
                      (ResourceOf(replayed[at[i]]) = ResourceOf(replayed[at[j]]))
                          <=> (ResourceOf(whole[i]) = ResourceOf(whole[j]))
  <2> SUFFICES ASSUME FileInv, ReplayInv, phase \notin {"capture", "read", "crashed"}
               PROVE  \E at \in [stable -> DOMAIN replayed] : Kept2(at)
    BY DEF ReplayKeepsTrace
  <2>1. /\ whole \in Seq(Written) /\ replayed \in Seq(LineType)
        /\ \E at \in [1 .. Len(whole) -> Nat] :
              /\ \A i \in 1 .. Len(whole) : normalize_event(whole[i], ReplayPrefixes).ident # Nothing =>
                    /\ at[i] \in 1 .. Len(replayed)
                    /\ replayed[at[i]] = normalize_event(whole[i], ReplayPrefixes)
              /\ \A i, j \in 1 .. Len(whole) :
                    /\ i < j
                    /\ normalize_event(whole[i], ReplayPrefixes).ident # Nothing
                    /\ normalize_event(whole[j], ReplayPrefixes).ident # Nothing
                    => at[i] < at[j]
    BY ReplayedLines
  <2> HIDE DEF whole
  <2>2. PICK a \in [1 .. Len(whole) -> Nat] :
              /\ \A i \in 1 .. Len(whole) : normalize_event(whole[i], ReplayPrefixes).ident # Nothing =>
                    /\ a[i] \in 1 .. Len(replayed)
                    /\ replayed[a[i]] = normalize_event(whole[i], ReplayPrefixes)
              /\ \A i, j \in 1 .. Len(whole) :
                    /\ i < j
                    /\ normalize_event(whole[i], ReplayPrefixes).ident # Nothing
                    /\ normalize_event(whole[j], ReplayPrefixes).ident # Nothing
                    => a[i] < a[j]
    BY <2>1
  <2> DEFINE at == [i \in stable |-> a[i]]
  <2>3. ASSUME NEW i \in stable
        PROVE  /\ i \in 1 .. Len(whole) /\ whole[i] \in Written /\ Stable(whole[i])
               /\ normalize_event(whole[i], ReplayPrefixes).ident # Nothing
               /\ at[i] \in DOMAIN replayed /\ replayed[at[i]] = normalize_event(whole[i], ReplayPrefixes)
               /\ at[i] = a[i]
    <3>1. i \in 1 .. Len(whole) /\ whole[i] \in Written /\ Stable(whole[i])  BY <2>1
    <3>2. normalize_event(whole[i], ReplayPrefixes).ident # Nothing  BY <3>1, SecondPass
    <3>3. DOMAIN replayed = 1 .. Len(replayed)  BY <2>1
    <3> QED  BY <2>2, <3>1, <3>2, <3>3
  <2>4. at \in [stable -> DOMAIN replayed]
    <3> HIDE DEF stable
    <3> QED  BY <2>3
  <2>5. Kept2(at)
    <3>1. \A i, j \in stable : i < j => at[i] < at[j]
      <4> HIDE DEF stable, at
      <4> QED  BY <2>2, <2>3
    <3>2. ASSUME NEW i \in stable PROVE replayed[at[i]] = [whole[i] EXCEPT !.ident = replayed[at[i]].ident]
      <4> DEFINE d == whole[i]
      <4>1. d \in Written /\ Stable(d) /\ replayed[at[i]] = normalize_event(d, ReplayPrefixes)  BY <2>3
      <4> HIDE DEF d
      <4>2. normalize_event(d, ReplayPrefixes) = [d EXCEPT !.ident = normalize_event(d, ReplayPrefixes).ident]
        BY <4>1, SecondPass
      <4> QED  BY <4>1, <4>2 DEF d
    <3>3. ASSUME NEW i \in stable, NEW j \in stable
          PROVE  (ResourceOf(replayed[at[i]]) = ResourceOf(replayed[at[j]]))
                          <=> (ResourceOf(whole[i]) = ResourceOf(whole[j]))
      <4> HIDE DEF stable, at
      <4> QED  BY <2>3, SecondPassIsFaithful
    <3> HIDE DEF stable, at
    <3> QED  BY <3>1, <3>2, <3>3
  <2> HIDE DEF Kept2, at
  <2> QED  BY <2>4, <2>5
<1> QED  BY <1>1, ReplayInvariant, PTL
-----------------------------------------------------------------------------
(***************************************************************************)
(* The graph of a trace.                                                   *)
(***************************************************************************)

\* The recursive definition of the fold in from_events has a solution: the
\* graph is built event by event.
LEMMA BuildRecursion ==
    ASSUME NEW n \in Nat, NEW ev, DOMAIN ev = 1 .. n
    PROVE  \E g : /\ DOMAIN g = 0 .. n /\ g[0] = EmptyGraph
                  /\ \A k \in 1 .. n : g[k] = add_event(g[k - 1], ev[k])
                  /\ from_events(ev) = g[n]
<1> DEFINE Add(g, i) == add_event(g, ev[i])
           D(h, m) == h = [s \in SUBSET (1 .. m) |-> IF s = {} THEN EmptyGraph ELSE Add(h[s \ {Max(s)}], Max(s))]
           Has(m) == \E h : D(h, m)
           T == {m \in Nat : Has(m)}
<1>0. from_events(ev) = (CHOOSE h : D(h, n))[1 .. n]
  BY DEF from_events, FoldLeft, MapThenFoldSet
<1> HIDE DEF Add
<1>1. 0 \in T
  <2> DEFINE h == [s \in SUBSET (1 .. 0) |-> EmptyGraph]
  <2>1. \A s \in SUBSET (1 .. 0) : s = {}  OBVIOUS
  <2>2. D(h, 0)  BY <2>1
  <2> HIDE DEF D
  <2> QED  BY <2>2
<1>2. \A m \in Nat : \A s : s \in SUBSET (1 .. m + 1) /\ m + 1 \in s => Max(s) = m + 1
  <2> SUFFICES ASSUME NEW m \in Nat, NEW s \in SUBSET (1 .. m + 1), m + 1 \in s PROVE Max(s) = m + 1
    OBVIOUS
  <2>1. \A y \in s : y \in Nat /\ m + 1 >= y  OBVIOUS
  <2>2. \A x \in s : (\A y \in s : x >= y) => x = m + 1
    <3> TAKE x \in s
    <3> HAVE \A y \in s : x >= y
    <3>1. x >= m + 1 /\ m + 1 >= x /\ x \in Nat  BY <2>1
    <3> QED  BY <3>1
  <2> QED  BY <2>1, <2>2 DEF Max
<1>3. ASSUME NEW m \in T PROVE m + 1 \in T
  <2>1. m \in Nat /\ m + 1 \in Nat  OBVIOUS
  <2>2. PICK h : D(h, m)  OBVIOUS
  <2> DEFINE g == [s \in SUBSET (1 .. m + 1) |-> IF s \in SUBSET (1 .. m) THEN h[s] ELSE Add(h[s \ {m + 1}], m + 1)]
             R(s) == IF s = {} THEN EmptyGraph ELSE Add(g[s \ {Max(s)}], Max(s))
  <2>3. ASSUME NEW s \in SUBSET (1 .. m + 1) PROVE g[s] = R(s)
    <3>1. CASE s \in SUBSET (1 .. m)
      <4>1. s \ {Max(s)} \in SUBSET (1 .. m) /\ s \ {Max(s)} \in SUBSET (1 .. m + 1)  BY <3>1
      <4>2. g[s] = h[s] /\ g[s \ {Max(s)}] = h[s \ {Max(s)}]  BY <3>1, <4>1
      <4>3. h[s] = IF s = {} THEN EmptyGraph ELSE Add(h[s \ {Max(s)}], Max(s))  BY <3>1, <2>2
      <4> HIDE DEF g, D
      <4> QED  BY <4>2, <4>3
    <3>2. CASE s \notin SUBSET (1 .. m)
      <4>1. m + 1 \in s /\ s \ {m + 1} \in SUBSET (1 .. m) /\ s \ {m + 1} \in SUBSET (1 .. m + 1)
        BY <3>2, <2>1
      <4>2. Max(s) = m + 1 /\ s # {}  BY <4>1, <1>2, <2>1
      <4>3. g[s] = Add(h[s \ {m + 1}], m + 1)  BY <3>2
      <4>4. g[s \ {m + 1}] = h[s \ {m + 1}]  BY <4>1
      <4> HIDE DEF g, D
      <4> QED  BY <4>2, <4>3, <4>4
    <3> QED  BY <3>1, <3>2
  <2>4. g = [s \in SUBSET (1 .. m + 1) |-> g[s]]  OBVIOUS
  <2>5. D(g, m + 1)
    <3>1. [s \in SUBSET (1 .. m + 1) |-> g[s]] = [s \in SUBSET (1 .. m + 1) |-> R(s)]
      <4> HIDE DEF g, R
      <4> QED  BY <2>3
    <3> HIDE DEF g
    <3> QED  BY <2>4, <3>1
  <2> HIDE DEF D, g
  <2> QED  BY <2>1, <2>5
<1>4. n \in T
  <2> HIDE DEF T
  <2>1. T \in SUBSET Nat  BY DEF T
  <2> QED  BY <1>1, <1>3, <2>1, SetInduction
<1>5. PICK h : h = CHOOSE f : D(f, n)  OBVIOUS
<1>6. D(h, n)
  <2>1. \E f : D(f, n)  BY <1>4
  <2> HIDE DEF D
  <2> QED  BY <1>5, <2>1
<1>7. h[{}] = EmptyGraph
  BY <1>6
<1>8. ASSUME NEW k \in 1 .. n PROVE h[1 .. k] = Add(h[1 .. k - 1], k)
  <2>1. k \in Nat /\ k - 1 \in Nat /\ (k - 1) + 1 = k  OBVIOUS
  <2>2. 1 .. k \in SUBSET (1 .. n) /\ 1 .. k # {} /\ k \in 1 .. k /\ (1 .. k) \ {k} = 1 .. k - 1  BY <2>1
  <2>3. Max(1 .. k) = k
    <3>1. 1 .. k \in SUBSET (1 .. (k - 1) + 1) /\ (k - 1) + 1 \in 1 .. k  BY <2>1
    <3> QED  BY <1>2, <2>1, <3>1
  <2>4. h[1 .. k] = IF 1 .. k = {} THEN EmptyGraph ELSE Add(h[(1 .. k) \ {Max(1 .. k)}], Max(1 .. k))
    BY <1>6, <2>2
  <2> QED  BY <2>2, <2>3, <2>4
<1> HIDE DEF D, T, Has
<1> DEFINE F == [k \in 0 .. n |-> h[1 .. k]]
<1>9. F[0] = EmptyGraph
  <2>1. 1 .. 0 = {} /\ 0 \in 0 .. n  OBVIOUS
  <2> QED  BY <1>7, <2>1
<1>10. \A k \in 1 .. n : F[k] = add_event(F[k - 1], ev[k])
  <2> TAKE k \in 1 .. n
  <2>1. k \in 0 .. n /\ k - 1 \in 0 .. n  OBVIOUS
  <2>2. F[k] = h[1 .. k] /\ F[k - 1] = h[1 .. k - 1]  BY <2>1
  <2> HIDE DEF F
  <2> QED  BY <1>8, <2>2 DEF Add
<1>11. from_events(ev) = F[n]
  BY <1>0, <1>5
<1>12. DOMAIN F = 0 .. n  OBVIOUS
<1> HIDE DEF F
<1> QED  BY <1>9, <1>10, <1>11, <1>12
\* An aggregate says what the events at the given places say.
EdgeMatches(edge, ev, used) ==
    /\ edge.first \in {ev[i].at : i \in used} /\ \A i \in used : edge.first <= ev[i].at
    /\ edge.last \in {ev[i].at : i \in used} /\ \A i \in used : edge.last >= ev[i].at
    /\ edge.modes = {ev[i].mode : i \in used}
    /\ DOMAIN edge.counts = {ev[i].op : i \in used}
    /\ \A op \in DOMAIN edge.counts : edge.counts[op] = Cardinality({i \in used : ev[i].op = op})

\* The first event of an edge.
LEMMA FirstObservation ==
    ASSUME NEW n \in Nat, NEW ev, ev[n] \in LineType
    PROVE  EdgeMatches(observe(NewAggregate, ev[n]), ev, {n})
<1> DEFINE e == ev[n]
           edge == observe(NewAggregate, e)
<1>0. e.at \in Nat \ {0}  BY DEF LineType
<1>1. DOMAIN NewAggregate.counts = {} /\ NewAggregate.first = 0 /\ NewAggregate.last = 0 /\ NewAggregate.modes = {}
  BY DEF NewAggregate
<1>2. At(NewAggregate.counts, e.op, 0) = 0
  BY <1>1 DEF At
<1>3. edge.counts = Set(NewAggregate.counts, e.op, 1) /\ edge.first = e.at /\ edge.last = e.at /\ edge.modes = {e.mode}
  BY <1>0, <1>1, <1>2 DEF observe
<1>4. DOMAIN edge.counts = {e.op} /\ edge.counts[e.op] = 1
  BY <1>1, <1>3 DEF Set
<1>5. {i \in {n} : ev[i].op = e.op} = {n} /\ Cardinality({n}) = 1
  BY FS_Singleton
<1> HIDE DEF edge
<1>6. \A op \in DOMAIN edge.counts : edge.counts[op] = Cardinality({i \in {n} : ev[i].op = op})
  BY <1>4, <1>5
<1> QED  BY <1>0, <1>3, <1>4, <1>6 DEF edge, EdgeMatches

\* A further event of an edge, in whatever order of time.
LEMMA NextObservation ==
    ASSUME NEW n \in Nat, NEW ev, \A i \in 1 .. n + 1 : ev[i] \in LineType,
           NEW used \in SUBSET (1 .. n), NEW edge, EdgeMatches(edge, ev, used)
    PROVE  EdgeMatches(observe(edge, ev[n + 1]), ev, used \cup {n + 1})
<1> DEFINE e == ev[n + 1]
           new == observe(edge, e)
           all == used \cup {n + 1}
<1>1. \A i \in all : ev[i].at \in Nat \ {0}
  BY DEF LineType
<1>2. edge.first \in Nat \ {0} /\ edge.last \in Nat \ {0} /\ e.at \in Nat \ {0}
  BY <1>1 DEF EdgeMatches
<1>3. /\ new.counts = Set(edge.counts, e.op, At(edge.counts, e.op, 0) + 1)
      /\ new.modes = edge.modes \cup {e.mode}
      /\ new.first = IF e.at < edge.first THEN e.at ELSE edge.first
      /\ new.last = IF e.at > edge.last THEN e.at ELSE edge.last
  BY <1>2 DEF observe
<1> HIDE DEF new
<1>4. new.modes = {ev[i].mode : i \in all}
  BY <1>3 DEF EdgeMatches
<1>5. new.first \in {ev[i].at : i \in all} /\ \A i \in all : new.first <= ev[i].at
  <2>1. edge.first \in {ev[i].at : i \in used} /\ \A i \in used : edge.first <= ev[i].at
    BY DEF EdgeMatches
  <2>2. new.first \in {ev[i].at : i \in all}
    BY <1>3, <2>1
  <2>3. ASSUME NEW i \in all PROVE new.first <= ev[i].at
    <3>1. new.first <= e.at /\ new.first <= edge.first /\ new.first \in Nat  BY <1>2, <1>3
    <3>2. CASE i = n + 1
      BY <3>1, <3>2
    <3>3. CASE i \in used
      <4>1. edge.first <= ev[i].at  BY <2>1, <3>3
      <4>2. ev[i].at \in Nat /\ edge.first \in Nat /\ new.first <= edge.first /\ new.first \in Nat
        BY <1>1, <1>2, <3>1
      <4> QED  BY <4>1, <4>2
    <3> QED  BY <3>2, <3>3
  <2> QED  BY <2>2, <2>3
<1>6. new.last \in {ev[i].at : i \in all} /\ \A i \in all : new.last >= ev[i].at
  <2>1. edge.last \in {ev[i].at : i \in used} /\ \A i \in used : edge.last >= ev[i].at
    BY DEF EdgeMatches
  <2>2. new.last \in {ev[i].at : i \in all}
    BY <1>3, <2>1
  <2>3. ASSUME NEW i \in all PROVE new.last >= ev[i].at
    <3>1. new.last >= e.at /\ new.last >= edge.last /\ new.last \in Nat  BY <1>2, <1>3
    <3>2. CASE i = n + 1
      BY <3>1, <3>2
    <3>3. CASE i \in used
      <4>1. edge.last >= ev[i].at  BY <2>1, <3>3
      <4>2. ev[i].at \in Nat /\ edge.last \in Nat /\ new.last >= edge.last /\ new.last \in Nat
        BY <1>1, <1>2, <3>1
      <4> QED  BY <4>1, <4>2
    <3> QED  BY <3>2, <3>3
  <2> QED  BY <2>2, <2>3
<1>7. DOMAIN edge.counts = {ev[i].op : i \in used} /\ DOMAIN new.counts = {ev[i].op : i \in all}
  <2>1. DOMAIN edge.counts = {ev[i].op : i \in used}
    BY DEF EdgeMatches
  <2>2. DOMAIN new.counts = DOMAIN edge.counts \cup {e.op}
    BY <1>3 DEF Set
  <2> QED  BY <2>1, <2>2
<1>8. ASSUME NEW op \in DOMAIN new.counts PROVE new.counts[op] = Cardinality({i \in all : ev[i].op = op})
  <2> DEFINE old == {i \in used : ev[i].op = op}
  <2>1. IsFiniteSet(old) /\ n + 1 \notin old
    <3>1. IsFiniteSet(1 .. n)  BY FS_Interval
    <3>2. old \subseteq 1 .. n  OBVIOUS
    <3> QED  BY <3>1, <3>2, FS_Subset
  <2>2. op \in DOMAIN edge.counts => edge.counts[op] = Cardinality(old)
    BY DEF EdgeMatches
  <2>3. CASE op = e.op
    <3>1. {i \in all : ev[i].op = op} = old \cup {n + 1}  BY <2>3
    <3>2. Cardinality(old \cup {n + 1}) = Cardinality(old) + 1  BY <2>1, FS_AddElement
    <3>3. new.counts[op] = At(edge.counts, op, 0) + 1  BY <1>3, <2>3 DEF Set
    <3>4. At(edge.counts, op, 0) = Cardinality(old)
      <4>1. CASE op \in DOMAIN edge.counts  BY <2>2, <4>1 DEF At
      <4>2. CASE op \notin DOMAIN edge.counts
        <5>1. old = {}  BY <1>7, <4>2
        <5> HIDE DEF old
        <5> QED  BY <4>2, <5>1, FS_EmptySet DEF At
      <4> QED  BY <4>1, <4>2
    <3> HIDE DEF old
    <3> QED  BY <3>1, <3>2, <3>3, <3>4
  <2>4. CASE op # e.op
    <3>1. {i \in all : ev[i].op = op} = old  BY <2>4
    <3>2. op \in DOMAIN edge.counts  BY <1>7, <2>4
    <3>3. new.counts[op] = edge.counts[op]  BY <1>3, <2>4, <3>2 DEF Set
    <3> HIDE DEF old
    <3> QED  BY <2>2, <3>1, <3>2, <3>3
  <2> QED  BY <2>3, <2>4
<1> HIDE DEF all
<1> QED  BY <1>4, <1>5, <1>6, <1>7, <1>8 DEF new, EdgeMatches, all

KeyOf(e) == <<e.test, ResourceOf(e)>>

\* The events, of the first k, in which a test uses a resource.
Uses(ev, k, key) == {i \in 1 .. k : KeyOf(ev[i]) = key}

EdgesMatch(g, ev, k) ==
    /\ DOMAIN g.edges = {KeyOf(ev[i]) : i \in 1 .. k}
    /\ \A key \in DOMAIN g.edges : EdgeMatches(g.edges[key], ev, Uses(ev, k, key))

IndexesMatch(g, ev, k) ==
    /\ DOMAIN g.testResources = {ev[i].test : i \in 1 .. k}
    /\ \A t \in DOMAIN g.testResources : \A r : r \in g.testResources[t] <=> \E i \in 1 .. k : KeyOf(ev[i]) = <<t, r>>
    /\ DOMAIN g.resourceTests = {ResourceOf(ev[i]) : i \in 1 .. k}
    /\ \A r \in DOMAIN g.resourceTests : \A t : t \in g.resourceTests[r] <=> \E i \in 1 .. k : KeyOf(ev[i]) = <<t, r>>

\* The graph says what the first k events say.
GraphMatches(g, ev, k) == EdgesMatch(g, ev, k) /\ IndexesMatch(g, ev, k)

\* The parts of the graph after one event more.
LEMMA AddedParts ==
    ASSUME NEW g, NEW e
    PROVE  /\ add_event(g, e).edges = Set(g.edges, KeyOf(e), observe(At(g.edges, KeyOf(e), NewAggregate), e))
           /\ add_event(g, e).testResources =
                 Set(g.testResources, e.test, At(g.testResources, e.test, {}) \cup {ResourceOf(e)})
           /\ add_event(g, e).resourceTests =
                 Set(g.resourceTests, ResourceOf(e), At(g.resourceTests, ResourceOf(e), {}) \cup {e.test})
  BY DEF add_event, KeyOf

\* One event more, and the edges match.
LEMMA EdgesStep ==
    ASSUME NEW n \in Nat, NEW ev, \A i \in 1 .. n + 1 : ev[i] \in LineType,
           NEW g, EdgesMatch(g, ev, n)
    PROVE  EdgesMatch(add_event(g, ev[n + 1]), ev, n + 1)
<1> DEFINE e == ev[n + 1]
           k0 == KeyOf(e)
           new == add_event(g, e).edges
<1>1. new = Set(g.edges, k0, observe(At(g.edges, k0, NewAggregate), e))
  BY AddedParts
<1>2. DOMAIN g.edges = {KeyOf(ev[i]) : i \in 1 .. n}
  BY DEF EdgesMatch
<1>3. /\ DOMAIN new = DOMAIN g.edges \cup {k0}
      /\ new[k0] = observe(At(g.edges, k0, NewAggregate), e)
      /\ \A key \in DOMAIN g.edges : key # k0 => new[key] = g.edges[key]
  <2> HIDE DEF new
  <2> QED  BY <1>1 DEF Set
<1> HIDE DEF new
<1>4. DOMAIN new = {KeyOf(ev[i]) : i \in 1 .. n + 1}
  <2>1. 1 .. n + 1 = (1 .. n) \cup {n + 1}  OBVIOUS
  <2> QED  BY <1>2, <1>3, <2>1
<1>5. ASSUME NEW key \in DOMAIN new PROVE EdgeMatches(new[key], ev, Uses(ev, n + 1, key))
  <2>1. CASE key # k0
    <3>1. key \in DOMAIN g.edges /\ new[key] = g.edges[key]  BY <1>3, <2>1
    <3>2. Uses(ev, n + 1, key) = Uses(ev, n, key)  BY <2>1 DEF Uses
    <3> QED  BY <3>1, <3>2 DEF EdgesMatch
  <2>2. CASE key = k0
    <3>1. Uses(ev, n + 1, k0) = Uses(ev, n, k0) \cup {n + 1}  BY DEF Uses
    <3>2. CASE k0 \in DOMAIN g.edges
      <4>1. new[k0] = observe(g.edges[k0], e)  BY <1>3, <3>2 DEF At
      <4>2. EdgeMatches(g.edges[k0], ev, Uses(ev, n, k0))  BY <3>2 DEF EdgesMatch
      <4>3. Uses(ev, n, k0) \in SUBSET (1 .. n)  BY DEF Uses
      <4>4. EdgeMatches(observe(g.edges[k0], e), ev, Uses(ev, n, k0) \cup {n + 1})
        BY <4>2, <4>3, NextObservation
      <4> QED  BY <2>2, <3>1, <4>1, <4>4
    <3>3. CASE k0 \notin DOMAIN g.edges
      <4>1. new[k0] = observe(NewAggregate, e)  BY <1>3, <3>3 DEF At
      <4>2. Uses(ev, n, k0) = {}  BY <1>2, <3>3 DEF Uses
      <4>3. n + 1 \in Nat /\ ev[n + 1] \in LineType  OBVIOUS
      <4>4. EdgeMatches(observe(NewAggregate, e), ev, {n + 1})  BY <4>3, FirstObservation
      <4>5. Uses(ev, n + 1, k0) = {n + 1}  BY <3>1, <4>2
      <4> QED  BY <2>2, <4>1, <4>4, <4>5
    <3> QED  BY <3>2, <3>3
  <2> QED  BY <2>1, <2>2
<1> QED  BY <1>4, <1>5 DEF EdgesMatch, new

\* One event more, and the indexes match.
LEMMA IndexesStep ==
    ASSUME NEW n \in Nat, NEW ev, NEW g, IndexesMatch(g, ev, n)
    PROVE  IndexesMatch(add_event(g, ev[n + 1]), ev, n + 1)
<1> DEFINE e == ev[n + 1]
           r0 == ResourceOf(e)
           tr == add_event(g, e).testResources
           rt == add_event(g, e).resourceTests
<1>0. 1 .. n + 1 = (1 .. n) \cup {n + 1}  OBVIOUS
<1>1. /\ tr = Set(g.testResources, e.test, At(g.testResources, e.test, {}) \cup {r0})
      /\ rt = Set(g.resourceTests, r0, At(g.resourceTests, r0, {}) \cup {e.test})
  BY AddedParts, SMTT(30)
<1> HIDE DEF tr, rt
<1>2. /\ DOMAIN g.testResources = {ev[i].test : i \in 1 .. n}
      /\ \A t \in DOMAIN g.testResources : \A r : r \in g.testResources[t] <=> \E i \in 1 .. n : KeyOf(ev[i]) = <<t, r>>
      /\ DOMAIN g.resourceTests = {ResourceOf(ev[i]) : i \in 1 .. n}
      /\ \A r \in DOMAIN g.resourceTests : \A t : t \in g.resourceTests[r] <=> \E i \in 1 .. n : KeyOf(ev[i]) = <<t, r>>
  BY DEF IndexesMatch
<1>3. \A t, r : (\E i \in 1 .. n + 1 : KeyOf(ev[i]) = <<t, r>>) <=> (t = e.test /\ r = r0) \/ \E i \in 1 .. n : KeyOf(ev[i]) = <<t, r>>
  BY <1>0 DEF KeyOf
<1>4. /\ DOMAIN tr = DOMAIN g.testResources \cup {e.test}
      /\ tr[e.test] = At(g.testResources, e.test, {}) \cup {r0}
      /\ \A t \in DOMAIN g.testResources : t # e.test => tr[t] = g.testResources[t]
  BY <1>1 DEF Set
<1>5. /\ DOMAIN rt = DOMAIN g.resourceTests \cup {r0}
      /\ rt[r0] = At(g.resourceTests, r0, {}) \cup {e.test}
      /\ \A r \in DOMAIN g.resourceTests : r # r0 => rt[r] = g.resourceTests[r]
  BY <1>1 DEF Set
<1>6. DOMAIN tr = {ev[i].test : i \in 1 .. n + 1} /\ DOMAIN rt = {ResourceOf(ev[i]) : i \in 1 .. n + 1}
  BY <1>0, <1>2, <1>4, <1>5
<1>7. ASSUME NEW t \in DOMAIN tr, NEW r PROVE r \in tr[t] <=> \E i \in 1 .. n + 1 : KeyOf(ev[i]) = <<t, r>>
  <2>1. CASE t # e.test
    <3>1. t \in DOMAIN g.testResources /\ tr[t] = g.testResources[t]  BY <1>4, <2>1
    <3>2. r \in tr[t] <=> \E i \in 1 .. n : KeyOf(ev[i]) = <<t, r>>  BY <1>2, <3>1
    <3>3. (\E i \in 1 .. n + 1 : KeyOf(ev[i]) = <<t, r>>) <=> \E i \in 1 .. n : KeyOf(ev[i]) = <<t, r>>
      BY <1>3, <2>1, Zenon
    <3> QED  BY <3>2, <3>3
  <2>2. CASE t = e.test
    <3>1. CASE t \in DOMAIN g.testResources
      <4>1. tr[t] = g.testResources[t] \cup {r0}  BY <1>4, <2>2, <3>1 DEF At
      <4>2. r \in g.testResources[t] <=> \E i \in 1 .. n : KeyOf(ev[i]) = <<t, r>>  BY <1>2, <3>1
      <4>3. (\E i \in 1 .. n + 1 : KeyOf(ev[i]) = <<t, r>>) <=> r = r0 \/ \E i \in 1 .. n : KeyOf(ev[i]) = <<t, r>>
        BY <1>3, <2>2, Zenon
      <4> QED  BY <4>1, <4>2, <4>3
    <3>2. CASE t \notin DOMAIN g.testResources
      <4>1. tr[t] = {r0}  BY <1>4, <2>2, <3>2 DEF At
      <4>2. ~\E i \in 1 .. n : KeyOf(ev[i]) = <<t, r>>  BY <1>2, <3>2 DEF KeyOf
      <4> QED  BY <1>3, <2>2, <4>1, <4>2
    <3> QED  BY <3>1, <3>2
  <2> QED  BY <2>1, <2>2
<1>8. ASSUME NEW r \in DOMAIN rt, NEW t PROVE t \in rt[r] <=> \E i \in 1 .. n + 1 : KeyOf(ev[i]) = <<t, r>>
  <2>1. CASE r # r0
    <3>1. r \in DOMAIN g.resourceTests /\ rt[r] = g.resourceTests[r]  BY <1>5, <2>1
    <3> QED  BY <1>2, <1>3, <2>1, <3>1
  <2>2. CASE r = r0
    <3>1. CASE r \in DOMAIN g.resourceTests
      <4>1. rt[r] = g.resourceTests[r] \cup {e.test}  BY <1>5, <2>2, <3>1 DEF At
      <4> QED  BY <1>2, <1>3, <2>2, <3>1, <4>1
    <3>2. CASE r \notin DOMAIN g.resourceTests
      <4>1. rt[r] = {e.test}  BY <1>5, <2>2, <3>2 DEF At
      <4>2. ~\E i \in 1 .. n : KeyOf(ev[i]) = <<t, r>>  BY <1>2, <3>2 DEF KeyOf
      <4> QED  BY <1>3, <2>2, <4>1, <4>2
    <3> QED  BY <3>1, <3>2
  <2> QED  BY <2>1, <2>2
<1> QED  BY <1>6, <1>7, <1>8 DEF IndexesMatch, tr, rt

\* The graph of a trace says what the trace says.
LEMMA GraphOfEvents ==
    ASSUME NEW ev \in Seq(LineType)
    PROVE  GraphMatches(from_events(ev), ev, Len(ev))
<1>1. Len(ev) \in Nat /\ DOMAIN ev = 1 .. Len(ev) /\ \A i \in 1 .. Len(ev) : ev[i] \in LineType
  OBVIOUS
<1>2. PICK g : /\ DOMAIN g = 0 .. Len(ev) /\ g[0] = EmptyGraph
               /\ \A k \in 1 .. Len(ev) : g[k] = add_event(g[k - 1], ev[k])
               /\ from_events(ev) = g[Len(ev)]
  BY <1>1, BuildRecursion
<1> DEFINE T == {k \in Nat : k <= Len(ev) => GraphMatches(g[k], ev, k)}
<1>3. 0 \in T
  <2>1. /\ DOMAIN EmptyGraph.edges = {} /\ DOMAIN EmptyGraph.testResources = {} /\ DOMAIN EmptyGraph.resourceTests = {}
    BY DEF EmptyGraph
  <2>2. 1 .. 0 = {}  OBVIOUS
  <2>3. EdgesMatch(EmptyGraph, ev, 0)  BY <2>1, <2>2 DEF EdgesMatch
  <2>4. IndexesMatch(EmptyGraph, ev, 0)  BY <2>1, <2>2 DEF IndexesMatch
  <2> QED  BY <1>2, <2>3, <2>4 DEF GraphMatches
<1>4. ASSUME NEW k \in T PROVE k + 1 \in T
  <2>1. k \in Nat /\ k + 1 \in Nat  OBVIOUS
  <2>2. ASSUME k + 1 <= Len(ev) PROVE GraphMatches(g[k + 1], ev, k + 1)
    <3>1. k <= Len(ev) /\ k + 1 \in 1 .. Len(ev) /\ (k + 1) - 1 = k  BY <1>1, <2>1, <2>2
    <3>2. EdgesMatch(g[k], ev, k) /\ IndexesMatch(g[k], ev, k)  BY <3>1 DEF GraphMatches
    <3>3. g[k + 1] = add_event(g[k], ev[k + 1])  BY <1>2, <3>1
    <3>4. \A i \in 1 .. k + 1 : ev[i] \in LineType  BY <1>1, <2>1, <2>2
    <3> HIDE DEF T
    <3>5. EdgesMatch(g[k + 1], ev, k + 1)  BY <2>1, <3>2, <3>3, <3>4, EdgesStep
    <3>6. IndexesMatch(g[k + 1], ev, k + 1)  BY <2>1, <3>2, <3>3, IndexesStep
    <3> QED  BY <3>5, <3>6 DEF GraphMatches
  <2> QED  BY <2>1, <2>2
<1>5. Len(ev) \in T
  <2> HIDE DEF T
  <2>1. T \in SUBSET Nat  BY DEF T
  <2> QED  BY <1>1, <1>3, <1>4, <2>1, SetInduction
<1>6. GraphMatches(g[Len(ev)], ev, Len(ev))
  BY <1>1, <1>5
<1> QED  BY <1>2, <1>6
-----------------------------------------------------------------------------
\* The graph is the one of the replayed events once it is built.
GraphInv == phase \in {"dump", "write", "done"} => graph = from_events(replayed)

\* Only Build builds it.
LEMMA GraphStep == GraphInv /\ [Next]_vars => GraphInv'
<1> SUFFICES ASSUME GraphInv, [Next]_vars PROVE GraphInv'
  OBVIOUS
<1>1. CASE Build
  BY <1>1 DEF Build, GraphInv
<1>2. CASE Capture \/ StartReplay \/ ReadEvents \/ Judge
  BY <1>2 DEF Capture, StartReplay, ReadEvents, Judge, replayVars, GraphInv
<1>3. CASE Truncate \/ WriteLatest \/ Over \/ UNCHANGED vars
  BY <1>3 DEF Truncate, WriteLatest, Over, vars, replayVars, GraphInv
<1> QED  BY <1>1, <1>2, <1>3 DEF Next

\* So it holds in every state.
LEMMA GraphInvariant == Spec => []GraphInv
<1>1. Init => GraphInv
  BY DEF Init, GraphInv
<1> QED  BY <1>1, GraphStep, PTL DEF Spec

\* The graph that is written says of every test and resource how often, in
\* which modes, from when and until when the trace has the test use it,
\* whatever the order of the events, and its two indexes agree with its edges.
THEOREM GraphIsFaithful == Spec => []GraphMatchesTrace
<1>1. FileInv /\ ReplayInv /\ GraphInv => GraphMatchesTrace
  <2> SUFFICES ASSUME FileInv, ReplayInv, GraphInv, phase \in {"dump", "write", "done"}
               PROVE  GraphMatchesTrace
    BY DEF GraphMatchesTrace
  <2>1. replayed \in Seq(LineType) /\ graph = from_events(replayed) /\ DOMAIN replayed = 1 .. Len(replayed)
    BY ReplayedLines DEF GraphInv
  <2>2. EdgesMatch(graph, replayed, Len(replayed)) /\ IndexesMatch(graph, replayed, Len(replayed))
    BY <2>1, GraphOfEvents DEF GraphMatches
  <2> DEFINE of(t, r) == {i \in DOMAIN replayed : replayed[i].test = t /\ ResourceOf(replayed[i]) = r}
  <2>3. DOMAIN graph.edges = {<<replayed[i].test, ResourceOf(replayed[i])>> : i \in DOMAIN replayed}
    BY <2>1, <2>2 DEF EdgesMatch, KeyOf
  <2>4. ASSUME NEW key \in DOMAIN graph.edges
        PROVE  /\ graph.edges[key].first = Least({replayed[i].at : i \in of(key[1], key[2])})
               /\ graph.edges[key].last = Greatest({replayed[i].at : i \in of(key[1], key[2])})
               /\ graph.edges[key].modes = {replayed[i].mode : i \in of(key[1], key[2])}
               /\ \A op \in DOMAIN graph.edges[key].counts : graph.edges[key].counts[op] =
                     Cardinality({i \in of(key[1], key[2]) : replayed[i].op = op})
    <3> DEFINE used == of(key[1], key[2])
               edge == graph.edges[key]
               at == {replayed[i].at : i \in used}
    <3>1. Uses(replayed, Len(replayed), key) = used
      <4>1. PICK t, r : key = <<t, r>>  BY <2>3
      <4> QED  BY <2>1, <4>1 DEF Uses, KeyOf
    <3>2. EdgeMatches(edge, replayed, used)  BY <2>2, <3>1 DEF EdgesMatch
    <3>3. \A x \in at : x \in Nat
      <4>1. \A i \in DOMAIN replayed : replayed[i] \in LineType  BY <2>1
      <4>2. \A e \in LineType : e.at \in Nat  BY DEF LineType
      <4> QED  BY <4>1, <4>2
    <3>4. /\ edge.first \in at /\ \A y \in at : edge.first <= y
          /\ edge.last \in at /\ \A y \in at : edge.last >= y
      BY <3>2 DEF EdgeMatches
    <3> HIDE DEF used, at, edge
    <3>5. Least(at) = edge.first
      <4>1. \A x \in at : (\A y \in at : x <= y) => x = edge.first
        <5> TAKE x \in at
        <5> HAVE \A y \in at : x <= y
        <5>1. x <= edge.first /\ edge.first <= x /\ x \in Nat /\ edge.first \in Nat  BY <3>3, <3>4
        <5> QED  BY <5>1
      <4> QED  BY <3>4, <4>1 DEF Least
    <3>6. Greatest(at) = edge.last
      <4>1. \A x \in at : (\A y \in at : x >= y) => x = edge.last
        <5> TAKE x \in at
        <5> HAVE \A y \in at : x >= y
        <5>1. x >= edge.last /\ edge.last >= x /\ x \in Nat /\ edge.last \in Nat  BY <3>3, <3>4
        <5> QED  BY <5>1
      <4> QED  BY <3>4, <4>1 DEF Greatest
    <3>7. edge.modes = {replayed[i].mode : i \in used}
          /\ \A op \in DOMAIN edge.counts : edge.counts[op] = Cardinality({i \in used : replayed[i].op = op})
      BY <3>2 DEF EdgeMatches
    <3> QED  BY <3>5, <3>6, <3>7 DEF used, at, edge
  <2>5. ASSUME NEW t \in DOMAIN graph.testResources, NEW r \in DOMAIN graph.resourceTests
        PROVE  /\ (r \in graph.testResources[t]) <=> (<<t, r>> \in DOMAIN graph.edges)
               /\ (t \in graph.resourceTests[r]) <=> (<<t, r>> \in DOMAIN graph.edges)
    BY <2>2 DEF EdgesMatch, IndexesMatch
  <2> HIDE DEF of
  <2> QED  BY <2>3, <2>4, <2>5 DEF GraphMatchesTrace, of
<1> QED  BY <1>1, ReplayInvariant, GraphInvariant, PTL
-----------------------------------------------------------------------------
(***************************************************************************)
(* The predictor: a conflict in the trace is a prediction.                 *)
(***************************************************************************)

\* The weights of signals, and what a signal leaves clear: at most 0.35.
Weights == {w \in Nat : 650 <= w /\ w <= 1000}
Probabilities == {c \in Nat : c <= 1000000}
Unlikely == {c \in Nat : c <= 350000}

\* One signal leaves at most 0.35 of what was clear.
LEMMA SignalLeaves ==
    ASSUME NEW c \in Probabilities, NEW w \in Weights
    PROVE  (c * (1000 - w)) \div 1000 \in Unlikely
<1> DEFINE m == 1000 - w
           p == c * m
           q == p \div 1000
<1>1. m \in Nat /\ m <= 350 /\ c \in Nat /\ c <= 1000000  BY DEF Probabilities, Weights
<1>2. c * 350 \in Nat /\ c * 350 <= 350000000  BY <1>1
<1> HIDE DEF m
<1>3. p \in Nat /\ p <= c * 350
  <2>1. 350 - m \in Nat /\ m \in Nat  BY <1>1
  <2>2. c * m \in Nat /\ c * (350 - m) \in Nat  BY <1>1, <2>1
  <2>3. c * 350 = c * m + c * (350 - m)  BY <1>1
  <2> QED  BY <1>1, <2>1, <2>2, <2>3
<1> HIDE DEF p
<1>4. p \in Nat /\ p <= 350000000  BY <1>2, <1>3
<1>5. q \in Nat /\ 1000 * q <= p  BY <1>4
<1>6. (c * (1000 - w)) \div 1000 = q  BY DEF p, m
<1> HIDE DEF q
<1>7. q \in Unlikely  BY <1>4, <1>5 DEF Unlikely
<1> QED  BY <1>6, <1>7

\* The floor of the predictor is a probability.
LEMMA NoEdgeRiskType == NoEdgeRisk \in Nat /\ NoEdgeRisk <= 1000
  BY TraceGraphAssumption

\* A sequence with elements.
LEMMA SomeElements ==
    ASSUME NEW S, NEW s \in Seq(S), s # <<>>
    PROVE  Len(s) \in Nat /\ Len(s) >= 1 /\ DOMAIN s = 1 .. Len(s) /\ \A i \in 1 .. Len(s) : s[i] \in S
  OBVIOUS

\* The fold of score: one signal or more make a pair as likely as the weakest.
LEMMA SignalsCount ==
    ASSUME NEW gr, NEW f, SignalWeights(f) \in Seq(Weights), SignalWeights(f) # <<>>
    PROVE  score(gr, f) >= 650000
<1> DEFINE weights == SignalWeights(f)
           n == Len(weights)
           base == Certain - 1000 * NoEdgeRisk
           Clear(c, i) == (c * (1000 - weights[i])) \div 1000
           D(h, m) == h = [s \in SUBSET (1 .. m) |-> IF s = {} THEN base ELSE Clear(h[s \ {Max(s)}], Max(s))]
           Has(m) == \E h : D(h, m)
           T == {m \in Nat : Has(m)}
<1>a. n \in Nat /\ n >= 1 /\ DOMAIN weights = 1 .. n /\ \A i \in 1 .. n : weights[i] \in Weights
  <2> HIDE DEF weights
  <2>1. weights \in Seq(Weights) /\ weights # <<>>  BY DEF weights
  <2> QED  BY <2>1, SomeElements
<1>0. score(gr, f) = Certain - (CHOOSE h : D(h, n))[1 .. n]
  <2>1. SignalWeights(f) # <<>> /\ DOMAIN SignalWeights(f) = 1 .. n  BY <1>a
  <2> HIDE DEF n
  <2> QED  BY <2>1 DEF score, FoldLeft, MapThenFoldSet
<1>b. base \in Probabilities
  BY NoEdgeRiskType DEF Certain, Probabilities
<1> HIDE DEF weights, n, base
<1>c. \A c \in Probabilities, i \in 1 .. n : Clear(c, i) \in Unlikely
  <2> TAKE c \in Probabilities, i \in 1 .. n
  <2>1. weights[i] \in Weights  BY <1>a
  <2> QED  BY <2>1, SignalLeaves
<1> HIDE DEF Clear
<1>1. 0 \in T
  <2> DEFINE h == [s \in SUBSET (1 .. 0) |-> base]
  <2>1. \A s \in SUBSET (1 .. 0) : s = {}  OBVIOUS
  <2>2. D(h, 0)  BY <2>1
  <2> HIDE DEF D
  <2> QED  BY <2>2
<1>2. \A m \in Nat : \A s : s \in SUBSET (1 .. m + 1) /\ m + 1 \in s => Max(s) = m + 1
  <2> SUFFICES ASSUME NEW m \in Nat, NEW s \in SUBSET (1 .. m + 1), m + 1 \in s PROVE Max(s) = m + 1
    OBVIOUS
  <2>1. \A y \in s : y \in Nat /\ m + 1 >= y  OBVIOUS
  <2>2. \A x \in s : (\A y \in s : x >= y) => x = m + 1
    <3> TAKE x \in s
    <3> HAVE \A y \in s : x >= y
    <3>1. x >= m + 1 /\ m + 1 >= x /\ x \in Nat  BY <2>1
    <3> QED  BY <3>1
  <2> QED  BY <2>1, <2>2 DEF Max
<1>3. ASSUME NEW m \in T PROVE m + 1 \in T
  <2>1. m \in Nat /\ m + 1 \in Nat  OBVIOUS
  <2>2. PICK h : D(h, m)  OBVIOUS
  <2> DEFINE g == [s \in SUBSET (1 .. m + 1) |-> IF s \in SUBSET (1 .. m) THEN h[s] ELSE Clear(h[s \ {m + 1}], m + 1)]
             R(s) == IF s = {} THEN base ELSE Clear(g[s \ {Max(s)}], Max(s))
  <2>3. ASSUME NEW s \in SUBSET (1 .. m + 1) PROVE g[s] = R(s)
    <3>1. CASE s \in SUBSET (1 .. m)
      <4>1. s \ {Max(s)} \in SUBSET (1 .. m) /\ s \ {Max(s)} \in SUBSET (1 .. m + 1)  BY <3>1
      <4>2. g[s] = h[s] /\ g[s \ {Max(s)}] = h[s \ {Max(s)}]  BY <3>1, <4>1
      <4>3. h[s] = IF s = {} THEN base ELSE Clear(h[s \ {Max(s)}], Max(s))  BY <3>1, <2>2
      <4> HIDE DEF g, D
      <4> QED  BY <4>2, <4>3
    <3>2. CASE s \notin SUBSET (1 .. m)
      <4>1. m + 1 \in s /\ s \ {m + 1} \in SUBSET (1 .. m) /\ s \ {m + 1} \in SUBSET (1 .. m + 1)
        BY <3>2, <2>1
      <4>2. Max(s) = m + 1 /\ s # {}  BY <4>1, <1>2, <2>1
      <4>3. g[s] = Clear(h[s \ {m + 1}], m + 1)  BY <3>2
      <4>4. g[s \ {m + 1}] = h[s \ {m + 1}]  BY <4>1
      <4> HIDE DEF g, D
      <4> QED  BY <4>2, <4>3, <4>4
    <3> QED  BY <3>1, <3>2
  <2>4. g = [s \in SUBSET (1 .. m + 1) |-> g[s]]  OBVIOUS
  <2>5. D(g, m + 1)
    <3>1. [s \in SUBSET (1 .. m + 1) |-> g[s]] = [s \in SUBSET (1 .. m + 1) |-> R(s)]
      <4> HIDE DEF g, R
      <4> QED  BY <2>3
    <3> HIDE DEF g
    <3> QED  BY <2>4, <3>1
  <2> HIDE DEF D, g
  <2> QED  BY <2>1, <2>5
<1>4. n \in T
  <2> HIDE DEF T
  <2>1. T \in SUBSET Nat  BY DEF T
  <2> QED  BY <1>a, <1>1, <1>3, <2>1, SetInduction
<1>5. PICK h : h = CHOOSE d : D(d, n)  OBVIOUS
<1>6. D(h, n)
  <2>1. \E d : D(d, n)  BY <1>4
  <2> HIDE DEF D
  <2> QED  BY <1>5, <2>1
<1>7. h[{}] = base
  BY <1>6
<1>8. ASSUME NEW k \in 1 .. n PROVE h[1 .. k] = Clear(h[1 .. k - 1], k)
  <2>1. k \in Nat /\ k - 1 \in Nat /\ (k - 1) + 1 = k  OBVIOUS
  <2>0. n \in Nat /\ k <= n /\ 1 <= k  BY <1>a
  <2>2. 1 .. k \in SUBSET (1 .. n) /\ 1 .. k # {} /\ k \in 1 .. k /\ (1 .. k) \ {k} = 1 .. k - 1  BY <2>0, <2>1
  <2>3. Max(1 .. k) = k
    <3>1. 1 .. k \in SUBSET (1 .. (k - 1) + 1) /\ (k - 1) + 1 \in 1 .. k  BY <2>1
    <3> QED  BY <1>2, <2>1, <3>1
  <2>4. h[1 .. k] = IF 1 .. k = {} THEN base ELSE Clear(h[(1 .. k) \ {Max(1 .. k)}], Max(1 .. k))
    BY <1>6, <2>2
  <2> QED  BY <2>2, <2>3, <2>4
<1> HIDE DEF D, T, Has
<1> DEFINE U == {k \in Nat : k + 1 <= n => h[1 .. k + 1] \in Unlikely}
<1>9. 0 \in U
  <2>1. 1 \in 1 .. n /\ 1 .. 1 - 1 = {} /\ 0 + 1 = 1  BY <1>a
  <2>2. h[1 .. 1] = Clear(base, 1)  BY <1>7, <1>8, <2>1
  <2>3. Clear(base, 1) \in Unlikely  BY <1>b, <1>c, <2>1
  <2> QED  BY <2>1, <2>2, <2>3
<1>10. ASSUME NEW k \in U PROVE k + 1 \in U
  <2>1. k \in Nat /\ k + 1 \in Nat  OBVIOUS
  <2>2. ASSUME (k + 1) + 1 <= n PROVE h[1 .. (k + 1) + 1] \in Unlikely
    <3>1. (k + 1) + 1 \in 1 .. n /\ ((k + 1) + 1) - 1 = k + 1 /\ k + 1 <= n  BY <1>a, <2>1, <2>2
    <3>2. h[1 .. k + 1] \in Unlikely  BY <3>1
    <3>3. h[1 .. k + 1] \in Probabilities  BY <3>2 DEF Unlikely, Probabilities
    <3>4. h[1 .. (k + 1) + 1] = Clear(h[1 .. k + 1], (k + 1) + 1)
      <4>1. h[1 .. (k + 1) + 1] = Clear(h[1 .. ((k + 1) + 1) - 1], (k + 1) + 1)  BY <1>8, <3>1
      <4> QED  BY <3>1, <4>1
    <3> HIDE DEF U
    <3> QED  BY <1>c, <3>1, <3>3, <3>4
  <2> QED  BY <2>1, <2>2
<1>11. n - 1 \in U
  <2> HIDE DEF U
  <2>1. U \in SUBSET Nat /\ n - 1 \in Nat  BY <1>a DEF U
  <2> QED  BY <1>9, <1>10, <2>1, SetInduction
<1>12. h[1 .. n] \in Unlikely
  <2>1. (n - 1) + 1 = n /\ n <= n  BY <1>a
  <2>2. (n - 1) + 1 <= n => h[1 .. (n - 1) + 1] \in Unlikely  BY <1>11
  <2> QED  BY <2>1, <2>2
<1>13. score(gr, f) = Certain - h[1 .. n]
  BY <1>0, <1>5
<1> QED  BY <1>12, <1>13 DEF Certain, Unlikely

\* A weight as often as its signal occurs.
LEMMA Repeated ==
    ASSUME NEW S, NEW w \in S, NEW count \in Nat
    PROVE  [i \in 1 .. count |-> w] \in Seq(S) /\ Len([i \in 1 .. count |-> w]) = count
  OBVIOUS

\* A pair of tests that meet on a resource has a signal.
LEMMA SignalsOfMeeting ==
    ASSUME NEW f,
           f.bind \in Nat, f.create \in Nat, f.locks \in Nat, f.unixSockets \in Nat,
           f.redisWrites \in Nat, f.deleteRead \in Nat, f.writeWrite \in Nat, f.readWrite \in Nat,
           f.writeWrite >= 1 \/ f.readWrite >= 1
    PROVE  SignalWeights(f) \in Seq(Weights) /\ SignalWeights(f) # <<>>
<1> DEFINE s1 == [i \in 1 .. f.bind |-> 995]
           s2 == [i \in 1 .. f.create |-> 970]
           s3 == [i \in 1 .. f.locks |-> 920]
           s4 == [i \in 1 .. f.unixSockets |-> 940]
           s5 == [i \in 1 .. f.redisWrites |-> 900]
           s6 == [i \in 1 .. f.deleteRead |-> 880]
           s7 == [i \in 1 .. f.writeWrite |-> 820]
           s8 == [i \in 1 .. f.readWrite |-> 650]
<1>3. SignalWeights(f) = s1 \o s2 \o s3 \o s4 \o s5 \o s6 \o s7 \o s8
  BY Zenon DEF SignalWeights
<1>s1. s1 \in Seq(Weights) /\ Len(s1) = f.bind
  <2>1. 995 \in Weights  BY DEF Weights
  <2> QED  BY <2>1, Repeated
<1>s2. s2 \in Seq(Weights) /\ Len(s2) = f.create
  <2>1. 970 \in Weights  BY DEF Weights
  <2> QED  BY <2>1, Repeated
<1>s3. s3 \in Seq(Weights) /\ Len(s3) = f.locks
  <2>1. 920 \in Weights  BY DEF Weights
  <2> QED  BY <2>1, Repeated
<1>s4. s4 \in Seq(Weights) /\ Len(s4) = f.unixSockets
  <2>1. 940 \in Weights  BY DEF Weights
  <2> QED  BY <2>1, Repeated, SMTT(30)
<1>s5. s5 \in Seq(Weights) /\ Len(s5) = f.redisWrites
  <2>1. 900 \in Weights  BY DEF Weights
  <2> QED  BY <2>1, Repeated
<1>s6. s6 \in Seq(Weights) /\ Len(s6) = f.deleteRead
  <2>1. 880 \in Weights  BY DEF Weights
  <2> QED  BY <2>1, Repeated
<1>s7. s7 \in Seq(Weights) /\ Len(s7) = f.writeWrite
  <2>1. 820 \in Weights  BY DEF Weights
  <2> QED  BY <2>1, Repeated
<1>s8. s8 \in Seq(Weights) /\ Len(s8) = f.readWrite
  <2>1. 650 \in Weights  BY DEF Weights
  <2> QED  BY <2>1, Repeated
<1>5. Len(s7) + Len(s8) >= 1  BY <1>s7, <1>s8
<1> HIDE DEF s1, s2, s3, s4, s5, s6, s7, s8
<1> DEFINE c2 == s1 \o s2
           c3 == c2 \o s3
           c4 == c3 \o s4
           c5 == c4 \o s5
           c6 == c5 \o s6
           c7 == c6 \o s7
           c8 == c7 \o s8
<1>6. SignalWeights(f) = c8  BY <1>3, Zenon
<1>7. c2 \in Seq(Weights)  BY <1>s1, <1>s2
<1> HIDE DEF c2
<1>8. c3 \in Seq(Weights)  BY <1>s3, <1>7
<1> HIDE DEF c3
<1>9. c4 \in Seq(Weights)  BY <1>s4, <1>8
<1> HIDE DEF c4
<1>10. c5 \in Seq(Weights)  BY <1>s5, <1>9
<1> HIDE DEF c5
<1>11. c6 \in Seq(Weights)  BY <1>s6, <1>10
<1> HIDE DEF c6
<1>12. c7 \in Seq(Weights) /\ Len(c7) = Len(c6) + Len(s7)  BY <1>s7, <1>11, SMTT(30)
<1> HIDE DEF c7
<1>13. c8 \in Seq(Weights) /\ Len(c8) = Len(c7) + Len(s8)
  <2>1. c7 \in Seq(Weights) /\ s8 \in Seq(Weights)  BY <1>s8, <1>12
  <2> QED  BY <2>1
<1> HIDE DEF c8
<1>14. Len(c6) \in Nat /\ Len(s7) \in Nat /\ Len(s8) \in Nat  BY <1>s7, <1>s8, <1>11
<1>15. Len(c8) >= 1  BY <1>5, <1>12, <1>13, <1>14
<1>16. c8 # <<>>  BY <1>13, <1>15
<1> QED  BY <1>6, <1>13, <1>16

\* Two tests that meet on a resource, one of them writing, are a likely conflict.
LEMMA MeetingScores ==
    ASSUME NEW g, NEW x, NEW y, NEW r,
           IsFiniteSet(g.testResources[x] \cap g.testResources[y]),
           r \in g.testResources[x] \cap g.testResources[y],
           \/ mutating(g.edges[<<x, r>>]) /\ mutating(g.edges[<<y, r>>])
           \/ mutating(g.edges[<<x, r>>]) /\ "READ" \in DOMAIN g.edges[<<y, r>>].counts
           \/ mutating(g.edges[<<y, r>>]) /\ "READ" \in DOMAIN g.edges[<<x, r>>].counts
    PROVE  score(g, pair_features(g, x, y)) >= 650000
<1> DEFINE f == pair_features(g, x, y)
           shared == g.testResources[x] \cap g.testResources[y]
           edge(t, q) == g.edges[<<t, q>>]
           does(t, q, op) == op \in DOMAIN edge(t, q).counts
           writes(t, q) == mutating(edge(t, q))
           both(op) == {q \in shared : does(x, q, op) /\ does(y, q, op)}
           meet(t, u, q) == writes(t, q) /\ does(u, q, "READ")
           lost(t, u, q) == does(t, q, "DELETE") /\ does(u, q, "READ")
           bothWrite == {q \in shared : writes(x, q) /\ writes(y, q)}
           unix == {q \in shared : q[1] = "UNIX_SOCKET"}
           redis == {q \in bothWrite : q[1] = "REDIS_KEY"}
           gone == {q \in shared : lost(x, y, q) \/ lost(y, x, q)}
           met == {q \in shared : meet(x, y, q) \/ meet(y, x, q)}
<1>1. /\ f.bind = Cardinality(both("BIND")) /\ f.create = Cardinality(both("CREATE"))
      /\ f.locks = Cardinality(both("LOCK")) /\ f.unixSockets = Cardinality(unix)
      /\ f.redisWrites = Cardinality(redis) /\ f.deleteRead = Cardinality(gone)
      /\ f.writeWrite = Cardinality(bothWrite) /\ f.readWrite = Cardinality(met)
  BY DEF pair_features
<1>2. ASSUME NEW S, S \subseteq shared PROVE Cardinality(S) \in Nat /\ (r \in S => Cardinality(S) >= 1)
  <2>1. IsFiniteSet(S)  BY <1>2, FS_Subset
  <2>2. Cardinality(S) \in Nat  BY <2>1, FS_CardinalityType
  <2>3. r \in S => Cardinality(S) # 0  BY <2>1, FS_EmptySet
  <2> QED  BY <2>2, <2>3
<1>3. /\ both("BIND") \subseteq shared /\ both("CREATE") \subseteq shared /\ both("LOCK") \subseteq shared
      /\ unix \subseteq shared /\ redis \subseteq shared /\ gone \subseteq shared
      /\ bothWrite \subseteq shared /\ met \subseteq shared
  OBVIOUS
<1>4. r \in bothWrite \/ r \in met
  OBVIOUS
<1> HIDE DEF f, shared, both, unix, redis, gone, bothWrite, met
<1>5. /\ f.bind \in Nat /\ f.create \in Nat /\ f.locks \in Nat /\ f.unixSockets \in Nat
      /\ f.redisWrites \in Nat /\ f.deleteRead \in Nat /\ f.writeWrite \in Nat /\ f.readWrite \in Nat
  BY <1>1, <1>2, <1>3
<1>6. f.writeWrite >= 1 \/ f.readWrite >= 1
  BY <1>1, <1>2, <1>3, <1>4
<1>7. SignalWeights(f) \in Seq(Weights) /\ SignalWeights(f) # <<>>
  BY <1>5, <1>6, SignalsOfMeeting
<1>8. score(g, f) >= 650000
  BY <1>7, SignalsCount
<1> QED  BY <1>8 DEF f

\* Two things are two.
LEMMA PairHasTwo ==
    ASSUME NEW t, NEW u, t # u
    PROVE  Cardinality({t, u}) = 2
<1>1. IsFiniteSet({t}) /\ Cardinality({t}) = 1  BY FS_Singleton
<1>2. u \notin {t}  OBVIOUS
<1>3. Cardinality({t} \cup {u}) = Cardinality({t}) + 1  BY <1>1, <1>2, FS_AddElement
<1>4. {t} \cup {u} = {t, u}  OBVIOUS
<1> QED  BY <1>1, <1>3, <1>4

\* Two events of a trace that meet give their tests a likely conflict.
LEMMA MeetingIsPredicted ==
    ASSUME NEW ev \in Seq(LineType), NEW g, GraphMatches(g, ev, Len(ev)),
           NEW a \in 1 .. Len(ev), NEW b \in 1 .. Len(ev),
           ev[a].test # ev[b].test, ResourceOf(ev[a]) = ResourceOf(ev[b]),
           Mutates(ev[a]), Mutates(ev[b]) \/ ev[b].op = "READ"
    PROVE  /\ {ev[a].test, ev[b].test} \in DOMAIN predict_graph(g)
           /\ predict_graph(g)[{ev[a].test, ev[b].test}] >= 650000
<1> DEFINE t == ev[a].test
           u == ev[b].test
           r == ResourceOf(ev[a])
           pair == {t, u}
           n == Len(ev)
<1>0. n \in Nat  OBVIOUS
<1>1. KeyOf(ev[a]) = <<t, r>> /\ KeyOf(ev[b]) = <<u, r>>  BY DEF KeyOf
<1>2. EdgesMatch(g, ev, n) /\ IndexesMatch(g, ev, n)  BY DEF GraphMatches
<1>3. /\ t \in DOMAIN g.testResources /\ u \in DOMAIN g.testResources /\ r \in DOMAIN g.resourceTests
      /\ r \in g.testResources[t] /\ r \in g.testResources[u]
      /\ t \in g.resourceTests[r] /\ u \in g.resourceTests[r]
  BY <1>1, <1>2 DEF IndexesMatch
<1>4. ASSUME NEW i \in 1 .. n
      PROVE  ev[i].op \in DOMAIN g.edges[KeyOf(ev[i])].counts /\ ev[i].mode \in g.edges[KeyOf(ev[i])].modes
  <2>1. KeyOf(ev[i]) \in DOMAIN g.edges  BY <1>2 DEF EdgesMatch
  <2>2. EdgeMatches(g.edges[KeyOf(ev[i])], ev, Uses(ev, n, KeyOf(ev[i])))  BY <1>2, <2>1 DEF EdgesMatch
  <2>3. i \in Uses(ev, n, KeyOf(ev[i]))  BY DEF Uses
  <2> QED  BY <2>2, <2>3 DEF EdgeMatches
<1>5. /\ mutating(g.edges[<<t, r>>])
      /\ mutating(g.edges[<<u, r>>]) \/ "READ" \in DOMAIN g.edges[<<u, r>>].counts
  <2>1. \A i \in 1 .. n : Mutates(ev[i]) => mutating(g.edges[KeyOf(ev[i])])
    BY <1>4 DEF Mutates, mutating
  <2> QED  BY <1>1, <1>4, <2>1
<1>6. IsFiniteSet(g.testResources[t] \cap g.testResources[u])
  <2>1. IsFiniteSet({ResourceOf(ev[i]) : i \in 1 .. n})
    <3>1. IsFiniteSet(1 .. n)  BY <1>0, FS_Interval
    <3> DEFINE h == [i \in 1 .. n |-> ResourceOf(ev[i])]
               R == {ResourceOf(ev[i]) : i \in 1 .. n}
    <3>2. h \in Surjection(1 .. n, R)  BY DEF Surjection
    <3> HIDE DEF h, R
    <3>3. IsFiniteSet(R)  BY <3>1, <3>2, FS_Surjection
    <3> QED  BY <3>3 DEF R
  <2>2. g.testResources[t] \cap g.testResources[u] \subseteq {ResourceOf(ev[i]) : i \in 1 .. n}
    <3> SUFFICES ASSUME NEW q \in g.testResources[t] \cap g.testResources[u]
                 PROVE  \E i \in 1 .. n : q = ResourceOf(ev[i])
      OBVIOUS
    <3> HIDE DEF t, u
    <3>1. PICK i \in 1 .. n : KeyOf(ev[i]) = <<t, q>>  BY <1>2, <1>3 DEF IndexesMatch
    <3>2. ResourceOf(ev[i]) = q  BY <3>1 DEF KeyOf
    <3> QED  BY <3>2
  <2> QED  BY <2>1, <2>2, FS_Subset
<1>7. g.testResources[u] \cap g.testResources[t] = g.testResources[t] \cap g.testResources[u]  OBVIOUS
<1> HIDE DEF t, u, r, n
<1>8. score(g, pair_features(g, t, u)) >= 650000 /\ score(g, pair_features(g, u, t)) >= 650000
  <2>1. score(g, pair_features(g, t, u)) >= 650000  BY <1>3, <1>5, <1>6, MeetingScores
  <2>2. score(g, pair_features(g, u, t)) >= 650000  BY <1>3, <1>5, <1>6, <1>7, MeetingScores
  <2> QED  BY <2>1, <2>2
<1>9. t # u  BY DEF t, u
<1>10. Cardinality(pair) = 2
  BY <1>9, PairHasTwo
<1>11. pair \in candidate_pairs(g)
  <2>1. pair \in PairsOf(g.resourceTests[r])  BY <1>3, <1>10 DEF PairsOf
  <2> QED  BY <1>3, <2>1 DEF candidate_pairs
<1>12. Pair(pair) = <<t, u>> \/ Pair(pair) = <<u, t>>
  <2>1. <<t, u>> \in pair \X pair /\ <<t, u>>[1] # <<t, u>>[2]  BY <1>9
  <2>2. PICK p : p = Pair(pair)  OBVIOUS
  <2>3. p \in pair \X pair /\ p[1] # p[2]  BY <2>1, <2>2 DEF Pair
  <2>4. p = <<p[1], p[2]>> /\ p[1] \in pair /\ p[2] \in pair  BY <2>3
  <2> QED  BY <2>2, <2>3, <2>4
<1>13. (Pair(pair)[1] = t /\ Pair(pair)[2] = u) \/ (Pair(pair)[1] = u /\ Pair(pair)[2] = t)
  BY <1>12
<1>14. pair \in DOMAIN predict_graph(g) /\ predict_graph(g)[pair] = score(g, pair_features(g, Pair(pair)[1], Pair(pair)[2]))
  BY <1>11 DEF predict_graph
<1>15. predict_graph(g)[pair] >= 650000
  BY <1>8, <1>13, <1>14
<1> QED  BY <1>14, <1>15 DEF t, u
\* What the writer took from the queue is in the lines, unless it was filtered.
KeptInv ==
    /\ taken <= Len(accepted)
    /\ \A i \in 1 .. taken : normalize_event(accepted[i], SinkPrefixes).ident # Nothing =>
          \E j \in 1 .. Len(lines) : lines[j] = normalize_event(accepted[i], SinkPrefixes)

\* Every step of the sink keeps it.
LEMMA KeptStep == SinkInv /\ KeptInv /\ [Next]_vars => KeptInv'
<1> SUFFICES ASSUME SinkInv, KeptInv, SinkStep \/ UNCHANGED sinkVars PROVE KeptInv'
  BY NextIsSinkStep
<1>0. accepted \in Seq(Events) /\ lines \in Seq(Written) /\ taken \in Nat /\ Len(accepted) \in Nat /\ Len(lines) \in Nat
  BY DEF SinkInv, SinkTypes
<1>1. ASSUME NEW e \in Events, Submit(e) PROVE KeptInv'
  <2>1. taken' = taken /\ lines' = lines /\ (accepted' = accepted \/ accepted' = Append(accepted, e))
    BY <1>1 DEF Submit
  <2>2. Len(accepted') >= Len(accepted) /\ Len(accepted') \in Nat /\ \A i \in 1 .. Len(accepted) : accepted'[i] = accepted[i]
    BY <1>0, <2>1
  <2>3. \A i \in 1 .. taken : i \in 1 .. Len(accepted)  BY <1>0 DEF KeptInv
  <2>4. taken <= Len(accepted')  BY <1>0, <2>2 DEF KeptInv
  <2> QED  BY <2>1, <2>2, <2>3, <2>4 DEF KeptInv
<1>2. ASSUME Consume PROVE KeptInv'
  <2>1. /\ CanTake /\ Head(queue) # Sentinel /\ taken' = taken + 1 /\ accepted' = accepted
        /\ lines' = lines \o Recorded(Head(queue))
    BY <1>2 DEF Consume, Took
  <2>2. Head(queue) = accepted[taken + 1] /\ Head(queue) \in Events /\ taken + 1 <= Len(accepted)
    <3>1. limit \in Nat  BY DEF SinkInv, SinkTypes
    <3> QED  BY <1>0, <2>1, <3>1, HeadOfQueue
  <2>3. Recorded(Head(queue)) \in Seq(Written)  BY <2>2, NormalizedIsSeq
  <2>4. /\ Len(lines') = Len(lines) + Len(Recorded(Head(queue))) /\ Len(Recorded(Head(queue))) \in Nat
        /\ \A j \in 1 .. Len(lines) : lines'[j] = lines[j]
        /\ \A j \in 1 .. Len(Recorded(Head(queue))) : lines'[Len(lines) + j] = Recorded(Head(queue))[j]
    BY <1>0, <2>1, <2>3
  <2>5. \A j \in 1 .. Len(lines) : j \in 1 .. Len(lines')  BY <1>0, <2>4
  <2>6. ASSUME NEW i \in 1 .. taken + 1, normalize_event(accepted[i], SinkPrefixes).ident # Nothing
        PROVE  \E j \in 1 .. Len(lines') : lines'[j] = normalize_event(accepted[i], SinkPrefixes)
    <3>1. CASE i \in 1 .. taken
      <4>1. PICK j \in 1 .. Len(lines) : lines[j] = normalize_event(accepted[i], SinkPrefixes)  BY <2>6, <3>1 DEF KeptInv
      <4> QED  BY <2>4, <2>5, <4>1
    <3>2. CASE i = taken + 1
      <4>1. Recorded(Head(queue)) = <<normalize_event(accepted[i], SinkPrefixes)>>  BY <2>2, <2>6, <3>2 DEF Recorded, Normalized
      <4>2. Len(Recorded(Head(queue))) = 1 /\ Recorded(Head(queue))[1] = normalize_event(accepted[i], SinkPrefixes)  BY <4>1
      <4>3. Len(lines) + 1 \in 1 .. Len(lines')  BY <1>0, <2>4, <4>2
      <4>4. lines'[Len(lines) + 1] = normalize_event(accepted[i], SinkPrefixes)  BY <2>4, <4>2
      <4> QED  BY <4>3, <4>4
    <3> QED  BY <1>0, <3>1, <3>2
  <2> QED  BY <2>1, <2>2, <2>6 DEF KeptInv
<1>3. ASSUME NormalizerRaises \/ WriteFails \/ Stop \/ CallClose \/ PutSentinel \/ Join \/ JoinTimesOut \/ Exit \/ UNCHANGED sinkVars
      PROVE  KeptInv'
  <2>1. UNCHANGED <<lines, accepted, taken>>
    BY <1>3 DEF NormalizerRaises, WriteFails, Stop, CallClose, PutSentinel, Join, JoinTimesOut, Exit, sinkVars, history
  <2> QED  BY <2>1 DEF KeptInv
<1> QED  BY <1>1, <1>2, <1>3 DEF SinkStep, WriterStep, CloserStep

\* A whole latest.json is that of the graph.
LatestInv == latest.state = "whole" => phase = "done" /\ latest.predictions = predict_graph(graph)

\* It is written last.
LEMMA LatestStep == LatestInv /\ [Next]_vars => LatestInv'
<1> SUFFICES ASSUME LatestInv, [Next]_vars PROVE LatestInv'
  OBVIOUS
<1>1. CASE WriteLatest
  BY <1>1 DEF WriteLatest, LatestInv
<1>2. CASE Truncate
  BY <1>2 DEF Truncate, LatestInv
<1>3. CASE Capture \/ StartReplay \/ ReadEvents \/ Judge \/ Build
  <2>1. latest' = latest /\ phase # "done"
    BY <1>3 DEF Capture, StartReplay, ReadEvents, Judge, Build, replayVars
  <2> QED  BY <2>1 DEF LatestInv
<1>4. CASE Over \/ UNCHANGED vars
  BY <1>4 DEF Over, vars, replayVars, LatestInv
<1> QED  BY <1>1, <1>2, <1>3, <1>4 DEF Next

\* Both hold in every state.
LEMMA KeptInvariant == Spec => [](KeptInv /\ LatestInv)
<1>1. Init => KeptInv /\ LatestInv
  BY DEF Init, SinkInit, KeptInv, LatestInv, NoPredictions
<1> QED  BY <1>1, SinkInvariant, KeptStep, LatestStep, PTL DEF Spec

\* A trace that was closed is read as it was written.
LEMMA ClosedTrace ==
    ASSUME SinkInv, closer = "closed"
    PROVE  taken = limit /\ Whole(file) = lines
<1>1. taken = limit /\ file = lines /\ lines \in Seq(Written)
  BY DEF SinkInv, SinkTypes, DoneInv
<1>2. \A i \in 1 .. Len(lines) : lines[i] # TornLine
  BY <1>1, WrittenType
<1>3. Without(lines, {TornLine}) = lines
  <2>1. \A i \in 1 .. Len(lines) : lines[i] \notin {TornLine}  BY <1>2
  <2> QED  BY <1>1, <2>1, WithoutFacts
<1> QED  BY <1>1, <1>3 DEF Whole

\* An accepted event of a closed trace that survives both passes is replayed.
LEMMA AcceptedIsReplayed ==
    ASSUME SinkInv, FileInv, ReplayInv, KeptInv, closer = "closed", phase = "done",
           NEW i \in 1 .. limit, Survives(accepted[i])
    PROVE  accepted[i] \in Events /\ \E a \in 1 .. Len(replayed) : replayed[a] = Twice(accepted[i])
<1> DEFINE e == accepted[i]
<1>1. /\ Whole(file) = lines /\ i \in 1 .. taken
  BY ClosedTrace
<1>2. lines \in Seq(Written) /\ accepted \in Seq(Events) /\ Len(accepted) \in Nat /\ taken \in Nat
  BY DEF SinkInv, SinkTypes
<1>3. i \in 1 .. Len(accepted)  BY <1>1, <1>2 DEF KeptInv
<1>4. e \in Events  BY <1>2, <1>3
<1>5. normalize_event(e, SinkPrefixes) \in Written /\ Twice(e).ident # Nothing
  <2> HIDE DEF e
  <2>1. Survives(e)  BY DEF e
  <2> QED  BY <1>4, <2>1, TwiceFacts
<1>6. normalize_event(e, SinkPrefixes).ident # Nothing  BY <1>5, WrittenType DEF Nothing
<1>7. PICK j \in 1 .. Len(lines) : lines[j] = normalize_event(e, SinkPrefixes)
  BY <1>1, <1>6 DEF KeptInv
<1>8. PICK at \in [1 .. Len(lines) -> Nat] :
         \A k \in 1 .. Len(lines) : normalize_event(lines[k], ReplayPrefixes).ident # Nothing =>
            /\ at[k] \in 1 .. Len(replayed)
            /\ replayed[at[k]] = normalize_event(lines[k], ReplayPrefixes)
  <2>1. phase \notin {"capture", "read", "crashed"}  OBVIOUS
  <2> QED  BY <1>1, <2>1, ReplayedLines
<1>9. normalize_event(lines[j], ReplayPrefixes) = Twice(e)  BY <1>7 DEF Twice
<1> HIDE DEF e
<1>10. at[j] \in 1 .. Len(replayed) /\ replayed[at[j]] = Twice(e)  BY <1>5, <1>8, <1>9
<1> QED  BY <1>4, <1>10 DEF e

\* From submit to latest.json: two events that were accepted before close, of
\* two tests that must not run together, give the pair a risk of 0.65 or more,
\* however each spells what it denotes and in whatever order they arrived.
THEOREM ConflictsArePredicted == Spec => []ConflictIsPredicted
<1>1. SinkInv /\ FileInv /\ ReplayInv /\ GraphInv /\ KeptInv /\ LatestInv => ConflictIsPredicted
  <2> SUFFICES ASSUME SinkInv, FileInv, ReplayInv, GraphInv, KeptInv, LatestInv,
                      closer = "closed", latest.state = "whole",
                      NEW i \in 1 .. limit, NEW j \in 1 .. limit, Collide(accepted[i], accepted[j])
               PROVE  /\ {accepted[i].test, accepted[j].test} \in DOMAIN latest.predictions
                      /\ latest.predictions[{accepted[i].test, accepted[j].test}] >= 650000
    BY DEF ConflictIsPredicted
  <2> DEFINE e == accepted[i]
             f == accepted[j]
  <2>1. phase = "done" /\ latest.predictions = predict_graph(graph) /\ graph = from_events(replayed)
    BY DEF LatestInv, GraphInv
  <2>2. replayed \in Seq(LineType)
    <3>1. phase \notin {"capture", "read", "crashed"}  BY <2>1
    <3> QED  BY <3>1, ReplayedLines
  <2>3. /\ e.test # f.test /\ Survives(e) /\ Survives(f) /\ Denoted(e) = Denoted(f)
        /\ Mutates(e) /\ (Mutates(f) \/ f.op = "READ")
    BY DEF Collide
  <2>4. e \in Events /\ \E a \in 1 .. Len(replayed) : replayed[a] = Twice(e)
    BY <2>1, <2>3, AcceptedIsReplayed
  <2>5. f \in Events /\ \E b \in 1 .. Len(replayed) : replayed[b] = Twice(f)
    BY <2>1, <2>3, AcceptedIsReplayed
  <2>6. PICK a \in 1 .. Len(replayed) : replayed[a] = Twice(e)  BY <2>4
  <2>7. PICK b \in 1 .. Len(replayed) : replayed[b] = Twice(f)  BY <2>5
  <2> HIDE DEF e, f
  <2>8. ResourceOf(replayed[a]) = ResourceOf(replayed[b])
    BY <2>3, <2>4, <2>5, <2>6, <2>7, SpellingsMeet
  <2>10. /\ replayed[a].test = e.test /\ replayed[a].op = e.op /\ replayed[a].mode = e.mode
         /\ replayed[b].test = f.test /\ replayed[b].op = f.op /\ replayed[b].mode = f.mode
    BY <2>3, <2>4, <2>5, <2>6, <2>7, TwiceFacts
  <2>11. Mutates(replayed[a]) /\ (Mutates(replayed[b]) \/ replayed[b].op = "READ")
    BY <2>3, <2>10 DEF Mutates
  <2>12. GraphMatches(graph, replayed, Len(replayed))
    BY <2>1, <2>2, GraphOfEvents
  <2>13. /\ {replayed[a].test, replayed[b].test} \in DOMAIN predict_graph(graph)
         /\ predict_graph(graph)[{replayed[a].test, replayed[b].test}] >= 650000
    <3>1. replayed[a].test # replayed[b].test  BY <2>3, <2>10
    <3> QED  BY <2>2, <2>8, <2>11, <2>12, <3>1, MeetingIsPredicted, SMTT(60)
  <2> QED  BY <2>1, <2>10, <2>13 DEF e, f
<1> QED  BY <1>1, ReplayInvariant, GraphInvariant, KeptInvariant, PTL
=============================================================================
