-------------------------- MODULE AttributionProofs --------------------------
(***************************************************************************)
(* Proofs about module Attribution, for every number of executions and     *)
(* tasks, every capacity of the ring and every depth of ancestry:          *)
(*  - without reuse of identifiers no event is assigned to a test that did *)
(*    not cause it, whatever the ring loses and in whatever order control  *)
(*    messages are handled;                                                *)
(*  - when they are handled in order, nothing of an execution is left in   *)
(*    the registry once its unregister message is handled.                 *)
(*                                                                         *)
(* The first needs to know whose task an identifier is after the task is   *)
(* gone, which no variable remembers: the invariant says that there is a   *)
(* function from identifiers to owners that everything agrees with.        *)
(***************************************************************************)
EXTENDS Attribution, WellFoundedInduction, TLAPS

Owners == Executions \cup {Host}

\* Task c was forked by task p: of the same owner, or of a host process.
Descends(own, c, p) ==
    /\ own[c] # None /\ own[p] # None
    /\ own[p] = own[c] \/ own[p] = Host

Events == [op : {"fork", "exit", "access"}, pid : Pids, cgroup : Executions \cup {None},
           parent : Pids, child : Pids, owner : Owners]

\* What an event says is so.
TrueEvent(own, e) ==
    /\ own[e.pid] = e.owner /\ own[e.parent] = e.owner
    /\ e.cgroup \in {None, e.owner}
    /\ e.op = "fork" => Descends(own, e.child, e.parent)

Messages == [action : {"register", "unregister"}, execution : Executions, pid : Pids]

TrueMessage(own, m) == own[m.pid] = m.execution

KernelInv(own) ==
    /\ own \in [Pids -> Owners \cup {None}]
    /\ owner \in [Pids -> Owners \cup {"free", "zombie", "dead"}]
    /\ group \in [Pids -> Pids]
    /\ cgroup \in [Pids -> Executions \cup {None}]
    /\ own[HostPid] = Host /\ owner[HostPid] = Host
    /\ \A p \in Pids : own[p] = None <=> owner[p] = "free"
    /\ \A p \in Pids : Running(p) => own[p] = owner[p]
    /\ \A p \in Pids : own[p] # None => own[group[p]] = own[p]
    /\ \A p \in Pids : cgroup[p] \in {None, own[p]}

CoordinatorInv(own) ==
    /\ stage \in [Executions -> {"idle", "started", "announced", "placed", "reaped", "over"}]
    /\ root \in [Executions -> Pids \cup {0}]
    /\ \A e \in Executions : stage[e] # "idle" => root[e] \in Pids /\ own[root[e]] = e
    /\ control \in Seq(Messages)
    /\ \A i \in 1 .. Len(control) : TrueMessage(own, control[i])

\* Attributions and links as the registry keeps them are right.
TrueMaps(own, owners, links) ==
    /\ owners \in [Pids -> Executions \cup {None}]
    /\ links \in [Pids -> Pids \cup {0}]
    /\ \A p \in Pids : owners[p] \in {None, own[p]}
    /\ \A p \in Pids : links[p] # 0 => Descends(own, p, links[p])

RegistryInv(own) == cgroups \subseteq Executions /\ TrueMaps(own, processes, parents)

RingInv(own) ==
    /\ ring \in Seq(Events)
    /\ \A i \in 1 .. Len(ring) : TrueEvent(own, ring[i])

OwnersKnown(own) == KernelInv(own) /\ CoordinatorInv(own) /\ RegistryInv(own) /\ RingInv(own)

AttributionInv == NeverMisattributed /\ \E own \in [Pids -> Owners \cup {None}] : OwnersKnown(own)

\* What is known of an execution when it is over is to be forgotten by a
\* message still to be handled, or its registration was handled after that.
MappingInv ==
    \A e \in Executions :
        /\ stage[e] # "over" => ~Unregistering(e) /\ e \notin late
        /\ e \in late => e \in cgroups /\ ~Unregistering(e)
        /\ stage[e] = "over" /\ ~Unregistering(e) /\ Mapped(e) => e \in late
-----------------------------------------------------------------------------
(***************************************************************************)
(* Ancestry.                                                               *)
(***************************************************************************)

\* Every nonempty set of naturals has a least element.
LEMMA LeastNat ==
    ASSUME NEW T \in SUBSET Nat, T # {}
    PROVE  \E m \in T : \A n \in T : m <= n
<1> DEFINE R == {ss \in Nat \X Nat : ss[1] < ss[2]}
<1>1. IsWellFoundedOn(R, Nat)
  BY NatLessThanWellFounded DEF OpToRel
<1>2. PICK m \in T : \A n \in T : ~(<<n, m>> \in R)
  <2> HIDE DEF R
  <2> QED
    BY <1>1, WFMin, Zenon
<1>3. ASSUME NEW n \in T, n < m PROVE FALSE
  <2>1. <<n, m>> \in Nat \X Nat /\ <<n, m>>[1] < <<n, m>>[2]
    BY <1>3
  <2>2. <<n, m>> \in R
    BY <2>1, Zenon
  <2> QED
    BY <1>2, <2>2
<1> QED
  BY <1>3

\* The walk up from p of n steps.
Walk(up, links, p, n) ==
    /\ up \in [0 .. n -> Pids \cup {0}]
    /\ up[0] = p
    /\ \A i \in 1 .. n : up[i] = IF up[i - 1] = 0 THEN 0 ELSE links[up[i - 1]]

\* There is such a walk, and Ancestor is it.
LEMMA AncestorWalks ==
    ASSUME NEW links \in [Pids -> Pids \cup {0}], NEW p \in Pids
    PROVE  Walk(Ancestor(links, p), links, p, MaxDepth - 1)
<1> DEFINE Has(n) == \E up : Walk(up, links, p, n)
           T == {n \in Nat : ~Has(n)}
<1>1. MaxDepth - 1 \in Nat /\ 0 \notin Pids
  BY AttributionAssumption
<1>2. ASSUME T # {} PROVE FALSE
  <2>1. PICK m \in T : \A n \in T : m <= n
    <3>1. T \in SUBSET Nat
      OBVIOUS
    <3> HIDE DEF T
    <3> QED
      BY <1>2, <3>1, LeastNat
  <2>2. m \in Nat /\ ~Has(m)
    OBVIOUS
  <2>3. m # 0
    <3>1. Walk([i \in 0 .. 0 |-> p], links, p, 0)
      BY DEF Walk
    <3> QED
      BY <2>2, <3>1
  <2>4. PICK n \in Nat : m = n + 1 /\ Has(n)
    <3>1. m - 1 \in Nat /\ m = (m - 1) + 1 /\ ~(m <= m - 1)
      BY <2>2, <2>3
    <3>2. m - 1 \notin T
      BY <2>1, <3>1
    <3> QED
      BY <3>1, <3>2
  <2>5. PICK up : Walk(up, links, p, n)
    BY <2>4
  <2>6. PICK last : last = IF up[n] = 0 THEN 0 ELSE links[up[n]]
    OBVIOUS
  <2>7. last \in Pids \cup {0}
    BY <2>5, <2>6 DEF Walk
  <2>8. PICK more : more = [i \in 0 .. n + 1 |-> IF i = n + 1 THEN last ELSE up[i]]
    OBVIOUS
  <2>9. more \in [0 .. n + 1 -> Pids \cup {0}] /\ more[0] = p
    BY <2>5, <2>7, <2>8 DEF Walk
  <2>10. ASSUME NEW i \in 1 .. n + 1 PROVE more[i] = IF more[i - 1] = 0 THEN 0 ELSE links[more[i - 1]]
    <3>1. CASE i = n + 1
      <4>1. more[i] = last /\ i - 1 = n /\ n \in 0 .. n + 1 /\ n # n + 1
        BY <2>8, <3>1
      <4>2. more[i - 1] = up[n]
        BY <2>8, <4>1
      <4> QED
        BY <2>6, <4>1, <4>2
    <3>2. CASE i # n + 1
      <4>1. i \in 1 .. n /\ i - 1 \in 0 .. n + 1 /\ i - 1 # n + 1
        BY <3>2
      <4>2. more[i] = up[i] /\ more[i - 1] = up[i - 1]
        BY <2>8, <3>2, <4>1
      <4> QED
        BY <2>5, <4>1, <4>2 DEF Walk
    <3> QED
      BY <3>1, <3>2
  <2>11. Walk(more, links, p, n + 1)
    BY <2>9, <2>10 DEF Walk
  <2> QED
    BY <2>2, <2>4, <2>11
<1>3. PICK N \in Nat : N = MaxDepth - 1
  BY <1>1
<1>4. PICK up : Walk(up, links, p, N)
  BY <1>2, <1>3
<1> DEFINE D(f) == f = [i \in 0 .. N |-> IF i = 0 THEN p ELSE IF f[i - 1] = 0 THEN 0 ELSE links[f[i - 1]]]
<1>5. D(up)
  BY <1>4 DEF Walk
<1>6. PICK f : f = Ancestor(links, p)
  OBVIOUS
<1>7. D(f)
  <2>1. f = CHOOSE h : D(h)
    BY <1>3, <1>6 DEF Ancestor
  <2> HIDE DEF D
  <2> QED
    BY <1>5, <2>1
<1>8. DOMAIN f = 0 .. N /\ f[0] = p /\ \A i \in 1 .. N : f[i] = IF f[i - 1] = 0 THEN 0 ELSE links[f[i - 1]]
  <2>1. f = [i \in 0 .. N |-> IF i = 0 THEN p ELSE IF f[i - 1] = 0 THEN 0 ELSE links[f[i - 1]]]
    BY <1>7
  <2>2. \A i \in 1 .. N : i \in 0 .. N /\ i # 0
    OBVIOUS
  <2> QED
    BY <2>1, <2>2
<1>9. \A i \in 0 .. N : f[i] \in Pids \cup {0}
  <2> DEFINE U == {i \in 0 .. N : f[i] \notin Pids \cup {0}}
  <2>1. ASSUME U # {} PROVE FALSE
    <3>1. PICK m \in U : \A n \in U : m <= n
      <4>1. U \in SUBSET Nat
        OBVIOUS
      <4> HIDE DEF U
      <4> QED
        BY <2>1, <4>1, LeastNat
    <3>2. m \in 1 .. N /\ m - 1 \in 0 .. N /\ ~(m <= m - 1)
      BY <1>8, <3>1
    <3>3. f[m - 1] \in Pids \cup {0}
      BY <3>1, <3>2
    <3>4. f[m] \in Pids \cup {0}
      BY <1>8, <3>2, <3>3
    <3> QED
      BY <3>1, <3>4
  <2> QED
    BY <2>1
<1>10. f \in [0 .. N -> Pids \cup {0}]
  <2>1. f = [i \in 0 .. N |-> f[i]]
    BY <1>7
  <2> QED
    BY <1>9, <2>1
<1> QED
  BY <1>3, <1>6, <1>8, <1>10 DEF Walk

\* The tasks above a task are of its owner or of the host.
LEMMA AncestorsOwner ==
    ASSUME NEW own, NEW owners, NEW links, TrueMaps(own, owners, links), NEW p \in Pids,
           NEW n \in Nat, NEW up, Walk(up, links, p, n), NEW k \in 0 .. n, up[k] # 0
    PROVE  up[k] \in Pids /\ own[up[k]] \in {own[p], Host}
<1> DEFINE U == {i \in 0 .. n : up[i] # 0 /\ own[up[i]] \notin {own[p], Host}}
<1>1. ASSUME U # {} PROVE FALSE
  <2>1. PICK m \in U : \A i \in U : m <= i
    <3>1. U \in SUBSET Nat
      OBVIOUS
    <3> HIDE DEF U
    <3> QED
      BY <1>1, <3>1, LeastNat
  <2>2. m \in 1 .. n /\ m - 1 \in 0 .. n /\ ~(m <= m - 1)
    BY <2>1 DEF Walk
  <2>3. up[m] # 0 /\ up[m] = IF up[m - 1] = 0 THEN 0 ELSE links[up[m - 1]]
    BY <2>1, <2>2 DEF Walk
  <2>4. PICK q \in Pids : q = up[m - 1] /\ links[q] = up[m] /\ links[q] # 0
    BY <2>2, <2>3 DEF Walk
  <2>5. own[q] \in {own[p], Host}
    BY <2>1, <2>2, <2>3, <2>4
  <2>6. own[links[q]] = own[q] \/ own[links[q]] = Host
    BY <2>4 DEF TrueMaps, Descends
  <2> QED
    BY <2>1, <2>4, <2>5, <2>6
<1>2. up[k] \in Pids
  BY DEF Walk
<1> QED
  BY <1>1, <1>2

\* What resolve finds is the owner.
LEMMA ResolveIsRight ==
    ASSUME NEW own, NEW owners, NEW links, TrueMaps(own, owners, links), NEW p \in Pids,
           cgroups \subseteq Executions, NEW cg \in {None, own[p]}, Resolve(owners, links, cg, p) # None
    PROVE  Resolve(owners, links, cg, p) = own[p]
<1>1. CASE cg \in cgroups
  BY <1>1, AttributionAssumption DEF Resolve
<1>2. CASE cg \notin cgroups
  <2>1. PICK up : up = Ancestor(links, p)
    OBVIOUS
  <2>2. PICK N \in Nat : N = MaxDepth - 1
    BY AttributionAssumption
  <2>3. Walk(up, links, p, N)
    BY <2>1, <2>2, AncestorWalks DEF TrueMaps
  <2>4. DOMAIN up = 0 .. N
    BY <2>3 DEF Walk
  <2>5. PICK hits : hits = {i \in 0 .. N : up[i] # 0 /\ owners[up[i]] # None}
    OBVIOUS
  <2>6. hits # {} /\ Resolve(owners, links, cg, p) = owners[up[CHOOSE i \in hits : \A j \in hits : i <= j]]
    BY <1>2, <2>1, <2>4, <2>5 DEF Resolve
  <2>7. PICK m \in hits : \A j \in hits : m <= j
    BY <2>5, <2>6, LeastNat
  <2>8. PICK k : k = CHOOSE i \in hits : \A j \in hits : i <= j
    OBVIOUS
  <2>9. k \in hits
    BY <2>7, <2>8
  <2>10. k \in 0 .. N /\ up[k] # 0 /\ owners[up[k]] # None
    BY <2>5, <2>9
  <2>11. up[k] \in Pids /\ own[up[k]] \in {own[p], Host}
    BY <2>3, <2>10, AncestorsOwner
  <2>12. owners[up[k]] = own[up[k]] /\ owners[up[k]] \in Executions
    BY <2>10, <2>11 DEF TrueMaps
  <2>13. own[up[k]] = own[p]
    BY <2>11, <2>12, AttributionAssumption
  <2> QED
    BY <2>6, <2>8, <2>12, <2>13
<1> QED
  BY <1>1, <1>2
-----------------------------------------------------------------------------
(***************************************************************************)
(* More tasks, more events.                                                *)
(***************************************************************************)

\* own knows no task otherwise than before does.
Extends(before, own) ==
    /\ before \in [Pids -> Owners \cup {None}]
    /\ own \in [Pids -> Owners \cup {None}]
    /\ \A p \in Pids : before[p] # None => own[p] = before[p]

\* Nothing marks a task that was not started.
LEMMA NoneIsNoOwner == None \notin Owners /\ Host \notin Executions /\ Host # None
  BY AttributionAssumption DEF Owners, Host, None

\* What a sequence holds.
LEMMA ElementOfSeq ==
    ASSUME NEW S, NEW s \in Seq(S), NEW i \in 1 .. Len(s)
    PROVE  s[i] \in S
  OBVIOUS

\* Learning the owner of another task keeps who descends from whom.
LEMMA DescendsOn ==
    ASSUME NEW before, NEW own, Extends(before, own), NEW c \in Pids, NEW p \in Pids, Descends(before, c, p)
    PROVE  Descends(own, c, p)
  BY DEF Extends, Descends

\* Learning the owner of another task keeps the registry's maps true.
LEMMA TrueMapsOn ==
    ASSUME NEW before, NEW own, Extends(before, own), NEW owners, NEW links, TrueMaps(before, owners, links)
    PROVE  TrueMaps(own, owners, links)
<1>1. ASSUME NEW p \in Pids PROVE owners[p] \in {None, own[p]}
  BY DEF TrueMaps, Extends
<1>2. ASSUME NEW p \in Pids, links[p] # 0 PROVE Descends(own, p, links[p])
  <2>1. links[p] \in Pids /\ Descends(before, p, links[p])
    BY <1>2 DEF TrueMaps
  <2> QED
    BY <2>1, DescendsOn
<1> QED
  BY <1>1, <1>2 DEF TrueMaps

\* Learning the owner of another task keeps an event true.
LEMMA TrueEventOn ==
    ASSUME NEW before, NEW own, Extends(before, own), NEW e \in Events, TrueEvent(before, e)
    PROVE  TrueEvent(own, e)
<1>1. e.pid \in Pids /\ e.parent \in Pids /\ e.child \in Pids /\ e.owner \in Owners
  BY DEF Events
<1>2. own[e.pid] = e.owner /\ own[e.parent] = e.owner
  BY <1>1, NoneIsNoOwner DEF TrueEvent, Extends
<1>3. e.op = "fork" => Descends(own, e.child, e.parent)
  BY <1>1, DescendsOn DEF TrueEvent
<1> QED
  BY <1>2, <1>3 DEF TrueEvent

\* An event goes to the ring or is lost; those in the ring stay true.
LEMMA RingOn ==
    ASSUME NEW before, NEW own, Extends(before, own), RingInv(before),
           \/ ring' = ring
           \/ \E e \in Events : TrueEvent(own, e) /\ Submit(e)
    PROVE  RingInv(own)'
<1>1. ring \in Seq(Events) /\ Len(ring) \in Nat
  BY DEF RingInv
<1>2. ASSUME NEW i \in 1 .. Len(ring) PROVE TrueEvent(own, ring[i])
  <2>1. ring[i] \in Events /\ TrueEvent(before, ring[i])
    BY <1>1, ElementOfSeq DEF RingInv
  <2> QED
    BY <2>1, TrueEventOn
<1>3. CASE ring' = ring
  BY <1>1, <1>2, <1>3 DEF RingInv
<1>4. ASSUME NEW e \in Events, TrueEvent(own, e), ring' = Append(ring, e) PROVE RingInv(own)'
  <2>1. /\ ring' \in Seq(Events) /\ Len(ring') = Len(ring) + 1
        /\ \A i \in 1 .. Len(ring) : ring'[i] = ring[i]
        /\ ring'[Len(ring) + 1] = e
        /\ \A i \in 1 .. Len(ring) + 1 : i \in 1 .. Len(ring) \/ i = Len(ring) + 1
    BY <1>1, <1>4
  <2>2. ASSUME NEW i \in 1 .. Len(ring') PROVE TrueEvent(own, ring'[i])
    <3>1. CASE i \in 1 .. Len(ring)
      BY <1>2, <2>1, <3>1
    <3>2. CASE i = Len(ring) + 1
      BY <1>4, <2>1, <3>2
    <3> QED
      BY <2>1, <3>1, <3>2
  <2> QED
    BY <2>1, <2>2 DEF RingInv
<1> QED
  BY <1>3, <1>4 DEF Submit

\* Learning the owner of another task keeps what the coordinator announced.
LEMMA CoordinatorOn ==
    ASSUME NEW before, NEW own, Extends(before, own), CoordinatorInv(before)
    PROVE  CoordinatorInv(own)
<1>1. ASSUME NEW e \in Executions, stage[e] # "idle" PROVE root[e] \in Pids /\ own[root[e]] = e
  BY <1>1, NoneIsNoOwner DEF CoordinatorInv, Extends, Owners
<1>2. ASSUME NEW i \in 1 .. Len(control) PROVE TrueMessage(own, control[i])
  <2>1. control[i] \in Messages /\ TrueMessage(before, control[i])
    BY ElementOfSeq DEF CoordinatorInv
  <2>2. control[i].pid \in Pids /\ control[i].execution \in Executions
    BY <2>1 DEF Messages
  <2> QED
    BY <2>1, <2>2, NoneIsNoOwner DEF TrueMessage, Extends, Owners
<1> QED
  BY <1>1, <1>2 DEF CoordinatorInv

\* The event of a running task is true.
LEMMA EventIsTrue ==
    ASSUME NEW before, NEW own, Extends(before, own), KernelInv(before), NEW p \in Pids, Running(p),
           NEW c \in Pids, NEW op \in {"fork", "exit", "access"}, op = "fork" => Descends(own, c, p)
    PROVE  Event(op, p, c) \in Events /\ TrueEvent(own, Event(op, p, c))
<1>1. PICK g \in Pids : g = group[p]
  BY DEF KernelInv
<1>2. /\ owner[p] \in Owners /\ before[p] = owner[p] /\ before[g] = owner[p]
      /\ cgroup[g] \in Executions \cup {None} /\ cgroup[g] \in {None, before[g]}
  BY <1>1, NoneIsNoOwner DEF KernelInv, Running, Owners
<1>3. own[p] = owner[p] /\ own[g] = owner[p]
  BY <1>2, NoneIsNoOwner DEF Extends
<1>4. PICK e : e = Event(op, p, c)
  OBVIOUS
<1>5. /\ e = [op |-> op, pid |-> g, cgroup |-> cgroup[g], parent |-> p, child |-> c, owner |-> owner[p]]
  BY <1>1, <1>4 DEF Event
<1>6. e \in Events
  BY <1>2, <1>5 DEF Events
<1>7. /\ e.op = op /\ e.pid = g /\ e.cgroup = cgroup[g] /\ e.parent = p /\ e.child = c /\ e.owner = owner[p]
  BY <1>5
<1> QED
  BY <1>2, <1>3, <1>4, <1>6, <1>7 DEF TrueEvent
-----------------------------------------------------------------------------
(***************************************************************************)
(* The steps of the kernel and of the coordinator.                         *)
(***************************************************************************)

\* Task p forks c for owner o into process g.
NewTask(p, c, o, g) ==
    /\ Running(p) /\ owner[c] = "free"
    /\ g = c \/ (g = group[p] /\ o = owner[p])
    /\ o = owner[p] \/ owner[p] = Host
    /\ owner' = [owner EXCEPT ![c] = o]
    /\ group' = [group EXCEPT ![c] = g]
    /\ cgroup' = [cgroup EXCEPT ![c] = cgroup[group[p]]]
    /\ Submit(Event("fork", p, c))

\* A new task has its owner for good.
LEMMA NewTaskKnown ==
    ASSUME NEW own, OwnersKnown(own), NEW p \in Pids, NEW c \in Pids, NEW o \in Owners, NEW g \in Pids,
           NewTask(p, c, o, g)
    PROVE  \E new : Extends(own, new) /\ KernelInv(new)' /\ RingInv(new)' /\ new[c] = o
<1>1. KernelInv(own) /\ RingInv(own)
  BY DEF OwnersKnown
<1>2. /\ Running(p) /\ owner[c] = "free" /\ owner' = [owner EXCEPT ![c] = o]
      /\ o = owner[p] \/ owner[p] = Host
      /\ g = c \/ (g = group[p] /\ o = owner[p])
      /\ group' = [group EXCEPT ![c] = g]
      /\ cgroup' = [cgroup EXCEPT ![c] = cgroup[group[p]]]
      /\ Submit(Event("fork", p, c))
  BY DEF NewTask
<1> DEFINE new == [own EXCEPT ![c] = o]
<1>3. o # None /\ o # "free"
  BY AttributionAssumption DEF Owners, Host, None
<1>4. /\ own \in [Pids -> Owners \cup {None}] /\ own[c] = None /\ own[p] = owner[p] /\ own[p] # None /\ p # c
      /\ HostPid \in Pids /\ HostPid # c
  BY <1>1, <1>2, NoneIsNoOwner, AttributionAssumption DEF KernelInv, Running, Owners, Host
<1>5. Extends(own, new) /\ new[c] = o /\ new[p] = own[p] /\ \A q \in Pids : q # c => new[q] = own[q]
  BY <1>4 DEF Extends
<1> HIDE DEF new
<1>6. Descends(new, c, p)
  BY <1>2, <1>3, <1>4, <1>5 DEF Descends
<1>7. RingInv(new)'
  <2>1. Event("fork", p, c) \in Events /\ TrueEvent(new, Event("fork", p, c))
    BY <1>1, <1>2, <1>5, <1>6, EventIsTrue
  <2> QED
    BY <1>1, <1>2, <1>5, <2>1, RingOn
<1>8. PICK h \in Pids : h = group[p] /\ own[h] = own[p] /\ h # c
  BY <1>1, <1>4 DEF KernelInv
<1>9. /\ \A q \in Pids : q # c => owner'[q] = owner[q] /\ group'[q] = group[q] /\ cgroup'[q] = cgroup[q]
      /\ owner'[c] = o /\ group'[c] = g /\ cgroup'[c] = cgroup[h]
      /\ owner' \in [Pids -> Owners \cup {"free", "zombie", "dead"}]
      /\ group' \in [Pids -> Pids] /\ cgroup' \in [Pids -> Executions \cup {None}]
  BY <1>1, <1>2, <1>8 DEF KernelInv
<1>10. KernelInv(new)'
  <2>1. new \in [Pids -> Owners \cup {None}] /\ new[HostPid] = Host /\ owner'[HostPid] = Host
    BY <1>1, <1>4, <1>5, <1>9 DEF KernelInv, Extends
  <2>2. \A q \in Pids : new[q] = None <=> owner'[q] = "free"
    BY <1>1, <1>3, <1>5, <1>9 DEF KernelInv
  <2>3. \A q \in Pids : Running(q)' => new[q] = owner'[q]
    BY <1>1, <1>5, <1>9 DEF KernelInv, Running
  <2>4. ASSUME NEW q \in Pids, new[q] # None PROVE new[group'[q]] = new[q]
    <3>1. CASE q # c
      <4>1. own[q] # None /\ own[group[q]] = own[q] /\ group[q] \in Pids
        BY <1>1, <1>5, <2>4, <3>1 DEF KernelInv
      <4>2. group[q] # c
        BY <1>4, <4>1
      <4> QED
        BY <1>5, <1>9, <3>1, <4>1, <4>2
    <3>2. CASE q = c
      BY <1>2, <1>4, <1>5, <1>8, <1>9, <3>2
    <3> QED
      BY <3>1, <3>2
  <2>5. ASSUME NEW q \in Pids PROVE cgroup'[q] \in {None, new[q]}
    <3>1. CASE q # c
      BY <1>1, <1>5, <1>9, <3>1 DEF KernelInv
    <3>2. CASE q = c
      <4>1. cgroup[h] \in {None, own[p]} /\ cgroup[h] \in Executions \cup {None}
        BY <1>1, <1>8 DEF KernelInv
      <4> QED
        BY <1>2, <1>4, <1>5, <1>9, <3>2, <4>1, NoneIsNoOwner
    <3> QED
      BY <3>1, <3>2
  <2> QED
    BY <1>9, <2>1, <2>2, <2>3, <2>4, <2>5 DEF KernelInv
<1> QED
  BY <1>5, <1>7, <1>10

\* A fork; the start of an execution.
LEMMA ForkKnown ==
    ASSUME NEW own, OwnersKnown(own),
           \/ \E p, c \in Pids, thread \in BOOLEAN : Fork(p, c, thread)
           \/ \E e \in Executions, p \in Pids : Start(e, p)
    PROVE  \E new \in [Pids -> Owners \cup {None}] : OwnersKnown(new)'
<1>1. own \in [Pids -> Owners \cup {None}] /\ KernelInv(own) /\ CoordinatorInv(own) /\ RegistryInv(own)
  BY DEF OwnersKnown, KernelInv
<1>2. ASSUME NEW new, Extends(own, new), UNCHANGED registry PROVE RegistryInv(new)'
  <2>1. TrueMaps(new, processes, parents)
    BY <1>1, <1>2, TrueMapsOn DEF RegistryInv
  <2> QED
    BY <1>1, <1>2, <2>1 DEF RegistryInv, registry
<1>3. ASSUME NEW p \in Pids, NEW c \in Pids, NEW thread \in BOOLEAN, Fork(p, c, thread)
      PROVE  \E new \in [Pids -> Owners \cup {None}] : OwnersKnown(new)'
  <2>1. PICK o \in Owners : o = owner[p]
    BY <1>3 DEF Fork, ForkTask, Running, Owners
  <2>2. PICK g \in Pids : NewTask(p, c, o, g)
    <3>1. group[p] \in Pids
      BY <1>1 DEF KernelInv
    <3> QED
      BY <1>3, <2>1, <3>1 DEF Fork, ForkTask, NewTask
  <2>3. PICK new : Extends(own, new) /\ KernelInv(new)' /\ RingInv(new)'
    BY <2>2, NewTaskKnown
  <2>4. CoordinatorInv(new)'
    <3>1. CoordinatorInv(new) /\ UNCHANGED <<stage, root, control>>
      BY <1>1, <1>3, <2>3, CoordinatorOn DEF Fork, coordinator
    <3> QED
      BY <3>1 DEF CoordinatorInv
  <2>5. RegistryInv(new)'
    BY <1>2, <1>3, <2>3 DEF Fork
  <2> QED
    BY <2>3, <2>4, <2>5 DEF OwnersKnown, Extends
<1>4. ASSUME NEW e \in Executions, NEW p \in Pids, Start(e, p)
      PROVE  \E new \in [Pids -> Owners \cup {None}] : OwnersKnown(new)'
  <2>1. /\ ForkTask(HostPid, p, e, FALSE) /\ e \in Owners /\ HostPid \in Pids /\ owner[HostPid] = Host
        /\ stage' = [stage EXCEPT ![e] = "started"] /\ root' = [root EXCEPT ![e] = p]
        /\ UNCHANGED <<control, registry>>
    BY <1>1, <1>4, AttributionAssumption DEF Start, Owners, KernelInv
  <2>2. NewTask(HostPid, p, e, p)
    BY <2>1 DEF ForkTask, NewTask
  <2>3. PICK new : Extends(own, new) /\ KernelInv(new)' /\ RingInv(new)' /\ new[p] = e
    BY <2>1, <2>2, NewTaskKnown
  <2>4. CoordinatorInv(new)'
    <3>1. CoordinatorInv(new)
      BY <1>1, <2>3, CoordinatorOn
    <3>2. /\ stage' \in [Executions -> {"idle", "started", "announced", "placed", "reaped", "over"}]
          /\ root' \in [Executions -> Pids \cup {0}] /\ root'[e] = p
          /\ \A f \in Executions : f # e => stage'[f] = stage[f] /\ root'[f] = root[f]
      BY <2>1, <3>1 DEF CoordinatorInv
    <3> QED
      BY <2>1, <2>3, <3>1, <3>2 DEF CoordinatorInv
  <2>5. RegistryInv(new)'
    BY <1>2, <2>1, <2>3
  <2> QED
    BY <2>3, <2>4, <2>5 DEF OwnersKnown, Extends
<1> QED
  BY <1>3, <1>4

\* A task that is gone keeps its owner, when its identifier is not reused.
LEMMA TaskGone ==
    ASSUME NEW own, KernelInv(own), NEW p \in Pids, p # HostPid, owner[p] # "free",
           NEW state \in {"zombie", "dead"}, owner' = [owner EXCEPT ![p] = state], UNCHANGED <<group, cgroup>>
    PROVE  KernelInv(own)'
<1>1. /\ owner'[p] = state /\ \A q \in Pids : q # p => owner'[q] = owner[q]
      /\ owner' \in [Pids -> Owners \cup {"free", "zombie", "dead"}]
  BY DEF KernelInv
<1>2. HostPid \in Pids /\ state \notin Executions \cup {Host} /\ state # "free"
  BY AttributionAssumption DEF Host
<1>3. \A q \in Pids : own[q] = None <=> owner'[q] = "free"
  BY <1>1, <1>2 DEF KernelInv
<1>4. \A q \in Pids : Running(q)' => own[q] = owner'[q]
  BY <1>1, <1>2 DEF KernelInv, Running
<1> QED
  BY <1>1, <1>2, <1>3, <1>4 DEF KernelInv

\* A control message of a started execution is true.
LEMMA SendKnown ==
    ASSUME NEW own, CoordinatorInv(own), NEW e \in Executions, stage[e] # "idle",
           NEW action \in {"register", "unregister"}, Send(action, e),
           NEW label \in {"announced", "over"}, stage' = [stage EXCEPT ![e] = label], root' = root
    PROVE  CoordinatorInv(own)'
<1>1. PICK m : m = [action |-> action, execution |-> e, pid |-> root[e]]
  OBVIOUS
<1>2. root[e] \in Pids /\ own[root[e]] = e
  BY DEF CoordinatorInv
<1>3. m \in Messages /\ TrueMessage(own, m)
  BY <1>1, <1>2 DEF Messages, TrueMessage
<1>4. control \in Seq(Messages) /\ control' = Append(control, m) /\ Len(control) \in Nat
  BY <1>1 DEF Send, CoordinatorInv
<1>5. /\ control' \in Seq(Messages) /\ Len(control') = Len(control) + 1
      /\ \A i \in 1 .. Len(control) : control'[i] = control[i]
      /\ control'[Len(control) + 1] = m
      /\ \A i \in 1 .. Len(control) + 1 : i \in 1 .. Len(control) \/ i = Len(control) + 1
  BY <1>3, <1>4
<1>6. ASSUME NEW i \in 1 .. Len(control') PROVE TrueMessage(own, control'[i])
  <2>1. CASE i \in 1 .. Len(control)
    BY <1>5, <2>1 DEF CoordinatorInv
  <2>2. CASE i = Len(control) + 1
    BY <1>3, <1>5, <2>2
  <2> QED
    BY <1>5, <2>1, <2>2
<1>7. /\ stage' \in [Executions -> {"idle", "started", "announced", "placed", "reaped", "over"}]
      /\ \A f \in Executions : stage'[f] # "idle" => stage[f] # "idle"
  BY DEF CoordinatorInv
<1> QED
  BY <1>5, <1>6, <1>7 DEF CoordinatorInv

\* The other steps of the kernel and of the coordinator change no owner.
LEMMA KernelStepKnown ==
    ASSUME ~PidReuse, NEW own, OwnersKnown(own),
           \/ \E p \in Pids : Exit(p) \/ Access(p)
           \/ \E e \in Executions : Announce(e) \/ MoveIntoCgroup(e) \/ Reap(e) \/ Withdraw(e)
    PROVE  OwnersKnown(own)'
<1>1. KernelInv(own) /\ CoordinatorInv(own) /\ RegistryInv(own) /\ RingInv(own)
  BY DEF OwnersKnown
<1>2. Extends(own, own)
  BY <1>1 DEF Extends, KernelInv
<1>3. Recycled = "dead"
  BY DEF Recycled
<1>4. ASSUME UNCHANGED registry PROVE RegistryInv(own)'
  BY <1>1, <1>4 DEF RegistryInv, registry
<1>5. ASSUME ring' = ring PROVE RingInv(own)'
  BY <1>1, <1>2, <1>5, RingOn
<1>6. ASSUME UNCHANGED <<stage, root, control>> PROVE CoordinatorInv(own)'
  BY <1>1, <1>6 DEF CoordinatorInv
<1>7. ASSUME UNCHANGED <<owner, group, cgroup>> PROVE KernelInv(own)'
  BY <1>1, <1>7 DEF KernelInv, Running
<1>8. ASSUME NEW p \in Pids, Exit(p) \/ Access(p) PROVE OwnersKnown(own)'
  <2>1. Running(p) /\ UNCHANGED <<stage, root, control, registry>>
    BY <1>8 DEF Exit, Access, coordinator
  <2>2. PICK op \in {"exit", "access"} : Submit(Event(op, p, p))
    BY <1>8 DEF Exit, Access
  <2>3. Event(op, p, p) \in Events /\ TrueEvent(own, Event(op, p, p))
    BY <1>1, <1>2, <2>1, <2>2, EventIsTrue
  <2>4. RingInv(own)'
    BY <1>1, <1>2, <2>2, <2>3, RingOn
  <2>5. KernelInv(own)'
    <3>1. CASE Access(p)
      BY <1>7, <3>1 DEF Access, kernel
    <3>2. CASE Exit(p)
      <4>1. p # HostPid /\ UNCHANGED <<group, cgroup>>
        BY <3>2 DEF Exit
      <4>2. PICK state \in {"zombie", "dead"} : owner' = [owner EXCEPT ![p] = state]
        BY <1>3, <3>2 DEF Exit
      <4>3. owner[p] # "free"
        BY <2>1, AttributionAssumption DEF Running, Host
      <4> QED
        BY <1>1, <4>1, <4>2, <4>3, TaskGone
    <3> QED
      BY <1>8, <3>1, <3>2
  <2> QED
    BY <1>4, <1>6, <2>1, <2>4, <2>5 DEF OwnersKnown
<1>9. ASSUME NEW e \in Executions, Announce(e) PROVE OwnersKnown(own)'
  <2>1. /\ UNCHANGED <<owner, group, cgroup, root, ring, registry>> /\ stage[e] = "started"
        /\ Send("register", e) /\ stage' = [stage EXCEPT ![e] = "announced"]
    BY <1>9 DEF Announce, kernel
  <2>2. CoordinatorInv(own)'
    BY <1>1, <2>1, SendKnown
  <2> QED
    BY <1>4, <1>5, <1>7, <2>1, <2>2 DEF OwnersKnown
<1>10. ASSUME NEW e \in Executions, MoveIntoCgroup(e) \/ Reap(e) PROVE OwnersKnown(own)'
  <2>1. /\ UNCHANGED <<group, root, control, ring, registry>> /\ stage[e] \in {"announced", "placed"}
        /\ \E label \in {"placed", "reaped"} : stage' = [stage EXCEPT ![e] = label]
    BY <1>10 DEF MoveIntoCgroup, Reap
  <2>2. CoordinatorInv(own)'
    <3>1. /\ stage' \in [Executions -> {"idle", "started", "announced", "placed", "reaped", "over"}]
          /\ \A f \in Executions : stage'[f] # "idle" => stage[f] # "idle"
      BY <1>1, <2>1 DEF CoordinatorInv
    <3> QED
      BY <1>1, <2>1, <3>1 DEF CoordinatorInv
  <2>3. PICK r \in Pids : r = root[e] /\ own[r] = e
    BY <1>1, <2>1 DEF CoordinatorInv
  <2>4. KernelInv(own)'
    <3>1. CASE MoveIntoCgroup(e)
      <4>1. owner' = owner /\ (cgroup' = cgroup \/ cgroup' = [cgroup EXCEPT ![r] = e])
        BY <2>3, <3>1 DEF MoveIntoCgroup
      <4>2. cgroup' \in [Pids -> Executions \cup {None}] /\ \A q \in Pids : cgroup'[q] \in {None, own[q]}
        BY <1>1, <2>3, <4>1 DEF KernelInv
      <4> QED
        BY <1>1, <2>1, <4>1, <4>2 DEF KernelInv, Running
    <3>2. CASE Reap(e)
      <4>1. owner[r] = "zombie" /\ owner' = [owner EXCEPT ![r] = "dead"] /\ cgroup' = cgroup
        BY <1>3, <2>3, <3>2 DEF Reap
      <4>2. r # HostPid
        BY <1>1, <4>1 DEF KernelInv, Host
      <4> QED
        BY <1>1, <2>1, <4>1, <4>2, TaskGone
    <3> QED
      BY <1>10, <3>1, <3>2
  <2> QED
    BY <1>4, <1>5, <2>1, <2>2, <2>4 DEF OwnersKnown
<1>11. ASSUME NEW e \in Executions, Withdraw(e) PROVE OwnersKnown(own)'
  <2>1. /\ UNCHANGED <<group, cgroup, root, ring, registry>> /\ stage[e] \in {"announced", "reaped"}
        /\ Send("unregister", e) /\ stage' = [stage EXCEPT ![e] = "over"]
    BY <1>11 DEF Withdraw
  <2>2. CoordinatorInv(own)'
    BY <1>1, <2>1, SendKnown
  <2>3. PICK r \in Pids : r = root[e]
    BY <1>1, <2>1 DEF CoordinatorInv
  <2>4. KernelInv(own)'
    <3>1. CASE owner' = owner
      BY <1>7, <2>1, <3>1
    <3>2. CASE owner[r] = "zombie" /\ owner' = [owner EXCEPT ![r] = "dead"]
      <4>1. r # HostPid
        BY <1>1, <3>2 DEF KernelInv, Host
      <4> QED
        BY <1>1, <2>1, <3>2, <4>1, TaskGone
    <3> QED
      BY <1>3, <1>11, <2>3, <3>1, <3>2 DEF Withdraw
  <2> QED
    BY <1>4, <1>5, <2>1, <2>2, <2>4 DEF OwnersKnown
<1> QED
  BY <1>8, <1>9, <1>10, <1>11
-----------------------------------------------------------------------------
(***************************************************************************)
(* The steps of the tracer.                                                *)
(***************************************************************************)

\* What is left of a sequence without its i-th element.
LEMMA RemoveAtFacts ==
    ASSUME NEW S, NEW s \in Seq(S), NEW i \in 1 .. Len(s)
    PROVE  /\ RemoveAt(s, i) \in Seq(S)
           /\ Len(RemoveAt(s, i)) = Len(s) - 1
           /\ \A j \in 1 .. Len(s) - 1 : RemoveAt(s, i)[j] = s[IF j < i THEN j ELSE j + 1]
<1>1. PICK n \in Nat : n = Len(s) /\ i \in 1 .. n
  OBVIOUS
<1>2. PICK a : a = SubSeq(s, 1, i - 1)
  OBVIOUS
<1>3. PICK b : b = SubSeq(s, i + 1, n)
  OBVIOUS
<1>4. a \in Seq(S) /\ Len(a) = i - 1 /\ \A j \in 1 .. i - 1 : a[j] = s[j]
  BY <1>1, <1>2
<1>5. b \in Seq(S) /\ Len(b) = n - i /\ \A j \in 1 .. n - i : b[j] = s[i + j]
  BY <1>1, <1>3
<1>6. RemoveAt(s, i) = a \o b
  BY <1>1, <1>2, <1>3 DEF RemoveAt
<1>7. a \o b \in Seq(S) /\ Len(a \o b) = n - 1
  <2>1. a \o b \in Seq(S) /\ Len(a \o b) = Len(a) + Len(b)
    BY <1>4, <1>5, SMTT(30)
  <2>2. (i - 1) + (n - i) = n - 1
    BY <1>1
  <2> QED
    BY <1>4, <1>5, <2>1, <2>2
<1>8. ASSUME NEW j \in 1 .. n - 1 PROVE (a \o b)[j] = s[IF j < i THEN j ELSE j + 1]
  <2>1. CASE j < i
    <3>1. j \in 1 .. i - 1
      BY <1>1, <2>1
    <3> QED
      BY <1>4, <1>5, <2>1, <3>1
  <2>2. CASE ~(j < i)
    <3>1. j - (i - 1) \in 1 .. n - i /\ i + (j - (i - 1)) = j + 1
      BY <1>1, <2>2
    <3>2. (a \o b)[j] = b[j - (i - 1)]
      BY <1>1, <1>4, <1>5, <1>7, <2>2, SMTT(30)
    <3> QED
      BY <1>5, <2>2, <3>1, <3>2
  <2> QED
    BY <2>1, <2>2
<1> QED
  BY <1>1, <1>6, <1>7, <1>8

\* A control message, in any order, adds what is so or removes.
LEMMA ControlKnown ==
    ASSUME NEW own, OwnersKnown(own), NEW i \in DOMAIN control, HandleControl(i)
    PROVE  OwnersKnown(own)'
<1>1. KernelInv(own) /\ CoordinatorInv(own) /\ RegistryInv(own) /\ RingInv(own)
  BY DEF OwnersKnown
<1>2. control \in Seq(Messages) /\ i \in 1 .. Len(control) /\ Len(control) \in Nat
  BY <1>1 DEF CoordinatorInv
<1>3. PICK m \in Messages : m = control[i] /\ TrueMessage(own, m)
  BY <1>1, <1>2, ElementOfSeq DEF CoordinatorInv
<1>4. m.execution \in Executions /\ m.pid \in Pids /\ own[m.pid] = m.execution
  BY <1>3 DEF Messages, TrueMessage
<1>5. /\ UNCHANGED <<owner, group, cgroup, stage, root, ring>> /\ control' = RemoveAt(control, i)
      /\ Register(m) \/ Unregister(m)
  BY <1>3 DEF HandleControl, kernel, coordinator
<1>6. KernelInv(own)' /\ RingInv(own)'
  BY <1>1, <1>5 DEF KernelInv, Running, RingInv
<1>7. CoordinatorInv(own)'
  <2>1. /\ control' \in Seq(Messages) /\ Len(control') = Len(control) - 1
        /\ \A j \in 1 .. Len(control) - 1 : control'[j] = control[IF j < i THEN j ELSE j + 1]
    BY <1>2, <1>5, RemoveAtFacts
  <2>2. ASSUME NEW j \in 1 .. Len(control') PROVE TrueMessage(own, control'[j])
    <3>1. PICK k \in 1 .. Len(control) : control'[j] = control[k]
      BY <1>2, <2>1
    <3> QED
      BY <1>1, <3>1 DEF CoordinatorInv
  <2> QED
    BY <1>1, <1>5, <2>1, <2>2 DEF CoordinatorInv
<1>8. TrueMaps(own, processes, parents) /\ cgroups \subseteq Executions
  BY <1>1 DEF RegistryInv
<1>9. CASE Register(m)
  <2>1. /\ cgroups' = cgroups \cup {m.execution} /\ parents' = parents
        /\ processes' = [processes EXCEPT ![m.pid] = m.execution]
    BY <1>9 DEF Register
  <2>2. processes' \in [Pids -> Executions \cup {None}] /\ \A p \in Pids : processes'[p] \in {None, own[p]}
    BY <1>4, <1>8, <2>1 DEF TrueMaps
  <2>3. TrueMaps(own, processes', parents')
    BY <1>8, <2>1, <2>2 DEF TrueMaps
  <2> QED
    BY <1>4, <1>6, <1>7, <1>8, <2>1, <2>3 DEF OwnersKnown, RegistryInv
<1>10. CASE Unregister(m)
  <2>1. /\ cgroups' \subseteq cgroups
        /\ processes' = [p \in Pids |-> IF processes[p] = m.execution THEN None ELSE processes[p]]
    BY <1>10 DEF Unregister
  <2>2. PICK live : parents' = [p \in Pids |-> IF p \in live \/ parents[p] \in live THEN parents[p] ELSE 0]
    BY <1>10 DEF Unregister
  <2>3. /\ processes' \in [Pids -> Executions \cup {None}]
        /\ \A p \in Pids : processes'[p] \in {None, own[p]}
    BY <1>8, <2>1 DEF TrueMaps
  <2>4. /\ parents' \in [Pids -> Pids \cup {0}]
        /\ \A p \in Pids : parents'[p] # 0 => Descends(own, p, parents'[p])
    BY <1>8, <2>2 DEF TrueMaps
  <2>5. TrueMaps(own, processes', parents')
    BY <2>3, <2>4 DEF TrueMaps
  <2> QED
    BY <1>6, <1>7, <1>8, <2>1, <2>5 DEF OwnersKnown, RegistryInv
<1> QED
  BY <1>5, <1>9, <1>10

\* A fork event adds what is so.
LEMMA AfterForkTrue ==
    ASSUME NEW own, TrueMaps(own, processes, parents), NEW e \in Events, TrueEvent(own, e)
    PROVE  TrueMaps(own, AfterFork(e)[1], AfterFork(e)[2])
<1>1. CASE e.op # "fork"
  BY <1>1 DEF AfterFork
<1>2. CASE e.op = "fork"
  <2>1. PICK c \in Pids, p \in Pids : c = e.child /\ p = e.parent /\ Descends(own, c, p)
    BY <1>2 DEF Events, TrueEvent
  <2>2. PICK owners : owners = IF processes[p] = None THEN processes ELSE [processes EXCEPT ![c] = processes[p]]
    OBVIOUS
  <2>3. PICK links : links = [parents EXCEPT ![c] = p]
    OBVIOUS
  <2>4. AfterFork(e) = <<owners, links>>
    BY <1>2, <2>1, <2>2, <2>3 DEF AfterFork
  <2>5. processes[p] # None => processes[p] = own[c]
    BY <2>1, NoneIsNoOwner DEF TrueMaps, Descends
  <2>6. owners \in [Pids -> Executions \cup {None}] /\ \A q \in Pids : owners[q] \in {None, own[q]}
    BY <2>1, <2>2, <2>5 DEF TrueMaps
  <2>7. links \in [Pids -> Pids \cup {0}] /\ \A q \in Pids : links[q] # 0 => Descends(own, q, links[q])
    BY <2>1, <2>3 DEF TrueMaps
  <2> QED
    BY <2>4, <2>6, <2>7 DEF TrueMaps
<1> QED
  BY <1>1, <1>2

\* The poll loop keeps the registry right, and assigns events to their owners.
LEMMA PollKnown ==
    ASSUME NEW own, OwnersKnown(own), NeverMisattributed, SkipEvent \/ AttributeEvent
    PROVE  OwnersKnown(own)' /\ NeverMisattributed'
<1>1. KernelInv(own) /\ CoordinatorInv(own) /\ RegistryInv(own) /\ RingInv(own)
  BY DEF OwnersKnown
<1>2. /\ ring # <<>> /\ ring' = Tail(ring) /\ ring \in Seq(Events)
      /\ UNCHANGED <<owner, group, cgroup, stage, root, control, cgroups>>
  BY <1>1 DEF SkipEvent, AttributeEvent, kernel, coordinator, RingInv
<1>3. PICK e \in Events : e = Head(ring) /\ TrueEvent(own, e)
  <2>1. Head(ring) = ring[1] /\ 1 \in 1 .. Len(ring)
    BY <1>2
  <2>2. ring[1] \in Events
    BY <1>2, <2>1, ElementOfSeq
  <2> QED
    BY <1>1, <2>1, <2>2 DEF RingInv
<1>4. RingInv(own)'
  <2>1. /\ ring' \in Seq(Events) /\ Len(ring') = Len(ring) - 1 /\ Len(ring) \in Nat
        /\ \A i \in 1 .. Len(ring) - 1 : ring'[i] = ring[i + 1] /\ i + 1 \in 1 .. Len(ring)
    BY <1>2
  <2>2. ASSUME NEW i \in 1 .. Len(ring') PROVE TrueEvent(own, ring'[i])
    BY <1>1, <2>1 DEF RingInv
  <2> QED
    BY <2>1, <2>2 DEF RingInv
<1>5. KernelInv(own)' /\ CoordinatorInv(own)'
  BY <1>1, <1>2 DEF KernelInv, Running, CoordinatorInv
<1>6. PICK owners, links : owners = AfterFork(e)[1] /\ links = AfterFork(e)[2]
  OBVIOUS
<1>7. TrueMaps(own, owners, links) /\ cgroups \subseteq Executions
  BY <1>1, <1>3, <1>6, AfterForkTrue DEF RegistryInv
<1>8. PICK p \in Pids, cg \in Executions \cup {None} : p = e.pid /\ cg = e.cgroup /\ own[p] = e.owner /\ cg \in {None, own[p]}
  BY <1>3 DEF Events, TrueEvent
<1>9. CASE SkipEvent
  <2>1. processes' = owners /\ parents' = links /\ emitted' = emitted
    BY <1>3, <1>6, <1>9 DEF SkipEvent
  <2> QED
    BY <1>2, <1>4, <1>5, <1>7, <2>1 DEF OwnersKnown, RegistryInv, NeverMisattributed
<1>10. CASE AttributeEvent
  <2>1. /\ Resolve(owners, links, cg, p) # None
        /\ processes' = owners \/ processes' = [owners EXCEPT ![p] = None]
        /\ parents' = links \/ parents' = [links EXCEPT ![p] = 0]
        /\ emitted' \in {emitted, emitted \cup {[execution |-> Resolve(owners, links, cg, p), owner |-> e.owner]}}
    BY <1>3, <1>6, <1>8, <1>10 DEF AttributeEvent
  <2>2. Resolve(owners, links, cg, p) = e.owner
    BY <1>7, <1>8, <2>1, ResolveIsRight
  <2>3. NeverMisattributed'
    BY <2>1, <2>2 DEF NeverMisattributed
  <2>4. processes' \in [Pids -> Executions \cup {None}] /\ \A q \in Pids : processes'[q] \in {None, own[q]}
    BY <1>7, <2>1 DEF TrueMaps
  <2>5. parents' \in [Pids -> Pids \cup {0}] /\ \A q \in Pids : parents'[q] # 0 => Descends(own, q, parents'[q])
    BY <1>7, <2>1 DEF TrueMaps
  <2>6. TrueMaps(own, processes', parents')
    BY <2>4, <2>5 DEF TrueMaps
  <2> QED
    BY <1>2, <1>4, <1>5, <1>7, <2>3, <2>6 DEF OwnersKnown, RegistryInv
<1> QED
  BY <1>9, <1>10

\* The invariant holds at boot, when only the host task has an owner.
LEMMA AttributionInitInv ==
    ASSUME Init
    PROVE  AttributionInv
<1>1. PICK own : own = [p \in Pids |-> IF p = HostPid THEN Host ELSE None]
  OBVIOUS
<1>2. own \in [Pids -> Owners \cup {None}] /\ HostPid \in Pids
  BY <1>1, AttributionAssumption DEF Owners
<1>3. KernelInv(own)
  <2>1. /\ owner \in [Pids -> Owners \cup {"free", "zombie", "dead"}] /\ group \in [Pids -> Pids]
        /\ cgroup \in [Pids -> Executions \cup {None}]
    BY DEF Init, Owners
  <2>2. own[HostPid] = Host /\ owner[HostPid] = Host
    BY <1>1, <1>2 DEF Init
  <2>3. \A p \in Pids : own[p] = None <=> owner[p] = "free"
    BY <1>1 DEF Init, Host, None
  <2>4. \A p \in Pids : Running(p) => own[p] = owner[p]
    BY <1>1, AttributionAssumption DEF Init, Running, Host
  <2>5. \A p \in Pids : group[p] = p /\ cgroup[p] = None
    BY DEF Init
  <2> QED
    BY <1>2, <2>1, <2>2, <2>3, <2>4, <2>5 DEF KernelInv
<1>4. CoordinatorInv(own)
  <2>1. control \in Seq(Messages) /\ Len(control) = 0
    BY DEF Init
  <2>2. stage = [e \in Executions |-> "idle"] /\ root \in [Executions -> Pids \cup {0}]
    BY DEF Init
  <2> QED
    BY <2>1, <2>2 DEF CoordinatorInv
<1>5. RegistryInv(own)
  <2>1. processes \in [Pids -> Executions \cup {None}] /\ parents \in [Pids -> Pids \cup {0}]
    BY DEF Init
  <2>2. cgroups = {} /\ \A p \in Pids : processes[p] = None /\ parents[p] = 0
    BY DEF Init
  <2> QED
    BY <2>1, <2>2 DEF RegistryInv, TrueMaps
<1>6. RingInv(own)
  <2>1. ring \in Seq(Events) /\ Len(ring) = 0
    BY DEF Init
  <2> QED
    BY <2>1 DEF RingInv
<1>7. NeverMisattributed
  BY DEF Init, NeverMisattributed
<1> QED
  BY <1>2, <1>3, <1>4, <1>5, <1>6, <1>7 DEF AttributionInv, OwnersKnown

\* Without reuse of identifiers no event is assigned to a test that did not
\* cause it: lost events, late events, threads and descendants, and control
\* messages in any order included.
THEOREM AttributionsRight ==
    ASSUME ~PidReuse
    PROVE  Spec => []NeverMisattributed
<1>1. Init => AttributionInv
  BY AttributionInitInv
<1>2. AttributionInv /\ [Next]_vars => AttributionInv'
  <2> SUFFICES ASSUME AttributionInv, [Next]_vars PROVE AttributionInv'
    OBVIOUS
  <2>1. PICK own \in [Pids -> Owners \cup {None}] : OwnersKnown(own)
    BY DEF AttributionInv
  <2>2. NeverMisattributed
    BY DEF AttributionInv
  <2>3. CASE SkipEvent \/ AttributeEvent
    BY <2>1, <2>2, <2>3, PollKnown DEF AttributionInv
  <2>4. ASSUME emitted' = emitted PROVE NeverMisattributed'
    BY <2>2, <2>4 DEF NeverMisattributed
  <2>5. CASE \/ \E p, c \in Pids, thread \in BOOLEAN : Fork(p, c, thread)
             \/ \E e \in Executions, p \in Pids : Start(e, p)
    <3>1. emitted' = emitted
      BY <2>5 DEF Fork, Start
    <3> QED
      BY <2>1, <2>4, <2>5, <3>1, ForkKnown DEF AttributionInv
  <2>6. CASE \/ \E p \in Pids : Exit(p) \/ Access(p)
             \/ \E e \in Executions : Announce(e) \/ MoveIntoCgroup(e) \/ Reap(e) \/ Withdraw(e)
    <3>1. emitted' = emitted
      BY <2>6 DEF Exit, Access, Announce, MoveIntoCgroup, Reap, Withdraw
    <3> QED
      BY <2>1, <2>4, <2>6, <3>1, KernelStepKnown DEF AttributionInv
  <2>7. CASE \E i \in DOMAIN control : HandleControl(i)
    <3>1. emitted' = emitted
      BY <2>7 DEF HandleControl
    <3> QED
      BY <2>1, <2>4, <2>7, <3>1, ControlKnown DEF AttributionInv
  <2>8. CASE UNCHANGED vars
    <3>1. /\ UNCHANGED <<owner, group, cgroup, stage, root, control, ring>>
          /\ UNCHANGED <<cgroups, processes, parents, emitted>>
      BY <2>8 DEF vars, kernel, coordinator, registry
    <3>2. OwnersKnown(own)'
      BY <2>1, <3>1 DEF OwnersKnown, KernelInv, CoordinatorInv, RegistryInv, RingInv, Running
    <3> QED
      BY <2>1, <2>4, <3>1, <3>2 DEF AttributionInv
  <2> QED
    BY <2>3, <2>5, <2>6, <2>7, <2>8 DEF Next
<1>3. AttributionInv => NeverMisattributed
  BY DEF AttributionInv
<1> QED
  BY <1>1, <1>2, <1>3, PTL DEF Spec
-----------------------------------------------------------------------------
(***************************************************************************)
(* What is left of an execution that is over, whatever the order in which  *)
(* control messages are handled.                                           *)
(***************************************************************************)

MappingTypes ==
    /\ group \in [Pids -> Pids]
    /\ cgroup \in [Pids -> Executions \cup {None}]
    /\ stage \in [Executions -> {"idle", "started", "announced", "placed", "reaped", "over"}]
    /\ root \in [Executions -> Pids \cup {0}]
    /\ \A e \in Executions : stage[e] # "idle" => root[e] \in Pids
    /\ control \in Seq(Messages)
    /\ processes \in [Pids -> Executions \cup {None}]
    /\ ring \in Seq(Events)

ForgettingInv == MappingTypes /\ MappingInv

\* An event in the ring has the shape of one, or is lost.
LEMMA SubmitTypes ==
    ASSUME MappingTypes, NEW p \in Pids, NEW c \in Pids, NEW op \in {"fork", "exit", "access"}, Running(p),
           Submit(Event(op, p, c))
    PROVE  ring' \in Seq(Events)
<1>1. PICK e : e = Event(op, p, c)
  OBVIOUS
<1>2. group[p] \in Pids /\ cgroup[group[p]] \in Executions \cup {None} /\ owner[p] \in Owners
  BY DEF MappingTypes, Running, Owners
<1>3. e \in Events
  BY <1>1, <1>2 DEF Event, Events
<1>4. ring' = ring \/ ring' = Append(ring, e)
  BY <1>1 DEF Submit
<1>5. ring \in Seq(Events)
  BY DEF MappingTypes
<1>6. CASE ring' = ring
  BY <1>5, <1>6
<1>7. CASE ring' = Append(ring, e)
  <2> HIDE DEF Events
  <2> QED
    BY <1>3, <1>5, <1>7
<1> QED
  BY <1>4, <1>6, <1>7

\* The kernel does not touch what the invariant is about.
LEMMA KernelForgets ==
    ASSUME ForgettingInv,
           \/ \E p, c \in Pids, thread \in BOOLEAN : Fork(p, c, thread)
           \/ \E p \in Pids : Exit(p) \/ Access(p)
    PROVE  ForgettingInv'
<1>1. UNCHANGED <<stage, root, control, cgroups, processes, late>>
  BY DEF Fork, Exit, Access, coordinator, registry
<1>2. MappingTypes /\ MappingInv
  BY DEF ForgettingInv
<1>3. MappingInv'
  <2>1. /\ \A e \in Executions : Mapped(e)' <=> Mapped(e)
        /\ \A e \in Executions : Unregistering(e)' <=> Unregistering(e)
    BY <1>1 DEF Mapped, Unregistering
  <2> QED
    BY <1>1, <1>2, <2>1 DEF MappingInv
<1>4. ASSUME NEW p \in Pids, NEW c \in Pids, NEW thread \in BOOLEAN, Fork(p, c, thread)
      PROVE  group' \in [Pids -> Pids] /\ cgroup' \in [Pids -> Executions \cup {None}] /\ ring' \in Seq(Events)
  <2>1. /\ Running(p) /\ Submit(Event("fork", p, c))
        /\ group' = [group EXCEPT ![c] = group[p]] \/ group' = [group EXCEPT ![c] = c]
        /\ cgroup' = [cgroup EXCEPT ![c] = cgroup[group[p]]]
    BY <1>4 DEF Fork, ForkTask
  <2>2. ring' \in Seq(Events)
    BY <1>2, <2>1, SubmitTypes
  <2> QED
    BY <1>2, <2>1, <2>2 DEF MappingTypes
<1>5. ASSUME NEW p \in Pids, Exit(p) \/ Access(p)
      PROVE  UNCHANGED <<group, cgroup>> /\ ring' \in Seq(Events)
  <2>1. Running(p) /\ UNCHANGED <<group, cgroup>> /\ \E op \in {"exit", "access"} : Submit(Event(op, p, p))
    BY <1>5 DEF Exit, Access, kernel
  <2>2. ring' \in Seq(Events)
    BY <1>2, <2>1, SubmitTypes
  <2> QED
    BY <2>1, <2>2
<1>6. MappingTypes'
  BY <1>1, <1>2, <1>4, <1>5 DEF MappingTypes
<1> QED
  BY <1>3, <1>6 DEF ForgettingInv

\* An event brings no execution back.
LEMMA PollForgets ==
    ASSUME ForgettingInv, SkipEvent \/ AttributeEvent
    PROVE  ForgettingInv'
<1>1. /\ UNCHANGED <<group, cgroup, stage, root, control, cgroups, late>> /\ ring # <<>> /\ ring' = Tail(ring)
      /\ MappingTypes /\ MappingInv
  BY DEF SkipEvent, AttributeEvent, kernel, coordinator, ForgettingInv
<1>2. ring \in Seq(Events) /\ processes \in [Pids -> Executions \cup {None}]
  BY <1>1 DEF MappingTypes
<1>3. PICK e \in Events : e = Head(ring)
  BY <1>1, <1>2
<1>4. PICK p \in Pids, c \in Pids, q \in Pids : p = e.parent /\ c = e.child /\ q = e.pid
  BY <1>3 DEF Events
<1>5. PICK owners : owners = AfterFork(e)[1]
  OBVIOUS
<1>6. owners = processes \/ owners = [processes EXCEPT ![c] = processes[p]]
  BY <1>4, <1>5 DEF AfterFork
<1>7. processes' = owners \/ processes' = [owners EXCEPT ![q] = None]
  BY <1>3, <1>4, <1>5 DEF SkipEvent, AttributeEvent
<1>8. /\ processes' \in [Pids -> Executions \cup {None}]
      /\ \A r \in Pids : processes'[r] = None \/ \E u \in Pids : processes[u] = processes'[r]
  BY <1>2, <1>6, <1>7
<1>9. ASSUME NEW f \in Executions, Mapped(f)' PROVE Mapped(f)
  <2>1. f # None
    BY AttributionAssumption
  <2> QED
    BY <1>1, <1>8, <1>9, <2>1 DEF Mapped
<1>10. \A f \in Executions : Unregistering(f)' <=> Unregistering(f)
  BY <1>1 DEF Unregistering
<1>11. MappingInv'
  BY <1>1, <1>9, <1>10 DEF MappingInv
<1>12. ring' \in Seq(Events)
  BY <1>1, <1>2
<1>13. MappingTypes'
  BY <1>1, <1>8, <1>12 DEF MappingTypes
<1> QED
  BY <1>11, <1>13 DEF ForgettingInv

\* The coordinator's steps without a message.
LEMMA QuietForgets ==
    ASSUME ForgettingInv, NEW e \in Executions,
           (\E p \in Pids : Start(e, p)) \/ MoveIntoCgroup(e) \/ Reap(e)
    PROVE  ForgettingInv'
<1>1. UNCHANGED <<control, cgroups, processes, late>> /\ MappingTypes /\ MappingInv
  BY DEF Start, MoveIntoCgroup, Reap, registry, ForgettingInv
<1>2. PICK label \in {"started", "placed", "reaped"} :
          stage' = [stage EXCEPT ![e] = label] /\ stage[e] # "over"
  BY DEF Start, MoveIntoCgroup, Reap
<1>3. /\ stage' \in [Executions -> {"idle", "started", "announced", "placed", "reaped", "over"}]
      /\ stage'[e] = label /\ \A f \in Executions : f # e => stage'[f] = stage[f]
  BY <1>1, <1>2 DEF MappingTypes
<1>4. /\ \A f \in Executions : Mapped(f)' <=> Mapped(f)
      /\ \A f \in Executions : Unregistering(f)' <=> Unregistering(f)
  BY <1>1 DEF Mapped, Unregistering
<1>5. MappingInv'
  BY <1>1, <1>2, <1>3, <1>4 DEF MappingInv
<1>6. /\ group' \in [Pids -> Pids] /\ cgroup' \in [Pids -> Executions \cup {None}]
      /\ root' \in [Executions -> Pids \cup {0}] /\ ring' \in Seq(Events)
      /\ root'[e] \in Pids /\ \A f \in Executions : f # e => root'[f] = root[f]
  <2>1. CASE \E p \in Pids : Start(e, p)
    <3>1. PICK p \in Pids : Start(e, p)
      BY <2>1
    <3>2. HostPid \in Pids /\ Running(HostPid) /\ Submit(Event("fork", HostPid, p)) /\ root' = [root EXCEPT ![e] = p]
      BY <3>1, AttributionAssumption DEF Start, ForkTask
    <3>3. ring' \in Seq(Events)
      BY <1>1, <3>2, SubmitTypes
    <3>4. group' = [group EXCEPT ![p] = p] /\ cgroup' = [cgroup EXCEPT ![p] = cgroup[group[HostPid]]]
      BY <3>1 DEF Start, ForkTask
    <3> QED
      BY <1>1, <3>2, <3>3, <3>4 DEF MappingTypes
  <2>2. CASE MoveIntoCgroup(e) \/ Reap(e)
    <3>1. /\ UNCHANGED <<group, root, ring>> /\ stage[e] # "idle"
          /\ cgroup' = cgroup \/ cgroup' = [cgroup EXCEPT ![root[e]] = e]
      BY <2>2 DEF MoveIntoCgroup, Reap
    <3> QED
      BY <1>1, <3>1 DEF MappingTypes
  <2> QED
    BY <2>1, <2>2
<1>7. MappingTypes'
  BY <1>1, <1>3, <1>6 DEF MappingTypes
<1> QED
  BY <1>5, <1>7 DEF ForgettingInv

\* A message goes behind those that wait.
LEMMA SendForgets ==
    ASSUME ForgettingInv, NEW e \in Executions, Announce(e) \/ Withdraw(e)
    PROVE  ForgettingInv'
<1>1. UNCHANGED <<group, cgroup, root, ring, cgroups, processes, late>> /\ MappingTypes /\ MappingInv
  BY DEF Announce, Withdraw, kernel, registry, ForgettingInv
<1>2. PICK action \in {"register", "unregister"} :
          /\ Send(action, e) /\ stage[e] \notin {"idle", "over"}
          /\ stage' = [stage EXCEPT ![e] = IF action = "register" THEN "announced" ELSE "over"]
  BY DEF Announce, Withdraw
<1>3. PICK m : m = [action |-> action, execution |-> e, pid |-> root[e]]
  OBVIOUS
<1>4. m \in Messages /\ m.execution = e /\ m.action = action
  BY <1>1, <1>2, <1>3 DEF MappingTypes, Messages
<1>5. PICK n \in Nat : n = Len(control)
  BY <1>1 DEF MappingTypes
<1>6. /\ control' \in Seq(Messages) /\ Len(control') = n + 1 /\ control'[n + 1] = m
      /\ \A i \in 1 .. n : control'[i] = control[i]
      /\ \A i \in 1 .. n + 1 : i \in 1 .. n \/ i = n + 1
  <2>1. control \in Seq(Messages) /\ control' = Append(control, m)
    BY <1>1, <1>2, <1>3 DEF MappingTypes, Send
  <2> QED
    BY <1>4, <1>5, <2>1
<1>7. /\ stage' \in [Executions -> {"idle", "started", "announced", "placed", "reaped", "over"}]
      /\ stage'[e] = (IF action = "register" THEN "announced" ELSE "over")
      /\ \A f \in Executions : f # e => stage'[f] = stage[f]
  BY <1>1, <1>2 DEF MappingTypes
<1>8. MappingTypes'
  BY <1>1, <1>2, <1>6, <1>7 DEF MappingTypes
<1>9. \A f \in Executions : Mapped(f)' <=> Mapped(f)
  BY <1>1 DEF Mapped
<1>10. DOMAIN control = 1 .. n /\ DOMAIN control' = 1 .. n + 1
  BY <1>1, <1>5, <1>6 DEF MappingTypes
<1>11. \A f \in Executions : Unregistering(f)' <=> Unregistering(f) \/ (f = e /\ action = "unregister")
  <2> SUFFICES ASSUME NEW f \in Executions
               PROVE  Unregistering(f)' <=> Unregistering(f) \/ (f = e /\ action = "unregister")
    OBVIOUS
  <2>1. ASSUME Unregistering(f)' PROVE Unregistering(f) \/ (f = e /\ action = "unregister")
    <3>1. PICK i \in 1 .. n + 1 : control'[i].execution = f /\ control'[i].action = "unregister"
      BY <1>10, <2>1 DEF Unregistering
    <3>2. CASE i \in 1 .. n
      BY <1>6, <1>10, <3>1, <3>2 DEF Unregistering
    <3>3. CASE i = n + 1
      BY <1>4, <1>6, <3>1, <3>3
    <3> QED
      BY <1>6, <3>2, <3>3
  <2>2. ASSUME Unregistering(f) PROVE Unregistering(f)'
    <3>1. PICK i \in 1 .. n : control[i].execution = f /\ control[i].action = "unregister"
      BY <1>10, <2>2 DEF Unregistering
    <3>2. i \in 1 .. n + 1 /\ control'[i] = control[i]
      BY <1>5, <1>6, <3>1
    <3> QED
      BY <1>10, <3>1, <3>2 DEF Unregistering
  <2>3. ASSUME f = e, action = "unregister" PROVE Unregistering(f)'
    <3>1. n + 1 \in 1 .. n + 1 /\ control'[n + 1].execution = f /\ control'[n + 1].action = "unregister"
      BY <1>4, <1>5, <1>6, <2>3
    <3> QED
      BY <1>10, <3>1 DEF Unregistering
  <2> QED
    BY <2>1, <2>2, <2>3
<1>12. MappingInv'
  <2> SUFFICES ASSUME NEW f \in Executions
               PROVE  /\ stage'[f] # "over" => ~Unregistering(f)' /\ f \notin late'
                      /\ f \in late' => f \in cgroups' /\ ~Unregistering(f)'
                      /\ stage'[f] = "over" /\ ~Unregistering(f)' /\ Mapped(f)' => f \in late'
    BY DEF MappingInv
  <2>1. /\ stage[f] # "over" => ~Unregistering(f) /\ f \notin late
        /\ f \in late => f \in cgroups /\ ~Unregistering(f)
        /\ stage[f] = "over" /\ ~Unregistering(f) /\ Mapped(f) => f \in late
    BY <1>1 DEF MappingInv
  <2>2. CASE f = e
    BY <1>1, <1>2, <1>7, <1>11, <2>1, <2>2
  <2>3. CASE f # e
    BY <1>1, <1>7, <1>9, <1>11, <2>1, <2>3
  <2> QED
    BY <2>2, <2>3
<1> QED
  BY <1>8, <1>12 DEF ForgettingInv

\* A message is handled, whichever it is: what a registration adds is to be
\* removed by a message that still waits, or the registration is late.
LEMMA ControlForgets ==
    ASSUME ForgettingInv, NEW i \in DOMAIN control, HandleControl(i)
    PROVE  ForgettingInv'
<1>1. UNCHANGED <<group, cgroup, stage, root, ring>> /\ MappingTypes /\ MappingInv
  BY DEF HandleControl, kernel, coordinator, ForgettingInv
<1>2. PICK n \in Nat : n = Len(control)
  BY <1>1 DEF MappingTypes
<1>3. control \in Seq(Messages) /\ i \in 1 .. n /\ DOMAIN control = 1 .. n
  BY <1>1, <1>2 DEF MappingTypes
<1>4. PICK m \in Messages : m = control[i] /\ m.execution \in Executions /\ m.pid \in Pids
  <2>1. control[i] \in Messages
    BY <1>2, <1>3, ElementOfSeq
  <2> QED
    BY <2>1 DEF Messages
<1>5. /\ control' \in Seq(Messages) /\ DOMAIN control' = 1 .. n - 1
      /\ \A j \in 1 .. n - 1 : control'[j] = control[IF j < i THEN j ELSE j + 1]
  <2>1. control' = RemoveAt(control, i)
    BY DEF HandleControl
  <2>2. /\ RemoveAt(control, i) \in Seq(Messages) /\ Len(RemoveAt(control, i)) = n - 1
        /\ \A j \in 1 .. n - 1 : RemoveAt(control, i)[j] = control[IF j < i THEN j ELSE j + 1]
    BY <1>2, <1>3, RemoveAtFacts
  <2> QED
    BY <2>1, <2>2
<1>6. \/ m.action = "register" /\ Register(m)
      \/ m.action = "unregister" /\ Unregister(m)
  BY <1>4 DEF HandleControl, Messages
<1>7. processes \in [Pids -> Executions \cup {None}]
  BY <1>1 DEF MappingTypes
<1>8. processes' \in [Pids -> Executions \cup {None}]
  BY <1>4, <1>6, <1>7 DEF Register, Unregister
<1>9. MappingTypes'
  BY <1>1, <1>5, <1>8 DEF MappingTypes
<1>10. ASSUME NEW f \in Executions, f # m.execution
       PROVE  /\ Mapped(f)' => Mapped(f)
              /\ f \in cgroups => f \in cgroups'
  <2>1. f # None
    BY AttributionAssumption
  <2>2. CASE Register(m)
    BY <1>4, <1>7, <1>10, <2>1, <2>2 DEF Register, Mapped
  <2>3. CASE Unregister(m)
    BY <1>4, <1>7, <1>10, <2>1, <2>3 DEF Unregister, Mapped
  <2> QED
    BY <1>6, <2>2, <2>3
<1>11. ASSUME m.action = "unregister" PROVE ~Mapped(m.execution)'
  <2>1. m.execution # None /\ Unregister(m)
    BY <1>4, <1>6, <1>11, AttributionAssumption
  <2>2. /\ cgroups' = cgroups \ {m.execution}
        /\ processes' = [p \in Pids |-> IF processes[p] = m.execution THEN None ELSE processes[p]]
    BY <2>1 DEF Unregister
  <2>3. PICK f : f = m.execution
    OBVIOUS
  <2>4. ~Mapped(f)'
    BY <2>1, <2>2, <2>3 DEF Mapped
  <2> QED
    BY <2>2, <2>3, <2>1 DEF Mapped
<1>12. ASSUME NEW f \in Executions
       PROVE  /\ Unregistering(f)' => Unregistering(f)
              /\ Unregistering(f) => Unregistering(f)' \/ (f = m.execution /\ m.action = "unregister")
  <2>1. ASSUME Unregistering(f)' PROVE Unregistering(f)
    <3>1. PICK j \in 1 .. n - 1 : control'[j].execution = f /\ control'[j].action = "unregister"
      BY <1>5, <2>1 DEF Unregistering
    <3>2. PICK k \in 1 .. n : control'[j] = control[k]
      BY <1>2, <1>5, <3>1
    <3> QED
      BY <1>3, <3>1, <3>2 DEF Unregistering
  <2>2. ASSUME Unregistering(f) PROVE Unregistering(f)' \/ (f = m.execution /\ m.action = "unregister")
    <3>1. PICK k \in 1 .. n : control[k].execution = f /\ control[k].action = "unregister"
      BY <1>3, <2>2 DEF Unregistering
    <3>2. CASE k = i
      BY <1>4, <3>1, <3>2
    <3>3. CASE k # i
      <4>1. PICK j \in 1 .. n - 1 : control'[j] = control[k]
        <5>1. CASE k < i
          BY <1>2, <1>3, <1>5, <3>1, <5>1
        <5>2. CASE k > i
          <6>1. k - 1 \in 1 .. n - 1 /\ ~(k - 1 < i) /\ (k - 1) + 1 = k
            BY <1>2, <1>3, <3>1, <5>2
          <6> QED
            BY <1>5, <6>1
        <5> QED
          BY <1>3, <3>1, <3>3, <5>1, <5>2
      <4> QED
        BY <1>5, <3>1, <4>1 DEF Unregistering
    <3> QED
      BY <3>2, <3>3
  <2> QED
    BY <2>1, <2>2
<1>13. ASSUME NEW f \in Executions
       PROVE  f \in late' <=> \/ f \in late
                             \/ /\ m.execution = f /\ m.action = "register"
                                /\ stage[f] = "over" /\ ~Unregistering(f)
  BY <1>4 DEF HandleControl
<1>14. MappingInv'
  <2> SUFFICES ASSUME NEW f \in Executions
               PROVE  /\ stage'[f] # "over" => ~Unregistering(f)' /\ f \notin late'
                      /\ f \in late' => f \in cgroups' /\ ~Unregistering(f)'
                      /\ stage'[f] = "over" /\ ~Unregistering(f)' /\ Mapped(f)' => f \in late'
    BY DEF MappingInv
  <2>1. /\ stage[f] # "over" => ~Unregistering(f) /\ f \notin late
        /\ f \in late => f \in cgroups /\ ~Unregistering(f)
        /\ stage[f] = "over" /\ ~Unregistering(f) /\ Mapped(f) => f \in late
        /\ stage'[f] = stage[f]
    BY <1>1 DEF MappingInv
  <2>2. CASE f # m.execution
    BY <1>10, <1>12, <1>13, <2>1, <2>2
  <2>3. CASE f = m.execution /\ m.action = "register"
    <3>1. f \in cgroups'
      BY <1>4, <1>6, <2>3 DEF Register
    <3> QED
      BY <1>12, <1>13, <2>1, <2>3, <3>1
  <2>4. CASE f = m.execution /\ m.action = "unregister"
    <3>1. Unregistering(f)
      BY <1>3, <1>4, <2>4 DEF Unregistering
    <3> QED
      BY <1>11, <1>12, <1>13, <2>1, <2>4, <3>1
  <2> QED
    BY <1>6, <2>2, <2>3, <2>4
<1> QED
  BY <1>9, <1>14 DEF ForgettingInv

\* Whatever the order in which messages are handled, when all of an execution
\* are, the registry has nothing of it, and no event in the ring brings it
\* back, reused identifiers or not; unless it was registered after it had been
\* unregistered, and then it stays.
THEOREM MappingsRemoved == Spec => []UnregisterRemovesMapping
<1>1. Init => ForgettingInv
  <2> SUFFICES ASSUME Init PROVE ForgettingInv
    OBVIOUS
  <2>1. /\ control = <<>> /\ control \in Seq(Messages) /\ ring \in Seq(Events)
        /\ stage = [e \in Executions |-> "idle"] /\ root = [e \in Executions |-> 0]
        /\ processes = [p \in Pids |-> None] /\ late = {}
    BY DEF Init
  <2>2. group \in [Pids -> Pids] /\ cgroup \in [Pids -> Executions \cup {None}]
    BY DEF Init
  <2>3. \A e \in Executions : ~Unregistering(e) /\ stage[e] # "over"
    BY <2>1 DEF Unregistering
  <2>4. MappingInv
    BY <2>1, <2>3 DEF MappingInv
  <2>5. MappingTypes
    BY <2>1, <2>2 DEF MappingTypes
  <2> QED
    BY <2>4, <2>5 DEF ForgettingInv
<1>2. ForgettingInv /\ [Next]_vars => ForgettingInv'
  <2> SUFFICES ASSUME ForgettingInv, [Next]_vars PROVE ForgettingInv'
    OBVIOUS
  <2>1. CASE UNCHANGED vars
    <3>1. UNCHANGED <<group, cgroup, stage, root, control, ring, cgroups, processes, late>>
      BY <2>1 DEF vars, kernel, coordinator, registry
    <3>2. /\ \A e \in Executions : Mapped(e)' <=> Mapped(e)
          /\ \A e \in Executions : Unregistering(e)' <=> Unregistering(e)
      BY <3>1 DEF Mapped, Unregistering
    <3> QED
      BY <3>1, <3>2 DEF ForgettingInv, MappingTypes, MappingInv
  <2> QED
    BY <2>1, KernelForgets, PollForgets, QuietForgets, SendForgets, ControlForgets DEF Next
<1>3. ForgettingInv => UnregisterRemovesMapping
  <2> SUFFICES ASSUME ForgettingInv, NEW e \in Executions, stage[e] = "over", ~Pending(e)
               PROVE  Mapped(e) <=> e \in late
    BY DEF UnregisterRemovesMapping
  <2>1. ~Unregistering(e)
    BY DEF Pending, Unregistering
  <2> QED
    BY <2>1 DEF ForgettingInv, MappingInv, Mapped
<1> QED
  BY <1>1, <1>2, <1>3, PTL DEF Spec
=============================================================================
