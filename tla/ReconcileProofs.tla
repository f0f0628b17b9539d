--------------------------- MODULE ReconcileProofs ---------------------------
(***************************************************************************)
(* Proofs about the reconciler, for every set of events, any number of     *)
(* overlapping executions, all budgets and all gates: no pair of a name    *)
(* and a port is lost, and an endpoint is open to exactly the workers that *)
(* both its facts are open to.                                             *)
(***************************************************************************)
EXTENDS Reconcile, TLAPS

-----------------------------------------------------------------------------
(* Gates                                                                   *)

\* Gates that both let one worker through are never found to exclude each
\* other: what the reconciler may see it may join.
LEMMA SeenIsJoinable ==
  ASSUME NEW t, NEW a \in Gate, NEW b \in Gate, Allowed(t, a), Allowed(t, b)
  PROVE  Joinable(a, b)
BY DEF Gate, Allowed, Joinable

\* The join of two gates lets through what both of them do, and stays so when
\* the engine fills it up from the gate of either.
LEMMA MeetAllowsWhatBothDo ==
  ASSUME NEW a \in Gate, NEW b \in Gate, Joinable(a, b), NEW c \in {a, b}, NEW t \in Tool
  PROVE  Allowed(t, InheritGate(c, MeetGates(a, b))) <=> Allowed(t, a) /\ Allowed(t, b)
<1> DEFINE m == MeetGates(a, b)
<1>1. m.allow = {} => a.allow = {} /\ b.allow = {}
  BY DEF MeetGates, Joinable
<1>2. m.deny = {} => a.deny = {} /\ b.deny = {}
  BY DEF MeetGates
<1>3. InheritGate(c, m).allow = m.allow /\ InheritGate(c, m).deny = m.deny
  BY <1>1, <1>2 DEF InheritGate
<1>4. Allowed(t, m) <=> Allowed(t, a) /\ Allowed(t, b)
  BY DEF MeetGates, Joinable, Allowed
<1> QED BY <1>3, <1>4 DEF Allowed

\* A join has the type of a gate.
LEMMA MeetTyped ==
  ASSUME NEW a \in Gate, NEW b \in Gate, NEW c \in {a, b}
  PROVE  InheritGate(c, MeetGates(a, b)) \in Gate
BY DEF MeetGates, InheritGate, Gate

-----------------------------------------------------------------------------
(* The invariant                                                           *)

\* e is open to exactly the workers that both its facts are open to.
Narrow(e) == \A t \in Tool :
  Allowed(t, e.gate) <=> Allowed(t, obs[e.name].gate) /\ Allowed(t, obs[e.port].gate)

NarrowJoins == /\ \A e \in endpoints : Narrow(e)
               /\ \A x \in Execution : \A e \in joined[x] : Narrow(e)

\* x has begun to read the other side, and has not failed since.
Reads(x) == step[x] = "read" \/ (step[x] \in {"return", "saved"} /\ ~failed[x])

\* Whoever reads has its own fact in the bucket, under its key.
OwnSideStored == \A x \in Execution :
  step[x] = "watch" \/ Reads(x) => \E g \in facts : Key(g) = Key(x[1])

\* Whoever has read to the end is owed nothing.
NothingOwed == \A x \in Execution : Reads(x) /\ step[x] # "read" => want[x] = {}

\* Of two executions that read for opposite facts, one has joined them or is
\* still owed the other.
Meets(x, y) == \/ Key(y[1]) \in want[x]
               \/ Key(x[1]) \in want[y]
               \/ \E e \in joined[x] \cup joined[y] : Joins(e, x[1], y[1])
OneOfTwoSees == \A x, y \in Execution :
  Reads(x) /\ Reads(y) /\ Opposite(x[1], y[1]) => Meets(x, y)

\* A completed task names an execution that was saved without error and
\* whose output is published.
CompletedIsPublished == \A f \in Fact : task[f].status = "completed" =>
  HasBatch(f) /\ ~failed[Current(f)] /\ joined[Current(f)] \subseteq endpoints

Inv == TypeOK /\ NarrowJoins /\ OwnSideStored /\ NothingOwed /\ OneOfTwoSees
              /\ CompletedIsPublished

\* The executions and their parts.
LEMMA Parts ==
  ASSUME NEW x \in Execution
  PROVE  x[1] \in Fact /\ x[2] \in Attempt
BY DEF Execution

\* A join of opposite facts exists, joins them, and is open to what both are.
LEMMA JoinOfOpposites ==
  ASSUME obs \in [Fact -> Given], NEW f \in Fact, NEW g \in Fact, Opposite(f, g)
  PROVE  /\ Join(f, g) \subseteq Endpoint
         /\ \E e \in Join(f, g) : Joins(e, f, g)
         /\ \A e \in Join(f, g) : Narrow(e)
<1>1. PICK n \in Name, p \in Port : {n, p} = {f, g}
  BY DEF Opposite, Fact
<1>2. Name \cap {f, g} = {n} /\ Port \cap {f, g} = {p}
  BY <1>1, ReconcileAssumption DEF ReconcileAssumption
<1>3. \A h \in Fact : obs[h].gate \in Gate /\ Allowed(Reconciler, obs[h].gate)
  BY ReconcileAssumption DEF ReconcileAssumption, Observation
<1>4. n \in Fact /\ p \in Fact
  BY DEF Fact
<1>5. Joinable(obs[n].gate, obs[p].gate) /\ Joinable(obs[f].gate, obs[g].gate)
  BY <1>3, <1>4, SeenIsJoinable
<1> DEFINE i == InheritGate(obs[f].gate, MeetGates(obs[n].gate, obs[p].gate))
<1> DEFINE e == [name |-> n, port |-> p, gate |-> i]
<1>6. Join(f, g) = {e}
  BY <1>2, <1>5 DEF Join
<1>7. obs[f].gate \in {obs[n].gate, obs[p].gate}
  BY <1>1
<1>8. e \in Endpoint
  BY <1>3, <1>4, <1>7, MeetTyped DEF Endpoint
<1>9. Joins(e, f, g)
  <2>1. (n = f /\ p = g) \/ (n = g /\ p = f)
    BY <1>1
  <2> QED BY <2>1 DEF Joins
<1>10. Narrow(e)
  BY <1>3, <1>4, <1>5, <1>7, MeetAllowsWhatBothDo DEF Narrow
<1> QED BY <1>6, <1>8, <1>9, <1>10

-----------------------------------------------------------------------------
(* Types                                                                   *)

\* The invariant holds at the start, where nothing has run.
LEMMA InitInv == Init => Inv
<1> SUFFICES ASSUME Init PROVE Inv
  OBVIOUS
<1>1. TypeOK
  BY ReconcileAssumption DEF ReconcileAssumption, Init, TypeOK, Task, Status, Step
<1>2. ~\E x \in Execution : Reads(x) \/ step[x] = "watch"
  BY DEF Init, Reads
<1>3. NarrowJoins
  BY DEF Init, NarrowJoins
<1>4. CompletedIsPublished
  BY DEF Init, CompletedIsPublished
<1> QED BY <1>1, <1>2, <1>3, <1>4 DEF Inv, OwnSideStored, NothingOwed, OneOfTwoSees

\* What a fact's key is does not change.
LEMMA KeysStay ==
  ASSUME UNCHANGED obs
  PROVE  /\ \A f : Key(f)' = Key(f)
         /\ \A f, g : Opposite(f, g)' = Opposite(f, g)
         /\ \A f, g : Join(f, g)' = Join(f, g)
         /\ \A e, f, g : Joins(e, f, g)' = Joins(e, f, g)
         /\ \A e : Narrow(e)' = Narrow(e)
BY DEF Key, Opposite, Join, Joins, Narrow

\* A Put keeps one fact per key, and every key that was there.
LEMMA PutKeepsKeys ==
  ASSUME TypeOK, UNCHANGED obs, NEW f \in Fact, Put(f)
  PROVE  /\ facts' \subseteq Fact
         /\ \A g, h \in facts' : Key(g) = Key(h) => g = h
         /\ \E g \in facts' : Key(g) = Key(f)
         /\ \A g \in facts : \E h \in facts' : Key(h) = Key(g)
BY DEF TypeOK, Put

\* Each step keeps the types, and one fact per key.
LEMMA StepTyped == TypeOK /\ [Next]_vars => TypeOK'
<1> SUFFICES ASSUME TypeOK, [Next]_vars PROVE TypeOK'
  OBVIOUS
<1> USE DEF TypeOK
<1>1. ASSUME NEW x \in Execution, Store(x) PROVE TypeOK'
  BY <1>1, Parts, PutKeepsKeys, KeysStay DEF Store, Step, Running
<1>2. ASSUME NEW x \in Execution, Watch(x) PROVE TypeOK'
  BY <1>2, KeysStay DEF Watch, Step, Running
<1>3. ASSUME NEW x \in Execution, EndOfSnapshot(x) PROVE TypeOK'
  BY <1>3, KeysStay DEF EndOfSnapshot, Step, Running
<1>4. ASSUME NEW x \in Execution, Interrupt(x) PROVE TypeOK'
  BY <1>4, Parts, PutKeepsKeys, KeysStay DEF Interrupt, Step, Running
<1>5. ASSUME NEW x \in Execution, Save(x) PROVE TypeOK'
  BY <1>5, KeysStay DEF Save, Step, Running
<1>6. ASSUME NEW x \in Execution, Lose(x) PROVE TypeOK'
  BY <1>6, KeysStay DEF Lose, Step, Running
<1>7. ASSUME NEW x \in Execution, NEW g \in Fact, Receive(x, g) PROVE TypeOK'
  BY <1>7, Parts, JoinOfOpposites, KeysStay DEF Receive, Step, Running
<1>8. ASSUME NEW f \in Fact, Execute(f) PROVE TypeOK'
  BY <1>8, ReconcileAssumption, KeysStay
     DEF Execute, ReconcileAssumption, Step, Running, Task, Status, Execution, Attempt
<1>9. ASSUME NEW f \in Fact, Publish(f) PROVE TypeOK'
  BY <1>9, KeysStay DEF Publish, HasBatch, Current, Execution, Attempt, Task
<1>10. ASSUME NEW f \in Fact, Settle(f) PROVE TypeOK'
  BY <1>10, KeysStay DEF Settle, Task, Status
<1>11. ASSUME NEW f \in Fact, GiveUp(f) PROVE TypeOK'
  BY <1>11, KeysStay DEF GiveUp, Task, Status
<1>12. ASSUME NEW f \in Fact, StopPublishing(f) PROVE TypeOK'
  BY <1>12, KeysStay DEF StopPublishing, Task, Status
<1>13. CASE UNCHANGED vars
  BY <1>13, KeysStay DEF vars
<1> QED BY <1>1, <1>2, <1>3, <1>4, <1>5, <1>6, <1>7, <1>8, <1>9, <1>10, <1>11, <1>12,
        <1>13 DEF Next, Handling, Engine

-----------------------------------------------------------------------------
(* Gates of the endpoints                                                  *)

\* Only an entry received adds a join, and only what was joined is published.
LEMMA StepNarrow == TypeOK /\ NarrowJoins /\ [Next]_vars => NarrowJoins'
<1> SUFFICES ASSUME TypeOK, NarrowJoins, [Next]_vars PROVE NarrowJoins'
  OBVIOUS
<1>1. UNCHANGED obs
  BY DEF Next, Handling, Engine, Store, Watch, EndOfSnapshot, Interrupt, Save, Lose,
         Receive, Execute, Publish, Settle, GiveUp, StopPublishing, vars
<1>2. ASSUME NEW x \in Execution, NEW g \in Fact, Receive(x, g) PROVE NarrowJoins'
  <2>1. \A e \in Join(x[1], g) : Narrow(e)
    BY <1>2, Parts, JoinOfOpposites DEF Receive, TypeOK
  <2>2. \A y \in Execution : joined'[y] \subseteq joined[y] \cup Join(x[1], g)
    BY <1>2 DEF Receive, TypeOK
  <2> QED BY <1>1, <1>2, <2>1, <2>2, KeysStay DEF Receive, NarrowJoins
<1>3. ASSUME NEW f \in Fact, Publish(f) PROVE NarrowJoins'
  <2>1. Current(f) \in Execution
    BY <1>3 DEF Publish, HasBatch, Current, TypeOK, Task, Execution, Attempt
  <2>2. \A e \in endpoints' : e \in endpoints \/ e \in joined[Current(f)]
    BY <1>3 DEF Publish
  <2> QED BY <1>1, <1>3, <2>1, <2>2, KeysStay DEF Publish, NarrowJoins
<1>4. ASSUME NEW x \in Execution, Lose(x) PROVE NarrowJoins'
  <2>1. \A y \in Execution : joined'[y] \subseteq joined[y]
    BY <1>4 DEF Lose, TypeOK
  <2> QED BY <1>1, <1>4, <2>1, KeysStay DEF Lose, NarrowJoins
<1>5. CASE UNCHANGED <<joined, endpoints>>
  BY <1>1, <1>5, KeysStay DEF NarrowJoins
<1> QED BY <1>2, <1>3, <1>4, <1>5
        DEF Next, Handling, Engine, Store, Watch, EndOfSnapshot, Interrupt, Save,
            Execute, Settle, GiveUp, StopPublishing, vars

-----------------------------------------------------------------------------
(* Reading after storing                                                   *)

\* Only a Put changes the bucket, and no key is ever lost from it.
LEMMA KeysAreKept ==
  ASSUME TypeOK, [Next]_vars
  PROVE  /\ UNCHANGED obs
         /\ \A g \in facts : \E h \in facts' : Key(h) = Key(g)
<1>1. UNCHANGED obs
  BY DEF Next, Handling, Engine, Store, Watch, EndOfSnapshot, Interrupt, Save, Lose,
         Receive, Execute, Publish, Settle, GiveUp, StopPublishing, vars
<1>2. CASE UNCHANGED facts
  BY <1>1, <1>2
<1>3. ASSUME NEW x \in Execution, Put(x[1])
      PROVE \A g \in facts : \E h \in facts' : Key(h) = Key(g)
  BY <1>1, <1>3, Parts, PutKeepsKeys
<1> QED BY <1>1, <1>2, <1>3
        DEF Next, Handling, Engine, Store, Watch, EndOfSnapshot, Interrupt, Save, Lose,
            Receive, Execute, Publish, Settle, GiveUp, StopPublishing, vars

\* Who has read after a step that is not the start of its watch had read before it, and
\* is owed and has joined the same if no entry arrived.
LEMMA ReadersGoOn ==
  ASSUME TypeOK, [Next]_vars, NEW u \in Execution, ~Watch(u), Reads(u)'
  PROVE  /\ Reads(u)
         /\ (\A g \in Fact : ~Receive(u, g)) => want'[u] = want[u] /\ joined'[u] = joined[u]
<1>1. ASSUME NEW y \in Execution, Store(y) \/ Watch(y) \/ EndOfSnapshot(y) \/ Save(y)
      PROVE  Reads(u) /\ want'[u] = want[u] /\ joined'[u] = joined[u]
  BY <1>1 DEF Store, Watch, EndOfSnapshot, Save, Reads, TypeOK
<1>2. ASSUME NEW y \in Execution, Interrupt(y) \/ Lose(y)
      PROVE  Reads(u) /\ want'[u] = want[u] /\ joined'[u] = joined[u]
  BY <1>2 DEF Interrupt, Lose, Reads, TypeOK
<1>3. ASSUME NEW y \in Execution, NEW h \in Fact, Receive(y, h)
      PROVE  /\ Reads(u)
             /\ y # u => want'[u] = want[u] /\ joined'[u] = joined[u]
  BY <1>3 DEF Receive, Reads, TypeOK
<1>4. ASSUME NEW f \in Fact, Engine(f)
      PROVE  Reads(u) /\ want'[u] = want[u] /\ joined'[u] = joined[u]
  BY <1>4 DEF Engine, Execute, Publish, Settle, GiveUp, StopPublishing, Reads, TypeOK
<1>5. CASE UNCHANGED vars
  BY <1>5 DEF vars, Reads
<1> QED BY <1>1, <1>2, <1>3, <1>4, <1>5 DEF Next, Handling

\* Who reads has stored before.
LEMMA StepStored == TypeOK /\ OwnSideStored /\ [Next]_vars => OwnSideStored'
<1> SUFFICES ASSUME TypeOK, OwnSideStored, [Next]_vars,
                    NEW y \in Execution, step'[y] = "watch" \/ Reads(y)'
             PROVE  \E g \in facts' : Key(g)' = Key(y[1])'
  BY DEF OwnSideStored
<1>1. UNCHANGED obs /\ \A g \in facts : \E h \in facts' : Key(h) = Key(g)
  BY KeysAreKept
<1>2. CASE step[y] = "watch" \/ Reads(y)
  BY <1>1, <1>2, KeysStay DEF OwnSideStored
<1>3. CASE Store(y)
  BY <1>1, <1>3, Parts, PutKeepsKeys, KeysStay DEF Store
<1>4. ASSUME ~(step[y] = "watch" \/ Reads(y)), ~Store(y) PROVE FALSE
  BY <1>4 DEF TypeOK, Reads, Next, Handling, Engine, Store, Watch, EndOfSnapshot,
     Interrupt, Save, Lose, Receive, Execute, Publish, Settle, GiveUp, StopPublishing, vars
<1> QED BY <1>2, <1>3, <1>4

\* Only a watch that owes nothing ends without an error.
LEMMA StepOwed == TypeOK /\ NothingOwed /\ [Next]_vars => NothingOwed'
BY DEF TypeOK, NothingOwed, Reads, Next, Handling, Engine, Store, Watch, EndOfSnapshot,
   Interrupt, Save, Lose, Receive, Execute, Publish, Settle, GiveUp, StopPublishing, vars

\* Two readers of opposite facts go on meeting when neither starts to read or
\* receives an entry: both must have been reading before.
LEMMA StepMeets == Inv /\ [Next]_vars => OneOfTwoSees'
<1> SUFFICES ASSUME Inv, [Next]_vars, NEW x \in Execution, NEW y \in Execution,
                    Reads(x)', Reads(y)', Opposite(x[1], y[1])'
             PROVE  Meets(x, y)'
  BY DEF OneOfTwoSees
<1>1. UNCHANGED obs
  BY KeysAreKept DEF Inv
<1>2. Opposite(x[1], y[1]) /\ Opposite(y[1], x[1]) /\ x # y
  BY <1>1, KeysStay DEF Opposite
<1>3. Meets(y, x) => Meets(x, y)
  BY DEF Meets, Joins
<1>4. ASSUME NEW u \in {x, y}, NEW v \in {x, y}, u # v, Watch(u) PROVE Meets(x, y)'
  <2>1. Reads(v)
    BY <1>4 DEF Watch, Reads, Inv, TypeOK
  <2>2. PICK g \in facts : Key(g) = Key(v[1])
    BY <2>1 DEF Inv, OwnSideStored
  <2>3. Opposite(u[1], g)
    BY <1>2, <1>4, <2>2 DEF Opposite, Key
  <2>4. Key(v[1]) \in want'[u]
    BY <1>4, <2>2, <2>3 DEF Watch, Inv, TypeOK
  <2> QED BY <1>1, <1>4, <2>4, KeysStay DEF Meets
<1>5. ASSUME NEW u \in {x, y}, ~Watch(u) PROVE Reads(u)
  <2>1. Reads(u)' /\ u \in Execution
    OBVIOUS
  <2> QED BY <1>5, <2>1, ReadersGoOn DEF Inv
<1>6. ASSUME NEW u \in {x, y}, NEW v \in {x, y}, u # v, NEW g \in Fact, Receive(u, g)
      PROVE Meets(x, y)'
  <2>1. Meets(x, y)
    <3>1. ~Watch(x) /\ ~Watch(y)
      BY <1>6 DEF Receive, Watch, Inv, TypeOK
    <3> QED BY <1>2, <1>5, <3>1 DEF Inv, OneOfTwoSees
  <2>2. /\ want'[u] = want[u] \ {Key(g)} /\ want'[v] = want[v]
        /\ joined'[u] = joined[u] \cup Join(u[1], g) /\ joined'[v] = joined[v]
    BY <1>6 DEF Receive, Inv, TypeOK
  <2>3. CASE Key(g) = Key(v[1])
    <3>1. PICK e \in Join(u[1], g) : Joins(e, u[1], g)
      BY <1>6, Parts, JoinOfOpposites DEF Receive, Inv, TypeOK
    <3>2. Joins(e, x[1], y[1])
      BY <1>6, <2>3, <3>1 DEF Joins
    <3> QED BY <1>1, <1>6, <2>2, <3>1, <3>2, KeysStay DEF Meets
  <2>4. CASE Key(g) # Key(v[1])
    BY <1>1, <1>6, <2>1, <2>2, <2>4, KeysStay DEF Meets
  <2> QED BY <2>3, <2>4
<1>7. ASSUME ~Watch(x), ~Watch(y),
             \A g \in Fact : ~Receive(x, g) /\ ~Receive(y, g)
      PROVE Meets(x, y)'
  <2>1. Meets(x, y)
    BY <1>2, <1>5, <1>7 DEF Inv, OneOfTwoSees
  <2>2. /\ want'[x] = want[x] /\ joined'[x] = joined[x]
        /\ want'[y] = want[y] /\ joined'[y] = joined[y]
    BY <1>7, ReadersGoOn DEF Inv
  <2> QED BY <1>1, <2>1, <2>2, KeysStay DEF Meets
<1> QED BY <1>2, <1>4, <1>6, <1>7

-----------------------------------------------------------------------------
(* Completion                                                              *)

\* An execution whose batch is saved changes no more, unless its event is
\* executed again.
LEMMA SavedStays ==
  ASSUME TypeOK, [Next]_vars, NEW x \in Execution, step[x] = "saved", ~Execute(x[1])
  PROVE  step'[x] = step[x] /\ failed'[x] = failed[x] /\ joined'[x] = joined[x]
<1>1. ASSUME NEW y \in Execution, Handling(y)
      PROVE  step'[x] = step[x] /\ failed'[x] = failed[x] /\ joined'[x] = joined[x]
  BY <1>1 DEF Handling, Store, Watch, EndOfSnapshot, Interrupt, Save, Lose, Receive, TypeOK,
     Running
<1>2. ASSUME NEW f \in Fact, Engine(f)
      PROVE  step'[x] = step[x] /\ failed'[x] = failed[x] /\ joined'[x] = joined[x]
  <2>1. CASE Execute(f)
    <3>1. f # x[1]
      BY <2>1
    <3>2. \A n : <<f, n>> # x
      BY <3>1
    <3> QED BY <2>1, <3>2 DEF Execute, TypeOK
  <2> QED BY <1>2, <2>1 DEF Engine, Publish, Settle, GiveUp, StopPublishing
<1> QED BY <1>1, <1>2 DEF Next, vars

\* Only Settle completes a task, and a terminal record stays as it is.
LEMMA RecordStays ==
  ASSUME TypeOK, [Next]_vars, NEW f \in Fact, ~Settle(f)
  PROVE  /\ task'[f].status = "completed" => task[f].status = "completed"
         /\ task[f].status = "completed" => task'[f] = task[f]
<1>1. ASSUME NEW h \in Fact, Engine(h), h # f PROVE task'[f] = task[f]
  BY <1>1 DEF Engine, Execute, Publish, Settle, GiveUp, StopPublishing, TypeOK
<1>2. CASE Execute(f) \/ Publish(f) \/ GiveUp(f) \/ StopPublishing(f)
  BY <1>2 DEF Execute, Publish, GiveUp, StopPublishing, TypeOK, Open, Task
<1>3. CASE UNCHANGED task
  BY <1>3
<1> QED BY <1>1, <1>2, <1>3 DEF Next, Handling, Engine, Store, Watch, EndOfSnapshot,
     Interrupt, Save, Lose, Receive, vars

\* What a completed task names stays saved and published.
LEMMA StepCompleted == TypeOK /\ CompletedIsPublished /\ [Next]_vars => CompletedIsPublished'
<1> SUFFICES ASSUME TypeOK, CompletedIsPublished, [Next]_vars,
                    NEW f \in Fact, task'[f].status = "completed"
             PROVE  /\ HasBatch(f)' /\ ~failed'[Current(f)']
                    /\ joined'[Current(f)'] \subseteq endpoints'
  BY DEF CompletedIsPublished
<1> DEFINE x == Current(f)
<1>1. CASE Settle(f)
  <2>1. /\ HasBatch(f) /\ joined[x] \subseteq endpoints /\ ~failed[x]
        /\ task'[f].scan = task[f].scan
    BY <1>1 DEF Settle, TypeOK, Task
  <2> QED BY <1>1, <2>1 DEF Settle, HasBatch, Current
<1>2. CASE ~Settle(f)
  <2>1. task[f].status = "completed" /\ task'[f] = task[f]
    BY <1>2, RecordStays
  <2>2. /\ task[f].scan # 0 /\ x \in Execution /\ x[1] = f /\ step[x] = "saved"
        /\ ~failed[x] /\ joined[x] \subseteq endpoints
    BY <2>1 DEF CompletedIsPublished, HasBatch, Current, TypeOK, Task, Execution, Attempt
  <2>3. ~Execute(f)
    BY <2>1 DEF Execute, Open
  <2>4. step'[x] = step[x] /\ failed'[x] = failed[x] /\ joined'[x] = joined[x]
    BY <2>2, <2>3, SavedStays
  <2>5. endpoints \subseteq endpoints'
    BY DEF Next, Handling, Engine, Store, Watch, EndOfSnapshot, Interrupt, Save, Lose,
       Receive, Execute, Publish, Settle, GiveUp, StopPublishing, vars
  <2> QED BY <2>1, <2>2, <2>4, <2>5 DEF HasBatch, Current
<1> QED BY <1>1, <1>2

-----------------------------------------------------------------------------
(* The results                                                             *)

\* The steps together.
LEMMA Invariance == Spec => []Inv
<1>1. Inv /\ [Next]_vars => Inv'
  BY StepTyped, StepNarrow, StepStored, StepOwed, StepMeets, StepCompleted DEF Inv
<1> QED BY InitInv, <1>1, PTL DEF Spec

\* The records, the executions and the bucket are what they should be; the
\* bucket never holds two facts under one key.
THEOREM TypeCorrect == Spec => []TypeOK
<1>1. Inv => TypeOK
  BY DEF Inv
<1> QED BY Invariance, <1>1, PTL

\* An endpoint is open to exactly the workers that both its facts are open
\* to, whichever of them triggered the join.
THEOREM GatesNeitherBroadenNorNarrow == Spec => []GatesAreIntersected
<1>1. Inv => GatesAreIntersected
  BY DEF Inv, NarrowJoins, Narrow, GatesAreIntersected
<1> QED BY Invariance, <1>1, PTL

\* Once the name and the port have both been completed their endpoint has been
\* published, for any order of arrival, any crashes and any overlap.
THEOREM PairsAreFound == Spec => []NoPairIsLost
<1>1. ASSUME Inv, NEW f \in Fact, NEW g \in Fact, Opposite(f, g),
             task[f].status = "completed", task[g].status = "completed"
      PROVE  \E e \in endpoints : Joins(e, f, g)
  <2> DEFINE x == Current(f)
  <2> DEFINE y == Current(g)
  <2>1. /\ x \in Execution /\ x[1] = f /\ step[x] = "saved" /\ ~failed[x]
        /\ y \in Execution /\ y[1] = g /\ step[y] = "saved" /\ ~failed[y]
        /\ joined[x] \cup joined[y] \subseteq endpoints
    BY <1>1 DEF Inv, CompletedIsPublished, HasBatch, Current, TypeOK, Task, Execution, Attempt
  <2>2. want[x] = {} /\ want[y] = {}
    BY <1>1, <2>1 DEF Inv, NothingOwed, Reads
  <2>3. Meets(x, y)
    BY <1>1, <2>1 DEF Inv, OneOfTwoSees, Reads
  <2> QED BY <2>1, <2>2, <2>3 DEF Meets
<1>2. Inv => NoPairIsLost
  BY <1>1 DEF NoPairIsLost
<1> QED BY Invariance, <1>2, PTL
=============================================================================
