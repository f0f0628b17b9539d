------------------------------ MODULE Coverage -------------------------------
(***************************************************************************)
(* Snapshot of src/internal/coverage against everything that may change    *)
(* while it reads: workers register and claim, finish or fail tasks,       *)
(* events are published or removed, provisioning records its inventory.    *)
(* Each read of a store is a step.  The report says complete only when     *)
(* nothing moved between the first and the last reading of each store.     *)
(***************************************************************************)
EXTENDS Planner, Naturals, Sequences

CONSTANTS
  Contract,     \* definitions a worker may register
  Observations, \* events that may be published
  Runs, Scopes, \* the selection: --run (any of Runs) and --scope (any of Scopes)
  Deployments,  \* what provisioning may have left: contracts and an inventory
  NoInventory, Gone,
  MaxChanges    \* bound on the steps of everything but the snapshot

\* A contract per name; a domain is never alive.
CoverageAssumption ==
  /\ MaxChanges \in Nat /\ Gone \notin Observations
  /\ \A e \in Observations : e.kind = "domain" => ~e.alive
  /\ \A d \in Deployments : /\ IsFiniteSet(d.registered)
                            /\ \A t, u \in d.registered : t.name = u.name => t = u

VARIABLES
  stream,       \* EVENTS: the retained event of each sequence number, or Gone
  registered,   \* ADAMA_REGISTRY: the contracts
  inventory,    \* ADAMA_REGISTRY: the expected workers
  registrySeq,  \* LastSeq of KV_ADAMA_REGISTRY
  work,         \* ADAMA_WORK: a record per claimed task
  workSeq,      \* LastSeq of KV_ADAMA_WORK
  pc, s,        \* Snapshot: its next read, and what it has read so far
  complete,     \* the report says work_complete_at_snapshot
  moved, wasComplete  \* history: since the first read, something changed;
                      \* at some instant everything certain was complete

world == <<stream, registered, inventory, registrySeq, work, workSeq>>
vars == <<world, pc, s, complete, moved, wasComplete>>

NamesOf(tools) == {t.name : t \in tools}
Retained == {stream[i] : i \in {j \in DOMAIN stream : stream[j] # Gone}}

\* StreamInfo of EVENTS.
Boundary ==
  LET kept == {i \in DOMAIN stream : stream[i] # Gone}
  IN [last  |-> Len(stream),
      first |-> IF kept = {} THEN Len(stream) + 1 ELSE CHOOSE i \in kept : \A j \in kept : i <= j,
      msgs  |-> Cardinality(kept)]

\* The events a selection takes in: all of the scopes in which it finds one.
Selected(evs) ==
  LET scopes == {e.scope : e \in {f \in evs : f.scope \in Scopes /\ f.run \in Runs}}
  IN {e \in evs : e.scope \in scopes /\ e.scope \in Scopes}

\* Variant of Done: success without the required evidence counts.
DoneWithoutEvidence(tools, w, k) == \E r \in w : r.key = k /\ r.status = "completed"

\* The task of k is completed, with the evidence its worker's contract requires.
Done(tools, w, k) ==
  \E r \in w : /\ r.key = k /\ r.status = "completed"
               /\ r.emitted > 0 \/ \A t \in tools : t.name = k[1] => ~t.evidence

\* The inventory is recorded and ready, and its workers have registered.
Deployed(inv, tools) ==
  inv # NoInventory /\ inv.ready /\ tools # {} /\ inv.workers \subseteq NamesOf(tools)

-----------------------------------------------------------------------------
(* The snapshot                                                            *)

Unread == [registry |-> 0, tools |-> {}, warned |-> FALSE, stable |-> TRUE, work |-> 0,
           events |-> [last |-> 0, first |-> 1, msgs |-> 0], seq |-> 1, seen |-> <<>>,
           todo |-> {}, items |-> 0, done |-> 0]

Goto(step) == pc' = step /\ UNCHANGED <<world, complete>>

\* The first read: the sequence of the registry.
Start ==
  /\ pc = "idle"
  /\ s' = [s EXCEPT !.registry = registrySeq]
  /\ Goto("registrations")

ReadRegistrations ==
  /\ pc = "registrations"
  /\ s' = [s EXCEPT !.tools = registered]
  /\ Goto("inventory")

ReadInventory ==
  /\ pc = "inventory"
  /\ s' = [s EXCEPT !.warned = ~Deployed(inventory, s.tools)]
  /\ Goto("boundary")

\* Events before the boundary that are not retained call for a warning.
ReadBoundary ==
  /\ pc = "boundary"
  /\ s' = [s EXCEPT !.events = Boundary, !.seq = Boundary.first,
                    !.warned = @ \/ Boundary.msgs # Boundary.last]
  /\ Goto("ledger")

ReadLedger ==
  /\ pc = "ledger"
  /\ s' = [s EXCEPT !.work = workSeq]
  /\ Goto("events")

\* The event of the next sequence number, unless it has been removed meanwhile.
ReadEvent ==
  /\ pc = "events" /\ s.seq <= s.events.last
  /\ s' = IF stream[s.seq] = Gone THEN [s EXCEPT !.seq = @ + 1, !.warned = TRUE]
          ELSE [s EXCEPT !.seq = @ + 1, !.seen = Append(@, stream[s.seq])]
  /\ Goto("events")

\* The planner takes the matched events in the order of the stream.
Planned(tools, matched, seen) ==
  LET plan[i \in 0..Len(seen)] ==
        IF i = 0 THEN NewPlan
        ELSE IF seen[i] \in matched THEN Add(tools, plan[i - 1], seen[i]) ELSE plan[i - 1]
  IN plan[Len(seen)]

Plan ==
  LET matched == Selected({s.seen[i] : i \in DOMAIN s.seen})
      plan    == Planned(s.tools, matched, s.seen)
  IN /\ pc = "events" /\ s.seq > s.events.last
     /\ s' = [s EXCEPT !.todo = plan.ready,
                       !.items = Cardinality(plan.ready) + Cardinality(StillBlocked(plan)),
                       !.warned = @ \/ matched = {} \/ plan.unknown # {}]
     /\ Goto("items")

\* The record of one expected task, in any order.
ReadTask(k) ==
  /\ pc = "items" /\ k \in s.todo
  /\ s' = [s EXCEPT !.todo = @ \ {k}, !.done = IF Done(s.tools, work, k) THEN @ + 1 ELSE @]
  /\ Goto("items")

\* Variant of SameHistory: only the oldest retained event is compared.
SameFirst == Boundary.first = s.events.first

SameHistory == Boundary = s.events

\* Consumers and pauses are read for the report only; then EVENTS once more.
ReadEventsEnd ==
  /\ pc = "items" /\ s.todo = {}
  /\ s' = [s EXCEPT !.stable = SameHistory]
  /\ Goto("ledger end")

ReadLedgerEnd ==
  /\ pc = "ledger end"
  /\ s' = [s EXCEPT !.stable = @ /\ workSeq = s.work]
  /\ Goto("registry end")

\* The last read, and the verdict.
ReadRegistryEnd ==
  /\ pc = "registry end"
  /\ s' = [s EXCEPT !.stable = @ /\ registrySeq = s.registry]
  /\ complete' = (s'.stable /\ ~s.warned /\ s.items > 0 /\ s.done = s.items)
  /\ pc' = "reported"
  /\ UNCHANGED world

\* Any read may fail or run into the deadline: there is no report.
Fail ==
  /\ pc \notin {"idle", "reported", "failed"}
  /\ s' = Unread
  /\ Goto("failed")

Read == \/ Start \/ ReadRegistrations \/ ReadInventory \/ ReadBoundary \/ ReadLedger
        \/ ReadEvent \/ Plan \/ (\E k \in s.todo : ReadTask(k))
        \/ ReadEventsEnd \/ ReadLedgerEnd \/ ReadRegistryEnd \/ Fail

-----------------------------------------------------------------------------
(* Everything else                                                         *)

Publish(e) == stream' = Append(stream, e) /\ UNCHANGED <<registered, inventory, registrySeq, work, workSeq>>

\* An operator deletes or purges.
Delete(i) ==
  /\ stream[i] # Gone
  /\ stream' = [stream EXCEPT ![i] = Gone]
  /\ UNCHANGED <<registered, inventory, registrySeq, work, workSeq>>

\* A new worker or a replaced contract.
Register(t) ==
  /\ t \notin registered
  /\ registered' = {u \in registered : u.name # t.name} \cup {t}
  /\ registrySeq' = registrySeq + 1
  /\ UNCHANGED <<stream, inventory, work, workSeq>>

SetInventory(names, ready) ==
  /\ inventory' = [ready |-> ready, workers |-> names]
  /\ registrySeq' = registrySeq + 1
  /\ UNCHANGED <<stream, registered, work, workSeq>>

PutTask(r) ==
  /\ work' = {q \in work : q.key # r.key} \cup {r} /\ workSeq' = workSeq + 1
  /\ UNCHANGED <<stream, registered, inventory, registrySeq>>

Task(k, status, emitted) == [key |-> k, status |-> status, emitted |-> emitted]

Claim(k) == (\A r \in work : r.key # k) /\ PutTask(Task(k, "running", 0))

\* A claimed task renews its lease, completes or fails; terminal is final.
Advance(r, status, emitted) == r.status = "running" /\ PutTask(Task(r.key, status, emitted))

Change ==
  \/ \E e \in Observations : Publish(e)
  \/ \E i \in DOMAIN stream : Delete(i)
  \/ \E t \in Contract : Register(t)
  \/ SetInventory({}, FALSE)
  \/ \E names \in SUBSET {t.name : t \in Contract} : names # {} /\ SetInventory(names, TRUE)
  \/ \E k \in Expected(registered, Retained) : Claim(k)
  \/ \E r \in work, status \in {"running", "completed", "failed"}, emitted \in 0..1 :
       (emitted = 1 => status = "completed") /\ Advance(r, status, emitted)

-----------------------------------------------------------------------------
(* What the report is about                                                *)

\* The retained history of the scopes that are asked for.
Due == {e \in Retained : \E f \in Retained : f.scope = e.scope /\ f.scope \in Scopes /\ f.run \in Runs}

\* Every task it calls for, in a complete deployment, is done.
TasksDone ==
  LET evs == Due
  IN /\ inventory # NoInventory /\ inventory.ready
     /\ inventory.workers \subseteq NamesOf(registered) /\ registered # {}
     /\ Cardinality({i \in DOMAIN stream : stream[i] # Gone}) = Len(stream)
     /\ \A e \in evs : e.gate.allow \subseteq NamesOf(registered)
     /\ Expected(registered, evs) # {}
     /\ \A t \in registered, e \in evs : Eligible(t, e) =>
          \E r \in work : /\ r.key = WorkKey(t, e) /\ r.status = "completed"
                          /\ t.evidence => r.emitted > 0

\* And nothing is missing that would call for more.
AllDone == TasksDone /\ Missing(registered, Due) = {}

\* Nothing but what the planner may overlook (EveryBoundAddressIsReported).
AllCertainDone == TasksDone /\ Certain(registered, Due) = {}

Init ==
  /\ \E d \in Deployments : registered = d.registered /\ inventory = d.inventory
  /\ stream = <<>> /\ registrySeq = 0
  /\ work = {} /\ workSeq = 0
  /\ pc = "idle" /\ complete = FALSE /\ moved = FALSE /\ wasComplete = FALSE
  /\ s = Unread

Changes == Len(stream) + registrySeq + workSeq + Cardinality({i \in DOMAIN stream : stream[i] = Gone})

Next ==
  \/ Read /\ moved' = moved /\ wasComplete' = (wasComplete \/ AllCertainDone)
  \/ /\ Changes < MaxChanges /\ pc \notin {"reported", "failed"}
     /\ Change /\ UNCHANGED <<pc, s, complete>>
     /\ moved' = (pc # "idle") /\ wasComplete' = (wasComplete \/ (pc # "idle" /\ AllCertainDone'))

Spec == Init /\ [][Next]_vars

-----------------------------------------------------------------------------
(* Properties                                                              *)

\* One contract per name, one record per task, counts in range.
TypeOK ==
  /\ \A t, u \in registered : t.name = u.name => t = u
  /\ \A q, r \in work : q.key = r.key => q = r
  /\ s.events.last <= Len(stream) /\ Len(s.seen) <= s.events.last
  /\ s.done <= s.items /\ complete \in BOOLEAN

\* work_complete_at_snapshot is said only when, at one instant between the
\* first and the last read, everything was complete, although no two stores
\* were read at the same time (sdk/WORKFLOW.md:58): all but an address whose name is
\* contested there, which the planner may overlook.
CompleteWasTrue == complete => wasComplete

\* A snapshot that nothing disturbed says how things are: complete when everything is
\* done, and not before, where no name is contested.
QuietReportIsExact ==
  pc = "reported" /\ ~moved => (AllDone => complete) /\ (complete => AllCertainDone)
=============================================================================
