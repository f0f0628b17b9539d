------------------------------ MODULE Reconcile ------------------------------
(***************************************************************************)
(* The reconciler (src/internal/reconcile) joins each name bound to an     *)
(* address with each open port of that address.  Handle stores its own     *)
(* fact, then reads the facts of the other side; the work engine publishes *)
(* what it returns.                                                        *)
(*                                                                         *)
(* Of the engine (module Work) only what Handle can notice is kept.  An    *)
(* execution is an event with the number of its attempt, which stands for  *)
(* the ScanID: a later one may start while an earlier one still runs on a  *)
(* replica that lost its lease, each saves its output under its own        *)
(* ScanID, and only the one the task record names is published.            *)
(***************************************************************************)
EXTENDS Gates, Naturals, FiniteSets

CONSTANTS
  Replicas,     \* bound on the executions in progress at a time
  Name, Port,   \* events with a bound name, events with an open port
  Place,        \* pairs of a scope and a host
  Subject,      \* names, and pairs of a transport and a port number
  Given,        \* what an event may report: a place, a subject and a gate
  Reconciler,   \* the worker's own name
  MaxAttempts   \* Config.MaxAttempts

Observation == [place : Place, subject : Subject, gate : Gate]
Fact == Name \cup Port

\* Only an event whose gate lets the reconciler work on it reaches Handle.
ASSUME ReconcileAssumption ==
  /\ Replicas \in Nat
  /\ Name \cap Port = {}
  /\ Given \subseteq Observation
  /\ \A o \in Given : Allowed(Reconciler, o.gate)
  /\ MaxAttempts \in Nat \ {0}

VARIABLES
  obs,       \* what each event reports, chosen at the start
  facts,     \* the events in ADAMA_FACTS, at most one per key
  task,      \* per event: its Task record
  step,      \* per execution: where it stands in process and Handle
  want,      \* per execution: the keys its watch of the other side still owes
  joined,    \* per execution: the joins it returns
  failed,    \* per execution: it returns an error, which is retryable
  endpoints  \* the joined ports in the EVENTS stream

vars == <<obs, facts, task, step, want, joined, failed, endpoints>>

-----------------------------------------------------------------------------
(* Facts, joins and executions                                             *)

\* The key of f in the bucket: scope and host, side, subject, and its gate.
Key(f) == [side |-> f \in Name, place |-> obs[f].place,
           subject |-> obs[f].subject, gate |-> obs[f].gate]

\* f's watch covers g: the opposite side, the same scope and host.
Opposite(f, g) == (f \in Name) # (g \in Name) /\ obs[f].place = obs[g].place

Endpoint == [name : Name, port : Port, gate : Gate]

\* join, with the gate InheritGate leaves it: f is the event being handled.
Join(f, g) ==
  IF Joinable(obs[f].gate, obs[g].gate)
  THEN {[name |-> n, port |-> p,
         gate |-> InheritGate(obs[f].gate, MeetGates(obs[n].gate, obs[p].gate))] :
          n \in Name \cap {f, g}, p \in Port \cap {f, g}}
  ELSE {}

Attempt   == 1..MaxAttempts
Execution == Fact \X Attempt
Running   == {"store", "watch", "read", "return"}
Step      == Running \cup {"new", "saved", "lost"}

Status == {"absent", "running", "retry_wait", "completed", "failed"}
Task   == [status : Status, attempts : 0..MaxAttempts, scan : 0..MaxAttempts]
Open   == {"absent", "running", "retry_wait"}

\* The record names an execution whose batch is in the outbox.
HasBatch(f) == task[f].scan # 0 /\ step[<<f, task[f].scan>>] = "saved"
Current(f)  == <<f, task[f].scan>>

Init ==
  /\ obs \in [Fact -> Given]
  /\ facts = {}
  /\ task = [f \in Fact |-> [status |-> "absent", attempts |-> 0, scan |-> 0]]
  /\ step = [x \in Execution |-> "new"]
  /\ want = [x \in Execution |-> {}]
  /\ joined = [x \in Execution |-> {}]
  /\ failed = [x \in Execution |-> FALSE]
  /\ endpoints = {}

-----------------------------------------------------------------------------
(* Handle                                                                  *)

\* The Put of f, which replaces what its key held.
Put(f) == facts' = {g \in facts : Key(g) # Key(f)} \cup {f}

\* Its own side first.
Store(x) ==
  /\ step[x] = "store"
  /\ Put(x[1])
  /\ step' = [step EXCEPT ![x] = "watch"]
  /\ UNCHANGED <<obs, task, want, joined, failed, endpoints>>

\* The watch owes an entry for every key of the other side that exists now.
Watch(x) ==
  /\ step[x] = "watch"
  /\ want' = [want EXCEPT ![x] = {Key(g) : g \in {g \in facts : Opposite(x[1], g)}}]
  /\ step' = [step EXCEPT ![x] = "read"]
  /\ UNCHANGED <<obs, facts, task, joined, failed, endpoints>>

\* An entry arrives, with what its key holds by then.
Receive(x, g) ==
  /\ step[x] = "read"
  /\ g \in facts /\ Opposite(x[1], g)
  /\ want' = [want EXCEPT ![x] = @ \ {Key(g)}]
  /\ joined' = [joined EXCEPT ![x] = @ \cup Join(x[1], g)]
  /\ UNCHANGED <<obs, facts, task, step, failed, endpoints>>

\* The nil entry: everything owed has arrived.
EndOfSnapshot(x) ==
  /\ step[x] = "read"
  /\ want[x] = {}
  /\ step' = [step EXCEPT ![x] = "return"]
  /\ UNCHANGED <<obs, facts, task, want, joined, failed, endpoints>>

\* A store call fails, the watch is interrupted or the context ends: Handle
\* returns an error with what it has joined.  A Put may have been applied.
Interrupt(x) ==
  /\ step[x] \in {"store", "watch", "read"}
  /\ step' = [step EXCEPT ![x] = "return"]
  /\ failed' = [failed EXCEPT ![x] = TRUE]
  /\ want' = [want EXCEPT ![x] = {}]
  /\ \/ UNCHANGED facts
     \/ step[x] = "store" /\ Put(x[1])
  /\ UNCHANGED <<obs, task, joined, endpoints>>

-----------------------------------------------------------------------------
(* What the engine does around it                                          *)

\* Variant of Execute: the budget allows one attempt too many.
ExecuteOnceMore(f) ==
  /\ task[f].status \in Open
  /\ task[f].attempts <= MaxAttempts
  /\ ~HasBatch(f)
  /\ Cardinality({x \in Execution : step[x] \in Running}) < Replicas
  /\ LET n == task[f].attempts + 1 IN
       /\ task' = [task EXCEPT ![f] = [status |-> "running", attempts |-> n, scan |-> n]]
       /\ step' = [step EXCEPT ![<<f, n>>] = "store"]
  /\ UNCHANGED <<obs, facts, want, joined, failed, endpoints>>

\* A replica claims f and starts its next attempt.  The record may have an
\* owner: its lease may have run out.
Execute(f) ==
  /\ task[f].status \in Open
  /\ task[f].attempts < MaxAttempts
  /\ ~HasBatch(f)
  /\ Cardinality({x \in Execution : step[x] \in Running}) < Replicas
  /\ LET n == task[f].attempts + 1 IN
       /\ task' = [task EXCEPT ![f] = [status |-> "running", attempts |-> n, scan |-> n]]
       /\ step' = [step EXCEPT ![<<f, n>>] = "store"]
  /\ UNCHANGED <<obs, facts, want, joined, failed, endpoints>>

\* The batch is saved under the ScanID, also by a replica that lost its lease.
Save(x) ==
  /\ step[x] = "return"
  /\ step' = [step EXCEPT ![x] = "saved"]
  /\ UNCHANGED <<obs, facts, task, want, joined, failed, endpoints>>

\* The replica crashes, or cannot save the batch.
Lose(x) ==
  /\ step[x] \in Running
  /\ step' = [step EXCEPT ![x] = "lost"]
  /\ want' = [want EXCEPT ![x] = {}]
  /\ joined' = [joined EXCEPT ![x] = {}]
  /\ failed' = [failed EXCEPT ![x] = FALSE]
  /\ UNCHANGED <<obs, facts, task, endpoints>>

Publish(f) ==
  /\ task[f].status \in Open /\ HasBatch(f)
  /\ \E e \in joined[Current(f)] \ endpoints : endpoints' = endpoints \cup {e}
  /\ UNCHANGED <<obs, facts, task, step, want, joined, failed>>

\* Everything is published: the task is completed, or retried within its
\* budget, or failed (also when its deadline has passed).
Settle(f) ==
  /\ task[f].status \in Open /\ HasBatch(f)
  /\ joined[Current(f)] \subseteq endpoints
  /\ \/ /\ ~failed[Current(f)]
        /\ task' = [task EXCEPT ![f].status = "completed"]
     \/ /\ failed[Current(f)] /\ task[f].attempts < MaxAttempts
        /\ task' = [task EXCEPT ![f].status = "retry_wait", ![f].scan = 0]
     \/ /\ failed[Current(f)]
        /\ task' = [task EXCEPT ![f].status = "failed"]
  /\ UNCHANGED <<obs, facts, step, want, joined, failed, endpoints>>

\* An interrupted task is out of attempts or past its deadline.
GiveUp(f) ==
  /\ task[f].status \in Open \ {"absent"} /\ ~HasBatch(f)
  /\ task' = [task EXCEPT ![f].status = "failed"]
  /\ UNCHANGED <<obs, facts, step, want, joined, failed, endpoints>>

\* The publication of the batch is out of passes.
StopPublishing(f) ==
  /\ task[f].status \in Open /\ HasBatch(f)
  /\ ~(joined[Current(f)] \subseteq endpoints)
  /\ task' = [task EXCEPT ![f].status = "failed"]
  /\ UNCHANGED <<obs, facts, step, want, joined, failed, endpoints>>

\* Variant of Handling: Handle reads the other side before it stores its own.
ReadsFirst(x) ==
  \/ /\ step[x] = "store"
     /\ want' = [want EXCEPT ![x] = {Key(g) : g \in {g \in facts : Opposite(x[1], g)}}]
     /\ step' = [step EXCEPT ![x] = "read"]
     /\ UNCHANGED <<obs, facts, task, joined, failed, endpoints>>
  \/ /\ step[x] = "read" /\ want[x] = {}
     /\ Put(x[1])
     /\ step' = [step EXCEPT ![x] = "return"]
     /\ UNCHANGED <<obs, task, want, joined, failed, endpoints>>
  \/ Interrupt(x) \/ Save(x) \/ Lose(x)
  \/ \E g \in Fact : Receive(x, g)

\* A step of the execution x.
Handling(x) == \/ Store(x) \/ Watch(x) \/ EndOfSnapshot(x) \/ Interrupt(x)
               \/ Save(x) \/ Lose(x)
               \/ \E g \in Fact : Receive(x, g)

\* A step of the engine on the task of f.
Engine(f) == \/ Execute(f) \/ Publish(f) \/ Settle(f)
             \/ GiveUp(f) \/ StopPublishing(f)

Next == (\E x \in Execution : Handling(x)) \/ (\E f \in Fact : Engine(f))

Spec == Init /\ [][Next]_vars

-----------------------------------------------------------------------------
(* Properties                                                              *)

\* Every variable has its type, and no key of the bucket holds two facts.
TypeOK ==
  /\ obs \in [Fact -> Given]
  /\ facts \subseteq Fact
  /\ \A f, g \in facts : Key(f) = Key(g) => f = g
  /\ task \in [Fact -> Task]
  /\ step \in [Execution -> Step]
  /\ want \in [Execution -> SUBSET {Key(f) : f \in Fact}]
  /\ joined \in [Execution -> SUBSET Endpoint]
  /\ failed \in [Execution -> BOOLEAN]
  /\ endpoints \subseteq Endpoint

\* e joins a name and a port that f and g, taken in either order, stand for:
\* the evidence it cites may be a later event under the same key.
Joins(e, f, g) == {Key(e.name), Key(e.port)} = {Key(f), Key(g)}

\* Handle stores its side before it reads the other: once a name and a port
\* of one scope and host have both been completed, whatever the order in
\* which they came, the crashes, the retries and the overlaps, their endpoint
\* has been published.
NoPairIsLost ==
  \A f, g \in Fact :
    /\ Opposite(f, g)
    /\ task[f].status = "completed" /\ task[g].status = "completed"
    => \E e \in endpoints : Joins(e, f, g)

\* Joining two facts broadens neither's gate and narrows neither further than
\* the other does: a worker may take an endpoint when it may take both.
GatesAreIntersected ==
  \A e \in endpoints : \A t \in Tool :
    Allowed(t, e.gate) <=> Allowed(t, obs[e.name].gate) /\ Allowed(t, obs[e.port].gate)

\* The gates of an endpoint are those of both its facts, the profile included.
EndpointGateIsMeet ==
  \A e \in endpoints : e.gate = MeetGates(obs[e.name].gate, obs[e.port].gate)
=============================================================================
