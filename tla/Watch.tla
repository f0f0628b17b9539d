-------------------------------- MODULE Watch --------------------------------
(***************************************************************************)
(* The live view of who is working: replicas note the start and the end of *)
(* their executions on a subject that nothing stores, and watch keeps a    *)
(* row for what has started.  The claim and its lease are Work; here a     *)
(* task is taken, executed, published and ended, and a dead replica's task *)
(* is taken over.  Notes of one replica arrive in order, those of several  *)
(* in any order.  A note arrives before a lease or a retry that began with *)
(* it runs out (30 and 10 seconds by default).                             *)
(***************************************************************************)
EXTENDS Naturals, Sequences

CONSTANTS
  Instances, NoTarget,
  Targets,       \* of one worker: value and host
  MaxExecutions, \* executions of a task
  MaxCrashes   \* bound on crashes

WatchAssumption == MaxExecutions \in Nat \ {0} /\ MaxCrashes \in Nat /\ NoTarget \notin Targets

VARIABLES
  task,    \* each: status, attempts
  at, holds, \* each replica, and its task
  wire,    \* each replica's notes that have not arrived
  running, \* store.run: the keys of the rows
  crashes

watchVars == <<task, at, holds, wire, running, crashes>>

\* Activity.Key: tool, kind and scope are those of the worker.
Key(t) == t.value

NoteOf(action, t) == [action |-> action, key |-> Key(t)]
Note(r, action, t) == wire' = [wire EXCEPT ![r] = Append(@, NoteOf(action, t))]
Silent(t) ==
  \A r \in Instances : holds[r] # t /\ \A i \in DOMAIN wire[r] : wire[r][i].key # Key(t)
Status(t, s) == task' = [task EXCEPT ![t].status = s]
Move(r, p) == at' = [at EXCEPT ![r] = p]
Release(r) == holds' = [holds EXCEPT ![r] = NoTarget]

WatchInit ==
  /\ task = [t \in Targets |-> [status |-> "new", attempts |-> 0]]
  /\ at = [r \in Instances |-> "idle"] /\ holds = [r \in Instances |-> NoTarget]
  /\ wire = [r \in Instances |-> <<>>] /\ running = {} /\ crashes = 0

-----------------------------------------------------------------------------
(* A replica: process and publishResult                                    *)

\* The execution is counted, noted and begun.
Claim(r, t) ==
  /\ at[r] = "idle" /\ task[t].attempts < MaxExecutions
  /\ task[t].status = "new" \/ (task[t].status \in {"running", "waiting"} /\ Silent(t))
  /\ task' = [task EXCEPT ![t] = [status |-> "running", attempts |-> @.attempts + 1]]
  /\ holds' = [holds EXCEPT ![r] = t] /\ Move(r, "working") /\ Note(r, "start", t)
  /\ UNCHANGED <<running, crashes>>

\* A saved batch is published without an execution.
Republish(r, t) ==
  /\ at[r] = "idle" /\ task[t].status \in {"saved", "deferred"} /\ Silent(t)
  /\ Status(t, "saved") /\ holds' = [holds EXCEPT ![r] = t] /\ Move(r, "publishing")
  /\ UNCHANGED <<wire, running, crashes>>

\* Nothing is left of the budget after an interruption.
GiveUp(r, t) ==
  /\ at[r] = "idle" /\ task[t].status = "running" /\ task[t].attempts = MaxExecutions /\ Silent(t)
  /\ Status(t, "failed") /\ holds' = [holds EXCEPT ![r] = t] /\ Move(r, "error")
  /\ UNCHANGED <<wire, running, crashes>>

\* The handler returns and its batch is saved.
Save(r) ==
  /\ at[r] = "working" /\ Status(holds[r], "saved") /\ Move(r, "publishing")
  /\ UNCHANGED <<holds, wire, running, crashes>>

\* The outcome is stored first: a publication put off, a retry, an end.
Store(r) ==
  /\ at[r] = "publishing"
  /\ \/ Status(holds[r], "deferred") /\ Move(r, "error")
     \/ task[holds[r]].attempts < MaxExecutions /\ Status(holds[r], "waiting") /\ Move(r, "error")
     \/ Status(holds[r], "completed") /\ Move(r, "done")
     \/ Status(holds[r], "failed") /\ Move(r, "error")
  /\ UNCHANGED <<holds, wire, running, crashes>>

\* And noted.
Settle(r) ==
  /\ at[r] \in {"done", "error"}
  /\ Note(r, at[r], holds[r]) /\ Move(r, "idle") /\ Release(r)
  /\ UNCHANGED <<task, running, crashes>>

\* A message of the same subject that its rule or gate refuses, or whose task has ended;
\* bound: one such note of a replica under way.
Skip(r, t) ==
  /\ at[r] = "idle" /\ wire[r] = <<>> /\ Note(r, "skip", t)
  /\ UNCHANGED <<task, at, holds, running, crashes>>

\* What the connection had not sent is lost.
Crash(r) ==
  /\ crashes < MaxCrashes /\ at[r] # "idle"
  /\ crashes' = crashes + 1 /\ Move(r, "idle") /\ Release(r)
  /\ \E n \in 0..Len(wire[r]) : wire' = [wire EXCEPT ![r] = SubSeq(@, 1, n)]
  /\ UNCHANGED <<task, running>>

-----------------------------------------------------------------------------
(* watch                                                                   *)

\* Variant of Apply: a skip ends a row.
ApplySkip(a) ==
  running' = IF a.action = "start" THEN running \cup {a.key} ELSE running \ {a.key}

\* Variant of Apply: a failed execution keeps its row.
ApplyDone(a) ==
  running' = CASE a.action = "start" -> running \cup {a.key}
               [] a.action = "done" -> running \ {a.key}
               [] OTHER -> running

\* store.apply.
Apply(a) ==
  running' = CASE a.action = "start" -> running \cup {a.key}
               [] a.action \in {"done", "error"} -> running \ {a.key}
               [] OTHER -> running

Arrive(r) ==
  /\ wire[r] # <<>> /\ Apply(Head(wire[r]))
  /\ wire' = [wire EXCEPT ![r] = Tail(@)]
  /\ UNCHANGED <<task, at, holds, crashes>>

Perform(r) ==
  \/ \E t \in Targets : Claim(r, t) \/ Republish(r, t) \/ GiveUp(r, t)
  \/ Save(r) \/ Store(r) \/ Settle(r)

WatchNext == \E r \in Instances : Perform(r) \/ Arrive(r) \/ Crash(r) \/ (\E t \in Targets : Skip(r, t))

Published(r) == Store(r) /\ \A t \in Targets : task'[t].status # "deferred"

\* Replicas go on, notes that were sent arrive, and the budget of a publication is finite:
\* it is not put off for ever.
WatchFairness ==
  \A r \in Instances :
    /\ WF_watchVars(Perform(r)) /\ WF_watchVars(Arrive(r))
    /\ SF_watchVars(Published(r))

WatchSpec == WatchInit /\ [][WatchNext]_watchVars /\ WatchFairness

-----------------------------------------------------------------------------
(* Properties                                                              *)

\* README.md:148: watch is a live tail of who is working.  Who executes a task, and
\* whose notes have arrived, has a row (cmd/watch/main.go, store.apply), through
\* crashes and take-overs.
WorkingIsShown ==
  \A r \in Instances : at[r] = "working" /\ wire[r] = <<>> => Key(holds[r]) \in running

\* And as long as no replica has crashed a row is of a task that somebody has not let go,
\* or its end is on the way.
ShownIsWorking ==
  crashes = 0 =>
    \A k \in running : \E r \in Instances :
      \/ holds[r] # NoTarget /\ Key(holds[r]) = k
      \/ \E i \in DOMAIN wire[r] : wire[r][i].key = k /\ wire[r][i].action \in {"done", "error"}

\* The rows are those of the tasks that are being worked on.
RowsAreTrue == WorkingIsShown /\ ShownIsWorking

\* In the end there is none.
EveryRowEnds == <>[](running = {})
=============================================================================
