----------------------------- MODULE TaskLedger -----------------------------
(***************************************************************************)
(* What src/sdk/WORKFLOW.md and the Task record (src/sdk/work.go) promise  *)
(* an observer of one work key, without replicas, revisions, leases or     *)
(* messages: a task executes a bounded number of times, each execution     *)
(* starts only when every event published so far is accounted for, events  *)
(* are accounted one by one, and a final phase is final.                   *)
(***************************************************************************)
EXTENDS Naturals

CONSTANT MaxAttempts

VARIABLES
  phase,     \* Task.Status, or "absent"
  attempts,  \* Task.Attempts
  published, \* distinct output events in the stream
  counted    \* Task.Emitted

ledger == <<phase, attempts, published, counted>>

Settled == published = counted

Init == phase = "absent" /\ attempts = 0 /\ published = 0 /\ counted = 0

\* The first claim creates the record.
Accept ==
  /\ phase = "absent" /\ phase' = "running"
  /\ UNCHANGED <<attempts, published, counted>>

\* An execution is charged to the budget, after an interruption or a backoff too.
Execute ==
  /\ phase \in {"running", "retry_wait"}
  /\ attempts < MaxAttempts /\ Settled
  /\ phase' = "running" /\ attempts' = attempts + 1
  /\ UNCHANGED <<published, counted>>

\* The execution's events are saved and begin to be published.
Save ==
  /\ phase = "running" /\ attempts > 0
  /\ phase' = "publishing"
  /\ UNCHANGED <<attempts, published, counted>>

\* One event is published; a publication already under way may still land after
\* the task has failed, never after it has completed.
Publish ==
  /\ phase \in {"publishing", "failed"} /\ Settled
  /\ published' = published + 1
  /\ UNCHANGED <<phase, attempts, counted>>

Count ==
  /\ phase = "publishing" /\ published = counted + 1
  /\ counted' = published
  /\ UNCHANGED <<phase, attempts, published>>

\* A transient failure within the execution budget.
Retry ==
  /\ phase = "publishing" /\ Settled /\ attempts < MaxAttempts
  /\ phase' = "retry_wait"
  /\ UNCHANGED <<attempts, published, counted>>

Complete ==
  /\ phase = "publishing" /\ Settled
  /\ phase' = "completed"
  /\ UNCHANGED <<attempts, published, counted>>

\* A terminal error, an exhausted budget or evidence that cannot be read back.
GiveUp ==
  /\ phase \in {"running", "publishing", "retry_wait"}
  /\ phase' = "failed"
  /\ UNCHANGED <<attempts, published, counted>>

Next == Accept \/ Execute \/ Save \/ Publish \/ Count \/ Retry \/ Complete \/ GiveUp

Spec == Init /\ [][Next]_ledger
=============================================================================
