------------------------------ MODULE ToolPause ------------------------------
(***************************************************************************)
(* The circuit breaker of a tool: a shared fault stores a pause, which     *)
(* every replica reads at the head of its loop and again after pulling a   *)
(* message, and which an operator removes after the repair.  The claim and *)
(* its lease are Work; here a task is taken, executed and ended.           *)
(***************************************************************************)
EXTENDS Naturals, FiniteSets

CONSTANTS
  Replicas, Tasks,
  NoTask,      \* of a replica that holds no message
  MaxAttempts, \* executions of a task
  MaxFaults    \* bound on the faults of the tool, of the store and of replicas

PauseAssumption == MaxAttempts \in Nat \ {0} /\ MaxFaults \in Nat /\ NoTask \notin Tasks

VARIABLES
  broken,   \* the installation or the profile of the tool
  paused,   \* ADAMA_TOOLS holds the tool
  place, held, \* each replica: where it is in its loop, and the message it holds
  status, attempts, \* each task
  faults,
  past,     \* history: the replicas past their check when the pause was stored
  since     \* history: executions each has begun since

tool == <<broken, paused, past>>
pauseVars == <<tool, place, held, status, attempts, faults, since>>

Goto(r, at) == place' = [place EXCEPT ![r] = at]
Hold(r, t) == held' = [held EXCEPT ![r] = t]
End(r, outcome) ==
  status' = [status EXCEPT ![held[r]] = outcome] /\ Hold(r, NoTask) /\ Goto(r, "loop")

\* The head of the loop: a paused replica waits a second and looks again.
Loop(r) ==
  /\ place[r] = "loop" /\ ~paused
  /\ Goto(r, "next")
  /\ UNCHANGED <<tool, held, status, attempts, faults, since>>

Pull(r) ==
  /\ place[r] = "next"
  /\ \E t \in Tasks :
       /\ status[t] = "ready"
       /\ status' = [status EXCEPT ![t] = "taken"] /\ Hold(r, t)
  /\ Goto(r, "check")
  /\ UNCHANGED <<tool, attempts, faults, since>>

\* Variant of Check: the pause is read at the head of the loop only.
CheckNothing(r) ==
  /\ place[r] = "check"
  /\ Goto(r, "execute")
  /\ UNCHANGED <<tool, held, status, attempts, faults, since>>

\* Variant of Check: the message is acknowledged and not given back.
CheckAndDrop(r) ==
  /\ place[r] = "check"
  /\ IF paused THEN Hold(r, NoTask) /\ Goto(r, "loop") /\ status' = status
     ELSE Goto(r, "execute") /\ UNCHANGED <<held, status>>
  /\ UNCHANGED <<tool, attempts, faults, since>>

\* The pause is read again after pulling: the message is given back.
Check(r) ==
  /\ place[r] = "check"
  /\ IF paused THEN End(r, "ready") ELSE Goto(r, "execute") /\ UNCHANGED <<held, status>>
  /\ UNCHANGED <<tool, attempts, faults, since>>

\* The task is claimed and its handler executes, if it may once more.
Execute(r) ==
  /\ place[r] = "execute"
  /\ IF attempts[held[r]] < MaxAttempts
     THEN /\ attempts' = [attempts EXCEPT ![held[r]] = @ + 1]
          /\ since' = [since EXCEPT ![r] = IF paused THEN @ + 1 ELSE @]
          /\ Goto(r, "outcome") /\ UNCHANGED <<held, status>>
     ELSE End(r, "failed") /\ UNCHANGED <<attempts, since>>
  /\ UNCHANGED <<tool, faults>>

Succeed(r) ==
  /\ place[r] = "outcome" /\ ~broken
  /\ End(r, "completed")
  /\ UNCHANGED <<tool, attempts, faults, since>>

\* The handler reports the fault: the pause is stored, then the task has failed.
Pause(r) ==
  /\ place[r] = "outcome" /\ broken
  /\ paused' = TRUE
  /\ past' = IF paused THEN past ELSE {x \in Replicas : place[x] = "execute"}
  /\ since' = IF paused THEN since ELSE [x \in Replicas |-> 0]
  /\ Goto(r, "record")
  /\ UNCHANGED <<broken, held, status, attempts, faults>>

Record(r) ==
  /\ place[r] = "record"
  /\ End(r, "failed")
  /\ UNCHANGED <<tool, attempts, faults, since>>

\* The pause cannot be stored, or the replica dies: its task is taken again when
\* the lease has run out.
Interrupt(r) ==
  /\ place[r] \in {"check", "execute", "outcome", "record"}
  /\ faults < MaxFaults /\ faults' = faults + 1
  /\ End(r, "ready")
  /\ UNCHANGED <<tool, attempts, since>>

Break ==
  /\ ~broken /\ faults < MaxFaults /\ faults' = faults + 1
  /\ broken' = TRUE
  /\ UNCHANGED <<paused, past, place, held, status, attempts, since>>

\* The operator repairs what is paused, and then resumes it.
Repair ==
  /\ broken /\ paused
  /\ broken' = FALSE
  /\ UNCHANGED <<paused, past, place, held, status, attempts, faults, since>>

Resume ==
  /\ paused /\ ~broken
  /\ paused' = FALSE
  /\ UNCHANGED <<broken, past, place, held, status, attempts, faults, since>>

PauseInit ==
  /\ broken \in BOOLEAN /\ paused = FALSE
  /\ place = [r \in Replicas |-> "loop"] /\ held = [r \in Replicas |-> NoTask]
  /\ status = [t \in Tasks |-> "ready"] /\ attempts = [t \in Tasks |-> 0]
  /\ faults = 0 /\ past = {} /\ since = [r \in Replicas |-> 0]

Work(r) ==
  Loop(r) \/ Pull(r) \/ Check(r) \/ Execute(r) \/ Succeed(r) \/ Pause(r) \/ Record(r)

PauseNext ==
  \/ \E r \in Replicas : Work(r) \/ Interrupt(r)
  \/ Break \/ Repair \/ Resume

\* Replicas run; the operator repairs and resumes a tool that is paused.
PauseFairness == (\A r \in Replicas : WF_pauseVars(Work(r))) /\ WF_pauseVars(Repair) /\ WF_pauseVars(Resume)

PauseSpec == PauseInit /\ [][PauseNext]_pauseVars /\ PauseFairness

-----------------------------------------------------------------------------
\* Replicas, tasks and the breaker have their types; a message is held once.
PauseTypeOK ==
  /\ status \in [Tasks -> {"ready", "taken", "completed", "failed"}]
  /\ \A t \in Tasks : attempts[t] \in 0..MaxAttempts
  /\ \A t \in Tasks : status[t] = "taken" <=> \E r \in Replicas : held[r] = t
  /\ past \subseteq Replicas

\* After the pause is stored no replica begins another execution, except one each
\* of those that had already passed their check: the others give their message
\* back, whichever they were about to pull (health.go:16, work.go:440).
PauseStopsReplicas ==
  paused => \A r \in Replicas : since[r] <= IF r \in past THEN 1 ELSE 0

Ended == \A t \in Tasks : status[t] \in {"completed", "failed"}

\* A pause loses no input: every task ends once the tool is repaired and resumed.
EveryTaskEnds == <>[]Ended
=============================================================================
