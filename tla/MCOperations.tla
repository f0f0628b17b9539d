---------------------------- MODULE MCOperations -----------------------------
(***************************************************************************)
(* What surrounds the engine, for TLC: the registry, the circuit breaker   *)
(* and the live view.  They share no state: a behaviour is one of one of   *)
(* them, in one of its settings, while nothing happens in the others.      *)
(***************************************************************************)
EXTENDS Registry, ToolPause, Watch

CONSTANTS r1, r2, c1, c2, l1, l2, p1, p2, x, y, h1

VARIABLE part \* which of them, and its setting

-----------------------------------------------------------------------------
(* Registry: two runs that follow one another or overlap; one run and two  *)
(* replicas of its first service                                           *)

Provisionings == {"runs", "a run and replicas"}
MCServices    == <<"w1", "w2">>
MCWorker      == {"w1", "w2"}

NoRegistry ==
  /\ Init /\ registry = [w \in Worker |-> None]
  /\ built = [p \in Provisioning |-> [w \in Worker |-> c1]]

RegistryInit(s) ==
  /\ Init
  /\ s = "a run and replicas" =>
       registry["w2"] = None /\ built[p1]["w2"] = c1 /\ built[p2] = [w \in Worker |-> c1]

RegistryNext(s) ==
  /\ Next
  /\ s = "runs" => \A r \in Replica : pc'[r] = "down"
  /\ s = "a run and replicas" =>
       pc'[p2] = "idle" /\ \A r \in Replica : job'[r] # None => job'[r].worker = "w1"

-----------------------------------------------------------------------------
(* ToolPause: two replicas, three tasks                                    *)

NoPause == PauseInit /\ ~broken

-----------------------------------------------------------------------------
(* Watch: two subjects, without crashes and with up to two                 *)

Views == {"no crash", "two crashes"}

MCTargets == {[value |-> v, host |-> h1] : v \in {x, y}}

-----------------------------------------------------------------------------
ASSUME RegistryParameters == RegistryAssumption
ASSUME PauseParameters    == PauseAssumption
ASSUME WatchParameters    == WatchAssumption

MCInit ==
  \/ part \in Provisionings /\ RegistryInit(part) /\ NoPause /\ WatchInit
  \/ part = "pause" /\ PauseInit /\ NoRegistry /\ WatchInit
  \/ part \in Views /\ WatchInit /\ NoRegistry /\ NoPause

MCNext ==
  \/ part \in Provisionings /\ RegistryNext(part) /\ UNCHANGED <<part, pauseVars, watchVars>>
  \/ part = "pause" /\ PauseNext /\ UNCHANGED <<part, vars, watchVars>>
  \/ /\ part \in Views /\ WatchNext /\ (part = "no crash" => crashes' = 0)
     /\ UNCHANGED <<part, vars, pauseVars>>

\* The fairness of ToolPause and Watch, each while it runs.
MCFairness ==
  /\ \A r \in Replicas : WF_pauseVars(part = "pause" /\ Work(r))
  /\ WF_pauseVars(part = "pause" /\ Repair)
  /\ WF_pauseVars(part = "pause" /\ Resume)
  /\ \A r \in Instances :
       /\ WF_watchVars(part = "no crash" /\ Perform(r))
       /\ WF_watchVars(part = "no crash" /\ Arrive(r))
       /\ SF_watchVars(part = "no crash" /\ Published(r))

MCSpec ==
  MCInit /\ [][MCNext]_<<part, vars, pauseVars, watchVars>> /\ MCFairness

-----------------------------------------------------------------------------
(* The safety properties are the components' own; what is about the end    *)
(* holds where it applies                                                  *)

\* A pause loses no input: every task ends once the tool is resumed.
PausedTasksEnd == <>[](part = "pause" => Ended)

\* Without crashes no row is left in the end (cmd/watch/main.go:90).
RowsEnd == <>[](part = "no crash" => running = {})
=============================================================================
