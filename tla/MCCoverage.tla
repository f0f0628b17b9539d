----------------------------- MODULE MCCoverage ------------------------------
(***************************************************************************)
(* Coverage for TLC: the planner over every order of the observations; and *)
(* the snapshot, with discovery of an address and a scanner that wants it  *)
(* alive, of runs that share a scope, in settings chosen at the start.     *)
(***************************************************************************)
EXTENDS Coverage, Plans

CONSTANTS discover, quick, resolve, report, none

VARIABLE setting

-----------------------------------------------------------------------------
(* The planner: up to eight of eleven observations, in every order           *)

PlanCases == INSTANCE MCPlanner WITH Teams <- {}, Sightings <- {}, MaxObservations <- 0

MCAccepts(filter, e) == PlanCases!MCAccepts(filter, e)
MCTeams     == PlanCases!MCTeams
MCSightings == PlanCases!MCCertificate

NoPlan == PlanInit /\ team = PlanCases!MCWorkers

-----------------------------------------------------------------------------
(* The snapshot                                                            *)

T(name, needLive, evidence, filter) ==
  [name |-> name, kinds |-> {"ip"}, needLive |-> needLive, needBinding |-> FALSE,
   observe |-> FALSE, evidence |-> evidence, filter |-> filter]

\* Discovery, the same with another contract, and the scanner.
Discover  == T(discover, FALSE, TRUE, "dead")
Discover2 == T(discover, FALSE, FALSE, "every")
Quick     == T(quick, TRUE, FALSE, "every")

OneWorker  == {Discover, Discover2}
TwoWorkers == {Discover, Quick}

E(id, run, scope, host, alive) ==
  [id |-> id, run |-> run, scope |-> scope, kind |-> "ip", value |-> host, host |-> host,
   role |-> "none", alive |-> alive,
   gate |-> [allow |-> IF id = 2 THEN {discover, quick} ELSE {}, deny |-> {}, profile |-> none]]

\* Two addresses of the selected run, one allowed to a worker that has not registered.
TwoAddresses == {E(1, 1, 1, "h", FALSE), E(2, 1, 1, "g", FALSE)}

\* An address, the same found alive, one an earlier run found alive in the scope.
SharedScope == {E(1, 1, 1, "h", FALSE), E(3, 1, 1, "h", TRUE), E(4, 2, 1, "g", TRUE)}

\* An address and the same found alive, which the scanner waits for.
FoundAlive == {E(1, 1, 1, "h", FALSE), E(3, 1, 1, "h", TRUE)}

\* A dead address bound to a name, and a certificate that mentions the name there.
Certificate ==
  {[E(5, 1, 1, "h", FALSE) EXCEPT !.kind = "fqdn", !.value = "x", !.role = role] :
     role \in {"dns_a", "certificate_san"}}

\* The two workers for names: discovery wants them bound.
NameWorkers ==
  {[Discover EXCEPT !.kinds = {"fqdn"}, !.needBinding = TRUE], [Quick EXCEPT !.kinds = {"fqdn"}]}

\* A worker that registered before any provisioning; a provisioned system; one whose
\* provisioning named a worker that may not have registered.
Unprovisioned == {[registered |-> {Discover}, inventory |-> NoInventory]}
Provisioned   == {[registered |-> TwoWorkers,
                   inventory |-> [ready |-> TRUE, workers |-> {discover, quick}]]}
Incomplete    == {[registered |-> ws, inventory |-> [ready |-> TRUE, workers |-> {discover, quick}]] :
                    ws \in {TwoWorkers, {Discover}}}

\* One worker with two contracts; discovery and the scanner, which waits for what one run
\* finds alive; the same with the events of two runs; a contested name.
Settings == {"replaced", "found alive", "shared scope", "certificate"}

ContractsOf(x) ==
  CASE x = "replaced" -> OneWorker
    [] x = "certificate" -> NameWorkers
    [] OTHER -> TwoWorkers

ObservationsOf(x) ==
  CASE x = "replaced" -> TwoAddresses
    [] x = "found alive" -> FoundAlive
    [] x = "shared scope" -> SharedScope
    [] x = "certificate" -> Certificate

DeploymentsOf(x) ==
  CASE x = "replaced" -> Unprovisioned
    [] x = "found alive" -> Provisioned
    [] x = "shared scope" -> Incomplete
    [] x = "certificate" -> {[d EXCEPT !.registered = NameWorkers] : d \in Provisioned}

MCContract     == UNION {ContractsOf(x) : x \in Settings}
MCObservations == UNION {ObservationsOf(x) : x \in Settings}
MCDeployments  == UNION {DeploymentsOf(x) : x \in Settings}
MCTool         == {discover, quick, resolve, report, "absent"}

SnapshotInit(x) ==
  Init /\ [registered |-> registered, inventory |-> inventory] \in DeploymentsOf(x)
NoSnapshot == SnapshotInit("replaced")

\* The steps of a setting are those that stay within what it has.
SnapshotNext(x) ==
  /\ Next
  /\ registered' \subseteq ContractsOf(x)
  /\ {stream'[i] : i \in DOMAIN stream'} \subseteq ObservationsOf(x) \cup {Gone}
  /\ inventory' # inventory => inventory'.workers \subseteq NamesOf(ContractsOf(x))

-----------------------------------------------------------------------------
ASSUME PlanParameters     == PlanAssumption
ASSUME CoverageParameters == CoverageAssumption

MCInit ==
  \/ setting \in Settings /\ SnapshotInit(setting) /\ NoPlan
  \/ setting = "plan" /\ PlanInit /\ NoSnapshot

MCNext ==
  \/ setting \in Settings /\ SnapshotNext(setting) /\ UNCHANGED <<setting, planVars>>
  \/ setting = "plan" /\ PlanNext /\ UNCHANGED <<setting, vars>>

MCSpec == MCInit /\ [][MCNext]_<<setting, vars, planVars>>
=============================================================================
