-------------------------------- MODULE Plans --------------------------------
(***************************************************************************)
(* The planner at work: it takes one retained event after the other, in    *)
(* whatever order they were published, for the workers of one deployment.  *)
(***************************************************************************)
EXTENDS Planner, Naturals

CONSTANTS
  Teams,           \* the contracts of a deployment
  Sightings,       \* the events that may be retained
  MaxObservations  \* bound on the retained events

\* A contract per name; a domain is never alive.
PlanAssumption ==
  /\ MaxObservations \in Nat
  /\ \A team \in Teams : \A t, u \in team : t.name = u.name => t = u
  /\ \A e \in Sightings : e.kind = "domain" => ~e.alive

VARIABLES
  team,     \* the registered contracts
  observed, \* history: what the planner has taken
  plan

planVars == <<team, observed, plan>>

PlanInit == team \in Teams /\ observed = {} /\ plan = NewPlan

\* An event is retained, perhaps a second time with the same subject.
Observe(e) ==
  /\ Cardinality(observed) < MaxObservations
  /\ observed' = observed \cup {e}
  /\ plan' = Add(team, plan, e)
  /\ UNCHANGED team

PlanNext == \E e \in Sightings : Observe(e)

PlanSpec == PlanInit /\ [][PlanNext]_planVars

-----------------------------------------------------------------------------
(* Properties                                                              *)

\* Coverage expects exactly the tasks the workers would take (onMsg): it walks through
\* liveness and binding in an order of its own, and keeps the keys only.
PlansWhatWorkersTake == plan.ready = Expected(team, observed)

\* What is reported as blocked depends on which observations there are and not on their
\* order, although the planner keeps one blocker per prerequisite, the last: nothing but
\* what is missing, and all of it, except that of a contested prerequisite the order
\* decides (sdk/WORKFLOW.md:54; EveryBoundAddressIsReported).
BlockersIgnoreOrder ==
  LET reported == {<<b.key, b.why>> : b \in StillBlocked(plan)}
  IN Certain(team, observed) \subseteq reported /\ reported \subseteq Missing(team, observed)

\* The plan is that of the set of the observations.
PlanIsOfTheSet == PlansWhatWorkersTake /\ BlockersIgnoreOrder

\* sdk/WORKFLOW.md:54: blockers are reconciled in either order and separately for every
\* bound IP.  An address bound to a name that t would probe once it is alive, and that
\* never answered, stays on the report.
EveryBoundAddressIsReported ==
  \A t \in team, e \in observed :
    t.needLive /\ e.kind = "fqdn" /\ Bound(e) /\ Matches(t, e) /\ ~Answered(t, e, observed)
      => \E b \in StillBlocked(plan) : b.key = Prerequisite(t, e)
=============================================================================
