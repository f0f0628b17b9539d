------------------------------- MODULE Planner -------------------------------
(***************************************************************************)
(* What work the retained observations call for (src/internal/coverage:    *)
(* planner.add and expectations, over Definition.Matches and WorkKey of    *)
(* src/sdk).  The planner takes one observation after the other; what it   *)
(* keeps in maps is kept here in sets with at most one member per key.     *)
(*                                                                         *)
(* A definition is a worker's contract: its name, kinds, needLive,         *)
(* needBinding, observe, evidence (whether it requires any) and filter.    *)
(* Of an event the fields that planning reads are kept: id, run, scope,    *)
(* kind, value, host, role (of its name), alive and gate.  A canonical     *)
(* fqdn or domain has its value as its name.  A domain is never alive:     *)
(* liveness is reported of addresses and of names bound to them.           *)
(***************************************************************************)
EXTENDS Gates, FiniteSets

CONSTANTS
  Accepts(_, _),  \* Filter.Match (module Rules): this filter accepts this event
  BoundRole,      \* roles of a name that bind it to the host
  NoHost, NoRole  \* an event without an address, without a name's role

-----------------------------------------------------------------------------
(* Contracts and events                                                    *)

\* event.BoundName.
Bound(e) == e.host # NoHost /\ e.role \in BoundRole

Matches(t, e) == e.kind \in t.kinds /\ Allowed(t.name, e.gate) /\ Accepts(t.filter, e)

\* What a worker takes (onMsg).
Eligible(t, e) ==
  /\ Matches(t, e)
  /\ t.needLive => e.alive
  /\ t.needBinding /\ e.kind = "fqdn" => Bound(e)

\* A sink has one task per event, other workers one per subject.
WorkKey(t, e) ==
  IF t.observe THEN <<t.name, e.id>>
  ELSE <<t.name, e.kind, e.value, e.scope, e.host, e.role>>

Prerequisite(t, e) == <<t.name, e.scope, e.kind, e.value, e.host>>
Binding(t, e) == <<t.name, e.scope, e.value>>

-----------------------------------------------------------------------------
(* planner.add                                                             *)

NewPlan == [ready |-> {}, blocked |-> {}, live |-> {}, bound |-> {}, unknown |-> {}]

Unbound(e) == e.kind = "fqdn" /\ ~Bound(e)

\* A worker that wants bound names hears of this one, whatever its filter says.
Hears(t, e) == t.needBinding /\ e.kind = "fqdn" /\ "fqdn" \in t.kinds /\ Allowed(t.name, e.gate)

\* The name has to be resolved before t may take it.
AwaitsName(t, e) == Matches(t, e) /\ t.needBinding /\ Unbound(e)

\* Past that, t wants proof of life.
AsksLife(t, e) == Matches(t, e) /\ t.needLive /\ ~AwaitsName(t, e)

Resolves(t, e) == e.kind = "fqdn" /\ Bound(e) /\ (Hears(t, e) \/ AsksLife(t, e))

\* The apex of a domain, which has no address.
Apex(e) ==
  [id |-> e.id, run |-> e.run, scope |-> e.scope, kind |-> "fqdn", value |-> e.value,
   host |-> NoHost, role |-> NoRole, alive |-> e.alive, gate |-> e.gate]

Blocker(t, e, why) ==
  [key |-> Prerequisite(t, e), binding |-> Binding(t, e), why |-> why]

\* What e adds to the blocked work of t.
Blockers(t, e) ==
  {Blocker(t, e, "resolution") : x \in {y \in {e} : AwaitsName(t, y)}}
  \cup {Blocker(t, e, IF Unbound(e) THEN "resolution" ELSE "liveness") :
          x \in {y \in {e} : AsksLife(t, y) /\ ~y.alive}}
  \cup {Blocker(t, Apex(e), "resolution") :
          x \in {y \in {e} : /\ y.kind = "domain"
                             /\ t.needLive \/ t.needBinding
                             /\ Matches(t, Apex(y))}}

\* The latest blocker of a key replaces the one before it.
Put(old, new) == {o \in old : \A b \in new : b.key # o.key} \cup new

Lively(tools, e) == {t \in tools : AsksLife(t, e) /\ e.alive}

Takers(tools, e) ==
  Lively(tools, e) \cup {t \in tools : Matches(t, e) /\ ~t.needLive /\ ~AwaitsName(t, e)}

Unlisted(tools, e) == e.gate.allow \ {t.name : t \in tools}

\* Variant of Add: a live observation lifts what is blocked already.
AddInOrder(tools, p, e) ==
  LET lifted == {Prerequisite(t, e) : t \in Lively(tools, e)}
  IN [ready   |-> p.ready \cup {WorkKey(t, e) : t \in Takers(tools, e)},
      blocked |-> {b \in Put(p.blocked, UNION {Blockers(t, e) : t \in tools}) : b.key \notin lifted},
      live    |-> {},
      bound   |-> p.bound \cup {Binding(t, e) : t \in {u \in tools : Resolves(u, e)}},
      unknown |-> p.unknown \cup Unlisted(tools, e)]

Add(tools, p, e) ==
  [ready   |-> p.ready \cup {WorkKey(t, e) : t \in Takers(tools, e)},
   blocked |-> Put(p.blocked, UNION {Blockers(t, e) : t \in tools}),
   live    |-> p.live \cup {Prerequisite(t, e) : t \in Lively(tools, e)},
   bound   |-> p.bound \cup {Binding(t, e) : t \in {u \in tools : Resolves(u, e)}},
   unknown |-> p.unknown \cup Unlisted(tools, e)]

\* expectations: the blockers that no observation lifted.
StillBlocked(p) ==
  {b \in p.blocked : b.key \notin p.live /\ (b.why = "resolution" => b.binding \notin p.bound)}

-----------------------------------------------------------------------------
(* The same from the observations as a set, without an order.              *)

Expected(tools, evs) ==
  {WorkKey(x[1], x[2]) : x \in {y \in tools \X evs : Eligible(y[1], y[2])}}

\* What s shows to be missing before t may take it.
Lacks(t, s, why) ==
  /\ Matches(t, s)
  /\ IF Unbound(s) THEN why = "resolution" /\ (t.needBinding \/ (t.needLive /\ ~s.alive))
     ELSE why = "liveness" /\ t.needLive /\ ~s.alive

\* The address of s answered: an observation that t would take says so.
Answered(t, s, evs) ==
  \E e \in evs : e.alive /\ AsksLife(t, e) /\ Prerequisite(t, e) = Prerequisite(t, s)

\* The name of s has an address.
Named(t, s, evs) ==
  \E e \in evs : /\ e.kind = "fqdn" /\ Bound(e) /\ Binding(t, e) = Binding(t, s)
                 /\ \/ t.needBinding /\ "fqdn" \in t.kinds /\ Allowed(t.name, e.gate)
                    \/ t.needLive /\ Matches(t, e)

\* A domain stands for its apex too: a name without an address or sign of life.
Shown(evs) == evs \cup {Apex(e) : e \in {f \in evs : f.kind = "domain"}}

Missing(tools, evs) ==
  LET open  == {x \in tools \X Shown(evs) \X {"resolution", "liveness"} :
                  /\ Lacks(x[1], x[2], x[3])
                  /\ ~Answered(x[1], x[2], evs)
                  /\ x[3] = "resolution" => ~Named(x[1], x[2], evs)}
  IN {<<Prerequisite(x[1], x[2]), x[3]>> : x \in open}

\* The prerequisites that lack two things: a name that one observation binds to an address
\* and another only mentions there, as a certificate does.
Contested(tools, evs) ==
  {Prerequisite(x[1], x[2]) :
     x \in {y \in tools \X Shown(evs) :
              /\ Lacks(y[1], y[2], "liveness")
              /\ \E r \in Shown(evs) : /\ Lacks(y[1], r, "resolution")
                                       /\ Prerequisite(y[1], r) = Prerequisite(y[1], y[2])}}

\* What is missing whichever of the two the planner has seen last.
Certain(tools, evs) == {m \in Missing(tools, evs) : m[1] \notin Contested(tools, evs)}
=============================================================================
