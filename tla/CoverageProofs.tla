--------------------------- MODULE CoverageProofs ----------------------------
(***************************************************************************)
(* Proofs about Coverage: what the planner keeps of the observations is    *)
(* what their set calls for, and the certificate of a snapshot tells the   *)
(* truth about an instant, whatever changed while it was made.             *)
(***************************************************************************)
EXTENDS Coverage, Plans, FiniteSetTheorems, WellFoundedInduction, TLAPS

-----------------------------------------------------------------------------
(* Natural numbers: induction over a set, since the library's takes an     *)
(* operator                                                                *)

LEMMA LeastOf ==
  ASSUME NEW T \in SUBSET Nat, T # {}
  PROVE  \E x \in T : \A y \in T : x <= y
<1> DEFINE R == {p \in Nat \X Nat : p[1] < p[2]}
<1>1. IsWellFoundedOn(R, Nat)
  BY NatLessThanWellFounded, SMT DEF OpToRel, IsWellFoundedOn
<1>2. \A y, x \in Nat : y < x => <<y, x>> \in R
  OBVIOUS
<1>3. PICK x \in T : \A y \in T : ~ (<<y, x>> \in R)
  <2> HIDE DEF R
  <2> QED BY <1>1, WFMin
<1> HIDE DEF R
<1>4. \A y \in T : ~(y < x)
  BY <1>2, <1>3
<1> QED BY <1>4

LEMMA Induct ==
  ASSUME NEW S \in SUBSET Nat, 0 \in S, \A n \in S : n + 1 \in S
  PROVE  S = Nat
<1> SUFFICES ASSUME Nat \ S # {} PROVE FALSE
  OBVIOUS
<1>1. PICK x \in Nat \ S : \A y \in Nat \ S : x <= y
  <2>1. (Nat \ S) \in SUBSET Nat
    OBVIOUS
  <2> QED BY <2>1, LeastOf
<1>2. x # 0 /\ x - 1 \in Nat
  BY <1>1
<1>3. x - 1 \in S
  BY <1>1, <1>2
<1> QED BY <1>2, <1>3

-----------------------------------------------------------------------------
(* The planner                                                             *)

\* A plan is that of a set of observations, whatever their order: it keeps all that
\* they say, and of blockers at least the last of each key.
PlanOf(tools, p, M) ==
  /\ \A k : k \in p.ready <=> \E e \in M : \E t \in Takers(tools, e) : k = WorkKey(t, e)
  /\ \A k : k \in p.live <=> \E e \in M : \E t \in Lively(tools, e) : k = Prerequisite(t, e)
  /\ \A k : k \in p.bound <=> \E e \in M : \E t \in tools : Resolves(t, e) /\ k = Binding(t, e)
  /\ \A n : n \in p.unknown <=> \E e \in M : n \in Unlisted(tools, e)
  /\ \A b \in p.blocked : \E e \in M : \E t \in tools : b \in Blockers(t, e)
  /\ \A e \in M : \A t \in tools : \A b \in Blockers(t, e) : \E c \in p.blocked : c.key = b.key

LEMMA NewPlans ==
  ASSUME NEW tools
  PROVE  PlanOf(tools, NewPlan, {})
BY DEF PlanOf, NewPlan

LEMMA AddPlans ==
  ASSUME NEW tools, NEW p, NEW M, NEW e, PlanOf(tools, p, M)
  PROVE  PlanOf(tools, Add(tools, p, e), M \cup {e})
<1> DEFINE q == Add(tools, p, e)
           new == UNION {Blockers(t, e) : t \in tools}
<1>1. /\ q.ready = p.ready \cup {WorkKey(t, e) : t \in Takers(tools, e)}
      /\ q.blocked = Put(p.blocked, new)
      /\ q.live = p.live \cup {Prerequisite(t, e) : t \in Lively(tools, e)}
      /\ q.bound = p.bound \cup {Binding(t, e) : t \in {u \in tools : Resolves(u, e)}}
      /\ q.unknown = p.unknown \cup Unlisted(tools, e)
  BY DEF Add
<1> HIDE DEF q
<1>2. \A k : k \in q.ready <=> \E f \in M \cup {e} : \E t \in Takers(tools, f) : k = WorkKey(t, f)
  BY <1>1 DEF PlanOf
<1>3. \A k : k \in q.live <=> \E f \in M \cup {e} : \E t \in Lively(tools, f) : k = Prerequisite(t, f)
  BY <1>1 DEF PlanOf
<1>4. \A k : k \in q.bound <=>
        \E f \in M \cup {e} : \E t \in tools : Resolves(t, f) /\ k = Binding(t, f)
  BY <1>1 DEF PlanOf
<1>5. \A n : n \in q.unknown <=> \E f \in M \cup {e} : n \in Unlisted(tools, f)
  BY <1>1 DEF PlanOf
<1>6. \A b \in q.blocked : \E f \in M \cup {e} : \E t \in tools : b \in Blockers(t, f)
  BY <1>1 DEF PlanOf, Put
<1>7. ASSUME NEW f \in M \cup {e}, NEW t \in tools, NEW b \in Blockers(t, f)
      PROVE  \E c \in q.blocked : c.key = b.key
  <2>1. new \subseteq q.blocked
    BY <1>1 DEF Put
  <2>2. CASE f = e
    BY <2>1, <2>2, <1>7
  <2>3. CASE f \in M
    <3>1. PICK c \in p.blocked : c.key = b.key
      BY <2>3, <1>7 DEF PlanOf
    <3>2. CASE \A d \in new : d.key # c.key
      BY <3>1, <3>2, <1>1 DEF Put
    <3>3. CASE \E d \in new : d.key = c.key
      BY <3>1, <3>3, <2>1
    <3> QED BY <3>2, <3>3
  <2> QED BY <2>2, <2>3
<1> QED BY <1>2, <1>3, <1>4, <1>5, <1>6, <1>7 DEF PlanOf, q

\* The plans after each event, up to the n-th.
PlansTo(tools, matched, seen, plans, n) ==
  [i \in 0..n |->
     IF i = 0 THEN NewPlan
     ELSE IF seen[i] \in matched THEN Add(tools, plans[i - 1], seen[i]) ELSE plans[i - 1]]

LEMMA PlansExist ==
  ASSUME NEW tools, NEW matched, NEW seen, NEW m \in Nat
  PROVE  \E plans : plans = PlansTo(tools, matched, seen, plans, m)
<1> DEFINE S == {n \in Nat : \E plans : plans = PlansTo(tools, matched, seen, plans, n)}
<1>1. 0 \in S
  <2> DEFINE f == [i \in 0..0 |-> NewPlan]
  <2>1. f = PlansTo(tools, matched, seen, f, 0)
    BY DEF PlansTo
  <2> QED BY <2>1
<1>2. ASSUME NEW n \in S PROVE n + 1 \in S
  <2>1. PICK f : f = PlansTo(tools, matched, seen, f, n)
    OBVIOUS
  <2> DEFINE v == IF seen[n + 1] \in matched THEN Add(tools, f[n], seen[n + 1]) ELSE f[n]
             g == [i \in 0..n + 1 |-> IF i = n + 1 THEN v ELSE f[i]]
  <2>2. \A i \in 0..n : f[i] = PlansTo(tools, matched, seen, f, n)[i]
    BY <2>1
  <2>3. \A i \in 0..n + 1 : g[i] = PlansTo(tools, matched, seen, g, n + 1)[i]
    <3> SUFFICES ASSUME NEW i \in 0..n + 1
                 PROVE  g[i] = PlansTo(tools, matched, seen, g, n + 1)[i]
      OBVIOUS
    <3>1. CASE i = n + 1
      BY <3>1 DEF PlansTo
    <3>2. CASE i \in 0..n
      BY <2>2, <3>2 DEF PlansTo
    <3> QED BY <3>1, <3>2
  <2>4. g = PlansTo(tools, matched, seen, g, n + 1)
    <3> HIDE DEF v
    <3> QED BY <2>3 DEF PlansTo
  <2> QED BY <2>4
<1>3. S = Nat
  <2> HIDE DEF S
  <2>1. S \in SUBSET Nat
    BY DEF S
  <2> QED BY <1>1, <1>2, <2>1, Induct
<1> QED BY <1>3

\* The recursive function in Planned is what its definition says.
LEMMA Unrolled ==
  ASSUME NEW tools, NEW matched, NEW seen, Len(seen) \in Nat
  PROVE  \E plans : /\ plans = PlansTo(tools, matched, seen, plans, Len(seen))
                   /\ Planned(tools, matched, seen) = plans[Len(seen)]
<1> DEFINE plans == CHOOSE f : f = PlansTo(tools, matched, seen, f, Len(seen))
<1>1. PICK f : f = PlansTo(tools, matched, seen, f, Len(seen))
  BY PlansExist
<1>2. plans = PlansTo(tools, matched, seen, plans, Len(seen))
  BY <1>1, Zenon
<1>3. Planned(tools, matched, seen) = plans[Len(seen)]
  BY Zenon DEF Planned, PlansTo
<1> QED BY <1>2, <1>3

LEMMA PlannedIsOfTheSet ==
  ASSUME NEW tools, NEW matched, NEW seen, Len(seen) \in Nat
  PROVE  PlanOf(tools, Planned(tools, matched, seen),
                {e \in {seen[i] : i \in 1..Len(seen)} : e \in matched})
<1>1. PICK plans : /\ plans = PlansTo(tools, matched, seen, plans, Len(seen))
                  /\ Planned(tools, matched, seen) = plans[Len(seen)]
  BY Unrolled
<1> DEFINE M(n) == {e \in {seen[i] : i \in 1..n} : e \in matched}
           S == {n \in Nat : n <= Len(seen) => PlanOf(tools, plans[n], M(n))}
<1>2. 0 \in S
  <2>1. plans[0] = NewPlan
    BY <1>1 DEF PlansTo
  <2>2. M(0) = {}
    OBVIOUS
  <2> QED BY <2>1, <2>2, NewPlans
<1>3. ASSUME NEW n \in S PROVE n + 1 \in S
  <2> SUFFICES ASSUME n + 1 <= Len(seen) PROVE PlanOf(tools, plans[n + 1], M(n + 1))
    OBVIOUS
  <2>1. PlanOf(tools, plans[n], M(n))
    OBVIOUS
  <2>2. plans[n + 1] = IF seen[n + 1] \in matched
                      THEN Add(tools, plans[n], seen[n + 1]) ELSE plans[n]
    BY <1>1 DEF PlansTo
  <2>3. {seen[i] : i \in 1..n + 1} = {seen[i] : i \in 1..n} \cup {seen[n + 1]}
    OBVIOUS
  <2>4. CASE seen[n + 1] \in matched
    <3>1. M(n + 1) = M(n) \cup {seen[n + 1]}
      BY <2>3, <2>4
    <3> HIDE DEF M
    <3> QED BY <2>1, <2>2, <2>4, <3>1, AddPlans
  <2>5. CASE seen[n + 1] \notin matched
    <3>1. M(n + 1) = M(n)
      BY <2>3, <2>5
    <3> QED BY <2>1, <2>2, <2>5, <3>1
  <2> QED BY <2>4, <2>5
<1>4. S = Nat
  <2> HIDE DEF S
  <2>1. S \in SUBSET Nat
    BY DEF S
  <2> QED BY <1>2, <1>3, <2>1, Induct
<1>5. PlanOf(tools, plans[Len(seen)], M(Len(seen)))
  <2>1. Len(seen) \in S
    <3> HIDE DEF S
    <3> QED BY <1>4
  <2> HIDE DEF M
  <2> QED BY <2>1
<1> QED BY <1>1, <1>5

\* One contract per name.
OneContract(tools) == \A t, u \in tools : t.name = u.name => t = u

LEMMA TakersAreEligible ==
  ASSUME NEW tools, NEW t, NEW e
  PROVE  t \in Takers(tools, e) <=> t \in tools /\ Eligible(t, e)
BY DEF Takers, Lively, AsksLife, AwaitsName, Unbound, Eligible

LEMMA ReadyIsExpected ==
  ASSUME NEW tools, NEW p, NEW M, PlanOf(tools, p, M)
  PROVE  p.ready = Expected(tools, M)
<1>1. \A k : k \in p.ready <=> \E e \in M : \E t \in tools : Eligible(t, e) /\ k = WorkKey(t, e)
  BY TakersAreEligible DEF PlanOf
<1>2. \A k : k \in Expected(tools, M) <=>
        \E e \in M : \E t \in tools : Eligible(t, e) /\ k = WorkKey(t, e)
  <2>1. ASSUME NEW k, k \in Expected(tools, M)
        PROVE  \E e \in M : \E t \in tools : Eligible(t, e) /\ k = WorkKey(t, e)
    <3>1. PICK x \in tools \X M : Eligible(x[1], x[2]) /\ k = WorkKey(x[1], x[2])
      BY <2>1 DEF Expected
    <3>2. x[1] \in tools /\ x[2] \in M
      OBVIOUS
    <3> QED BY <3>1, <3>2
  <2>2. ASSUME NEW e \in M, NEW t \in tools, Eligible(t, e)
        PROVE  WorkKey(t, e) \in Expected(tools, M)
    <3> DEFINE x == <<t, e>>
    <3>1. x \in tools \X M /\ x[1] = t /\ x[2] = e
      OBVIOUS
    <3> HIDE DEF x
    <3> QED BY <2>2, <3>1 DEF Expected
  <2> QED BY <2>1, <2>2
<1> QED BY <1>1, <1>2

LEMMA BlockersSayWhatLacks ==
  ASSUME NEW M, NEW e \in M, NEW t, NEW b \in Blockers(t, e),
         e.kind = "domain" => ~e.alive
  PROVE  \E f \in Shown(M), why \in {"resolution", "liveness"} :
           b = Blocker(t, f, why) /\ Lacks(t, f, why)
<1>1. CASE b = Blocker(t, e, "resolution") /\ AwaitsName(t, e)
  <2>1. Lacks(t, e, "resolution")
    BY <1>1 DEF AwaitsName, Lacks
  <2> QED BY <1>1, <2>1 DEF Shown
<1>2. CASE /\ b = Blocker(t, e, IF Unbound(e) THEN "resolution" ELSE "liveness")
           /\ AsksLife(t, e) /\ ~e.alive
  <2>1. Lacks(t, e, IF Unbound(e) THEN "resolution" ELSE "liveness")
    BY <1>2 DEF AsksLife, Lacks
  <2> QED BY <1>2, <2>1 DEF Shown
<1>3. CASE /\ b = Blocker(t, Apex(e), "resolution") /\ e.kind = "domain"
           /\ t.needLive \/ t.needBinding
           /\ Matches(t, Apex(e))
  <2>1. Unbound(Apex(e)) /\ ~Apex(e).alive
    BY <1>3 DEF Apex, Unbound, Bound
  <2>2. Lacks(t, Apex(e), "resolution")
    BY <1>3, <2>1 DEF Lacks
  <2>3. Apex(e) \in Shown(M)
    BY <1>3 DEF Shown
  <2> QED BY <1>3, <2>2, <2>3
<1> QED BY <1>1, <1>2, <1>3 DEF Blockers

LEMMA WhatLacksIsBlocked ==
  ASSUME NEW M, NEW f \in Shown(M), NEW t, NEW why, Lacks(t, f, why)
  PROVE  \E e \in M : \E b \in Blockers(t, e) : b.key = Prerequisite(t, f)
<1>1. CASE f \in M
  <2>1. CASE AwaitsName(t, f)
    <3>1. Blocker(t, f, "resolution") \in Blockers(t, f)
      BY <2>1 DEF Blockers
    <3> QED BY <1>1, <3>1 DEF Blocker
  <2>2. CASE AsksLife(t, f) /\ ~f.alive
    <3>1. Blocker(t, f, IF Unbound(f) THEN "resolution" ELSE "liveness") \in Blockers(t, f)
      BY <2>2 DEF Blockers
    <3> QED BY <1>1, <3>1 DEF Blocker
  <2> QED BY <2>1, <2>2 DEF Lacks, AwaitsName, AsksLife
<1>2. CASE \E e \in M : e.kind = "domain" /\ f = Apex(e)
  <2>1. PICK e \in M : e.kind = "domain" /\ f = Apex(e)
    BY <1>2
  <2>2. Matches(t, Apex(e)) /\ (t.needBinding \/ t.needLive)
    BY <2>1 DEF Lacks
  <2>3. Blocker(t, Apex(e), "resolution") \in Blockers(t, e)
    BY <2>1, <2>2 DEF Blockers
  <2> QED BY <2>1, <2>3 DEF Blocker
<1> QED BY <1>1, <1>2 DEF Shown

\* What the planner finds live or bound is what was answered or named.
LEMMA LiveIsAnswered ==
  ASSUME NEW tools, NEW p, NEW M, PlanOf(tools, p, M), OneContract(tools), NEW t \in tools, NEW f
  PROVE  Prerequisite(t, f) \in p.live <=> Answered(t, f, M)
<1>1. Prerequisite(t, f) \in p.live <=>
        \E e \in M : \E u \in Lively(tools, e) : Prerequisite(t, f) = Prerequisite(u, e)
  BY DEF PlanOf
<1>2. \A u \in tools : \A e : Prerequisite(t, f) = Prerequisite(u, e) => u = t
  BY DEF Prerequisite, OneContract
<1> QED BY <1>1, <1>2 DEF Lively, Answered

LEMMA BoundIsNamed ==
  ASSUME NEW tools, NEW p, NEW M, PlanOf(tools, p, M), OneContract(tools), NEW t \in tools, NEW f
  PROVE  Binding(t, f) \in p.bound <=> Named(t, f, M)
<1>1. Binding(t, f) \in p.bound <=>
        \E e \in M : \E u \in tools : Resolves(u, e) /\ Binding(t, f) = Binding(u, e)
  BY DEF PlanOf
<1>2. \A u \in tools : \A e : Binding(t, f) = Binding(u, e) => u = t
  BY DEF Binding, OneContract
<1>3. \A e : Resolves(t, e) <=>
        /\ e.kind = "fqdn" /\ Bound(e)
        /\ \/ t.needBinding /\ "fqdn" \in t.kinds /\ Allowed(t.name, e.gate)
           \/ t.needLive /\ Matches(t, e)
  BY DEF Resolves, Hears, AsksLife, AwaitsName, Unbound
<1> QED BY <1>1, <1>2, <1>3 DEF Named

\* What is missing has to be said of something shown, which has not been answered.
LEMMA MissingIsOpen ==
  ASSUME NEW tools, NEW M
  PROVE  \A m : m \in Missing(tools, M) <=>
           \E t \in tools, f \in Shown(M), why \in {"resolution", "liveness"} :
              /\ Lacks(t, f, why) /\ ~Answered(t, f, M) /\ (why = "resolution" => ~Named(t, f, M))
              /\ m = <<Prerequisite(t, f), why>>
<1>1. ASSUME NEW t \in tools, NEW f \in Shown(M), NEW why \in {"resolution", "liveness"},
             Lacks(t, f, why), ~Answered(t, f, M), why = "resolution" => ~Named(t, f, M)
      PROVE  <<Prerequisite(t, f), why>> \in Missing(tools, M)
  <2> DEFINE x == <<t, f, why>>
  <2>1. x \in tools \X Shown(M) \X {"resolution", "liveness"} /\ x[1] = t /\ x[2] = f /\ x[3] = why
    OBVIOUS
  <2> HIDE DEF x
  <2>2. <<Prerequisite(x[1], x[2]), x[3]>> \in Missing(tools, M)
    BY <1>1, <2>1 DEF Missing, Shown
  <2> QED BY <2>1, <2>2
<1>2. ASSUME NEW m \in Missing(tools, M)
      PROVE  \E t \in tools, f \in Shown(M), why \in {"resolution", "liveness"} :
               /\ Lacks(t, f, why) /\ ~Answered(t, f, M) /\ (why = "resolution" => ~Named(t, f, M))
               /\ m = <<Prerequisite(t, f), why>>
  <2>1. PICK x \in tools \X Shown(M) \X {"resolution", "liveness"} :
          /\ Lacks(x[1], x[2], x[3]) /\ ~Answered(x[1], x[2], M)
          /\ x[3] = "resolution" => ~Named(x[1], x[2], M)
          /\ m = <<Prerequisite(x[1], x[2]), x[3]>>
    BY DEF Missing, Shown
  <2>2. x[1] \in tools /\ x[2] \in Shown(M) /\ x[3] \in {"resolution", "liveness"}
    OBVIOUS
  <2> QED BY <2>1, <2>2
<1> QED BY <1>1, <1>2

\* What lacks two things is contested.
LEMMA OneLack ==
  ASSUME NEW tools, NEW M, NEW t \in tools, NEW f \in Shown(M), NEW r \in Shown(M),
         Prerequisite(t, r) = Prerequisite(t, f), Prerequisite(t, f) \notin Contested(tools, M),
         NEW why, NEW say, Lacks(t, f, why), Lacks(t, r, say)
  PROVE  say = why
<1>1. ASSUME NEW g \in Shown(M), NEW h \in Shown(M), Prerequisite(t, h) = Prerequisite(t, g),
             Lacks(t, g, "liveness"), Lacks(t, h, "resolution")
      PROVE  Prerequisite(t, g) \in Contested(tools, M)
  <2> DEFINE x == <<t, g>>
  <2>1. x \in tools \X Shown(M) /\ x[1] = t /\ x[2] = g
    OBVIOUS
  <2> HIDE DEF x
  <2> QED BY <1>1, <2>1 DEF Contested
<1>2. why \in {"resolution", "liveness"} /\ say \in {"resolution", "liveness"}
  BY DEF Lacks
<1> QED BY <1>1, <1>2

\* A blocker that no observation lifts is of something missing.
LEMMA BlockedIsMissing ==
  ASSUME NEW tools, NEW p, NEW M, PlanOf(tools, p, M), OneContract(tools),
         \A e \in M : e.kind = "domain" => ~e.alive
  PROVE  {<<b.key, b.why>> : b \in StillBlocked(p)} \subseteq Missing(tools, M)
<1>1. ASSUME NEW b \in StillBlocked(p) PROVE <<b.key, b.why>> \in Missing(tools, M)
  <2>1. PICK e \in M, t \in tools : b \in Blockers(t, e)
    BY DEF StillBlocked, PlanOf
  <2>2. PICK f \in Shown(M), why \in {"resolution", "liveness"} :
          b = Blocker(t, f, why) /\ Lacks(t, f, why)
    BY <2>1, BlockersSayWhatLacks
  <2>3. b.key = Prerequisite(t, f) /\ b.binding = Binding(t, f) /\ b.why = why
    BY <2>2 DEF Blocker
  <2>4. ~Answered(t, f, M)
    BY <2>3, LiveIsAnswered DEF StillBlocked
  <2>5. why = "resolution" => ~Named(t, f, M)
    BY <2>3, BoundIsNamed DEF StillBlocked
  <2> QED BY <2>2, <2>3, <2>4, <2>5, MissingIsOpen
<1> QED BY <1>1

\* What is missing and not contested is blocked, although of the blockers with the same
\* key only the last is kept.
LEMMA CertainIsBlocked ==
  ASSUME NEW tools, NEW p, NEW M, PlanOf(tools, p, M), OneContract(tools),
         \A e \in M : e.kind = "domain" => ~e.alive
  PROVE  Certain(tools, M) \subseteq {<<b.key, b.why>> : b \in StillBlocked(p)}
<1>1. ASSUME NEW m \in Certain(tools, M) PROVE \E b \in StillBlocked(p) : m = <<b.key, b.why>>
  <2>1. PICK t \in tools, f \in Shown(M), why \in {"resolution", "liveness"} :
          /\ Lacks(t, f, why) /\ ~Answered(t, f, M) /\ (why = "resolution" => ~Named(t, f, M))
          /\ m = <<Prerequisite(t, f), why>>
    BY MissingIsOpen DEF Certain
  <2>2. \E e \in M : \E b \in Blockers(t, e) : b.key = Prerequisite(t, f)
    BY <2>1, WhatLacksIsBlocked
  <2>3. PICK c \in p.blocked : c.key = Prerequisite(t, f)
    BY <2>2 DEF PlanOf
  <2>4. PICK d \in M, u \in tools : c \in Blockers(u, d)
    BY DEF PlanOf
  <2>5. PICK r \in Shown(M), say \in {"resolution", "liveness"} :
          c = Blocker(u, r, say) /\ Lacks(u, r, say)
    BY <2>4, BlockersSayWhatLacks
  <2>6. c.key = Prerequisite(u, r) /\ c.binding = Binding(u, r) /\ c.why = say
    BY <2>5 DEF Blocker
  <2>7. u = t /\ r.scope = f.scope /\ r.value = f.value /\ Prerequisite(t, r) = Prerequisite(t, f)
    BY <2>3, <2>6 DEF Prerequisite, OneContract
  <2>8. c.key \notin p.live
    BY <2>1, <2>3, LiveIsAnswered
  <2>9. c.binding = Binding(t, f)
    BY <2>6, <2>7 DEF Binding
  <2>10. say = why
    <3>1. Prerequisite(t, f) \notin Contested(tools, M)
      BY <2>1 DEF Certain
    <3> QED BY <2>1, <2>5, <2>7, <3>1, OneLack
  <2>11. c \in StillBlocked(p)
    BY <2>1, <2>6, <2>8, <2>9, <2>10, BoundIsNamed DEF StillBlocked
  <2> QED BY <2>1, <2>3, <2>6, <2>10, <2>11
<1> QED BY <1>1

-----------------------------------------------------------------------------
(* Finite sets                                                             *)

LEMMA ImageIsFinite ==
  ASSUME NEW S, IsFiniteSet(S), NEW f, f = [x \in S |-> f[x]]
  PROVE  IsFiniteSet({f[x] : x \in S})
<1> DEFINE T == {f[x] : x \in S}
<1>1. f \in Surjection(S, T)
  BY DEF Surjection
<1> QED BY <1>1, FS_Surjection

LEMMA ShownIsFinite ==
  ASSUME NEW M, IsFiniteSet(M)
  PROVE  IsFiniteSet(Shown(M))
<1> DEFINE D == {e \in M : e.kind = "domain"}
           f == [e \in D |-> Apex(e)]
<1>1. IsFiniteSet(D)
  BY FS_Subset
<1>2. IsFiniteSet({f[e] : e \in D})
  <2> HIDE DEF D
  <2> QED BY <1>1, ImageIsFinite
<1>3. {f[e] : e \in D} = {Apex(e) : e \in D}
  OBVIOUS
<1>4. IsFiniteSet(M \cup {Apex(e) : e \in D})
  <2> HIDE DEF D
  <2> QED BY <1>2, <1>3, FS_Union
<1> QED BY <1>4 DEF Shown

LEMMA ExpectedIsFinite ==
  ASSUME NEW tools, IsFiniteSet(tools), NEW M, IsFiniteSet(M)
  PROVE  IsFiniteSet(Expected(tools, M))
<1> DEFINE D == {x \in tools \X M : Eligible(x[1], x[2])}
           f == [x \in D |-> WorkKey(x[1], x[2])]
<1>1. IsFiniteSet(D)
  BY FS_Product, FS_Subset
<1>2. IsFiniteSet({f[x] : x \in D})
  <2> HIDE DEF D
  <2> QED BY <1>1, ImageIsFinite
<1>3. {f[x] : x \in D} = Expected(tools, M)
  BY DEF Expected
<1> QED BY <1>2, <1>3

LEMMA BlockedIsFinite ==
  ASSUME NEW tools, IsFiniteSet(tools), NEW M, IsFiniteSet(M), NEW p, PlanOf(tools, p, M),
         \A e \in M : e.kind = "domain" => ~e.alive
  PROVE  IsFiniteSet(StillBlocked(p))
<1> DEFINE D == (tools \X Shown(M)) \X {"resolution", "liveness"}
           f == [x \in D |-> Blocker(x[1][1], x[1][2], x[2])]
<1>1. IsFiniteSet(D)
  <2>1. IsFiniteSet({"resolution", "liveness"})
    <3>1. IsFiniteSet({} \cup {"resolution"})
      BY FS_EmptySet, FS_AddElement
    <3>2. IsFiniteSet(({} \cup {"resolution"}) \cup {"liveness"})
      BY <3>1, FS_AddElement
    <3>3. {"resolution", "liveness"} = ({} \cup {"resolution"}) \cup {"liveness"}
      OBVIOUS
    <3> QED BY <3>2, <3>3
  <2>2. IsFiniteSet(tools \X Shown(M))
    BY FS_Product, ShownIsFinite
  <2> QED BY <2>1, <2>2, FS_Product
<1>2. IsFiniteSet({f[x] : x \in D})
  <2> HIDE DEF D
  <2> QED BY <1>1, ImageIsFinite
<1>3. ASSUME NEW b \in StillBlocked(p) PROVE b \in {f[x] : x \in D}
  <2>1. PICK e \in M, t \in tools : b \in Blockers(t, e)
    BY DEF StillBlocked, PlanOf
  <2>2. PICK r \in Shown(M), why \in {"resolution", "liveness"} : b = Blocker(t, r, why)
    BY <2>1, BlockersSayWhatLacks
  <2> DEFINE x == <<<<t, r>>, why>>
  <2>3. x \in D /\ x[1][1] = t /\ x[1][2] = r /\ x[2] = why
    OBVIOUS
  <2> HIDE DEF x
  <2>4. b = f[x]
    BY <2>2, <2>3
  <2> QED BY <2>3, <2>4
<1>4. StillBlocked(p) \in SUBSET {f[x] : x \in D}
  BY <1>3
<1> QED
  <2> HIDE DEF D, f
  <2> QED BY <1>2, <1>4, FS_Subset

-----------------------------------------------------------------------------
(* What holds while a snapshot is made                                     *)

Started      == {"registrations", "inventory", "boundary", "ledger", "events", "items",
                 "ledger end", "registry end"}
HasTools     == Started \ {"registrations"}
HasInventory == HasTools \ {"inventory"}
HasBoundary  == HasInventory \ {"boundary"}
HasLedger    == HasBoundary \ {"ledger"}
HasPlan      == HasLedger \ {"events"}

\* The fields of the snapshot.
Shape ==
  s = [registry |-> s.registry, tools |-> s.tools, warned |-> s.warned, stable |-> s.stable,
       work |-> s.work, events |-> s.events, seq |-> s.seq, seen |-> s.seen, todo |-> s.todo,
       items |-> s.items, done |-> s.done]

\* The stores, and what the snapshot keeps of them.
Typed ==
  /\ stream \in Seq(Observations \cup {Gone})
  /\ registrySeq \in Nat /\ workSeq \in Nat
  /\ IsFiniteSet(registered) /\ OneContract(registered)
  /\ pc \in Started \cup {"idle", "reported", "failed"}
  /\ complete \in BOOLEAN /\ wasComplete \in BOOLEAN
  /\ Shape /\ s.warned \in BOOLEAN /\ s.stable \in BOOLEAN /\ IsFiniteSet(s.tools)

\* An unchanged sequence number vouches for what was read under it.
Vouched ==
  /\ pc \in Started => s.registry \in Nat /\ s.registry <= registrySeq
  /\ pc \in HasTools /\ registrySeq = s.registry => s.tools = registered
  /\ pc \in HasInventory /\ registrySeq = s.registry /\ ~s.warned => Deployed(inventory, s.tools)
  /\ pc \in HasLedger => s.work \in Nat /\ s.work <= workSeq

\* What a snapshot has not come to is as it began.
NothingSeen ==
  /\ pc \in {"idle"} \cup (Started \ HasPlan) => s.stable /\ s.done = 0
  /\ pc \in {"idle"} \cup (Started \ HasBoundary) => s.seen = <<>>

\* Without a warning the snapshot has seen the whole history up to where it is: what
\* the stream holds now is that, but for what has been removed since.
Seen ==
  pc \in HasBoundary /\ ~s.warned =>
    /\ s.events.last \in Nat /\ s.events.last <= Len(stream) /\ s.events.msgs = s.events.last
    /\ s.seen \in Seq(Observations) /\ Len(s.seen) <= s.events.last
    /\ s.seq = Len(s.seen) + 1
    /\ \A i \in 1..Len(s.seen) : stream[i] \in {s.seen[i], Gone}
    /\ pc \in HasPlan => Len(s.seen) = s.events.last

Matched == Selected({s.seen[i] : i \in 1..Len(s.seen)})
ThePlan == Planned(s.tools, Matched, s.seen)

\* The items are those of the plan, and as long as the ledger has not changed those
\* counted are done.
Counted ==
  pc \in HasPlan /\ ~s.warned =>
    /\ Matched # {} /\ ThePlan.unknown = {}
    /\ s.todo \subseteq ThePlan.ready
    /\ s.items = Cardinality(ThePlan.ready) + Cardinality(StillBlocked(ThePlan))
    /\ workSeq = s.work =>
         s.done = Cardinality({k \in ThePlan.ready \ s.todo : Done(s.tools, work, k)})
    /\ pc # "items" => s.todo = {}

Verdict == s.stable /\ ~s.warned /\ s.items > 0 /\ s.done = s.items

\* A favourable verdict that the readings still to come do not overturn was true when
\* the stream was read again.
Certified ==
  /\ pc = "ledger end" /\ Verdict /\ workSeq = s.work /\ registrySeq = s.registry => wasComplete
  /\ pc = "registry end" /\ Verdict /\ registrySeq = s.registry => wasComplete
  /\ complete => wasComplete

\* While nothing moves all readings agree, and a warning has its reason.
Undisturbed ==
  ~moved =>
    /\ pc \in Started => registrySeq = s.registry
    /\ pc \in HasInventory => (s.warned => ~TasksDone)
    /\ pc \in HasBoundary => s.events = Boundary
    /\ pc \in HasLedger => workSeq = s.work
    /\ pc \in HasPlan => s.stable
    /\ pc = "reported" => (AllDone => complete) /\ (complete => AllCertainDone)

Inv == Typed /\ Vouched /\ NothingSeen /\ Seen /\ Counted /\ Certified /\ Undisturbed

-----------------------------------------------------------------------------
(* The boundary                                                            *)

LEMMA BoundaryOfAll ==
  ASSUME Typed, Boundary.msgs = Boundary.last
  PROVE  Boundary.first = 1 /\ \A i \in 1..Len(stream) : stream[i] # Gone
<1> DEFINE kept == {i \in DOMAIN stream : stream[i] # Gone}
<1>1. Len(stream) \in Nat /\ DOMAIN stream = 1..Len(stream)
  BY DEF Typed
<1>2. IsFiniteSet(1..Len(stream)) /\ Cardinality(1..Len(stream)) = Len(stream)
  <2>1. 1 \in Int /\ Len(stream) \in Int
    BY <1>1
  <2>2. /\ IsFiniteSet(1..Len(stream))
        /\ Cardinality(1..Len(stream)) = IF 1 > Len(stream) THEN 0 ELSE Len(stream) - 1 + 1
    BY <2>1, FS_Interval, Zenon
  <2> QED BY <1>1, <2>2
<1>3. Cardinality(kept) = Len(stream)
  BY DEF Boundary
<1>4. kept = 1..Len(stream)
  <2>1. kept \in SUBSET (1..Len(stream))
    BY <1>1
  <2> HIDE DEF kept
  <2> QED BY <1>2, <1>3, <2>1, FS_Subset
<1>5. \A i \in 1..Len(stream) : stream[i] # Gone
  BY <1>4
<1>6. Boundary.first = 1
  <2>1. Boundary.first = IF kept = {} THEN Len(stream) + 1
                         ELSE CHOOSE i \in kept : \A j \in kept : i <= j
    BY DEF Boundary
  <2> HIDE DEF kept
  <2>2. CASE Len(stream) = 0
    BY <1>4, <2>1, <2>2
  <2>3. CASE Len(stream) # 0
    <3>1. 1 \in kept /\ \A j \in kept : 1 <= j
      BY <1>1, <1>4, <2>3
    <3>2. \A i \in kept : (\A j \in kept : i <= j) => i = 1
      BY <1>1, <1>4, <3>1
    <3>3. (CHOOSE i \in kept : \A j \in kept : i <= j) = 1
      BY <3>1, <3>2
    <3> QED BY <2>1, <3>1, <3>3
  <2> QED BY <2>2, <2>3
<1> QED BY <1>5, <1>6

LEMMA BoundaryLast ==
  ASSUME Typed
  PROVE  /\ Boundary.last = Len(stream) /\ Len(stream) \in Nat
         /\ Boundary.msgs = Cardinality({i \in DOMAIN stream : stream[i] # Gone})
BY DEF Boundary, Typed

\* What all has seen a history that has not changed is that history.
LEMMA SeenIsRetained ==
  ASSUME CoverageAssumption, Inv, pc \in HasBoundary, ~s.warned, s.events = Boundary,
         Len(s.seen) = s.events.last
  PROVE  /\ \A i \in 1..Len(stream) : stream[i] # Gone
         /\ Retained = {s.seen[i] : i \in 1..Len(s.seen)}
         /\ Boundary.msgs = Len(stream)
         /\ Len(s.seen) \in Nat /\ DOMAIN s.seen = 1..Len(s.seen)
         /\ s.seen \in Seq(Observations)
<1>1. /\ Boundary.msgs = Boundary.last /\ Len(s.seen) = Len(stream) /\ Boundary.msgs = Len(stream)
      /\ Len(stream) \in Nat
      /\ s.seen \in Seq(Observations)
      /\ \A i \in 1..Len(s.seen) : stream[i] \in {s.seen[i], Gone}
  BY BoundaryLast DEF Inv, Seen
<1>2. \A i \in 1..Len(stream) : stream[i] # Gone
  BY <1>1, BoundaryOfAll DEF Inv
<1>3. DOMAIN stream = 1..Len(stream) /\ DOMAIN s.seen = 1..Len(s.seen)
  BY <1>1 DEF Inv, Typed
<1>4. \A i \in 1..Len(stream) : stream[i] = s.seen[i]
  BY <1>1, <1>2
<1>5. Retained = {s.seen[i] : i \in 1..Len(s.seen)}
  BY <1>1, <1>2, <1>3, <1>4 DEF Retained
<1> QED BY <1>1, <1>2, <1>3, <1>5

-----------------------------------------------------------------------------
(* The verdict                                                             *)

LEMMA RecordOfTask ==
  ASSUME NEW tools, OneContract(tools), NEW w, NEW t \in tools, NEW e
  PROVE  Done(tools, w, WorkKey(t, e)) <=>
           \E r \in w : /\ r.key = WorkKey(t, e) /\ r.status = "completed"
                        /\ t.evidence => r.emitted > 0
<1>1. WorkKey(t, e)[1] = t.name
  BY DEF WorkKey
<1>2. \A u \in tools : u.name = WorkKey(t, e)[1] <=> u = t
  BY <1>1 DEF OneContract
<1> QED BY <1>2 DEF Done

\* What the snapshot plans is the plan of what it saw.
LEMMA PlanOfTheSeen ==
  ASSUME s.seen \in Seq(Observations)
  PROVE  /\ IsFiniteSet(Matched) /\ Matched \subseteq Observations
         /\ PlanOf(s.tools, ThePlan, Matched)
<1> DEFINE all == {s.seen[i] : i \in 1..Len(s.seen)}
<1>1. Len(s.seen) \in Nat /\ s.seen = [i \in 1..Len(s.seen) |-> s.seen[i]]
  OBVIOUS
<1>2. Matched = {e \in all : e \in Matched}
  BY DEF Matched, Selected
<1>3. IsFiniteSet(all)
  <2>1. IsFiniteSet(1..Len(s.seen))
    BY <1>1, FS_Interval
  <2> QED BY <1>1, <2>1, ImageIsFinite
<1>4. Matched \in SUBSET all
  BY <1>2
<1>5. IsFiniteSet(Matched)
  <2> HIDE DEF all
  <2> QED BY <1>3, <1>4, FS_Subset
<1>6. Matched \subseteq Observations
  BY <1>1, <1>4
<1>7. PlanOf(s.tools, ThePlan, {e \in all : e \in Matched})
  BY <1>1, PlannedIsOfTheSet DEF ThePlan
<1> QED BY <1>2, <1>5, <1>6, <1>7

\* The parts of a snapshot that saw the history as it is.
LEMMA PlanOfTheHistory ==
  ASSUME CoverageAssumption, Inv, pc \in HasBoundary, ~s.warned,
         s.events = Boundary,
         Len(s.seen) = s.events.last
  PROVE  /\ Matched = Selected(Retained) /\ IsFiniteSet(Matched) /\ Matched \subseteq Observations
         /\ PlanOf(s.tools, ThePlan, Matched)
BY SeenIsRetained, PlanOfTheSeen DEF Matched

\* The history that is due is what the selection takes in.
LEMMA DueIsSelected == Due = Selected(Retained)
<1> HIDE DEF Retained
<1> QED BY DEF Due, Selected

\* What TasksDone is about.
LEMMA TasksDoneOfMatched ==
  TasksDone <=>
    /\ Deployed(inventory, registered)
    /\ Cardinality({i \in DOMAIN stream : stream[i] # Gone}) = Len(stream)
    /\ \A e \in Selected(Retained) : e.gate.allow \subseteq NamesOf(registered)
    /\ Expected(registered, Selected(Retained)) # {}
    /\ \A t \in registered, e \in Selected(Retained) : Eligible(t, e) =>
         \E r \in work : /\ r.key = WorkKey(t, e) /\ r.status = "completed"
                         /\ t.evidence => r.emitted > 0
BY DueIsSelected DEF TasksDone, Deployed

LEMMA CountsAgree ==
  ASSUME NEW A, IsFiniteSet(A), NEW B, IsFiniteSet(B), NEW D \in SUBSET A
  PROVE  (/\ Cardinality(A) + Cardinality(B) > 0
          /\ Cardinality(D) = Cardinality(A) + Cardinality(B))
           <=> A # {} /\ B = {} /\ D = A
<1>1. /\ Cardinality(A) \in Nat /\ Cardinality(B) \in Nat
      /\ Cardinality(A) = 0 <=> A = {}
      /\ Cardinality(B) = 0 <=> B = {}
  BY FS_CardinalityType, FS_EmptySet
<1>2. Cardinality(D) \in Nat /\ Cardinality(D) <= Cardinality(A)
      /\ (Cardinality(A) = Cardinality(D) => A = D)
  BY FS_Subset, FS_CardinalityType
<1> QED BY <1>1, <1>2

\* A snapshot without a warning that has read every task, of stores that are as it read
\* them, counts all of its items as done when everything is, and otherwise only when
\* nothing but what the planner may overlook is missing.
LEMMA VerdictIsTrue ==
  ASSUME CoverageAssumption, Inv,
         pc \in HasPlan, s.todo = {}, ~s.warned,
         s.events = Boundary, registrySeq = s.registry, workSeq = s.work
  PROVE  /\ s.items > 0 /\ s.done = s.items => AllCertainDone
         /\ AllDone => s.items > 0 /\ s.done = s.items
<1> DEFINE M == Selected(Retained)
           ready == Expected(registered, M)
           D == {k \in ready : Done(registered, work, k)}
<1>1. /\ pc \in HasBoundary /\ pc \in HasTools /\ pc \in HasInventory
      /\ Len(s.seen) = s.events.last
  BY DEF Inv, Seen, HasPlan, HasLedger, HasBoundary, HasInventory
<1>2. s.tools = registered /\ Deployed(inventory, registered)
  BY <1>1 DEF Inv, Vouched
<1>3. IsFiniteSet(registered) /\ OneContract(registered)
  BY DEF Inv, Typed
<1>4. /\ Matched = M /\ IsFiniteSet(M) /\ M \subseteq Observations
      /\ PlanOf(registered, ThePlan, M)
  BY <1>1, <1>2, PlanOfTheHistory
<1>5. \A e \in M : e.kind = "domain" => ~e.alive
  BY <1>4 DEF CoverageAssumption
<1>7. ThePlan.ready = ready
  BY <1>4, ReadyIsExpected
<1>8. /\ StillBlocked(ThePlan) = {} => Certain(registered, M) = {}
      /\ Missing(registered, M) = {} => StillBlocked(ThePlan) = {}
  <2> HIDE DEF M
  <2>1. {<<b.key, b.why>> : b \in StillBlocked(ThePlan)} \subseteq Missing(registered, M)
    BY <1>3, <1>4, <1>5, BlockedIsMissing
  <2>2. Certain(registered, M) \subseteq {<<b.key, b.why>> : b \in StillBlocked(ThePlan)}
    BY <1>3, <1>4, <1>5, CertainIsBlocked
  <2> QED BY <2>1, <2>2
<1>9. IsFiniteSet(ready) /\ IsFiniteSet(StillBlocked(ThePlan))
  <2> HIDE DEF M
  <2> QED BY <1>3, <1>4, <1>5, ExpectedIsFinite, BlockedIsFinite
<1>10. /\ s.items = Cardinality(ready) + Cardinality(StillBlocked(ThePlan))
       /\ s.done = Cardinality(D)
       /\ ThePlan.unknown = {}
  BY <1>2, <1>7 DEF Inv, Counted
<1>11. s.items > 0 /\ s.done = s.items <=> ready # {} /\ StillBlocked(ThePlan) = {} /\ D = ready
  <2>1. D \in SUBSET ready
    OBVIOUS
  <2> HIDE DEF D, ready
  <2> QED BY <1>9, <1>10, <2>1, CountsAgree
<1>12. D = ready <=>
         \A t \in registered, e \in M : Eligible(t, e) =>
           \E r \in work : /\ r.key = WorkKey(t, e) /\ r.status = "completed"
                           /\ t.evidence => r.emitted > 0
  <2>1. \A t \in registered, e \in M : Eligible(t, e) => WorkKey(t, e) \in ready
    <3> SUFFICES ASSUME NEW t \in registered, NEW e \in M, Eligible(t, e)
                 PROVE  WorkKey(t, e) \in ready
      OBVIOUS
    <3> HIDE DEF M
    <3> DEFINE x == <<t, e>>
    <3>1. x \in registered \X M /\ x[1] = t /\ x[2] = e
      OBVIOUS
    <3> HIDE DEF x
    <3> QED BY <3>1 DEF Expected
  <2>2. \A k \in ready : \E t \in registered, e \in M : Eligible(t, e) /\ k = WorkKey(t, e)
    <3> HIDE DEF M
    <3> SUFFICES ASSUME NEW k \in ready
                 PROVE  \E t \in registered, e \in M : Eligible(t, e) /\ k = WorkKey(t, e)
      OBVIOUS
    <3>1. PICK x \in registered \X M : Eligible(x[1], x[2]) /\ k = WorkKey(x[1], x[2])
      BY DEF Expected
    <3>2. x[1] \in registered /\ x[2] \in M
      OBVIOUS
    <3> QED BY <3>1, <3>2
  <2>3. D = ready <=> \A k \in ready : Done(registered, work, k)
    OBVIOUS
  <2>4. D = ready <=>
          \A t \in registered, e \in M : Eligible(t, e) => Done(registered, work, WorkKey(t, e))
    <3> HIDE DEF ready, M, D
    <3> QED BY <2>1, <2>2, <2>3
  <2>5. \A t \in registered, e \in M : Done(registered, work, WorkKey(t, e)) <=>
           \E r \in work : /\ r.key = WorkKey(t, e) /\ r.status = "completed"
                           /\ t.evidence => r.emitted > 0
    BY <1>3, RecordOfTask
  <2> HIDE DEF ready, M, D
  <2> QED BY <2>4, <2>5
<1>13. \A e \in M : e.gate.allow \subseteq NamesOf(registered)
  <2>1. \A e \in M : Unlisted(registered, e) = {}
    BY <1>4, <1>10 DEF PlanOf
  <2> QED BY <2>1 DEF Unlisted, NamesOf
<1>14. Cardinality({i \in DOMAIN stream : stream[i] # Gone}) = Len(stream)
  BY <1>1, SeenIsRetained, BoundaryLast DEF Inv
<1> HIDE DEF ready, M, D
<1>15. TasksDone <=> ready # {} /\ D = ready
  BY <1>2, <1>12, <1>13, <1>14, TasksDoneOfMatched DEF ready, M
<1>16. Due = M
  BY DueIsSelected DEF M
<1> QED BY <1>8, <1>11, <1>15, <1>16 DEF AllDone, AllCertainDone

-----------------------------------------------------------------------------
(* The steps of the snapshot                                               *)

Watches == moved' = moved /\ wasComplete' = (wasComplete \/ AllCertainDone)

LEMMA SameWorld ==
  ASSUME UNCHANGED world
  PROVE  /\ (TasksDone' <=> TasksDone) /\ (AllDone' <=> AllDone) /\ (AllCertainDone' <=> AllCertainDone)
         /\ Boundary' = Boundary
BY DEF world, TasksDone, AllDone, AllCertainDone, Due, Retained, Boundary

LEMMA StartKeeps ==
  ASSUME Inv, Start, Watches
  PROVE  Inv'
<1>1. /\ UNCHANGED world /\ complete' = complete /\ pc' = "registrations" /\ pc = "idle"
      /\ s'.registry = registrySeq /\ s'.warned = s.warned /\ s'.stable = s.stable
      /\ s'.tools = s.tools /\ Shape' /\ s'.done = s.done /\ s'.seen = s.seen
  BY DEF Inv, Typed, Shape, Start, Goto
<1>2. Typed'
  BY <1>1 DEF Inv, Typed, Watches, Started, world
<1>3. Vouched' /\ NothingSeen' /\ Seen' /\ Counted'
  BY <1>1 DEF Inv, Typed, Vouched, NothingSeen, Seen, Counted, Started, HasTools, HasInventory,
              HasBoundary, HasLedger, HasPlan, world
<1>4. Certified'
  BY <1>1 DEF Inv, Certified, Watches
<1>5. Undisturbed'
  BY <1>1 DEF Undisturbed, Started, HasTools, HasInventory, HasBoundary, HasLedger, HasPlan, world
<1> QED BY <1>2, <1>3, <1>4, <1>5 DEF Inv

LEMMA ReadRegistrationsKeeps ==
  ASSUME Inv, ReadRegistrations, Watches
  PROVE  Inv'
<1>1. /\ UNCHANGED world /\ complete' = complete /\ pc' = "inventory" /\ pc = "registrations"
      /\ s'.registry = s.registry /\ s'.warned = s.warned /\ s'.stable = s.stable
      /\ s'.tools = registered /\ Shape' /\ s'.done = s.done /\ s'.seen = s.seen
  BY DEF Inv, Typed, Shape, ReadRegistrations, Goto
<1>2. Typed'
  BY <1>1 DEF Inv, Typed, Watches, Started, world
<1>3. Vouched' /\ NothingSeen' /\ Seen' /\ Counted'
  BY <1>1 DEF Inv, Typed, Vouched, NothingSeen, Seen, Counted, Started, HasTools, HasInventory,
              HasBoundary, HasLedger, HasPlan, world
<1>4. Certified'
  BY <1>1 DEF Inv, Certified, Watches
<1>5. Undisturbed'
  BY <1>1 DEF Inv, Undisturbed, Started, HasTools, HasInventory, HasBoundary, HasLedger, HasPlan,
              world, Watches
<1> QED BY <1>2, <1>3, <1>4, <1>5 DEF Inv

LEMMA ReadInventoryKeeps ==
  ASSUME Inv, ReadInventory, Watches
  PROVE  Inv'
<1>1. /\ UNCHANGED world /\ complete' = complete /\ pc' = "boundary" /\ pc = "inventory"
      /\ s'.registry = s.registry /\ s'.warned = ~Deployed(inventory, s.tools)
      /\ s'.stable = s.stable /\ s'.tools = s.tools /\ Shape' /\ s'.done = s.done /\ s'.seen = s.seen
  BY DEF Inv, Typed, Shape, ReadInventory, Goto
<1>2. Typed'
  BY <1>1 DEF Inv, Typed, Watches, Started, world
<1>3. Vouched' /\ NothingSeen' /\ Seen' /\ Counted'
  BY <1>1 DEF Inv, Typed, Vouched, NothingSeen, Seen, Counted, Started, HasTools, HasInventory,
              HasBoundary, HasLedger, HasPlan, world
<1>4. Certified'
  BY <1>1 DEF Inv, Certified, Watches
<1>5. ASSUME ~moved, s'.warned PROVE ~TasksDone
  <2>1. s.tools = registered
    BY <1>1, <1>5 DEF Inv, Undisturbed, Vouched, Started, HasTools
  <2> QED BY <1>1, <1>5, <2>1, TasksDoneOfMatched
<1>6. Undisturbed'
  BY <1>1, <1>5, SameWorld DEF Inv, Undisturbed, Started, HasTools, HasInventory, HasBoundary,
              HasLedger, HasPlan, world, Watches
<1> QED BY <1>2, <1>3, <1>4, <1>6 DEF Inv

LEMMA ReadBoundaryKeeps ==
  ASSUME Inv, ReadBoundary, Watches
  PROVE  Inv'
<1>1. /\ UNCHANGED world /\ complete' = complete /\ pc' = "ledger" /\ pc = "boundary"
      /\ s'.registry = s.registry /\ s'.warned = (s.warned \/ Boundary.msgs # Boundary.last)
      /\ s'.stable = s.stable /\ s'.tools = s.tools /\ Shape' /\ s'.done = s.done
      /\ s'.events = Boundary /\ s'.seq = Boundary.first /\ s'.seen = s.seen
  BY DEF Inv, Typed, Shape, ReadBoundary, Goto
<1>2. Typed'
  BY <1>1 DEF Inv, Typed, Watches, Started, world
<1>3. Vouched' /\ NothingSeen' /\ Counted'
  BY <1>1 DEF Inv, Typed, Vouched, NothingSeen, Counted, Started, HasTools, HasInventory, HasBoundary,
              HasLedger, HasPlan, world
<1>4. Seen'
  <2> SUFFICES ASSUME ~s'.warned
               PROVE /\ s'.events.last \in Nat /\ s'.events.last <= Len(stream')
                     /\ s'.events.msgs = s'.events.last
                     /\ s'.seen \in Seq(Observations) /\ Len(s'.seen) <= s'.events.last
                     /\ s'.seq = Len(s'.seen) + 1
                     /\ \A i \in 1..Len(s'.seen) : stream'[i] \in {s'.seen[i], Gone}
    BY <1>1 DEF Seen, HasTools, HasInventory, HasBoundary, HasLedger, HasPlan, Started
  <2>1. Boundary.msgs = Boundary.last
    BY <1>1
  <2>2. Boundary.first = 1
    BY <2>1, BoundaryOfAll DEF Inv
  <2>3. s'.seen = <<>>
    BY <1>1 DEF Inv, NothingSeen, Started, HasTools, HasInventory, HasBoundary
  <2>4. Boundary.last = Len(stream) /\ Len(stream) \in Nat /\ stream' = stream
    BY <1>1, BoundaryLast DEF Inv, world
  <2> QED BY <1>1, <2>1, <2>2, <2>3, <2>4
<1>5. Certified'
  BY <1>1 DEF Inv, Certified, Watches
<1>6. ASSUME ~moved, s'.warned PROVE ~TasksDone
  <2>1. s.warned => ~TasksDone
    BY <1>1, <1>6 DEF Inv, Undisturbed, Started, HasTools, HasInventory
  <2>2. Boundary.msgs # Boundary.last => ~TasksDone
    BY BoundaryLast, TasksDoneOfMatched DEF Inv
  <2> QED BY <1>1, <1>6, <2>1, <2>2
<1>7. Undisturbed'
  BY <1>1, <1>6, SameWorld DEF Inv, Undisturbed, Started, HasTools, HasInventory, HasBoundary,
              HasLedger, HasPlan, world, Watches
<1> QED BY <1>2, <1>3, <1>4, <1>5, <1>7 DEF Inv

LEMMA ReadLedgerKeeps ==
  ASSUME Inv, ReadLedger, Watches
  PROVE  Inv'
<1>1. /\ UNCHANGED world /\ complete' = complete /\ pc' = "events" /\ pc = "ledger"
      /\ s'.registry = s.registry /\ s'.warned = s.warned /\ s'.work = workSeq
      /\ s'.stable = s.stable /\ s'.tools = s.tools /\ Shape' /\ s'.done = s.done
      /\ s'.events = s.events /\ s'.seq = s.seq /\ s'.seen = s.seen
  BY DEF Inv, Typed, Shape, ReadLedger, Goto
<1>2. Typed'
  BY <1>1 DEF Inv, Typed, Watches, Started, world
<1>3. Vouched' /\ NothingSeen' /\ Counted'
  BY <1>1 DEF Inv, Typed, Vouched, NothingSeen, Counted, Started, HasTools, HasInventory, HasBoundary,
              HasLedger, HasPlan, world
<1>4. Seen'
  BY <1>1 DEF Inv, Seen, HasTools, HasInventory, HasBoundary, HasLedger, HasPlan, Started, world
<1>5. Certified'
  BY <1>1 DEF Inv, Certified, Watches
<1>6. Undisturbed'
  BY <1>1, SameWorld DEF Inv, Undisturbed, Started, HasTools, HasInventory, HasBoundary,
              HasLedger, HasPlan, world, Watches
<1> QED BY <1>2, <1>3, <1>4, <1>5, <1>6 DEF Inv

\* An event that is gone when its turn comes was there at the boundary, or has called
\* for a warning.
LEMMA ReadEventKeeps ==
  ASSUME Inv, ReadEvent, Watches
  PROVE  Inv'
<1>1. /\ UNCHANGED world /\ complete' = complete /\ pc' = "events" /\ pc = "events"
      /\ s.seq <= s.events.last
      /\ s'.registry = s.registry /\ s'.work = s.work
      /\ s'.stable = s.stable /\ s'.tools = s.tools /\ Shape' /\ s'.done = s.done
      /\ s'.events = s.events /\ s'.seq = s.seq + 1
      /\ s'.warned = (s.warned \/ stream[s.seq] = Gone)
      /\ stream[s.seq] # Gone => s'.seen = Append(s.seen, stream[s.seq])
  BY DEF Inv, Typed, Shape, ReadEvent, Goto
<1>2. Typed'
  BY <1>1 DEF Inv, Typed, Watches, Started, world
<1>3. Vouched' /\ NothingSeen' /\ Counted'
  BY <1>1 DEF Inv, Typed, Vouched, NothingSeen, Counted, Started, HasTools, HasInventory, HasBoundary,
              HasLedger, HasPlan, world
<1>4. pc \in HasBoundary /\ pc \notin HasPlan
  BY <1>1 DEF HasTools, HasInventory, HasBoundary, HasLedger, HasPlan, Started
<1>5. Seen'
  <2> SUFFICES ASSUME ~s'.warned
               PROVE /\ s'.events.last \in Nat /\ s'.events.last <= Len(stream')
                     /\ s'.events.msgs = s'.events.last
                     /\ s'.seen \in Seq(Observations) /\ Len(s'.seen) <= s'.events.last
                     /\ s'.seq = Len(s'.seen) + 1
                     /\ \A i \in 1..Len(s'.seen) : stream'[i] \in {s'.seen[i], Gone}
    BY <1>1, <1>4 DEF Seen
  <2>1. /\ s.events.last \in Nat /\ s.events.last <= Len(stream) /\ s.events.msgs = s.events.last
        /\ s.seen \in Seq(Observations) /\ s.seq = Len(s.seen) + 1
        /\ \A i \in 1..Len(s.seen) : stream[i] \in {s.seen[i], Gone}
    BY <1>1, <1>4 DEF Inv, Seen
  <2>2. stream' = stream /\ stream \in Seq(Observations \cup {Gone})
    BY <1>1 DEF Inv, Typed, world
  <2>3. Len(s.seen) \in Nat /\ s.seq \in 1..Len(stream)
    BY <1>1, <2>1, <2>2
  <2>4. stream[s.seq] \in Observations /\ s'.seen = Append(s.seen, stream[s.seq])
    <3>1. stream[s.seq] \in Observations \cup {Gone}
      BY <2>2, <2>3
    <3>2. stream[s.seq] # Gone
      BY <1>1
    <3> QED BY <1>1, <3>1, <3>2
  <2>5. /\ s'.seen \in Seq(Observations) /\ Len(s'.seen) = Len(s.seen) + 1
        /\ s'.seen[Len(s.seen) + 1] = stream[s.seq]
        /\ \A i \in 1..Len(s.seen) : s'.seen[i] = s.seen[i]
    BY <2>1, <2>4
  <2>6. ASSUME NEW i \in 1..Len(s'.seen) PROVE stream'[i] \in {s'.seen[i], Gone}
    <3>1. i \in 1..Len(s.seen) \/ i = s.seq
      BY <2>1, <2>3, <2>5
    <3> QED BY <2>1, <2>2, <2>5, <3>1
  <2> QED BY <1>1, <2>1, <2>2, <2>3, <2>5, <2>6
<1>6. Certified'
  BY <1>1 DEF Inv, Certified, Watches
<1>7. ASSUME ~moved, s'.warned PROVE ~TasksDone
  <2>1. CASE s.warned
    BY <1>1, <1>7, <2>1 DEF Inv, Undisturbed, Started, HasTools, HasInventory
  <2>2. CASE ~s.warned
    <3>1. /\ s.events = Boundary /\ s.events.msgs = s.events.last
          /\ s.seen \in Seq(Observations) /\ s.seq = Len(s.seen) + 1
      BY <1>4, <1>7, <2>2 DEF Inv, Undisturbed, Seen
    <3>2. s.seq \in 1..Len(stream)
      BY <1>1, <3>1, BoundaryLast DEF Inv
    <3>3. stream[s.seq] # Gone
      BY <3>1, <3>2, BoundaryOfAll DEF Inv
    <3> QED BY <1>1, <1>7, <2>2, <3>3
  <2> QED BY <2>1, <2>2
<1>8. Undisturbed'
  BY <1>1, <1>7, SameWorld DEF Inv, Undisturbed, Started, HasTools, HasInventory, HasBoundary,
              HasLedger, HasPlan, world, Watches
<1> QED BY <1>2, <1>3, <1>5, <1>6, <1>8 DEF Inv

LEMMA PlanKeeps ==
  ASSUME CoverageAssumption, Inv, Plan, Watches
  PROVE  Inv'
<1> DEFINE matched == Selected({s.seen[i] : i \in DOMAIN s.seen})
           made    == Planned(s.tools, matched, s.seen)
<1>1. /\ UNCHANGED world /\ complete' = complete /\ pc' = "items" /\ pc = "events"
      /\ s.seq > s.events.last
      /\ s'.registry = s.registry /\ s'.work = s.work
      /\ s'.stable = s.stable /\ s'.tools = s.tools /\ Shape' /\ s'.done = s.done
      /\ s'.events = s.events /\ s'.seq = s.seq /\ s'.seen = s.seen
      /\ s'.warned = (s.warned \/ matched = {} \/ made.unknown # {})
      /\ s'.todo = made.ready
      /\ s'.items = Cardinality(made.ready) + Cardinality(StillBlocked(made))
  BY DEF Inv, Typed, Shape, Plan, Goto
<1>2. Typed'
  BY <1>1 DEF Inv, Typed, Watches, Started, world
<1>3. Vouched' /\ NothingSeen'
  BY <1>1 DEF Inv, Typed, Vouched, NothingSeen, Started, HasTools, HasInventory, HasBoundary,
              HasLedger, HasPlan, world
<1>4. pc \in HasBoundary /\ pc \notin HasPlan
  BY <1>1 DEF HasTools, HasInventory, HasBoundary, HasLedger, HasPlan, Started
<1>5. ASSUME ~s.warned
      PROVE  /\ s.seen \in Seq(Observations) /\ Len(s.seen) = s.events.last
             /\ matched = Matched /\ made = ThePlan
  <2>1. /\ s.events.last \in Nat /\ s.seen \in Seq(Observations) /\ Len(s.seen) <= s.events.last
        /\ s.seq = Len(s.seen) + 1
    BY <1>4, <1>5 DEF Inv, Seen
  <2>2. Len(s.seen) \in Nat /\ DOMAIN s.seen = 1..Len(s.seen)
    BY <2>1
  <2>3. matched = Matched
    BY <2>2 DEF Matched
  <2> QED BY <1>1, <2>1, <2>2, <2>3 DEF ThePlan
<1> HIDE DEF matched, made
<1>6. Seen'
  BY <1>1, <1>4, <1>5 DEF Inv, Seen, HasTools, HasInventory, HasBoundary, HasLedger, HasPlan,
                          Started, world
<1>7. Counted'
  <2> SUFFICES ASSUME ~s'.warned
               PROVE  /\ Matched' # {} /\ ThePlan'.unknown = {}
                      /\ s'.todo \subseteq ThePlan'.ready
                      /\ s'.items = Cardinality(ThePlan'.ready) + Cardinality(StillBlocked(ThePlan'))
                      /\ s'.done = Cardinality({k \in ThePlan'.ready \ s'.todo :
                                                   Done(s'.tools, work', k)})
    BY <1>1 DEF Counted
  <2>1. Matched' = matched /\ ThePlan' = made
    BY <1>1, <1>5 DEF Matched, ThePlan
  <2>2. {k \in made.ready \ s'.todo : Done(s'.tools, work', k)} = {}
    BY <1>1
  <2>3. s.done = 0
    BY <1>1 DEF Inv, NothingSeen, Started, HasPlan, HasLedger, HasBoundary, HasInventory, HasTools
  <2> QED BY <1>1, <2>1, <2>2, <2>3, FS_EmptySet
<1>8. Certified'
  BY <1>1 DEF Inv, Certified, Watches
<1>9. ASSUME ~moved, s'.warned PROVE ~TasksDone
  <2>1. CASE s.warned
    BY <1>1, <1>9, <2>1 DEF Inv, Undisturbed, Started, HasTools, HasInventory
  <2>2. CASE ~s.warned
    <3>1. s.events = Boundary /\ registrySeq = s.registry
      BY <1>4, <1>1, <1>9 DEF Inv, Undisturbed, Started
    <3>2. s.tools = registered
      BY <1>1, <3>1 DEF Inv, Vouched, Started, HasTools
    <3>3. Matched = Selected(Retained) /\ PlanOf(registered, ThePlan, Matched)
      BY <1>4, <1>5, <2>2, <3>1, <3>2, PlanOfTheHistory
    <3>4. CASE matched = {}
      <4>1. Expected(registered, Selected(Retained)) = {}
        BY <1>5, <2>2, <3>3, <3>4 DEF Expected
      <4> QED BY <4>1, TasksDoneOfMatched
    <3>5. CASE made.unknown # {}
      <4>1. PICK e \in Selected(Retained) : Unlisted(registered, e) # {}
        BY <1>5, <2>2, <3>3, <3>5 DEF PlanOf
      <4>2. ~(e.gate.allow \subseteq NamesOf(registered))
        BY <4>1 DEF Unlisted, NamesOf
      <4> QED BY <4>2, TasksDoneOfMatched
    <3> QED BY <1>1, <1>9, <2>2, <3>4, <3>5
  <2> QED BY <2>1, <2>2
<1>10. Undisturbed'
  <2>1. ~moved => s.stable
    BY <1>1 DEF Inv, NothingSeen, Started, HasPlan, HasLedger, HasBoundary, HasInventory, HasTools
  <2> QED BY <1>1, <1>9, <2>1, SameWorld DEF Inv, Undisturbed, Started, HasTools, HasInventory,
              HasBoundary, HasLedger, HasPlan, world, Watches
<1> QED BY <1>2, <1>3, <1>6, <1>7, <1>8, <1>10 DEF Inv

LEMMA ReadTaskKeeps ==
  ASSUME CoverageAssumption, Inv, NEW k \in s.todo, ReadTask(k), Watches
  PROVE  Inv'
<1>1. /\ UNCHANGED world /\ complete' = complete /\ pc' = "items" /\ pc = "items"
      /\ s'.registry = s.registry /\ s'.work = s.work /\ s'.warned = s.warned
      /\ s'.stable = s.stable /\ s'.tools = s.tools /\ Shape'
      /\ s'.events = s.events /\ s'.seq = s.seq /\ s'.seen = s.seen
      /\ s'.todo = s.todo \ {k} /\ s'.items = s.items
      /\ s'.done = IF Done(s.tools, work, k) THEN s.done + 1 ELSE s.done
  BY DEF Inv, Typed, Shape, ReadTask, Goto
<1>2. Typed'
  BY <1>1 DEF Inv, Typed, Watches, Started, world
<1>3. Vouched' /\ NothingSeen'
  BY <1>1 DEF Inv, Typed, Vouched, NothingSeen, Started, HasTools, HasInventory, HasBoundary,
              HasLedger, HasPlan, world
<1>4. pc \in HasBoundary /\ pc \in HasPlan
  BY <1>1 DEF HasTools, HasInventory, HasBoundary, HasLedger, HasPlan, Started
<1>5. Seen'
  BY <1>1 DEF Inv, Seen, HasTools, HasInventory, HasBoundary, HasLedger, HasPlan, Started, world
<1>6. Matched' = Matched /\ ThePlan' = ThePlan
  BY <1>1 DEF Matched, ThePlan
<1>7. Counted'
  <2> DEFINE did(todo) == {j \in ThePlan.ready \ todo : Done(s.tools, work, j)}
  <2> SUFFICES ASSUME ~s.warned
               PROVE  /\ Matched # {} /\ ThePlan.unknown = {}
                      /\ s'.todo \subseteq ThePlan.ready
                      /\ s.items = Cardinality(ThePlan.ready) + Cardinality(StillBlocked(ThePlan))
                      /\ workSeq = s.work => s'.done = Cardinality(did(s'.todo))
    BY <1>1, <1>6 DEF Counted, world
  <2>1. /\ Matched # {} /\ ThePlan.unknown = {} /\ s.todo \subseteq ThePlan.ready
        /\ s.items = Cardinality(ThePlan.ready) + Cardinality(StillBlocked(ThePlan))
        /\ workSeq = s.work => s.done = Cardinality(did(s.todo))
    BY <1>4 DEF Inv, Counted
  <2>2. IsFiniteSet(did(s.todo))
    <3>1. s.seen \in Seq(Observations) /\ IsFiniteSet(s.tools)
      BY <1>4 DEF Inv, Seen, Typed
    <3>2. IsFiniteSet(ThePlan.ready)
      BY <3>1, PlanOfTheSeen, ReadyIsExpected, ExpectedIsFinite
    <3>3. did(s.todo) \in SUBSET ThePlan.ready
      OBVIOUS
    <3> HIDE DEF did
    <3> QED BY <3>2, <3>3, FS_Subset
  <2>3. did(s'.todo) = IF Done(s.tools, work, k) THEN did(s.todo) \cup {k} ELSE did(s.todo)
    BY <1>1, <2>1
  <2>4. k \notin did(s.todo)
    OBVIOUS
  <2>5. workSeq = s.work => s'.done = Cardinality(did(s'.todo))
    <3> DEFINE A == did(s.todo)
               B == did(s'.todo)
    <3>1. /\ workSeq = s.work => s.done = Cardinality(A)
          /\ IsFiniteSet(A) /\ k \notin A
          /\ B = IF Done(s.tools, work, k) THEN A \cup {k} ELSE A
      BY <2>1, <2>2, <2>3, <2>4
    <3> HIDE DEF A, B
    <3>2. Cardinality(A \cup {k}) = Cardinality(A) + 1
      BY <3>1, FS_AddElement
    <3>3. workSeq = s.work => s'.done = Cardinality(B)
      BY <1>1, <3>1, <3>2
    <3> QED BY <3>3 DEF B
  <2> QED BY <1>1, <2>1, <2>5
<1>8. Certified'
  BY <1>1 DEF Inv, Certified, Watches
<1>9. Undisturbed'
  BY <1>1, SameWorld DEF Inv, Undisturbed, Started, HasTools, HasInventory,
              HasBoundary, HasLedger, HasPlan, world, Watches
<1> QED BY <1>2, <1>3, <1>5, <1>7, <1>8, <1>9 DEF Inv

LEMMA ReadEventsEndKeeps ==
  ASSUME CoverageAssumption, Inv, ReadEventsEnd, Watches
  PROVE  Inv'
<1>1. /\ UNCHANGED world /\ complete' = complete /\ pc' = "ledger end" /\ pc = "items"
      /\ s.todo = {} /\ s'.todo = s.todo /\ s'.items = s.items /\ s'.done = s.done
      /\ s'.registry = s.registry /\ s'.work = s.work /\ s'.warned = s.warned
      /\ s'.tools = s.tools /\ s'.events = s.events /\ s'.seq = s.seq /\ s'.seen = s.seen
      /\ s'.stable = (Boundary = s.events) /\ Shape'
  BY DEF Inv, Typed, Shape, ReadEventsEnd, SameHistory, Goto
<1>2. Typed'
  BY <1>1 DEF Inv, Typed, Watches, Started, world
<1>3. Vouched' /\ NothingSeen' /\ Seen'
  BY <1>1 DEF Inv, Typed, Vouched, NothingSeen, Seen, Started, HasTools, HasInventory, HasBoundary,
              HasLedger, HasPlan, world
<1>4. Counted'
  <2>1. Matched' = Matched /\ ThePlan' = ThePlan
    BY <1>1 DEF Matched, ThePlan
  <2> QED BY <1>1, <2>1 DEF Inv, Counted, Started, HasTools, HasInventory, HasBoundary, HasLedger,
                            HasPlan, world
<1>5. ASSUME Verdict', workSeq = s.work, registrySeq = s.registry
      PROVE  AllCertainDone
  <2>1. s'.stable /\ ~s.warned /\ s.items > 0 /\ s.done = s.items
    BY <1>1, <1>5 DEF Verdict
  <2>2. pc \in HasPlan /\ s.events = Boundary
    BY <1>1, <2>1 DEF Started, HasTools, HasInventory, HasBoundary, HasLedger, HasPlan
  <2> QED BY <1>1, <1>5, <2>1, <2>2, VerdictIsTrue
<1>6. Certified'
  BY <1>1, <1>5 DEF Inv, Certified, Watches, world
<1>7. Undisturbed'
  BY <1>1, SameWorld DEF Inv, Undisturbed, Started, HasTools, HasInventory,
              HasBoundary, HasLedger, HasPlan, world, Watches
<1> QED BY <1>2, <1>3, <1>4, <1>6, <1>7 DEF Inv

LEMMA ReadLedgerEndKeeps ==
  ASSUME Inv, ReadLedgerEnd, Watches
  PROVE  Inv'
<1>1. /\ UNCHANGED world /\ complete' = complete /\ pc' = "registry end" /\ pc = "ledger end"
      /\ s'.todo = s.todo /\ s'.items = s.items /\ s'.done = s.done
      /\ s'.registry = s.registry /\ s'.work = s.work /\ s'.warned = s.warned
      /\ s'.tools = s.tools /\ s'.events = s.events /\ s'.seq = s.seq /\ s'.seen = s.seen
      /\ s'.stable = (s.stable /\ workSeq = s.work) /\ Shape'
  BY DEF Inv, Typed, Shape, ReadLedgerEnd, Goto
<1>2. Typed'
  BY <1>1 DEF Inv, Typed, Watches, Started, world
<1>3. Vouched' /\ NothingSeen' /\ Seen'
  BY <1>1 DEF Inv, Typed, Vouched, NothingSeen, Seen, Started, HasTools, HasInventory, HasBoundary,
              HasLedger, HasPlan, world
<1>4. Counted'
  <2>1. Matched' = Matched /\ ThePlan' = ThePlan
    BY <1>1 DEF Matched, ThePlan
  <2> QED BY <1>1, <2>1 DEF Inv, Counted, Started, HasTools, HasInventory, HasBoundary, HasLedger,
                            HasPlan, world
<1>5. Verdict' => Verdict /\ workSeq = s.work
  BY <1>1 DEF Verdict
<1>6. Certified'
  BY <1>1, <1>5 DEF Inv, Certified, Watches, world
<1>7. Undisturbed'
  BY <1>1, SameWorld DEF Inv, Undisturbed, Started, HasTools, HasInventory,
              HasBoundary, HasLedger, HasPlan, world, Watches
<1> QED BY <1>2, <1>3, <1>4, <1>6, <1>7 DEF Inv

LEMMA ReadRegistryEndKeeps ==
  ASSUME CoverageAssumption, Inv, ReadRegistryEnd, Watches
  PROVE  Inv'
<1>1. /\ UNCHANGED world /\ pc' = "reported" /\ pc = "registry end"
      /\ s'.tools = s.tools /\ s'.warned = s.warned
      /\ s'.stable = (s.stable /\ registrySeq = s.registry) /\ Shape'
      /\ complete' = (s'.stable /\ ~s.warned /\ s.items > 0 /\ s.done = s.items)
  BY DEF Inv, Typed, Shape, ReadRegistryEnd
<1>2. Typed'
  BY <1>1 DEF Inv, Typed, Watches, Started, world
<1>3. Vouched' /\ NothingSeen' /\ Seen' /\ Counted'
  BY <1>1 DEF Inv, Vouched, NothingSeen, Seen, Counted, Started, HasTools, HasInventory,
              HasBoundary, HasLedger, HasPlan
<1>4. Certified'
  <2>1. complete' => Verdict /\ registrySeq = s.registry
    BY <1>1 DEF Verdict
  <2> QED BY <1>1, <2>1 DEF Inv, Certified, Watches
<1>5. ASSUME ~moved PROVE (AllDone => complete') /\ (complete' => AllCertainDone)
  <2>1. /\ pc \in HasPlan /\ pc \in HasInventory /\ pc \in HasBoundary /\ pc \in HasLedger
        /\ pc \in Started /\ pc # "items"
    BY <1>1 DEF Started, HasTools, HasInventory, HasBoundary, HasLedger, HasPlan
  <2>2. /\ registrySeq = s.registry /\ workSeq = s.work /\ s.events = Boundary /\ s.stable
        /\ s.warned => ~TasksDone
    BY <1>5, <2>1 DEF Inv, Undisturbed
  <2>3. CASE s.warned
    BY <1>1, <2>2, <2>3 DEF AllDone
  <2>4. CASE ~s.warned
    <3>1. s.todo = {}
      BY <2>1, <2>4 DEF Inv, Counted
    <3>2. /\ s.items > 0 /\ s.done = s.items => AllCertainDone
          /\ AllDone => s.items > 0 /\ s.done = s.items
      BY <2>1, <2>2, <2>4, <3>1, VerdictIsTrue
    <3> QED BY <1>1, <2>2, <2>4, <3>2
  <2> QED BY <2>3, <2>4
<1>6. Undisturbed'
  BY <1>1, <1>5, SameWorld DEF Undisturbed, Started, HasTools, HasInventory,
              HasBoundary, HasLedger, HasPlan, Watches
<1> QED BY <1>2, <1>3, <1>4, <1>6 DEF Inv

LEMMA FailKeeps ==
  ASSUME Inv, Fail, Watches
  PROVE  Inv'
<1>1. UNCHANGED world /\ complete' = complete /\ pc' = "failed" /\ s' = Unread
  BY DEF Fail, Goto
<1>2. Typed'
  <2>1. Shape' /\ s'.warned \in BOOLEAN /\ s'.stable \in BOOLEAN /\ s'.tools = {}
    BY <1>1 DEF Shape, Unread
  <2> QED BY <1>1, <2>1, FS_EmptySet DEF Inv, Typed, Watches, Started, world
<1> QED BY <1>1, <1>2 DEF Inv, Vouched, NothingSeen, Seen, Counted, Certified, Undisturbed,
        Started, HasTools, HasInventory, HasBoundary, HasLedger, HasPlan, Watches

-----------------------------------------------------------------------------
(* The steps of everything else                                            *)

\* The sequence of a store changes with it; of the stream nothing but what is removed
\* changes its place.
LEMMA Changed ==
  ASSUME CoverageAssumption, Typed, Change
  PROVE  /\ stream' \in Seq(Observations \cup {Gone}) /\ Len(stream) <= Len(stream')
         /\ \A i \in 1..Len(stream) : stream'[i] \in {stream[i], Gone}
         /\ registrySeq' \in Nat /\ registrySeq <= registrySeq'
         /\ registrySeq' = registrySeq => registered' = registered /\ inventory' = inventory
         /\ workSeq' \in Nat /\ workSeq <= workSeq' /\ (workSeq' = workSeq => work' = work)
         /\ IsFiniteSet(registered') /\ OneContract(registered')
<1> DEFINE Kept == stream' = stream
           Same == registered' = registered /\ inventory' = inventory /\ registrySeq' = registrySeq
           Idle == work' = work /\ workSeq' = workSeq
           Goal == /\ stream' \in Seq(Observations \cup {Gone}) /\ Len(stream) <= Len(stream')
                   /\ \A i \in 1..Len(stream) : stream'[i] \in {stream[i], Gone}
                   /\ registrySeq' \in Nat /\ registrySeq <= registrySeq'
                   /\ registrySeq' = registrySeq =>
                        registered' = registered /\ inventory' = inventory
                   /\ workSeq' \in Nat /\ workSeq <= workSeq' /\ (workSeq' = workSeq => work' = work)
                   /\ IsFiniteSet(registered') /\ OneContract(registered')
<1>1. /\ stream \in Seq(Observations \cup {Gone}) /\ Len(stream) \in Nat
      /\ registrySeq \in Nat /\ workSeq \in Nat
      /\ IsFiniteSet(registered) /\ OneContract(registered)
  BY DEF Typed
<1>2. ASSUME NEW e \in Observations, Publish(e) PROVE Goal
  <2>1. stream' = Append(stream, e) /\ Same /\ Idle
    BY <1>2 DEF Publish
  <2>2. /\ stream' \in Seq(Observations \cup {Gone}) /\ Len(stream') = Len(stream) + 1
        /\ \A i \in 1..Len(stream) : stream'[i] = stream[i]
    BY <1>1, <2>1
  <2> QED BY <1>1, <2>1, <2>2
<1>3. ASSUME NEW i \in DOMAIN stream, Delete(i) PROVE Goal
  <2>1. stream' = [stream EXCEPT ![i] = Gone] /\ Same /\ Idle
    BY <1>3 DEF Delete
  <2>2. /\ stream' \in Seq(Observations \cup {Gone}) /\ Len(stream') = Len(stream)
        /\ \A j \in 1..Len(stream) : stream'[j] \in {stream[j], Gone}
    BY <1>1, <2>1
  <2> QED BY <1>1, <2>1, <2>2
<1>4. ASSUME NEW t \in Contract, Register(t) PROVE Goal
  <2>1. Kept /\ Idle /\ registrySeq' = registrySeq + 1
        /\ registered' = {u \in registered : u.name # t.name} \cup {t}
    BY <1>4 DEF Register
  <2>2. OneContract(registered')
    BY <1>1, <2>1 DEF OneContract
  <2>3. IsFiniteSet(registered')
    <3> DEFINE others == {u \in registered : u.name # t.name}
    <3>1. others \in SUBSET registered
      OBVIOUS
    <3>2. registered' = others \cup {t}
      BY <2>1
    <3> HIDE DEF others
    <3>3. IsFiniteSet(others)
      BY <1>1, <3>1, FS_Subset
    <3> QED BY <3>2, <3>3, FS_AddElement
  <2> QED BY <1>1, <2>1, <2>2, <2>3
<1>5. ASSUME NEW names, NEW ready, SetInventory(names, ready) PROVE Goal
  <2>1. Kept /\ Idle /\ registrySeq' = registrySeq + 1 /\ registered' = registered
    BY <1>5 DEF SetInventory
  <2> QED BY <1>1, <2>1
<1>6. ASSUME NEW r, PutTask(r) PROVE Goal
  <2>1. Kept /\ Same /\ workSeq' = workSeq + 1
    BY <1>6 DEF PutTask
  <2> QED BY <1>1, <2>1
<1>7. ASSUME NEW k, Claim(k) PROVE Goal
  BY <1>6, <1>7 DEF Claim
<1>8. ASSUME NEW r, NEW status, NEW emitted, Advance(r, status, emitted) PROVE Goal
  BY <1>6, <1>8 DEF Advance
<1> HIDE DEF Goal
<1>9. Goal
  BY <1>2, <1>3, <1>4, <1>5, <1>7, <1>8 DEF Change
<1> QED BY <1>9 DEF Goal

LEMMA ChangeKeeps ==
  ASSUME CoverageAssumption, Inv, Change, UNCHANGED <<pc, s, complete>>,
         pc \notin {"reported", "failed"}, moved' = (pc # "idle"),
         wasComplete' = (wasComplete \/ (pc # "idle" /\ AllCertainDone'))
  PROVE  Inv'
<1>1. /\ pc' = pc /\ s' = s /\ complete' = complete
      /\ stream' \in Seq(Observations \cup {Gone}) /\ Len(stream) <= Len(stream')
      /\ \A i \in 1..Len(stream) : stream'[i] \in {stream[i], Gone}
      /\ registrySeq' \in Nat /\ registrySeq <= registrySeq'
      /\ registrySeq' = registrySeq => registered' = registered /\ inventory' = inventory
      /\ workSeq' \in Nat /\ workSeq <= workSeq' /\ (workSeq' = workSeq => work' = work)
      /\ IsFiniteSet(registered') /\ OneContract(registered')
  BY Changed DEF Inv
<1>2. registrySeq \in Nat /\ workSeq \in Nat /\ Len(stream) \in Nat /\ Len(stream') \in Nat
  BY <1>1 DEF Inv, Typed
<1>3. Typed'
  BY <1>1 DEF Inv, Typed, Shape
<1>4. Vouched' /\ NothingSeen'
  <2>1. pc \in Started /\ registrySeq' = s.registry =>
          registrySeq = s.registry /\ registered' = registered /\ inventory' = inventory
    BY <1>1, <1>2 DEF Inv, Vouched
  <2>2. pc \in HasLedger => s.work <= workSeq'
    BY <1>1, <1>2 DEF Inv, Vouched
  <2>3. pc \in Started => s.registry <= registrySeq'
    BY <1>1, <1>2 DEF Inv, Vouched
  <2>4. pc \in HasTools => pc \in Started
    BY DEF HasTools
  <2>5. pc \in HasInventory => pc \in HasTools
    BY DEF HasInventory
  <2>6. pc \in HasTools /\ registrySeq' = s.registry => s.tools = registered'
    BY <1>1, <2>1, <2>4 DEF Inv, Vouched
  <2>7. pc \in HasInventory /\ registrySeq' = s.registry /\ ~s.warned =>
          Deployed(inventory', s.tools)
    BY <1>1, <2>1, <2>4, <2>5 DEF Inv, Vouched
  <2>8. Vouched'
    BY <1>1, <2>2, <2>3, <2>6, <2>7 DEF Inv, Vouched, Deployed
  <2> QED BY <1>1, <2>8 DEF Inv, NothingSeen
<1>5. Seen'
  <2> SUFFICES ASSUME pc \in HasBoundary, ~s.warned
               PROVE  /\ s.events.last \in Nat /\ s.events.last <= Len(stream')
                      /\ s.events.msgs = s.events.last
                      /\ s.seen \in Seq(Observations) /\ Len(s.seen) <= s.events.last
                      /\ s.seq = Len(s.seen) + 1
                      /\ \A i \in 1..Len(s.seen) : stream'[i] \in {s.seen[i], Gone}
                      /\ pc \in HasPlan => Len(s.seen) = s.events.last
    BY <1>1 DEF Seen
  <2>1. /\ s.events.last \in Nat /\ s.events.last <= Len(stream) /\ s.events.msgs = s.events.last
        /\ s.seen \in Seq(Observations) /\ Len(s.seen) <= s.events.last
        /\ s.seq = Len(s.seen) + 1
        /\ \A i \in 1..Len(s.seen) : stream[i] \in {s.seen[i], Gone}
        /\ pc \in HasPlan => Len(s.seen) = s.events.last
    BY DEF Inv, Seen
  <2>2. Len(s.seen) \in Nat
    BY <2>1
  <2>3. ASSUME NEW i \in 1..Len(s.seen) PROVE stream'[i] \in {s.seen[i], Gone}
    <3>1. i \in 1..Len(stream)
      BY <1>2, <2>1, <2>2
    <3> QED BY <1>1, <2>1, <3>1
  <2> QED BY <1>1, <1>2, <2>1, <2>3
<1>6. Counted'
  <2>1. Matched' = Matched /\ ThePlan' = ThePlan
    BY <1>1 DEF Matched, ThePlan
  <2>2. pc \in HasPlan /\ workSeq' = s.work => workSeq = s.work /\ work' = work
    BY <1>1, <1>2 DEF Inv, Vouched, HasPlan
  <2> QED BY <1>1, <2>1, <2>2 DEF Inv, Counted
<1>7. Certified'
  <2>1. Verdict' <=> Verdict
    BY <1>1 DEF Verdict
  <2>2. pc \in Started /\ registrySeq' = s.registry => registrySeq = s.registry
    BY <1>1, <1>2 DEF Inv, Vouched
  <2>3. pc \in HasLedger /\ workSeq' = s.work => workSeq = s.work
    BY <1>1, <1>2 DEF Inv, Vouched
  <2>4. wasComplete => wasComplete'
    OBVIOUS
  <2>5. complete' => complete
    BY <1>1
  <2>6. /\ pc = "ledger end" /\ Verdict /\ workSeq = s.work /\ registrySeq = s.registry => wasComplete
        /\ pc = "registry end" /\ Verdict /\ registrySeq = s.registry => wasComplete
        /\ complete => wasComplete
    BY DEF Inv, Certified
  <2>7. /\ pc = "ledger end" => pc \in Started /\ pc \in HasLedger
        /\ pc = "registry end" => pc \in Started
    BY DEF Started, HasTools, HasInventory, HasBoundary, HasLedger
  <2>8. pc' = pc /\ s' = s
    BY <1>1
  <2>9. pc' = "ledger end" /\ Verdict' /\ workSeq' = s'.work /\ registrySeq' = s'.registry => wasComplete
    BY <2>1, <2>2, <2>3, <2>6, <2>7, <2>8
  <2>10. pc' = "registry end" /\ Verdict' /\ registrySeq' = s'.registry => wasComplete
    BY <2>1, <2>2, <2>6, <2>7, <2>8
  <2>11. complete' => wasComplete
    BY <2>5, <2>6
  <2> QED
    <3>1. /\ pc' = "ledger end" /\ Verdict' /\ workSeq' = s'.work /\ registrySeq' = s'.registry
               => wasComplete'
          /\ pc' = "registry end" /\ Verdict' /\ registrySeq' = s'.registry => wasComplete'
          /\ complete' => wasComplete'
      BY <2>4, <2>9, <2>10, <2>11
    <3> QED BY <3>1 DEF Certified
<1>8. Undisturbed'
  BY <1>1 DEF Undisturbed, Started, HasTools, HasInventory, HasBoundary, HasLedger, HasPlan
<1> QED BY <1>3, <1>4, <1>5, <1>6, <1>7, <1>8 DEF Inv

LEMMA InitInv ==
  ASSUME CoverageAssumption, Init
  PROVE  Inv
<1>1. pc = "idle" /\ s = Unread /\ complete = FALSE /\ wasComplete = FALSE
  BY DEF Init
<1>2. Typed
  <2>1. IsFiniteSet(registered) /\ OneContract(registered)
    BY DEF Init, CoverageAssumption, OneContract
  <2>2. stream \in Seq(Observations \cup {Gone}) /\ registrySeq \in Nat /\ workSeq \in Nat
    BY DEF Init
  <2>3. Shape /\ s.warned \in BOOLEAN /\ s.stable \in BOOLEAN /\ s.tools = {}
    BY <1>1 DEF Shape, Unread
  <2> QED BY <1>1, <2>1, <2>2, <2>3, FS_EmptySet DEF Typed
<1>3. s.stable /\ s.done = 0 /\ s.seen = <<>>
  BY <1>1 DEF Unread
<1> QED BY <1>1, <1>2, <1>3 DEF Inv, Vouched, NothingSeen, Seen, Counted, Certified, Undisturbed,
        Started, HasTools, HasInventory, HasBoundary, HasLedger, HasPlan

LEMMA NextInv ==
  ASSUME CoverageAssumption, Inv, [Next]_vars
  PROVE  Inv'
<1>1. CASE Read /\ Watches
  BY <1>1, StartKeeps, ReadRegistrationsKeeps, ReadInventoryKeeps, ReadBoundaryKeeps,
     ReadLedgerKeeps, ReadEventKeeps, PlanKeeps, ReadTaskKeeps, ReadEventsEndKeeps,
     ReadLedgerEndKeeps, ReadRegistryEndKeeps, FailKeeps DEF Read
<1>2. CASE /\ Change /\ UNCHANGED <<pc, s, complete>> /\ pc \notin {"reported", "failed"}
           /\ moved' = (pc # "idle")
           /\ wasComplete' = (wasComplete \/ (pc # "idle" /\ AllCertainDone'))
  BY <1>2, ChangeKeeps
<1>3. CASE UNCHANGED vars
  <2>1. UNCHANGED world /\ s' = s /\ pc' = pc /\ complete' = complete /\ moved' = moved
        /\ wasComplete' = wasComplete
    BY <1>3 DEF vars
  <2>2. Matched' = Matched /\ ThePlan' = ThePlan /\ Verdict' = Verdict
    BY <2>1 DEF Matched, ThePlan, Verdict
  <2>3. Typed' /\ Vouched' /\ NothingSeen' /\ Seen'
    BY <2>1 DEF Inv, Typed, Shape, Vouched, NothingSeen, Seen, world
  <2>4. Counted' /\ Certified'
    BY <2>1, <2>2 DEF Inv, Counted, Certified, world
  <2>5. Undisturbed'
    BY <2>1, SameWorld DEF Inv, Undisturbed, world
  <2> QED BY <2>3, <2>4, <2>5 DEF Inv
<1> QED BY <1>1, <1>2, <1>3 DEF Next, Watches

-----------------------------------------------------------------------------
(* The theorems                                                            *)

\* work_complete_at_snapshot is said only of a system in which at one instant between the
\* first reading and the last every task was done and nothing was missing, but what is
\* contested and the planner may overlook: whatever changed meanwhile and however often, and
\* although no two stores are read at the same time (coverage.go:333).
THEOREM CertificatesAreTrue ==
  ASSUME CoverageAssumption
  PROVE  Spec => []CompleteWasTrue
<1>1. Init => Inv
  BY InitInv
<1>2. Inv /\ [Next]_vars => Inv'
  BY NextInv
<1>3. Inv => CompleteWasTrue
  BY DEF Inv, Certified, CompleteWasTrue
<1> QED BY <1>1, <1>2, <1>3, PTL DEF Spec

\* The report of a snapshot that nothing disturbs says complete when every task the retained
\* history calls for is done and nothing is missing, and says so of no other system than one
\* where all that is missing is contested (coverage.go:252).
THEOREM ReportsAreExact ==
  ASSUME CoverageAssumption
  PROVE  Spec => []QuietReportIsExact
<1>1. Init => Inv
  BY InitInv
<1>2. Inv /\ [Next]_vars => Inv'
  BY NextInv
<1>3. Inv => QuietReportIsExact
  BY DEF Inv, Undisturbed, QuietReportIsExact
<1> QED BY <1>1, <1>2, <1>3, PTL DEF Spec

\* What coverage expects is what the workers would take, in whatever order the observations
\* were retained; what it reports as blocked is missing, and all that is missing is
\* reported, except what is contested (coverage.go:91, coverage.go:115).
THEOREM PlansIgnoreOrder ==
  ASSUME NEW tools, OneContract(tools), NEW matched, NEW seen, seen \in Seq(Observations),
         CoverageAssumption
  PROVE  LET M == {e \in {seen[i] : i \in 1..Len(seen)} : e \in matched}
             p == Planned(tools, matched, seen)
             reported == {<<b.key, b.why>> : b \in StillBlocked(p)}
         IN  /\ p.ready = Expected(tools, M)
             /\ Certain(tools, M) \subseteq reported
             /\ reported \subseteq Missing(tools, M)
<1> DEFINE M == {e \in {seen[i] : i \in 1..Len(seen)} : e \in matched}
           p == Planned(tools, matched, seen)
           reported == {<<b.key, b.why>> : b \in StillBlocked(p)}
<1>1. Len(seen) \in Nat /\ M \subseteq Observations
  OBVIOUS
<1>2. PlanOf(tools, p, M)
  BY <1>1, PlannedIsOfTheSet
<1>3. \A e \in M : e.kind = "domain" => ~e.alive
  BY <1>1 DEF CoverageAssumption
<1> HIDE DEF M, p
<1>4. p.ready = Expected(tools, M)
  BY <1>2, ReadyIsExpected
<1>5. reported \subseteq Missing(tools, M)
  BY <1>2, <1>3, BlockedIsMissing
<1>6. Certain(tools, M) \subseteq reported
  BY <1>2, <1>3, CertainIsBlocked
<1> QED BY <1>4, <1>5, <1>6 DEF M, p

-----------------------------------------------------------------------------
(* The planner at work                                                     *)

\* The plan is at every moment that of what the planner has taken.
PlanInv == team \in Teams /\ observed \subseteq Sightings /\ PlanOf(team, plan, observed)

LEMMA PlanInvHolds ==
  PlanSpec => []PlanInv
<1>1. PlanInit => PlanInv
  BY NewPlans DEF PlanInit, PlanInv
<1>2. PlanInv /\ [PlanNext]_planVars => PlanInv'
  <2> SUFFICES ASSUME PlanInv, [PlanNext]_planVars PROVE PlanInv'
    OBVIOUS
  <2>1. ASSUME NEW e \in Sightings, Observe(e) PROVE PlanInv'
    <3>1. PlanOf(team, Add(team, plan, e), observed \cup {e})
      BY AddPlans DEF PlanInv
    <3> QED BY <2>1, <3>1 DEF PlanInv, Observe
  <2>2. CASE UNCHANGED planVars
    BY <2>2 DEF planVars, PlanInv
  <2> QED BY <2>1, <2>2 DEF PlanNext
<1> QED BY <1>1, <1>2, PTL DEF PlanSpec

\* Coverage expects what the workers of any deployment would take, after any observations in
\* any order; it reports as blocked nothing but what is missing, and all of that but what
\* is contested, whose address the order decides about (coverage.go:98, coverage.go:145).
THEOREM PlansAreOfTheSet ==
  ASSUME PlanAssumption
  PROVE  PlanSpec => []PlanIsOfTheSet
<1>1. ASSUME PlanInv PROVE PlanIsOfTheSet
  <2>1. \A e \in observed : e.kind = "domain" => ~e.alive
    BY <1>1 DEF PlanInv, PlanAssumption
  <2>2. OneContract(team)
    BY <1>1 DEF PlanInv, PlanAssumption, OneContract
  <2>3. PlansWhatWorkersTake
    BY <1>1, ReadyIsExpected DEF PlanInv, PlansWhatWorkersTake
  <2>4. BlockersIgnoreOrder
    BY <1>1, <2>1, <2>2, BlockedIsMissing, CertainIsBlocked DEF PlanInv, BlockersIgnoreOrder
  <2> QED BY <2>3, <2>4 DEF PlanIsOfTheSet
<1> QED BY <1>1, PlanInvHolds, PTL
==============================================================================
