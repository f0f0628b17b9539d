-------------------------------- MODULE Gates --------------------------------
(***************************************************************************)
(* The workflow gates in an event's meta (src/event/event.go) and how the  *)
(* reconciler joins those of two facts (src/internal/reconcile).  A list   *)
(* in the meta is the set of the tools it names once it is split, trimmed  *)
(* and freed of empty items; the missing and the empty list are both {}.   *)
(* The scope, which a join requires to be equal, is not part of a gate.    *)
(***************************************************************************)
CONSTANTS
  Tool,       \* names of workers
  Profile,    \* names of run profiles
  NoProfile   \* an event without one

ASSUME GatesAssumption == NoProfile \notin Profile

Gate == [allow : SUBSET Tool, deny : SUBSET Tool, profile : Profile \cup {NoProfile}]

\* event.Allowed: not denied, and listed where there is an allow list.
Allowed(tool, g) == tool \notin g.deny /\ (g.allow = {} \/ tool \in g.allow)

\* intersectGates: two allow lists that have no tool in common join to nothing.
Joinable(a, b) == a.allow = {} \/ b.allow = {} \/ a.allow \cap b.allow # {}

\* Variant of MeetGates: the longer list wins.
MeetUnion(a, b) ==
  [allow   |-> a.allow \cup b.allow,
   deny    |-> a.deny \cup b.deny,
   profile |-> IF a.profile = b.profile THEN a.profile ELSE NoProfile]

\* intersectGates, where the two are joinable.
MeetGates(a, b) ==
  [allow   |-> IF a.allow = {} THEN b.allow
               ELSE IF b.allow = {} THEN a.allow ELSE a.allow \cap b.allow,
   deny    |-> a.deny \cup b.deny,
   profile |-> IF a.profile = b.profile THEN a.profile ELSE NoProfile]

\* event.InheritGate: what the child leaves empty it takes from its parent.
InheritGate(parent, child) ==
  [allow   |-> IF child.allow = {} THEN parent.allow ELSE child.allow,
   deny    |-> IF child.deny = {} THEN parent.deny ELSE child.deny,
   profile |-> IF child.profile = NoProfile THEN parent.profile ELSE child.profile]
=============================================================================
