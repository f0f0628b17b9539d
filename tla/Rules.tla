------------------------------- MODULE Rules ---------------------------------
(***************************************************************************)
(* sdk.Rule: the input rule of a worker.  A worker validates its rule,     *)
(* registers it as JSON, and filters with its own copy; coverage filters   *)
(* with the copy it reads from the registry.  JSON drops what is empty.    *)
(***************************************************************************)
EXTENDS Naturals, FiniteSets

CONSTANTS
  Nil,         \* nil: an absent group, rule or list, unlike an empty one
  NoField,     \* the empty field name
  Fields,      \* the field names ruleField knows
  Empty,       \* the empty string, a value
  Events,      \* events as functions from Fields to values
  Written,     \* rules a worker may be written with
  MaxDepth, MaxBranches \* 16 and 64 in the code

RuleAssumption == NoField \notin Fields /\ MaxDepth \in Nat /\ MaxBranches \in Nat

VARIABLES
  own,   \* the worker's rule
  rule,  \* the rule where it is
  at     \* the worker, the registry, or refused

vars == <<own, rule, at>>

\* The zero rule.
ZeroRule ==
  [all |-> Nil, any |-> Nil, not |-> Nil, field |-> NoField, values |-> Nil, present |-> FALSE]

Group(g) == IF g = Nil THEN {} ELSE g

MatchField(r, e) ==
  r.field \in Fields /\ IF r.present THEN e[r.field] # Empty ELSE e[r.field] \in Group(r.values)

\* Rule.Match: the first part that is there decides.
RECURSIVE Match(_, _)
Match(r, e) ==
  CASE r.all # Nil -> \A c \in r.all : Match(c, e)
    [] r.all = Nil /\ r.any # Nil -> \E c \in r.any : Match(c, e)
    [] r.all = Nil /\ r.any = Nil /\ r.not # Nil -> ~Match(r.not, e)
    [] r.all = Nil /\ r.any = Nil /\ r.not = Nil /\ r.field # NoField -> MatchField(r, e)
    [] OTHER -> TRUE

\* Variant of ValidPart: a group may be empty.
ValidEmptyGroups(r) ==
  /\ Cardinality({p \in {"all", "any", "not"} : r[p] # Nil}) + (IF r.field # NoField THEN 1 ELSE 0) <= 1
  /\ r.field = NoField => ~r.present /\ r.values = Nil
  /\ r.field # NoField => r.field \in Fields /\ r.present # (Group(r.values) # {})

\* Rule.validate, of one rule: one part at most, and none of it empty.
ValidPart(r) ==
  /\ Cardinality({p \in {"all", "any", "not"} : r[p] # Nil}) + (IF r.field # NoField THEN 1 ELSE 0) <= 1
  /\ r.field = NoField => ~r.present /\ r.values = Nil
  /\ r.field # NoField => r.field \in Fields /\ r.present # (Group(r.values) # {})
  /\ r.all # {} /\ r.any # {}
  /\ Cardinality(Group(r.all)) + Cardinality(Group(r.any)) <= MaxBranches

Children(r) == Group(r.all) \cup Group(r.any) \cup (IF r.not = Nil THEN {} ELSE {r.not})

RECURSIVE Validate(_, _)
Validate(r, depth) ==
  depth <= MaxDepth /\ ValidPart(r) /\ \A c \in Children(r) : Validate(c, depth + 1)

\* The rule as JSON and back: what is empty is gone.
RECURSIVE Encoded(_)
Encoded(r) ==
  LET Kept(g) == IF Group(g) = {} THEN Nil ELSE {Encoded(c) : c \in g}
  IN [r EXCEPT !.all = Kept(@), !.any = Kept(@), !.not = IF @ = Nil THEN Nil ELSE Encoded(@),
               !.values = IF Group(@) = {} THEN Nil ELSE @]

-----------------------------------------------------------------------------
Init == own \in Written /\ rule = own /\ at = "worker"

\* Definition: a rule that is not valid does not start its worker.
Register ==
  /\ at = "worker"
  /\ IF Validate(rule, 0) THEN rule' = Encoded(rule) /\ at' = "registry"
     ELSE at' = "refused" /\ UNCHANGED rule
  /\ UNCHANGED own

Next == Register

Spec == Init /\ [][Next]_vars

-----------------------------------------------------------------------------
\* What a rule says, all of it: every part that is stated holds.
RECURSIVE Says(_, _)
Says(r, e) ==
  /\ r.all # Nil => \A c \in r.all : Says(c, e)
  /\ r.any # Nil => \E c \in r.any : Says(c, e)
  /\ r.not # Nil => ~Says(r.not, e)
  /\ r.field # NoField => MatchField(r, e)

\* Coverage expects of a worker the events the worker takes: the registered rule
\* matches what the worker's own rule matches (sdk/rule.go:12).
SamePredicate ==
  at = "registry" => \A e \in Events : Match(rule, e) = Match(own, e)

\* A rule that is accepted is followed as a whole: none of its parts is passed over
\* because an earlier one decides (sdk/rule.go:72).
NoPartIsIgnored ==
  at = "registry" => \A e \in Events : Match(own, e) = Says(own, e)

\* What was registered is valid when it is read back.
RegisteredIsValid == at = "registry" => Validate(rule, 0)

\* A rule means one thing, to its author, its worker and coverage.
RuleHasOneMeaning == SamePredicate /\ NoPartIsIgnored /\ RegisteredIsValid
=============================================================================
