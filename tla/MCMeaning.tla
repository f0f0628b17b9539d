------------------------------ MODULE MCMeaning ------------------------------
(***************************************************************************)
(* What events mean, for TLC: their spelling, the rules they are filtered  *)
(* with, and what they lead to.  The three share no state: a behaviour is  *)
(* one of one of them, while nothing happens in the others.                *)
(***************************************************************************)
EXTENDS MCEvents, MCCascade

CONSTANTS
  Off, Nil, NoField, Empty,
  host, alive, other, x, y        \* Rules

VARIABLES
  part,                     \* which of them, and for the cascade its setting
  own, rule, at             \* Rules

-----------------------------------------------------------------------------
(* Events: about forty thousand spellings                                  *)

Unwritten == [version |-> 2, kind |-> "ip", value |-> Value(ip1, 0, FALSE), host |-> None,
              name |-> None, role |-> None, port |-> 0, proto |-> None, tls |-> FALSE,
              meta |-> Meta(None, None, 0, None, FALSE)]
NoEvents == raw = Unwritten /\ ev = raw /\ before = raw /\ passes = 0

-----------------------------------------------------------------------------
(* Rules: about ten thousand                                               *)

RuleCases == INSTANCE MCRules WITH
  Fields <- {host, alive}, Events <- {}, Written <- {}, MaxDepth <- 2, MaxBranches <- 2
Registered == INSTANCE Rules WITH
  Fields <- {host, alive}, Events <- RuleCases!MCEvents, Written <- RuleCases!MCWritten,
  MaxDepth <- 2, MaxBranches <- 2

RuleVars == <<own, rule, at>>
NoRules == own = Off /\ rule = Off /\ at = Off

-----------------------------------------------------------------------------
(* Cascade: nine small networks, without and with a failure                *)

Cascades == {"no failure", "a failure"}

NoCascade == CascadeInit /\ site = LatePort

-----------------------------------------------------------------------------
ASSUME EventParameters   == EventAssumption
ASSUME RuleParameters    == Registered!RuleAssumption
ASSUME CascadeParameters == CascadeAssumption

MCInit ==
  \/ part = "spelling" /\ Init /\ NoRules /\ NoCascade
  \/ part = "rules" /\ Registered!Init /\ NoEvents /\ NoCascade
  \/ part = "no failure" /\ CascadeInit /\ NoEvents /\ NoRules
  \/ part = "a failure" /\ CascadeInit /\ site = LatePort /\ NoEvents /\ NoRules

MCNext ==
  \/ part = "spelling" /\ Next /\ UNCHANGED <<part, RuleVars, cascadeVars>>
  \/ part = "rules" /\ Registered!Next /\ UNCHANGED <<part, vars, cascadeVars>>
  \/ /\ part \in Cascades /\ CascadeNext
     /\ part = "no failure" => \A t \in failed' : Refuses(t[1], t[2])
     /\ UNCHANGED <<part, vars, RuleVars>>

MCSpec == MCInit /\ [][MCNext]_<<part, vars, RuleVars, cascadeVars>>

-----------------------------------------------------------------------------
(* The properties of Events and Cascade are their own                      *)

\* Coverage filters with what is registered as the worker does with what it has, and no
\* part of a rule is passed over (sdk/rule.go:12).
RuleHasOneMeaning == part = "rules" => Registered!RuleHasOneMeaning
=============================================================================
