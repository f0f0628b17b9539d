----------------------------- MODULE MCReconcile -----------------------------
(***************************************************************************)
(* Instances of Reconcile for TLC: three workers, two run profiles, two    *)
(* names of one address that may share a key, and a port that may also lie *)
(* on another address.                                                     *)
(***************************************************************************)
EXTENDS Reconcile

CONSTANTS reconcile, httpx, nuclei, web, full, none, h1, h2, a, b

MCTool    == {reconcile, httpx, nuclei}
MCProfile == {web, full}

G(allow, deny, profile) == [allow |-> allow, deny |-> deny, profile |-> profile]
O(place, subject, gate) == [place |-> place, subject |-> subject, gate |-> gate]

Ungated == G({}, {}, none)
Web     == G({reconcile, httpx}, {}, web)
Full    == G({reconcile, httpx, nuclei}, {httpx}, full)

MCGiven == {O(h1, a, Ungated), O(h1, a, Web), O(h1, a, Full),
            O(h1, b, Ungated), O(h2, a, Ungated)}
=============================================================================
