------------------------------ MODULE MCPlanner ------------------------------
(***************************************************************************)
(* Deployments and observations for the planner.  The contracts are those  *)
(* of workers of src/cmd: nmap-quick (needs live names and addresses),     *)
(* nmap-discover (needs bound names, refuses what is alive), resolve       *)
(* (refuses bound names), a sink.                                          *)
(***************************************************************************)
EXTENDS Plans

CONSTANTS discover, quick, resolve, report, none

MCAccepts(filter, e) ==
  CASE filter = "every"   -> TRUE
    [] filter = "dead"    -> ~e.alive
    [] filter = "unbound" -> e.host = "none" \/ e.role \notin {"dns_a", "requested"}

T(name, kinds, needLive, needBinding, filter) ==
  [name |-> name, kinds |-> kinds, needLive |-> needLive, needBinding |-> needBinding,
   observe |-> name = report, evidence |-> name \in {discover, resolve}, filter |-> filter]

MCWorkers == {T(discover, {"fqdn", "ip"}, FALSE, TRUE, "dead"),
              T(quick, {"fqdn", "ip"}, TRUE, FALSE, "every"),
              T(resolve, {"domain", "fqdn"}, FALSE, FALSE, "unbound"),
              T(report, {"fqdn"}, FALSE, FALSE, "every")}

MCTeams == {MCWorkers, {t \in MCWorkers : t.name # resolve}}

G(allow, deny) == [allow |-> allow, deny |-> deny, profile |-> none]
E(id, kind, value, host, role, alive, gate) ==
  [id |-> id, run |-> 1, scope |-> 1, kind |-> kind, value |-> value, host |-> host,
   role |-> role, alive |-> alive, gate |-> gate]

Open == G({}, {})

\* A domain; its name without address, with one of two, each dead or alive, or
\* only mentioned elsewhere; the address itself; and gates.
MCSightings ==
  {E(1, "domain", "x", "none", "none", FALSE, Open),
   E(2, "fqdn", "x", "none", "none", FALSE, Open),
   E(3, "fqdn", "x", "h1", "dns_a", FALSE, Open),
   E(4, "fqdn", "x", "h1", "dns_a", TRUE, Open),
   E(5, "fqdn", "x", "h2", "dns_a", FALSE, Open),
   E(6, "fqdn", "x", "h3", "certificate_san", FALSE, Open),
   E(7, "ip", "h1", "h1", "none", FALSE, G({quick, "absent"}, {})),
   E(8, "ip", "h1", "h1", "none", TRUE, G({}, {discover})),
   E(9, "fqdn", "x", "none", "none", FALSE, G({discover}, {})),
   E(10, "fqdn", "x", "h2", "requested", TRUE, G({}, {quick}))}

\* The same, and a certificate that mentions the name at an address.
MCCertificate == MCSightings \cup {E(11, "fqdn", "x", "h1", "certificate_san", FALSE, Open)}
=============================================================================
