------------------------------ MODULE MCTools --------------------------------
(***************************************************************************)
(* Tools against servers that answer as they like, for TLC: the redirect   *)
(* chains of httpx and the scans of nuclei.  They share no state: a        *)
(* behaviour is one of one of them, in one of its settings, while nothing  *)
(* happens in the other.                                                   *)
(***************************************************************************)
EXTENDS Redirects, Nuclei

CONSTANTS a, b, c, d, e, x, y, ip1, ip2

VARIABLE part \* which of them

-----------------------------------------------------------------------------
(* Redirects: a chain longer than the limit, with a loop at its start; a   *)
(* and b are of one origin, so are c and e, which is c with a fragment;    *)
(* d names its address                                                     *)

Chains == {"bound", "unbound"}

MCUrls    == {a, b, c, d, e}
MCIPs     == {ip1, ip2}
MCLinks   == {<<a, b>>, <<b, e>>, <<c, d>>, <<b, a>>}
MCBackends == [u \in MCUrls |-> IF u \in {a, c} THEN {ip1, ip2} ELSE {ip1, ip2, Unbound}]
MCOrigin   == [u \in MCUrls |-> CASE u \in {a, b} -> "1" [] u \in {c, e} -> "2" [] OTHER -> "3"]
MCDocument == [u \in MCUrls |-> IF u = e THEN c ELSE u]
MCLiteral == [u \in MCUrls |-> IF u = d THEN ip2 ELSE Unbound]

Seed(u, ip, depth) == [url |-> u, ip |-> ip, depth |-> depth, far |-> depth]

\* A name at one address, and an event of an earlier profile with a higher limit;
\* or a name without an address at the end of its budget, an address, and a bound name
\* under a profile that cannot bind it.
SeedsOf(s) ==
  IF s = "bound" THEN {Seed(a, ip1, 0), Seed(c, ip2, 3)}
  ELSE {Seed(b, Unbound, 1), Seed(d, ip2, 0), Seed(a, ip1, 0)}

MCSeeds == UNION {SeedsOf(s) : s \in Chains}

ChainOf(s)  == Init /\ events = SeedsOf(s) /\ boundArgs = (s = "bound")
NoRedirects == Init /\ events = {} /\ boundArgs

-----------------------------------------------------------------------------
(* Nuclei: x has two backends; y is where redirects go                     *)

Asked(kind, name, host, proto) ==
  [kind |-> kind, name |-> name, host |-> host, port |-> 1, proto |-> proto]

MCInputs ==
  {Asked("url", v, ip1, "tcp") : v \in {x, None}} \cup {Asked("url", x, None, "tcp")}
  \cup {Asked("service", v, ip1, p) : v \in {x, None}, p \in {"tcp", "udp"}}
  \cup {Asked("service", x, None, "tcp")}

Http(templates) == [kinds |-> {"url"}, transports |-> {}, boundArgs |-> TRUE, traceArgs |-> TRUE,
                    templates |-> templates]
Net(transports, templates) ==
  [Http(templates) EXCEPT !.kinds = {"service"}, !.transports = transports]

\* The shipped profiles, one that claims UDP, two with templates that do not fit, and
\* two without the arguments they need.
MCProfiles ==
  {Http({"http"}), Http({"http", "dns"}), Net({"tcp"}, {"ssl", "tcp"}),
   Net({"tcp", "udp"}, {"tcp", "javascript"}), Net({"tcp"}, {"tcp", "dns"}),
   [Http({"http"}) EXCEPT !.boundArgs = FALSE], [Net({"tcp"}, {"tcp"}) EXCEPT !.traceArgs = FALSE]}

MCScanners == [starts : {TRUE}, binds : BOOLEAN, traces : BOOLEAN] \cup
              {[starts |-> FALSE, binds |-> TRUE, traces |-> TRUE]}
MCResolves == [v \in {x, y} |-> IF v = x THEN {ip1, ip2} ELSE {ip2}]

NoScan ==
  /\ ScanInit /\ in = Asked("url", x, ip1, "tcp") /\ profile = Http({"http"})
  /\ scanner.binds /\ ~scanner.starts

-----------------------------------------------------------------------------
ASSUME RedirectParameters == RedirectAssumption
ASSUME NucleiParameters   == NucleiAssumption

MCInit ==
  \/ part \in Chains /\ ChainOf(part) /\ NoScan
  \/ part = "nuclei" /\ NoRedirects /\ ScanInit

MCNext ==
  \/ part \in Chains /\ Next /\ UNCHANGED <<part, scanVars>>
  \/ part = "nuclei" /\ ScanNext /\ UNCHANGED <<part, vars>>

MCSpec == MCInit /\ [][MCNext]_<<part, vars, scanVars>>

=============================================================================
