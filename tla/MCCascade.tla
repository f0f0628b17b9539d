----------------------------- MODULE MCCascade -------------------------------
EXTENDS Cascade

CONSTANTS n, m, h1, h2

Class(open) ==
  [o \in open |-> IF o[3] = "udp" THEN [service |-> "domain", tls |-> FALSE]
                  ELSE IF o[2] = 80 THEN [service |-> "http", tls |-> FALSE]
                  ELSE [service |-> "unknown", tls |-> FALSE]]

Network(forward, reverse, certs, up, open, web) ==
  [forward |-> forward, reverse |-> reverse, certs |-> certs, words |-> {m}, up |-> up,
   open |-> open, class |-> Class(open), web |-> web]

Site(network, workers, seeds) ==
  [f \in DOMAIN network \cup {"workers", "seeds"} |->
     CASE f = "workers" -> workers [] f = "seeds" -> seeds [] OTHER -> network[f]]

SeedName == Sighting("fqdn", n, "observed", Absent)
SeedDomain == Sighting("domain", n, "observed", Absent)
SeedNetblock == [Blank EXCEPT !.kind = "netblock"]

Core == {"resolve", "nmap-discover", "reconcile", "nmap-svc", "as-url"}
Quick == Core \cup {"nmap-quick"}

\* A late port that only the full scan finds and only the probe identifies.
LatePort ==
  Site(Network({<<n, h1>>}, {}, {}, {h1}, {<<h1, 9, "tcp">>, <<h1, 80, "tcp">>}, {<<h1, 9, TRUE>>}),
       Quick \cup {"nmap-full", "web-probe"}, {SeedName})

\* A certificate that names a host of the same address, and one elsewhere.
CertificateHere ==
  Site(Network({<<n, h1>>, <<m, h1>>}, {}, {<<h1, 80, m>>}, {h1}, {<<h1, 80, "tcp">>}, {}),
       Core \cup {"nmap-full", "tlsx"}, {SeedName})
CertificateElsewhere ==
  Site(Network({<<n, h1>>, <<m, h2>>}, {}, {<<h1, 80, m>>}, {h1, h2},
               {<<h1, 80, "tcp">>, <<h2, 80, "tcp">>}, {}),
       Quick \cup {"tlsx"}, {Address(h1)})

\* A reverse name that resolves to another address, which is down.
ReverseName ==
  Site(Network({<<n, h1>>, <<m, h2>>}, {<<h1, m>>}, {}, {h1}, {<<h1, 80, "tcp">>}, {}), Quick, {SeedName})

\* Two backends of one name.
Backends ==
  Site(Network({<<n, h1>>, <<n, h2>>}, {}, {}, {h1, h2}, {<<h1, 80, "tcp">>, <<h2, 80, "tcp">>}, {}),
       Core \cup {"nmap-full"}, {SeedName})

\* A domain and its names, a netblock, and a seed that another leads to.
Domain ==
  Site(Network({<<n, h1>>, <<m, h1>>}, {}, {}, {h1}, {<<h1, 80, "tcp">>}, {}),
       Quick \cup {"dnsx", "ctl"}, {SeedDomain})
Netblock ==
  Site(Network({<<m, h1>>}, {<<h1, m>>}, {}, {h1}, {<<h1, 80, "tcp">>}, {}), Quick, {SeedNetblock, Address(h1)})

\* A UDP port of the operator, which is scanned over TCP and speaks TLS there.
PortSeed ==
  Site(Network({<<n, h1>>}, {}, {}, {h1}, {<<h1, 9, "tcp">>}, {<<h1, 9, TRUE>>}),
       Quick \cup {"web-probe"}, {SeedName, Port(Absent, <<h1, 9, "udp">>)})

\* A port that speaks both schemes, and UDP.
Udp ==
  Site(Network({<<n, h1>>}, {}, {}, {h1}, {<<h1, 9, "tcp">>, <<h1, 53, "udp">>},
               {<<h1, 9, TRUE>>, <<h1, 9, FALSE>>}),
       Core \cup {"nmap-full", "web-probe", "tlsx"}, {SeedName})

MCSites ==
  {LatePort, CertificateHere, CertificateElsewhere, ReverseName, Backends, Domain, Netblock, PortSeed, Udp}
MCLatePort == {LatePort}
=============================================================================
