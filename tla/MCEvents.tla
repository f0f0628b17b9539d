------------------------------ MODULE MCEvents -------------------------------
EXTENDS Events

CONSTANTS ip1, ip2, a, b, bad

Name(base, dots) == [base |-> base, dots |-> dots]
Named == {Name(a, d) : d \in 0..3} \cup {Name(b, 0), Name(bad, 0)}

Value(h, p, tls) == [host |-> h, port |-> p, tls |-> tls]
Values(kind) ==
  CASE kind = "fqdn" -> {Value(h, 0, FALSE) : h \in Named}
    [] kind = "ip" -> {Value(h, 0, FALSE) : h \in {ip1, ip2, Name(a, 0)}}
    [] kind \in {"port", "service"} -> {Value(h, p, FALSE) : h \in Named \cup {ip1}, p \in {0, 1, 3}}
    [] kind = "url" -> {Value(h, p, t) : h \in Named \cup {ip1}, p \in {0, 3}, t \in BOOLEAN}

Meta(ip, host, port, proto, tunnel) ==
  [ip |-> ip, host |-> host, port |-> port, proto |-> proto, tunnel |-> tunnel]

\* Current events with any target, and older ones with what they had instead.
MCRaw ==
  UNION {
    [version : {2}, kind : {k}, value : Values(k), host : {None, ip1, ip2},
     name : {None, Name(a, 0), Name(a, 1), Name(b, 0)}, role : {None, "requested", "ptr"},
     port : {0, 1}, proto : {None, "tcp", "icmp"}, tls : {FALSE},
     meta : {Meta(None, None, 0, None, FALSE), Meta(ip2, ip1, 1, "icmp", TRUE)}]
    \cup
    [version : {0, 1}, kind : {k}, value : Values(k), host : {None, ip1}, name : {None}, role : {None},
     port : {0}, proto : {None}, tls : {FALSE},
     meta : [ip : {None, ip2}, host : {None, ip1, Name(a, 0)}, port : {0, 1},
             proto : {None, "udp", "icmp"}, tunnel : BOOLEAN]]
    : k \in {"fqdn", "ip", "port", "service", "url"}}
=============================================================================
