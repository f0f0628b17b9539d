------------------------------ MODULE Cascade --------------------------------
(***************************************************************************)
(* The workers as one system: what each takes from the stream, what it     *)
(* publishes, and how the work keys end the cascade.  A task is one step   *)
(* (Work has what is inside), and so is a reconciliation (Reconcile).  One *)
(* scope, no gates.  It ends at the URLs, which httpx and nuclei take.     *)
(* The network is external: DNS, certificates, and what nmap finds open    *)
(* and calls the services.                                                 *)
(***************************************************************************)
EXTENDS Naturals, FiniteSets

CONSTANTS
  Sites,       \* networks, with the workers that are deployed and the seeds
  Absent,      \* an absent field
  TopPorts,    \* the ports of nmap-quick
  ScanArgs,    \* the transports nmap-svc's profile has arguments for
  MaxFailures  \* bound: failed tasks

VARIABLES
  site,   \* [workers, seeds] and the network: [forward, reverse, certs, words, up, open,
          \*  class, web], which never changes
  stream, \* the events in EVENTS, as far as a rule can tell them apart
  tasks,  \* the work keys that are taken, <<worker, subject>>
  failed  \* those whose task has failed

cascadeVars == <<site, stream, tasks, failed>>

\* An event; the value is what its kind makes of the target.  The source is kept
\* where a rule asks for it, a DNS answer is of one family, and SNI is left out.
Blank == [kind |-> Absent, name |-> Absent, role |-> Absent, host |-> Absent, port |-> 0, proto |-> Absent,
          service |-> Absent, tls |-> FALSE, alive |-> FALSE, source |-> Absent]

Sighting(kind, n, role, h) == [Blank EXCEPT !.kind = kind, !.name = n, !.role = role, !.host = h]
Address(h) == [Blank EXCEPT !.kind = "ip", !.host = h]
Port(n, o) ==
  [Blank EXCEPT !.kind = "port", !.host = o[1], !.port = o[2], !.proto = o[3], !.name = n,
                !.role = IF n = Absent THEN Absent ELSE "requested"]

Workers ==
  {"resolve", "dnsx", "ctl", "nmap-discover", "nmap-quick", "nmap-full", "reconcile", "tlsx",
   "nmap-svc", "web-probe", "as-url"}

\* A seed: a domain or a name, an address or a port of one, or a netblock.
Seed(e) ==
  \/ e.kind \in {"domain", "fqdn"} /\ e.name # Absent /\ e = Sighting(e.kind, e.name, "observed", Absent)
  \/ e.host # Absent /\ e = Address(e.host)
  \/ e.host # Absent /\ e = Port(Absent, <<e.host, e.port, e.proto>>)
  \/ e = [Blank EXCEPT !.kind = "netblock"]

CascadeAssumption ==
  /\ MaxFailures \in Nat
  /\ Absent \notin {"requested", "dns", "reconcile", "web-probe", "tcp"}
  /\ \A s \in Sites :
       /\ s.workers \subseteq Workers
       /\ \A e \in s.seeds : Seed(e)
       /\ \A f \in s.forward : f = <<f[1], f[2]>> /\ Absent \notin {f[1], f[2]}
       /\ \A r \in s.reverse : r[2] # Absent
       /\ \A c \in s.certs : c[3] # Absent
       /\ \A o \in s.open : o = <<o[1], o[2], o[3]>> /\ Absent \notin {o[1], o[3]} /\ s.class[o].tls \in BOOLEAN
       /\ Absent \notin s.words \cup s.up

\* Variant of BoundName: any name seen with an address.
BoundAnyName(e) == e.host # Absent /\ e.name # Absent

\* BoundName: a name that was asked of this address or answered with it.
BoundName(e) == e.host # Absent /\ e.name # Absent /\ e.role \in {"requested", "dns"}

\* The requested name, if there is one (older events have it in their metadata, which is
\* left out).
RequestedName(e) == IF e.kind = "fqdn" \/ e.role = "requested" THEN e.name ELSE Absent

Unidentified == {"unknown", "ssl", "tls", "tcpwrapped"}
Web == {"http", "https"}

Takes(w) ==
  CASE w = "resolve" -> {"domain", "fqdn"}
    [] w \in {"dnsx", "ctl"} -> {"domain"}
    [] w = "nmap-discover" -> {"netblock", "fqdn", "ip"}
    [] w = "nmap-quick" -> {"ip", "fqdn"}
    [] w = "nmap-full" -> {"ip"}
    [] w = "reconcile" -> {"fqdn", "port"}
    [] w \in {"tlsx", "nmap-svc"} -> {"port"}
    [] w \in {"web-probe", "as-url"} -> {"service"}

\* The filters the workers are configured with.
Filter(w, e) ==
  CASE w = "resolve" -> ~BoundName(e)
    [] w = "nmap-discover" -> ~e.alive
    [] w = "reconcile" -> /\ e.source # "reconcile" /\ e.host # Absent
                          /\ e.kind = "fqdn" => BoundName(e)
    [] w = "web-probe" -> /\ e.source # "web-probe" /\ e.proto = "tcp" /\ e.host # Absent
                          /\ e.service \in Unidentified
    [] w = "as-url" -> e.service \in Web /\ e.proto \in {Absent, "tcp"} /\ (e.host # Absent \/ e.role = "requested")
    [] OTHER -> TRUE

\* Eligible, with what NeedLive and NeedBinding ask.
Eligible(w, e) ==
  /\ e.kind \in Takes(w) /\ Filter(w, e)
  /\ w \in {"nmap-quick", "nmap-full"} => e.alive
  /\ w = "nmap-discover" /\ e.kind = "fqdn" => BoundName(e)

\* Variant of Key: the value is the task, whichever address it is found at.
KeyOfValue(w, e) ==
  IF w = "reconcile" THEN <<w, e>>
  ELSE <<w, [e EXCEPT !.alive = FALSE, !.source = Absent,
                      !.host = IF RequestedName(e) = Absent THEN @ ELSE Absent]>>

\* DedupKey: liveness and source make no other task of an event; the reconciler
\* observes each.
Key(w, e) ==
  IF w = "reconcile" THEN <<w, e>>
  ELSE <<w, [e EXCEPT !.alive = FALSE, !.source = Absent]>>

-----------------------------------------------------------------------------
(* What each worker makes of an event                                      *)

\* dnsresult.Parse: a fact for each answer to any of the names.
Parse(ns) == {Sighting("fqdn", f[1], "dns", f[2]) : f \in {x \in site.forward : x[1] \in ns}}

\* DiscoverEvents: the address is up, and with it only the name that was asked for.
DiscoverEvents(e) ==
  UNION {
    {[Address(h) EXCEPT !.alive = TRUE]}
      \cup {Sighting("fqdn", r[2], "ptr", h) :
              r \in {x \in site.reverse : x[1] = h /\ ~(e.kind = "fqdn" /\ x[2] = e.name)}}
      \cup IF e.kind = "fqdn"
           THEN {[Sighting("fqdn", e.name, "requested", h) EXCEPT !.alive = TRUE]} ELSE {}
    : h \in IF e.kind = "netblock" THEN site.up ELSE {e.host} \cap site.up}

\* Expand: each open port by itself and with the requested name.
Expand(e, found) ==
  (IF e.kind = "ip" THEN {} ELSE {Address(e.host)})
    \cup {Port(n, o) : n \in {Absent, RequestedName(e)}, o \in {x \in found : x[1] = e.host}}

\* The facts the reconciler has stored.
Facts == {t[2] : t \in {k \in tasks : k[1] = "reconcile"}}

\* join: the port under the name.
Join(f, g) == [Port(f.name, <<g.host, g.port, g.proto>>) EXCEPT !.source = "reconcile"]

\* With each opposite fact of the address.
Joins(e) ==
  {IF e.kind = "fqdn" THEN Join(e, f) ELSE Join(f, e) :
     f \in {x \in Facts : x.kind # e.kind /\ x.host = e.host}}

\* parseTLSX: names a certificate mentions, with the server that presented it.
Certificates(e) ==
  {[Sighting("fqdn", c[3], "certificate", c[1]) EXCEPT !.port = c[2], !.proto = "tcp", !.tls = TRUE] :
     c \in {x \in site.certs : x[1] = e.host /\ x[2] = e.port}}

\* Profile.Args: without arguments for its transport nmap scans TCP.
Scanned(proto) == IF proto \in ScanArgs THEN proto ELSE "tcp"

\* ServiceEvents: the service at the port, under the requested name.
ServiceEvents(e) ==
  {[Port(RequestedName(e), o) EXCEPT !.kind = "service", !.service = site.class[o].service,
                                     !.tls = site.class[o].tls] :
     o \in {x \in site.open : x[1] = e.host /\ x[2] = e.port /\ x[3] = Scanned(e.proto)}}

\* Probe: the schemes that are answered, or that there is none.
Probe(e) ==
  LET answered == {s \in BOOLEAN : <<e.host, e.port, s>> \in site.web}
      Result(s) == [e EXCEPT !.service = IF s THEN "https" ELSE "http", !.tls = s, !.source = "web-probe"]
  IN IF answered = {} THEN {[e EXCEPT !.source = "web-probe"]} ELSE {Result(s) : s \in answered}

\* asurl.Event: the URL of the service's authority, at the service's address.
AsUrl(e) ==
  {[Sighting("url", RequestedName(e), IF RequestedName(e) = Absent THEN Absent ELSE "requested", e.host)
      EXCEPT !.port = e.port, !.proto = "tcp", !.tls = e.tls \/ e.service = "https"]}

Outputs(w, e) ==
  CASE w = "resolve" -> Parse({e.name})
    [] w \in {"dnsx", "ctl"} -> Parse(site.words)
    [] w = "nmap-discover" -> DiscoverEvents(e)
    [] w = "nmap-quick" -> Expand(e, {o \in site.open : o[2] \in TopPorts /\ o[3] = "tcp"})
    [] w = "nmap-full" -> Expand(e, site.open)
    [] w = "reconcile" -> Joins(e)
    [] w = "tlsx" -> Certificates(e)
    [] w = "nmap-svc" -> ServiceEvents(e)
    [] w = "web-probe" -> Probe(e)
    [] w = "as-url" -> AsUrl(e)

-----------------------------------------------------------------------------
CascadeInit == site \in Sites /\ stream = site.seeds /\ tasks = {} /\ failed = {}

Waiting(w, e) == Eligible(w, e) /\ Key(w, e) \notin tasks

\* tlsx has no answer to UDP.
Refuses(w, e) == w = "tlsx" /\ e.proto # "tcp"

\* A worker takes an event of the stream.  Any task may fail for good, with what its
\* tool has found or without.
Handle(w, e) ==
  /\ Waiting(w, e)
  /\ tasks' = tasks \cup {Key(w, e)}
  /\ \/ ~Refuses(w, e) /\ stream' = stream \cup Outputs(w, e) /\ UNCHANGED failed
     \/ /\ Refuses(w, e) \/ Cardinality(failed) < MaxFailures
        /\ stream' \in {stream, IF Refuses(w, e) THEN stream ELSE stream \cup Outputs(w, e)}
        /\ failed' = failed \cup {Key(w, e)}
  /\ UNCHANGED site

CascadeNext == \E w \in site.workers : \E e \in stream : Handle(w, e)

CascadeSpec == CascadeInit /\ [][CascadeNext]_cascadeVars

-----------------------------------------------------------------------------
(* What there is to find, whatever the order of the work                   *)

Deployed(w) == w \in site.workers
Seeded(kind) == {e \in site.seeds : e.kind = kind}
Open == {o \in site.open : Deployed("nmap-full") \/ (o[2] \in TopPorts /\ o[3] = "tcp")}

\* Mentioned lead to the addresses they resolve to, live addresses to their ports, and both
\* to the names they are known under and those their certificates mention.
SeededNames ==
  {e.name : e \in Seeded("domain") \cup Seeded("fqdn")}
    \cup (IF Seeded("domain") = {} THEN {} ELSE site.words)
HostsOf(names) ==
  {e.host : e \in Seeded("ip")} \cup (IF Seeded("netblock") = {} THEN {} ELSE site.up)
    \cup {f[2] : f \in {x \in site.forward : x[1] \in names}}
PortsOf(names) ==
  {<<e.host, e.port, e.proto>> : e \in Seeded("port")}
    \cup {o \in Open : o[1] \in HostsOf(names) \cap site.up}
NamesAt(names) ==
  {r[2] : r \in {x \in site.reverse : x[1] \in HostsOf(names) \cap site.up}}
    \cup {c[3] : c \in {x \in site.certs : Deployed("tlsx") /\ <<x[1], x[2], "tcp">> \in PortsOf(names)}}

\* What is found are the names in every set that has the seeds and what its names lead to.
Mentioned == SeededNames \cup {r[2] : r \in site.reverse} \cup {c[3] : c \in site.certs}
Closed(names) == SeededNames \cup NamesAt(names) \subseteq names
FoundNames == {x \in Mentioned : \A names \in SUBSET Mentioned : Closed(names) => x \in names}

\* A port that is found is scanned over the transport nmap has arguments for.
Reached(o) ==
  \E x \in PortsOf(FoundNames) : x[1] = o[1] /\ x[2] = o[2] /\ Scanned(x[3]) = o[3]

\* The schemes an open port answers to.
Schemes(o) ==
  {s \in BOOLEAN :
     \/ /\ site.class[o].service \in Web
        /\ s = (site.class[o].tls \/ site.class[o].service = "https")
     \/ /\ site.class[o].service \in Unidentified /\ Deployed("web-probe")
        /\ <<o[1], o[2], s>> \in site.web}

Url(n, o, s) ==
  [Sighting("url", n, IF n = Absent THEN Absent ELSE "requested", o[1])
     EXCEPT !.port = o[2], !.proto = "tcp", !.tls = s]

\* The URLs of the network: every web port that is open at an address, by itself and
\* under each name that resolves to the address.
Expected ==
  UNION {{Url(n, o, s) : s \in Schemes(o),
                         n \in {Absent} \cup {x \in FoundNames : <<x, o[1]>> \in site.forward}}
         : o \in {x \in site.open : x[3] = "tcp" /\ Reached(x)}}

Urls == {e \in stream : e.kind = "url"}

-----------------------------------------------------------------------------
(* Properties                                                              *)

\* The workers without which nothing gets as far as a URL.
Equipped ==
  /\ {"resolve", "nmap-discover", "reconcile", "nmap-svc", "as-url"} \subseteq site.workers
  /\ Deployed("nmap-quick") \/ Deployed("nmap-full")
  /\ Seeded("domain") # {} => Deployed("dnsx") \/ Deployed("ctl")

Quiet == \A w \in site.workers : \A e \in stream : ~Waiting(w, e)

\* A failure that costs nothing where the full scan is deployed.
Harmless(t) == (t[1] = "nmap-quick" /\ Deployed("nmap-full")) \/ Refuses(t[1], t[2])

\* When the workers have nothing left to do, every web endpoint that the seeds lead to
\* has its URL under each of its names, in whatever order names and ports were found,
\* and although nearly every task was found more than once (README.md:103).
NothingIsMissed == Equipped /\ Quiet /\ (\A t \in failed : Harmless(t)) => Expected \subseteq Urls

\* Nothing else is visited: no name at an address that only mentions it, no scheme that
\* the port does not speak (event/SCHEMA.md:103).
NothingIsInvented == Urls \subseteq Expected

\* A name is requested of an address only where it resolves to it, wherever it was
\* mentioned (event/SCHEMA.md:57).
RequestedNamesResolve ==
  \A e \in stream : e.role = "requested" => <<e.name, e.host>> \in site.forward

\* Nothing is found that is not there.
OnlyWhatIsThere == NothingIsInvented /\ RequestedNamesResolve
=============================================================================
