---------------------------- MODULE MeaningProofs ----------------------------
(***************************************************************************)
(* What holds of Events for any addresses, hostnames and ports, and any    *)
(* number of trailing dots (of a URL at most three, see there): what the   *)
(* first Canonical settles (FirstPass), and that another changes nothing   *)
(* but dots of the value (SettledStays).  Both go through the steps of     *)
(* Canonical in the order of the code.                                     *)
(*                                                                         *)
(* And of Cascade for any network, deployment and failures: every event    *)
(* says what is so (IsSo), and a task that has not failed leaves behind    *)
(* all there was to find (Answered, Joined); idle workers have therefore   *)
(* found the least set of names that is closed under what they look up.    *)
(***************************************************************************)
EXTENDS Events, Cascade, TLAPS

-----------------------------------------------------------------------------
(* The steps of Canonical                                                  *)

\* One trailing dot goes, and a name without one stays what it is.
LEMMA FQDNFacts ==
  ASSUME EventAssumption, NEW n \in Names
  PROVE  /\ CanonFQDN(n) \in Names /\ CanonFQDN(n).base = n.base
         /\ CanonFQDN(n).dots = IF n.dots > 0 THEN n.dots - 1 ELSE 0
         /\ n.dots = 0 => CanonFQDN(n) = n
BY DEF CanonFQDN, Names

\* An address stays, and a name remains a name.
LEMMA HostFacts ==
  ASSUME EventAssumption, NEW h \in Hosts
  PROVE  /\ CanonHost(h) \in Hosts
         /\ IsIP(h) => CanonHost(h) = h
         /\ ~IsIP(h) => h \in Names /\ CanonHost(h) = CanonFQDN(h) /\ ~IsIP(CanonHost(h)) /\ CanonHost(h) \in Names
BY FQDNFacts DEF CanonHost, Hosts, IsIP, EventAssumption

\* The value is checked by its kind, and loses a dot unless it is a service's.
LEMMA CanonValueFacts ==
  ASSUME EventAssumption, NEW e \in Written, e.kind = "fqdn" => e.value.host \in Names,
         NEW f, f = CanonValue(e), f # Refused
  PROVE  /\ f \in Written
         /\ f.kind = e.kind /\ f.version = e.version
         /\ f.value.host = IF e.kind = "service" THEN e.value.host ELSE CanonHost(e.value.host)
         /\ f.value.port = e.value.port /\ f.value.tls = e.value.tls
         /\ f.host = e.host /\ f.name = e.name /\ f.role = e.role
         /\ f.port = e.port /\ f.proto = e.proto /\ f.tls = e.tls
         /\ e.kind = "ip" => IsIP(e.value.host)
         /\ e.kind = "port" => ValidPort(e.value.port)
         /\ e.kind = "url" => e.value.port \in 0..MaxPort
<1>1. CanonHost(e.value.host) \in Hosts /\ (e.value.host \in Names => CanonFQDN(e.value.host) = CanonHost(e.value.host))
  BY HostFacts DEF Written, Hosts, IsIP, EventAssumption
<1> HIDE DEF CanonHost, CanonFQDN
<1>2. CASE e.kind = "fqdn"
  <2>1. f = [e EXCEPT !.value.host = CanonHost(e.value.host)]
    BY <1>1, <1>2 DEF CanonValue
  <2> QED BY <1>1, <1>2, <2>1 DEF Written
<1>3. CASE e.kind = "ip"
  BY <1>3, HostFacts DEF CanonValue, Written
<1>4. CASE e.kind = "port"
  <2>1. /\ f = [e EXCEPT !.value.host = CanonHost(e.value.host), !.meta.host = CanonHost(e.value.host), !.meta.port = e.value.port]
        /\ ValidPort(e.value.port)
    BY <1>4 DEF CanonValue
  <2> DEFINE v == [e.value EXCEPT !.host = CanonHost(e.value.host)]
             m == [e.meta EXCEPT !.host = CanonHost(e.value.host), !.port = e.value.port]
  <2>2. v \in [host : Hosts, port : Nat, tls : BOOLEAN] /\ v.host = CanonHost(e.value.host)
        /\ v.port = e.value.port /\ v.tls = e.value.tls
    BY <1>1 DEF Written
  <2>3. m \in [ip : Hosts \cup {None}, host : Hosts \cup {None}, port : Nat,
               proto : {None, "tcp", "udp", "icmp"}, tunnel : BOOLEAN]
    BY <1>1 DEF Written
  <2>4. f = [e EXCEPT !.value = v, !.meta = m]
    BY <2>1 DEF Written
  <2> HIDE DEF v, m
  <2>5. f \in Written
    BY <2>2, <2>3, <2>4 DEF Written
  <2>7. f.value = v
    BY <2>4 DEF Written
  <2>6. /\ f.kind = e.kind /\ f.version = e.version
        /\ f.host = e.host /\ f.name = e.name /\ f.role = e.role
        /\ f.port = e.port /\ f.proto = e.proto /\ f.tls = e.tls
    BY <2>4 DEF Written
  <2> QED BY <1>4, <2>1, <2>2, <2>5, <2>6, <2>7
<1>5. CASE e.kind = "url"
  <2>1. /\ f = [e EXCEPT !.value.host = CanonHost(e.value.host)]
        /\ e.value.port \in 0..MaxPort
    BY <1>5 DEF CanonValue
  <2> QED BY <1>1, <1>5, <2>1 DEF Written
<1>6. CASE e.kind = "service"
  BY <1>6 DEF CanonValue, Written
<1> QED BY <1>2, <1>3, <1>4, <1>5, <1>6 DEF Written, Kinds

\* A current event has nothing to promote.
LEMMA PromoteFacts ==
  ASSUME EventAssumption, NEW e \in Written, NEW f, f = Promote(e)
  PROVE  /\ f \in Written
         /\ f.kind = e.kind /\ f.value = e.value /\ f.name = e.name /\ f.role = e.role
         /\ e.version = Current => f = e
<1>1. CASE e.version = Current
  BY <1>1 DEF Promote
<1>2. CASE e.version # Current
  <2> DEFINE h == CASE e.host # None -> e.host
                    [] IsIP(e.meta.ip) -> e.meta.ip
                    [] IsIP(e.meta.host) -> e.meta.host
                    [] OTHER -> None
             p == IF e.port = 0 THEN e.meta.port ELSE e.port
             r == IF e.proto = None THEN e.meta.proto ELSE e.proto
             t == e.tls \/ e.meta.tunnel
  <2>1. h \in Hosts \cup {None}
    <3>1. e.host # None => e.host \in Hosts
      BY DEF Written
    <3> QED BY <3>1 DEF Written, IsIP, Hosts
  <2>2. p \in Nat /\ r \in {None, "tcp", "udp", "icmp"} /\ t \in BOOLEAN
    BY DEF Written
  <2>3. f = [e EXCEPT !.host = h, !.port = p, !.proto = r, !.tls = t]
    BY <1>2 DEF Promote
  <2> HIDE DEF h, p, r, t
  <2>4. f \in Written
    BY <2>1, <2>2, <2>3 DEF Written
  <2>5. f.kind = e.kind /\ f.value = e.value /\ f.name = e.name /\ f.role = e.role
    BY <2>3 DEF Written
  <2> QED BY <1>2, <2>4, <2>5
<1> QED BY <1>1, <1>2

\* The target by itself: what is accepted, and what of it changes.
LEMMA CanonTargetFacts ==
  ASSUME EventAssumption, NEW e \in Written, NEW f, f = CanonTarget(e), f # Refused
  PROVE  /\ f \in Written
         /\ f.version = e.version /\ f.kind = e.kind /\ f.value = e.value
         /\ f.host = e.host /\ f.port = e.port /\ f.proto = e.proto /\ f.tls = e.tls
         /\ f.host \in IPs \cup {None} /\ f.port \in 0..MaxPort /\ (f.port # 0 => f.proto # "icmp")
         /\ f.role \in Roles \cup {None} /\ (f.name = None <=> f.role = None)
         /\ f.name = IF e.name = None THEN None ELSE CanonFQDN(e.name)
         /\ f.name # None => ValidName(f.name)
<1> DEFINE name == IF e.name = None THEN None ELSE CanonFQDN(e.name)
           role == IF e.name # None /\ e.role = None THEN "observed" ELSE e.role
<1>1. name \in Names \cup {None} /\ (name = None <=> e.name = None) /\ role \in Roles \cup {None, "unknown"}
  BY FQDNFacts DEF Written, EventAssumption, Roles
<1>2. /\ e.host \in IPs \cup {None}
      /\ name # None => ValidName(name)
      /\ name = None => e.role = None
      /\ role \in Roles \cup {None}
      /\ e.port \in 0..MaxPort
      /\ e.port # 0 => e.proto # "icmp"
      /\ f = [e EXCEPT !.name = name, !.role = role]
  BY DEF CanonTarget
<1>3. name = None <=> role = None
  BY <1>1, <1>2 DEF EventAssumption, Roles
<1>4. name = IF e.name = None THEN None ELSE CanonFQDN(e.name)
  OBVIOUS
<1> HIDE DEF name, role
<1>5. f \in Written
  BY <1>1, <1>2 DEF Written
<1>6. f.name = name /\ f.role = role /\ f.host = e.host /\ f.port = e.port /\ f.proto = e.proto /\ f.tls = e.tls
      /\ f.version = e.version /\ f.kind = e.kind /\ f.value = e.value
  BY <1>2 DEF Written
<1> QED BY <1>2, <1>3, <1>4, <1>5, <1>6

\* A target that is canonical stays what it is.
LEMMA CanonTargetIdle ==
  ASSUME EventAssumption, NEW e \in Written,
         e.host \in IPs \cup {None}, e.port \in 0..MaxPort, e.port # 0 => e.proto # "icmp",
         e.role \in Roles \cup {None}, e.name = None <=> e.role = None,
         e.name # None => ValidName(e.name)
  PROVE  CanonTarget(e) = e
<1>1. e.name # None => CanonFQDN(e.name) = e.name
  BY FQDNFacts DEF ValidName, Written
<1> HIDE DEF CanonFQDN
<1>2. CanonTarget(e) = [e EXCEPT !.name = e.name, !.role = e.role]
  BY <1>1 DEF CanonTarget
<1>3. [e EXCEPT !.name = e.name, !.role = e.role] = e
  BY DEF Written
<1> QED BY <1>2, <1>3

\* The address or the name of the target is that of the value afterwards.
LEMMA BindAuthorityFacts ==
  ASSUME EventAssumption, NEW e \in Written, NEW h \in Hosts, NEW p \in Nat,
         NEW f, f = BindAuthority(e, h, p), f # Refused
  PROVE  /\ f \in Written
         /\ f.version = e.version /\ f.kind = e.kind /\ f.value = e.value /\ f.proto = e.proto /\ f.tls = e.tls
         /\ f.port = p
         /\ IsIP(h) => f.host = h /\ e.host \in {None, h} /\ f.name = e.name /\ f.role = e.role
         /\ ~IsIP(h) => f.host = e.host /\ f.name = CanonFQDN(h) /\ f.name # None
         /\ ~IsIP(h) => (IF e.name = None THEN f.role = "requested" ELSE f.name = e.name /\ f.role = e.role)
<1> "requested" \in Roles
  BY DEF Roles
<1>1. CASE IsIP(h)
  <2>1. f = [e EXCEPT !.port = p, !.host = h] /\ e.host \in {None, h}
    BY <1>1 DEF BindAuthority
  <2>2. f \in Written
    BY <1>1, <2>1 DEF Written, IsIP, Hosts
  <2>3. /\ f.version = e.version /\ f.kind = e.kind /\ f.value = e.value /\ f.proto = e.proto /\ f.tls = e.tls
        /\ f.port = p /\ f.host = h /\ f.name = e.name /\ f.role = e.role
    BY <2>1 DEF Written
  <2> QED BY <1>1, <2>1, <2>2, <2>3
<1>2. CASE ~IsIP(h)
  <2>1. CanonFQDN(h) \in Names /\ CanonFQDN(h) # None
    BY <1>2, FQDNFacts, HostFacts DEF EventAssumption
  <2>2. \/ e.name = None /\ f = [e EXCEPT !.port = p, !.name = CanonFQDN(h), !.role = "requested"]
        \/ e.name = CanonFQDN(h) /\ e.name # None /\ f = [e EXCEPT !.port = p]
    BY <1>2, <2>1 DEF BindAuthority
  <2> DEFINE n == CanonFQDN(h)
  <2> HIDE DEF n
  <2>3. CASE e.name = None
    <3>1. f = [e EXCEPT !.port = p, !.name = n, !.role = "requested"] /\ n \in Names /\ n # None
      BY <2>1, <2>2, <2>3 DEF n
    <3>2. f \in Written
      BY <3>1 DEF Written
    <3>3. /\ f.version = e.version /\ f.kind = e.kind /\ f.value = e.value /\ f.proto = e.proto /\ f.tls = e.tls
          /\ f.port = p /\ f.host = e.host /\ f.name = n /\ f.role = "requested"
      BY <3>1 DEF Written
    <3> QED BY <1>2, <2>3, <3>1, <3>2, <3>3 DEF n
  <2>4. CASE e.name # None
    <3>1. f = [e EXCEPT !.port = p] /\ e.name = n /\ n # None
      BY <2>1, <2>2, <2>4 DEF n
    <3>2. f \in Written
      BY <3>1 DEF Written
    <3>3. /\ f.version = e.version /\ f.kind = e.kind /\ f.value = e.value /\ f.proto = e.proto /\ f.tls = e.tls
          /\ f.port = p /\ f.host = e.host /\ f.name = e.name /\ f.role = e.role
      BY <3>1 DEF Written
    <3> QED BY <1>2, <2>4, <3>1, <3>2, <3>3 DEF n
  <2> QED BY <2>3, <2>4
<1> QED BY <1>1, <1>2

-----------------------------------------------------------------------------
(* Settled events                                                          *)

\* What CanonTarget accepts it leaves like this.
Targeted(e) ==
  /\ e.host \in IPs \cup {None} /\ e.role \in Roles \cup {None}
  /\ e.name = None <=> e.role = None
  /\ e.name # None => ValidName(e.name)
  /\ e.port \in 0..MaxPort /\ (e.port # 0 => e.proto # "icmp")

\* The trailing dots that the value of an accepted event may still have.
Slack(kind) == CASE kind = "url" -> 2 [] kind = "port" -> 2 [] OTHER -> 1

\* The target is what the value says.
Agrees(e) ==
  /\ IsIP(e.value.host) => e.kind # "fqdn" /\ e.host = e.value.host
  /\ ~IsIP(e.value.host) => /\ e.kind # "ip" /\ e.name # None /\ e.name.base = e.value.host.base
                            /\ e.value.host.dots <= Slack(e.kind)
  /\ e.kind \in {"port", "service"} => e.port = e.value.port /\ ValidPort(e.port)
  /\ e.kind = "url" =>
       /\ e.value.port \in 0..MaxPort /\ e.port = UrlPort(e.value) /\ e.tls = e.value.tls
  /\ e.kind \in {"port", "url"} => e.proto # None

Settled(e) == e \in Written /\ e.version = Current /\ Targeted(e) /\ Agrees(e)

\* The key without the value.
SameTarget(e, f) ==
  /\ f.version = e.version /\ f.kind = e.kind
  /\ f.host = e.host /\ f.name = e.name /\ f.role = e.role
  /\ f.port = e.port /\ f.proto = e.proto /\ f.tls = e.tls

\* The value but for its host.
SameValue(e, f) == f.value.port = e.value.port /\ f.value.tls = e.value.tls

\* What Bind binds of a port, a service or a URL.
BoundHost(e) == IF e.kind = "url" THEN CanonHost(CanonHost(e.value.host)) ELSE e.value.host
BoundPort(e) == IF e.kind = "url" THEN UrlPort(e.value) ELSE e.value.port

\* Ports, services and URLs bind the host and port of their value.
LEMMA BindAuthorityKinds ==
  ASSUME EventAssumption, NEW e \in Written, e.kind \in {"port", "service", "url"},
         NEW f, f = Bind(e), f # Refused
  PROVE  LET b == BindAuthority(e, BoundHost(e), BoundPort(e))
         IN /\ b # Refused /\ b \in Written
            /\ f \in Written /\ SameValue(e, f)
            /\ f.version = b.version /\ f.kind = b.kind /\ f.host = b.host /\ f.name = b.name
            /\ f.role = b.role /\ f.port = b.port
            /\ f.value.host = IF e.kind = "service" THEN CanonHost(e.value.host) ELSE e.value.host
            /\ f.proto = IF e.kind # "service" /\ e.proto = None THEN "tcp" ELSE e.proto
            /\ f.tls = IF e.kind = "url" THEN e.value.tls ELSE e.tls
            /\ e.kind = "service" => ValidPort(e.value.port)
<1> DEFINE b == BindAuthority(e, BoundHost(e), BoundPort(e))
<1>1. BoundHost(e) \in Hosts /\ BoundPort(e) \in Nat /\ CanonHost(e.value.host) \in Hosts
  BY HostFacts DEF BoundHost, BoundPort, Written, UrlPort
<1>2. b # Refused
  BY DEF Bind, BoundHost, BoundPort
<1>3. b \in Written /\ b.value = e.value /\ b.proto = e.proto /\ b.tls = e.tls
  BY <1>1, <1>2, BindAuthorityFacts
<1>4. e.kind = "port" => f = [b EXCEPT !.proto = IF b.proto = None THEN "tcp" ELSE b.proto]
  BY <1>2 DEF Bind, BoundHost, BoundPort
<1>5. e.kind = "service" => f = [b EXCEPT !.value = [b.value EXCEPT !.host = CanonHost(b.value.host)]] /\ ValidPort(e.value.port)
  BY <1>2, <1>3 DEF Bind, BoundHost, BoundPort, Written
<1>6. e.kind = "url" => f = [b EXCEPT !.proto = IF b.proto = None THEN "tcp" ELSE b.proto, !.tls = e.value.tls]
  BY <1>2 DEF Bind, BoundHost, BoundPort
<1> HIDE DEF b, CanonHost
<1>7. CASE e.kind = "port"
  BY <1>2, <1>3, <1>4, <1>7 DEF Written, SameValue, b
<1>8. CASE e.kind = "service"
  <2> DEFINE v == [b.value EXCEPT !.host = CanonHost(b.value.host)]
  <2>1. v \in [host : Hosts, port : Nat, tls : BOOLEAN] /\ v.host = CanonHost(e.value.host)
        /\ v.port = e.value.port /\ v.tls = e.value.tls
    BY <1>1, <1>3 DEF Written
  <2> HIDE DEF v
  <2>2. f = [b EXCEPT !.value = v]
    BY <1>5, <1>8 DEF v
  <2>3. f \in Written
    BY <1>3, <2>1, <2>2 DEF Written
  <2>4. f.value = v /\ f.version = b.version /\ f.kind = b.kind /\ f.host = b.host /\ f.name = b.name
        /\ f.role = b.role /\ f.port = b.port /\ f.proto = b.proto /\ f.tls = b.tls
    BY <1>3, <2>2 DEF Written
  <2> QED BY <1>2, <1>3, <1>5, <1>8, <2>1, <2>3, <2>4 DEF SameValue, b
<1>9. CASE e.kind = "url"
  <2> DEFINE p == IF b.proto = None THEN "tcp" ELSE b.proto
  <2>1. p \in {None, "tcp", "udp", "icmp"} /\ e.value.tls \in BOOLEAN
    BY <1>3 DEF Written
  <2> HIDE DEF p
  <2>2. f = [b EXCEPT !.proto = p, !.tls = e.value.tls]
    BY <1>6, <1>9 DEF p
  <2>3. f \in Written
    BY <1>3, <2>1, <2>2 DEF Written
  <2>4. f.value = b.value /\ f.version = b.version /\ f.kind = b.kind /\ f.host = b.host /\ f.name = b.name
        /\ f.role = b.role /\ f.port = b.port /\ f.proto = p /\ f.tls = e.value.tls
    BY <1>3, <2>2 DEF Written
  <2> QED BY <1>2, <1>3, <1>9, <2>3, <2>4 DEF SameValue, b, p
<1> QED BY <1>7, <1>8, <1>9

\* After Bind the target is what the value says, by its kind.
LEMMA BindFacts ==
  ASSUME EventAssumption, NEW e \in Written, e.kind = "fqdn" => ~IsIP(e.value.host),
         e.kind = "ip" => IsIP(e.value.host), e.kind = "port" => ValidPort(e.value.port),
         NEW f, f = Bind(e), f # Refused
  PROVE  /\ f \in Written /\ SameValue(e, f) /\ f.version = e.version /\ f.kind = e.kind
         /\ f.value.host = IF e.kind = "service" THEN CanonHost(e.value.host) ELSE e.value.host
         /\ IF IsIP(e.value.host) THEN f.host = e.value.host /\ e.host \in {None, f.host}
            ELSE /\ f.host = e.host
                 /\ f.name = IF e.kind = "fqdn" THEN e.value.host ELSE CanonFQDN(BoundHost(e))
         /\ e.kind \in {"port", "service", "url"} => f.port = BoundPort(e)
         /\ e.kind \in {"port", "service"} => ValidPort(e.value.port)
         /\ e.kind \in {"port", "url"} => f.proto # None
         /\ e.kind = "url" => f.tls = e.value.tls
<1>1. CASE e.kind = "fqdn"
  <2>1. f = [e EXCEPT !.name = e.value.host] /\ e.value.host \in Names
    BY <1>1 DEF Bind, Written, Hosts, IsIP
  <2> QED BY <1>1, <2>1 DEF Written, SameValue
<1>2. CASE e.kind = "ip"
  <2>1. f = [e EXCEPT !.host = e.value.host] /\ e.host \in {None, e.value.host}
    BY <1>2 DEF Bind
  <2> QED BY <1>2, <2>1 DEF Written, SameValue
<1>3. CASE e.kind \in {"port", "service", "url"}
  <2> DEFINE b == BindAuthority(e, BoundHost(e), BoundPort(e))
  <2>1. BoundHost(e) \in Hosts /\ BoundPort(e) \in Nat /\ (IsIP(BoundHost(e)) <=> IsIP(e.value.host))
        /\ (IsIP(e.value.host) => BoundHost(e) = e.value.host)
    BY HostFacts DEF BoundHost, BoundPort, Written, UrlPort
  <2>2. /\ b # Refused /\ b \in Written
        /\ f \in Written /\ SameValue(e, f)
        /\ f.version = b.version /\ f.kind = b.kind /\ f.host = b.host /\ f.name = b.name
        /\ f.role = b.role /\ f.port = b.port
        /\ f.value.host = IF e.kind = "service" THEN CanonHost(e.value.host) ELSE e.value.host
        /\ f.proto = IF e.kind # "service" /\ e.proto = None THEN "tcp" ELSE e.proto
        /\ f.tls = IF e.kind = "url" THEN e.value.tls ELSE e.tls
        /\ e.kind = "service" => ValidPort(e.value.port)
    BY <1>3, BindAuthorityKinds
  <2> HIDE DEF b
  <2>3. /\ b.version = e.version /\ b.kind = e.kind /\ b.port = BoundPort(e)
        /\ IsIP(BoundHost(e)) => b.host = BoundHost(e) /\ e.host \in {None, BoundHost(e)}
        /\ ~IsIP(BoundHost(e)) => b.host = e.host /\ b.name = CanonFQDN(BoundHost(e))
    BY <2>1, <2>2, BindAuthorityFacts DEF b
  <2>4. f.proto # None \/ e.kind = "service"
    BY <2>2 DEF EventAssumption
  <2> QED BY <1>3, <2>1, <2>2, <2>3, <2>4
<1> QED BY <1>1, <1>2, <1>3 DEF Written, Kinds

-----------------------------------------------------------------------------
(* The passes                                                              *)

\* What may be written is not Refused.
LEMMA NotRefused ==
  ASSUME NEW e \in Written
  PROVE  e # Refused
BY DEF Written, Refused, Kinds

\* What the first Canonical accepts is settled, and its address is one of the event's own.
LEMMA FirstPass ==
  ASSUME EventAssumption, NEW e \in Written, e.kind = "fqdn" => e.value.host \in Names,
         e.kind = "url" /\ e.value.host \in Names => e.value.host.dots <= 3,
         NEW f, f = Canonical(e), f # Refused
  PROVE  /\ Settled(f) /\ SameValue(e, f) /\ f.value.host = CanonHost(e.value.host)
         /\ f.kind = e.kind
         /\ e.version = Current => f.host \in {None, e.host, e.value.host}
<1> DEFINE e1 == CanonValue(e)
           e2 == Promote(e1)
           e3 == CanonTarget(e2)
           e4 == Bind(e3)
           e5 == CanonTarget(e4)
<1>1. /\ e1 # Refused /\ e3 # Refused /\ e4 # Refused /\ e5 # Refused
      /\ f = [e5 EXCEPT !.version = Current]
  BY NotRefused DEF Canonical, Then, Stamp
<1> HIDE DEF e1, e2, e3, e4, e5
<1>2. /\ e1 \in Written
      /\ e1.kind = e.kind /\ e1.version = e.version
      /\ e1.value.host = IF e.kind = "service" THEN e.value.host ELSE CanonHost(e.value.host)
      /\ SameValue(e, e1)
      /\ e1.host = e.host
      /\ e.kind = "ip" => IsIP(e.value.host)
      /\ e.kind = "port" => ValidPort(e.value.port)
      /\ e.kind = "url" => e.value.port \in 0..MaxPort
  BY <1>1, CanonValueFacts DEF e1, SameValue
<1>3. /\ e2 \in Written /\ e2.kind = e1.kind /\ e2.value = e1.value
      /\ e1.version = Current => e2 = e1
  BY <1>2, PromoteFacts DEF e2
<1>4. e3 \in Written /\ e3.kind = e2.kind /\ e3.value = e2.value /\ e3.host = e2.host
  BY <1>1, <1>3, CanonTargetFacts DEF e3
<1>5. /\ e.kind = "fqdn" => ~IsIP(e3.value.host)
      /\ e.kind = "ip" => IsIP(e3.value.host)
      /\ IsIP(e3.value.host) <=> IsIP(e.value.host)
      /\ IsIP(e.value.host) => e3.value.host = e.value.host /\ CanonHost(e.value.host) = e.value.host
      /\ CanonHost(e.value.host) \in Hosts
  BY <1>2, <1>3, <1>4, HostFacts DEF Written, IsIP, EventAssumption
<1>6. /\ e4 \in Written /\ SameValue(e3, e4) /\ e4.kind = e3.kind
      /\ e4.value.host = IF e3.kind = "service" THEN CanonHost(e3.value.host) ELSE e3.value.host
      /\ IF IsIP(e3.value.host) THEN e4.host = e3.value.host
         ELSE /\ e4.host = e3.host
              /\ e4.name = IF e3.kind = "fqdn" THEN e3.value.host ELSE CanonFQDN(BoundHost(e3))
      /\ e3.kind \in {"port", "service", "url"} => e4.port = BoundPort(e3)
      /\ e3.kind \in {"port", "service"} => ValidPort(e3.value.port)
      /\ e3.kind \in {"port", "url"} => e4.proto # None
      /\ e3.kind = "url" => e4.tls = e3.value.tls
  BY <1>1, <1>2, <1>3, <1>4, <1>5, BindFacts DEF e4, SameValue
<1>7. /\ e5 \in Written /\ Targeted(e5)
      /\ e5.kind = e4.kind /\ e5.value = e4.value
      /\ e5.host = e4.host /\ e5.port = e4.port /\ e5.proto = e4.proto /\ e5.tls = e4.tls
      /\ e5.name = IF e4.name = None THEN None ELSE CanonFQDN(e4.name)
  BY <1>1, <1>6, CanonTargetFacts DEF e5, Targeted
<1>8. /\ f \in Written /\ f.version = Current
      /\ f.kind = e5.kind /\ f.value = e5.value /\ f.name = e5.name /\ f.role = e5.role
      /\ f.host = e5.host /\ f.port = e5.port /\ f.proto = e5.proto /\ f.tls = e5.tls
  BY <1>1, <1>7 DEF Written, Current
<1>9. Targeted(f)
  BY <1>7, <1>8 DEF Targeted
<1>10. f.value.host = CanonHost(e.value.host) /\ SameValue(e, f) /\ f.kind = e.kind
  BY <1>2, <1>3, <1>4, <1>6, <1>7, <1>8 DEF SameValue
<1>11. IsIP(f.value.host) => f.kind # "fqdn" /\ f.host = f.value.host
  BY <1>2, <1>3, <1>4, <1>5, <1>6, <1>7, <1>8, <1>10, HostFacts DEF Written
<1>12. ASSUME ~IsIP(f.value.host)
       PROVE  /\ f.kind # "ip" /\ f.name # None /\ f.name.base = f.value.host.base
              /\ f.value.host.dots <= Slack(f.kind)
  <2> DEFINE h == e.value.host
  <2>1. h \in Names /\ ~IsIP(h) /\ e.kind # "ip" /\ f.value.host = CanonFQDN(h) /\ CanonHost(h) = CanonFQDN(h)
    BY <1>2, <1>5, <1>10, <1>12, HostFacts DEF Written
  <2>2. /\ CanonFQDN(h) \in Names /\ CanonFQDN(CanonFQDN(h)) \in Names
        /\ CanonFQDN(CanonFQDN(CanonFQDN(h))) \in Names
        /\ CanonFQDN(CanonFQDN(CanonFQDN(CanonFQDN(h)))) \in Names
        /\ CanonHost(CanonFQDN(h)) = CanonFQDN(CanonFQDN(h))
        /\ CanonHost(CanonFQDN(CanonFQDN(h))) = CanonFQDN(CanonFQDN(CanonFQDN(h)))
    BY <2>1, FQDNFacts, HostFacts DEF Hosts, IsIP, EventAssumption
  <2>3. e4.name = CASE e.kind = "fqdn" -> CanonFQDN(h)
                    [] e.kind = "service" -> CanonFQDN(h)
                    [] e.kind = "port" -> CanonFQDN(CanonFQDN(h))
                    [] e.kind = "url" -> CanonFQDN(CanonFQDN(CanonFQDN(CanonFQDN(h))))
    BY <1>2, <1>3, <1>4, <1>5, <1>6, <2>1, <2>2 DEF BoundHost, Written, Kinds
  <2>4. e4.name \in Names /\ e4.name # None
    BY <2>1, <2>2, <2>3 DEF Written, Kinds, EventAssumption
  <2>5. f.name = CanonFQDN(e4.name) /\ f.name # None
    BY <1>7, <1>8, <2>4, FQDNFacts DEF EventAssumption
  <2>6. f.name.dots = 0
    BY <1>9, <2>5 DEF Targeted, ValidName
  <2>7. f.name.base = f.value.host.base
    BY <2>1, <2>2, <2>3, <2>4, <2>5, FQDNFacts DEF Written, Kinds
  <2>8. f.value.host.dots <= Slack(f.kind)
    <3> DEFINE g == CanonFQDN(h)
    <3>1. g \in Names /\ g.dots \in Nat
      BY <2>2 DEF Names
    <3>2. CanonFQDN(g).dots = IF g.dots > 0 THEN g.dots - 1 ELSE 0
      BY <3>1, FQDNFacts
    <3>3. CanonFQDN(CanonFQDN(g)).dots = IF g.dots > 1 THEN g.dots - 2 ELSE 0
      BY <2>2, <3>1, <3>2, FQDNFacts
    <3>5. f.kind = e.kind /\ e.kind \in Kinds /\ f.value.host = g
      BY <1>10, <2>1 DEF Written
    <3> HIDE DEF g
    <3>6. CASE e.kind = "url"
      <4>1. h.dots <= 3 /\ h.dots \in Nat /\ g.dots = IF h.dots > 0 THEN h.dots - 1 ELSE 0
        BY <2>1, <3>6, FQDNFacts DEF g, Names
      <4> QED BY <3>5, <3>6, <4>1 DEF Slack
    <3>7. CASE e.kind = "port"
      <4>1. f.name = CanonFQDN(CanonFQDN(g))
        BY <2>3, <2>5, <3>7 DEF g
      <4> QED BY <2>6, <3>1, <3>3, <3>5, <3>7, <4>1 DEF Slack
    <3>8. CASE e.kind \in {"fqdn", "service"}
      <4>1. f.name = CanonFQDN(g)
        BY <2>3, <2>5, <3>8 DEF g
      <4> QED BY <2>6, <3>1, <3>2, <3>5, <3>8, <4>1 DEF Slack
    <3> QED BY <2>1, <3>5, <3>6, <3>7, <3>8 DEF Kinds
  <2> QED BY <1>10, <2>1, <2>5, <2>7, <2>8
<1>13. /\ f.kind \in {"port", "service"} => f.port = f.value.port /\ ValidPort(f.port)
       /\ f.kind = "url" =>
            /\ f.value.port \in 0..MaxPort /\ f.port = UrlPort(f.value) /\ f.tls = f.value.tls
       /\ f.kind \in {"port", "url"} => f.proto # None
  BY <1>2, <1>3, <1>4, <1>6, <1>7, <1>8, <1>10 DEF SameValue, BoundPort, UrlPort
<1>14. e.version = Current => f.host \in {None, e.host, e.value.host}
  BY <1>2, <1>3, <1>4, <1>5, <1>6, <1>7, <1>8
<1> QED BY <1>8, <1>9, <1>10, <1>11, <1>12, <1>13, <1>14 DEF Settled, Agrees

\* A target that is bound stays bound.
LEMMA BindIdle ==
  ASSUME EventAssumption, NEW e \in Written, Targeted(e), NEW h \in Hosts, NEW p \in Nat,
         e.port = p, IsIP(h) => e.host = h, ~IsIP(h) => e.name = CanonFQDN(h)
  PROVE  BindAuthority(e, h, p) = e
<1>1. CASE IsIP(h)
  <2>1. BindAuthority(e, h, p) = [e EXCEPT !.port = e.port, !.host = e.host]
    BY <1>1 DEF BindAuthority
  <2> QED BY <2>1 DEF Written
<1>2. CASE ~IsIP(h)
  <2>1. e.name # None
    BY <1>2, FQDNFacts, HostFacts DEF EventAssumption
  <2>2. BindAuthority(e, h, p) = [e EXCEPT !.port = e.port]
    BY <1>2, <2>1 DEF BindAuthority
  <2> QED BY <2>2 DEF Written
<1> QED BY <1>1, <1>2


\* What Canonical has accepted it accepts again, and changes no more of it than the
\* trailing dots of the value.
LEMMA SettledStays ==
  ASSUME EventAssumption, NEW e, Settled(e), NEW f, f = Canonical(e)
  PROVE  /\ f # Refused /\ Settled(f) /\ SameTarget(e, f) /\ SameValue(e, f)
         /\ f.value.host = CanonHost(e.value.host)
<1> DEFINE e1 == CanonValue(e)
           h  == e.value.host
<1>1. /\ e \in Written /\ e.version = Current /\ Targeted(e) /\ Agrees(e)
      /\ h \in Hosts /\ e.kind \in Kinds /\ e.value.port \in Nat
      /\ e.kind = "fqdn" => h \in Names
  BY HostFacts DEF Settled, Written, Agrees
<1>2. e1 # Refused
  <2>1. CASE e.kind \in {"fqdn", "port", "url"}
    <3>1. PICK x \in {"fqdn", "port", "url"} : e1.kind = x
      BY <1>1, <2>1 DEF CanonValue, Agrees, Written
    <3> QED BY <3>1 DEF Refused
  <2>2. CASE e.kind \in {"ip", "service"}
    BY <1>1, <2>2, NotRefused DEF CanonValue, Agrees
  <2> QED BY <1>1, <2>1, <2>2 DEF Kinds
<1>3. /\ e1 \in Written /\ SameTarget(e, e1) /\ SameValue(e, e1)
      /\ e1.value.host = IF e.kind = "service" THEN h ELSE CanonHost(h)
  BY <1>1, <1>2, CanonValueFacts DEF SameTarget, SameValue
<1>4. Promote(e1) = e1
  BY <1>1, <1>3 DEF Promote, SameTarget
<1>5. Targeted(e1)
  BY <1>1, <1>3 DEF Targeted, SameTarget
<1>6. CanonTarget(e1) = e1
  BY <1>3, <1>5, CanonTargetIdle DEF Targeted
<1> HIDE DEF e1
\* The name of the target is that of the value, without its dots.
<1>7. /\ CanonHost(h) \in Hosts
      /\ IsIP(h) => CanonHost(h) = h /\ e.host = h /\ e.kind # "fqdn"
      /\ ~IsIP(h) => h \in Names /\ CanonHost(h) = CanonFQDN(h) /\ ~IsIP(CanonHost(h))
  BY <1>1, HostFacts DEF Agrees
<1>8. ASSUME ~IsIP(h)
      PROVE  e.name = IF e.kind = "fqdn" THEN CanonHost(h) ELSE CanonFQDN(BoundHost(e1))
  <2> DEFINE g == CanonFQDN(h)
  <2>1. /\ h \in Names /\ h.dots \in Nat /\ h.dots <= Slack(e.kind) /\ e.kind # "ip"
        /\ e.name \in Names /\ e.name.dots = 0 /\ e.name.base = h.base
    BY <1>1, <1>7, <1>8 DEF Agrees, Targeted, ValidName, Names, Written
  <2>2. g \in Names /\ g.base = h.base /\ g.dots = IF h.dots > 0 THEN h.dots - 1 ELSE 0
    BY <2>1, FQDNFacts
  <2> HIDE DEF g
  <2>3. CanonFQDN(g) \in Names /\ CanonFQDN(g).base = h.base
        /\ CanonFQDN(g).dots = IF h.dots > 1 THEN h.dots - 2 ELSE 0
    BY <2>1, <2>2, FQDNFacts
  <2>4. CanonFQDN(CanonFQDN(g)) \in Names /\ CanonFQDN(CanonFQDN(g)).base = h.base
        /\ CanonFQDN(CanonFQDN(g)).dots = IF h.dots > 2 THEN h.dots - 3 ELSE 0
    BY <2>1, <2>3, FQDNFacts
  <2>5. \A n \in Names : n.base = h.base /\ n.dots = 0 => e.name = n
    BY <2>1 DEF Names
  <2>6. CanonHost(h) = g /\ CanonHost(g) = CanonFQDN(g) /\ CanonHost(CanonFQDN(g)) = CanonFQDN(CanonFQDN(g))
    BY <1>7, <1>8, <2>2, <2>3, HostFacts DEF g, Hosts, IsIP, EventAssumption
  <2>7. e1.kind = e.kind
    BY <1>3 DEF SameTarget
  <2>8. CASE e.kind = "url"
    <3>1. BoundHost(e1) = CanonFQDN(CanonFQDN(g))
      BY <1>3, <2>6, <2>7, <2>8 DEF BoundHost
    <3>2. CanonFQDN(CanonFQDN(g)).dots = 0
      BY <2>1, <2>4, <2>8 DEF Slack
    <3>3. CanonFQDN(CanonFQDN(CanonFQDN(g))) = CanonFQDN(CanonFQDN(g))
      BY <2>4, <3>2, FQDNFacts
    <3> QED BY <2>4, <2>5, <2>8, <3>1, <3>2, <3>3
  <2>9. CASE e.kind = "port"
    <3>1. BoundHost(e1) = g
      BY <1>3, <2>6, <2>7, <2>9 DEF BoundHost
    <3> QED BY <2>1, <2>3, <2>5, <2>9, <3>1 DEF Slack
  <2>10. CASE e.kind = "service"
    <3>1. BoundHost(e1) = h
      BY <1>3, <2>7, <2>10 DEF BoundHost
    <3> QED BY <2>1, <2>2, <2>5, <2>10, <3>1 DEF Slack, g
  <2>11. CASE e.kind = "fqdn"
    BY <2>1, <2>2, <2>5, <2>6, <2>11 DEF Slack
  <2> QED BY <1>1, <2>1, <2>8, <2>9, <2>10, <2>11 DEF Kinds
<1>9. e1.kind \in {"port", "service", "url"} => BindAuthority(e1, BoundHost(e1), BoundPort(e1)) = e1
  <2> SUFFICES ASSUME e1.kind \in {"port", "service", "url"}
               PROVE  BindAuthority(e1, BoundHost(e1), BoundPort(e1)) = e1
    OBVIOUS
  <2>0. e1.kind = e.kind /\ e1.host = e.host /\ e1.name = e.name /\ e1.port = e.port
    BY <1>3 DEF SameTarget
  <2>1. /\ BoundHost(e1) \in Hosts /\ (IsIP(BoundHost(e1)) <=> IsIP(h))
        /\ IsIP(h) => BoundHost(e1) = h
    BY <1>1, <1>3, <1>7, <2>0, HostFacts DEF BoundHost
  <2>2. BoundPort(e1) \in Nat /\ e1.port = BoundPort(e1)
    BY <1>1, <1>3, <2>0 DEF BoundPort, SameValue, Agrees, UrlPort
  <2> QED BY <1>3, <1>5, <1>7, <1>8, <2>0, <2>1, <2>2, BindIdle
<1> DEFINE e2 == Bind(e1)
<1>10. /\ e1.kind = e.kind /\ e1.host = e.host /\ e1.name = e.name /\ e1.tls = e.tls /\ e1.proto = e.proto
       /\ e1 # Refused /\ e1.value.port = e.value.port /\ e1.value.tls = e.value.tls
  BY <1>3, NotRefused DEF SameTarget, SameValue
<1>11. ASSUME e.kind # "service"
       PROVE  e2 \in Written /\ SameTarget(e1, e2) /\ SameValue(e1, e2) /\ e2.value.host = CanonHost(h)
  <2>1. e2 = e1
    <3>1. CASE e1.kind = "fqdn"
      <4>1. e1.name = e1.value.host
        BY <1>1, <1>3, <1>7, <1>8, <1>10, <3>1
      <4>2. e2 = [e1 EXCEPT !.name = e1.name]
        BY <3>1, <4>1 DEF Bind
      <4> QED BY <1>3, <4>2 DEF Written
    <3>2. CASE e1.kind = "ip"
      <4>1. e1.host = e1.value.host
        BY <1>1, <1>3, <1>7, <1>10, <3>2 DEF Agrees
      <4>2. e2 = [e1 EXCEPT !.host = e1.host]
        BY <3>2, <4>1 DEF Bind
      <4> QED BY <1>3, <4>2 DEF Written
    <3>3. CASE e1.kind = "port"
      <4>1. e2 = [e1 EXCEPT !.proto = IF @ = None THEN "tcp" ELSE @]
        BY <1>9, <1>10, <3>3 DEF Bind, BoundHost, BoundPort
      <4>2. e1.proto # None
        BY <1>1, <1>10, <3>3 DEF Agrees
      <4>3. e2 = [e1 EXCEPT !.proto = e1.proto]
        BY <4>1, <4>2
      <4> QED BY <1>3, <4>3 DEF Written
    <3>4. CASE e1.kind = "url"
      <4>1. e2 = [e1 EXCEPT !.proto = IF @ = None THEN "tcp" ELSE @, !.tls = e1.value.tls]
        BY <1>9, <1>10, <3>4 DEF Bind, BoundHost, BoundPort
      <4>2. e1.proto # None /\ e1.value.tls = e1.tls
        BY <1>1, <1>10, <3>4 DEF Agrees
      <4>3. e2 = [e1 EXCEPT !.proto = e1.proto, !.tls = e1.tls]
        BY <4>1, <4>2
      <4> QED BY <1>3, <4>3 DEF Written
    <3> QED BY <1>1, <1>10, <1>11, <3>1, <3>2, <3>3, <3>4 DEF Kinds
  <2> QED BY <1>3, <1>11, <2>1 DEF SameTarget, SameValue
<1>12. ASSUME e.kind = "service"
       PROVE  e2 \in Written /\ SameTarget(e1, e2) /\ SameValue(e1, e2) /\ e2.value.host = CanonHost(h)
  <2>1. ValidPort(e1.value.port)
    BY <1>1, <1>10, <1>12 DEF Agrees
  <2>2. e2 = [e1 EXCEPT !.value.host = CanonHost(h)]
    BY <1>3, <1>9, <1>10, <1>12, <2>1 DEF Bind, BoundHost, BoundPort
  <2> QED BY <1>3, <1>7, <2>2 DEF Written, SameTarget, SameValue
<1>13. e2 \in Written /\ SameTarget(e, e2) /\ SameValue(e, e2) /\ e2.value.host = CanonHost(h) /\ e2 # Refused
  <2>1. e2 \in Written /\ SameTarget(e1, e2) /\ SameValue(e1, e2) /\ e2.value.host = CanonHost(h)
    BY <1>11, <1>12
  <2> QED BY <1>3, <2>1, NotRefused DEF SameTarget, SameValue
<1>14. CanonTarget(e2) = e2
  <2>1. Targeted(e2)
    BY <1>1, <1>13 DEF Targeted, SameTarget
  <2> QED BY <1>13, <2>1, CanonTargetIdle DEF Targeted
<1>15. Canonical(e) = [e2 EXCEPT !.version = Current]
  <2>1. CanonValue(e) = e1 /\ Bind(e1) = e2 /\ e # Refused
    BY <1>1, NotRefused DEF e1
  <2> HIDE DEF e2
  <2> QED BY <1>2, <1>4, <1>6, <1>13, <1>14, <2>1 DEF Canonical, Then, Stamp
<1>16. f = e2
  <2>1. e2.version = Current
    BY <1>1, <1>13 DEF SameTarget
  <2> HIDE DEF e2
  <2> QED BY <1>13, <1>15, <2>1 DEF Written
<1> HIDE DEF e2
<1>17. Agrees(f)
  <2>1. /\ f.kind = e.kind /\ f.host = e.host /\ f.name = e.name /\ f.port = e.port /\ f.proto = e.proto
        /\ f.tls = e.tls /\ f.value.port = e.value.port /\ f.value.tls = e.value.tls
        /\ f.value.host = CanonHost(h)
    BY <1>13, <1>16 DEF SameTarget, SameValue
  <2>2. CASE IsIP(h)
    BY <1>1, <1>7, <2>1, <2>2 DEF Agrees, UrlPort
  <2>3. CASE ~IsIP(h)
    <3>1. h \in Names /\ h.dots \in Nat /\ CanonHost(h).base = h.base
          /\ CanonHost(h).dots <= h.dots /\ CanonHost(h).dots \in Nat
      BY <1>7, <2>3, FQDNFacts DEF Names
    <3>2. f.value.host.dots <= Slack(f.kind)
      BY <1>1, <2>1, <2>3, <3>1 DEF Agrees, Slack
    <3> QED BY <1>1, <1>7, <2>1, <2>3, <3>1, <3>2 DEF Agrees, UrlPort
  <2> QED BY <2>2, <2>3
<1>18. Settled(f)
  BY <1>1, <1>13, <1>16, <1>17 DEF Settled, Targeted, SameTarget
<1> QED BY <1>13, <1>16, <1>18

-----------------------------------------------------------------------------
(* The invariant                                                           *)

\* An event that was accepted is settled; its value is what was written, but for trailing
\* dots, and is that altogether once it was written with no more than one.
Inv ==
  /\ raw \in Raw
  /\ passes \in Nat
  /\ passes = 0 => ev = raw
  /\ passes > 0 /\ ev # Refused =>
       /\ Settled(ev)
       /\ raw.version = Current => ev.host \in {None, raw.host, raw.value.host}
       /\ IsIP(raw.value.host) \/ raw.value.host.dots <= 1 => CanonHost(ev.value.host) = ev.value.host
  /\ AcceptedStaysAccepted /\ KeySettles

\* No event is accepted at the start.
LEMMA InitInv ==
  ASSUME EventAssumption, Init
  PROVE  Inv
BY DEF Init, Inv, AcceptedStaysAccepted, KeySettles

\* The first pass settles the event, and each later one leaves it settled.
LEMMA PassInv ==
  ASSUME EventAssumption, Inv, Pass
  PROVE  Inv'
<1>1. /\ ev # Refused /\ before' = ev /\ ev' = Canonical(ev) /\ passes' = passes + 1 /\ raw' = raw
      /\ raw \in Raw /\ passes \in Nat
  BY DEF Inv, Pass
<1>2. /\ raw \in Written /\ (raw.kind = "fqdn" => raw.value.host \in Names) /\ raw.value.host \in Hosts
      /\ raw.kind = "url" /\ raw.value.host \in Names => raw.value.host.dots <= 3
  BY <1>1 DEF EventAssumption, Written
<1>3. CASE passes = 0
  <2>1. ev = raw /\ passes' = 1
    BY <1>1, <1>3 DEF Inv
  <2>2. ASSUME ev' # Refused
        PROVE  /\ Settled(ev')
               /\ raw.version = Current => ev'.host \in {None, raw.host, raw.value.host}
               /\ ev'.value.host = CanonHost(raw.value.host)
    BY <1>1, <1>2, <2>1, <2>2, FirstPass
  <2>3. ASSUME ev' # Refused, IsIP(raw.value.host) \/ raw.value.host.dots <= 1
        PROVE  CanonHost(ev'.value.host) = ev'.value.host
    <3>1. CASE IsIP(raw.value.host)
      BY <1>2, <2>2, <2>3, <3>1, HostFacts
    <3>2. CASE ~IsIP(raw.value.host)
      <4> DEFINE g == CanonFQDN(raw.value.host)
      <4>1. raw.value.host \in Names /\ CanonHost(raw.value.host) = g /\ ~IsIP(g)
        BY <1>2, <3>2, HostFacts
      <4>2. g \in Names /\ g.dots = 0 /\ CanonFQDN(g) = g
        BY <2>3, <3>2, <4>1, FQDNFacts DEF Names
      <4>3. CanonHost(g) = g
        BY <4>1, <4>2 DEF CanonHost
      <4> QED BY <2>2, <2>3, <4>1, <4>3
    <3> QED BY <3>1, <3>2
  <2> QED BY <1>1, <2>1, <2>2, <2>3 DEF Inv, AcceptedStaysAccepted, KeySettles
<1>4. CASE passes > 0
  <2>1. Settled(ev)
    BY <1>1, <1>4 DEF Inv
  <2>2. /\ ev' # Refused /\ Settled(ev') /\ SameTarget(ev, ev') /\ SameValue(ev, ev')
        /\ ev'.value.host = CanonHost(ev.value.host)
    BY <1>1, <2>1, SettledStays
  <2>3. raw.version = Current => ev'.host \in {None, raw.host, raw.value.host}
    BY <1>1, <1>4, <2>2 DEF Inv, SameTarget
  <2>4. ASSUME IsIP(raw.value.host) \/ raw.value.host.dots <= 1
        PROVE  ev'.value.host = ev.value.host /\ DedupKey(ev') = DedupKey(ev)
    <3>1. ev'.value.host = ev.value.host
      BY <1>1, <1>4, <2>2, <2>4 DEF Inv
    <3>2. ev'.value = ev.value
      BY <2>1, <2>2, <3>1 DEF Settled, Written, SameValue
    <3> QED BY <2>2, <3>1, <3>2 DEF DedupKey, SameTarget
  <2>5. IsIP(raw.value.host) \/ raw.value.host.dots <= 1 => CanonHost(ev'.value.host) = ev'.value.host
    BY <1>1, <1>4, <2>4 DEF Inv
  <2>6. AcceptedStaysAccepted' /\ KeySettles'
    BY <1>1, <2>2, <2>4 DEF AcceptedStaysAccepted, KeySettles
  <2> QED BY <1>1, <1>4, <2>2, <2>3, <2>5, <2>6 DEF Inv
<1> QED BY <1>1, <1>3, <1>4

\* Passes are the only steps.
LEMMA NextInv ==
  ASSUME EventAssumption, Inv, [Next]_vars
  PROVE  Inv'
<1>1. CASE UNCHANGED vars
  BY <1>1 DEF vars, Inv, AcceptedStaysAccepted, KeySettles
<1> QED BY <1>1, PassInv DEF Next

\* The invariant holds of every behaviour.
LEMMA InvHolds ==
  ASSUME EventAssumption
  PROVE  Spec => []Inv
<1>1. Init => Inv
  BY InitInv
<1>2. Inv /\ [Next]_vars => Inv'
  BY NextInv
<1> QED BY <1>1, <1>2, PTL DEF Spec

\* Every reader accepts what the publisher accepted, as the same task, whatever was
\* written in whatever release (work.go:419, coverage.go:238).
THEOREM ReadersTakeWhatWasAccepted ==
  ASSUME EventAssumption
  PROVE  Spec => []ReadersAgree
<1>1. Inv => ReadersAgree
  BY DEF Inv, ReadersAgree
<1> QED BY <1>1, InvHolds, PTL

\* The target of an accepted event is what its value says, and a current event's address
\* is one that it states (event/target.go:263, SCHEMA.md:42).
THEOREM TargetIsTheValue ==
  ASSUME EventAssumption
  PROVE  Spec => []TargetIsStated
<1>1. Inv => TargetFollowsValue
  BY DEF Inv, TargetFollowsValue, Accepted, Settled, Agrees, Targeted
<1>2. Inv => AddressIsNotGuessed
  BY DEF Inv, AddressIsNotGuessed, Accepted
<1> QED BY <1>1, <1>2, InvHolds, PTL DEF TargetIsStated

-----------------------------------------------------------------------------
(* Cascade: its events, and what may be found                              *)

Fields ==
  {"kind", "name", "role", "host", "port", "proto", "service", "tls", "alive", "source"}

IsEvent(e) == DOMAIN e = Fields

\* The network is one that may be chosen.
OnSite == CascadeAssumption /\ site \in Sites

\* A key tells all but liveness and source.
LEMMA KeyTells ==
  ASSUME NEW w \in Workers, w # "reconcile", NEW e, NEW f, IsEvent(e), IsEvent(f), Key(w, e) = Key(w, f)
  PROVE  /\ e.kind = f.kind /\ e.name = f.name /\ e.role = f.role /\ e.host = f.host /\ e.port = f.port
         /\ e.proto = f.proto /\ e.service = f.service /\ e.tls = f.tls
<1> DEFINE Settle(x) == [x EXCEPT !.alive = FALSE, !.source = Absent]
<1>1. Settle(e) = Settle(f)
  BY DEF Key
<1>2. ASSUME NEW x, IsEvent(x), NEW k \in Fields \ {"alive", "source"} PROVE Settle(x)[k] = x[k]
  BY <1>2 DEF IsEvent, Fields
<1>3. \A k \in Fields \ {"alive", "source"} : e[k] = f[k]
  BY <1>1, <1>2
<1> QED BY <1>3 DEF Fields

\* More names lead to more addresses, ports and names.
LEMMA Monotone ==
  ASSUME NEW small, NEW large, small \subseteq large
  PROVE  /\ HostsOf(small) \subseteq HostsOf(large)
         /\ PortsOf(small) \subseteq PortsOf(large)
         /\ NamesAt(small) \subseteq NamesAt(large)
<1>1. HostsOf(small) \subseteq HostsOf(large)
  BY DEF HostsOf
<1>2. PortsOf(small) \subseteq PortsOf(large)
  BY <1>1 DEF PortsOf
<1>3. NamesAt(small) \subseteq NamesAt(large)
  BY <1>1, <1>2 DEF NamesAt
<1> QED BY <1>1, <1>2, <1>3

\* The names that are found have the seeds and what they lead to themselves.
LEMMA FoundIsClosed == Closed(FoundNames)
<1>1. SeededNames \subseteq FoundNames
  BY DEF FoundNames, Closed, Mentioned
<1>2. ASSUME NEW x \in NamesAt(FoundNames) PROVE x \in FoundNames
  <2>1. x \in Mentioned
    BY DEF NamesAt, Mentioned
  <2>2. ASSUME NEW names \in SUBSET Mentioned, Closed(names) PROVE x \in names
    <3>1. FoundNames \subseteq names
      BY <2>2 DEF FoundNames
    <3> QED BY <3>1, <2>2, <1>2, Monotone DEF Closed
  <2> QED BY <2>1, <2>2 DEF FoundNames
<1> QED BY <1>1, <1>2 DEF Closed

\* And they are the least.
LEMMA FoundIsLeast ==
  ASSUME NEW names \in SUBSET Mentioned, Closed(names)
  PROVE  FoundNames \subseteq names
BY DEF FoundNames

\* What the deployed workers find is the same as long as the network is.
LEMMA SameSite ==
  ASSUME site' = site
  PROVE  /\ FoundNames' = FoundNames /\ Expected' = Expected
         /\ HostsOf(FoundNames)' = HostsOf(FoundNames) /\ PortsOf(FoundNames)' = PortsOf(FoundNames)
         /\ \A o : Reached(o)' <=> Reached(o)
<1>1. SeededNames' = SeededNames /\ Mentioned' = Mentioned
  BY DEF SeededNames, Mentioned, Seeded
<1>2. ASSUME NEW names PROVE HostsOf(names)' = HostsOf(names)
  BY DEF HostsOf, Seeded
<1>3. ASSUME NEW names PROVE PortsOf(names)' = PortsOf(names)
  <2>1. Open' = Open
    BY DEF Open, Deployed
  <2> QED BY <1>2, <2>1 DEF PortsOf, Seeded
<1>4. ASSUME NEW names PROVE NamesAt(names)' = NamesAt(names)
  BY <1>2, <1>3 DEF NamesAt, Deployed
<1>5. FoundNames' = FoundNames
  BY <1>1, <1>4 DEF FoundNames, Closed
<1>6. HostsOf(FoundNames)' = HostsOf(FoundNames) /\ PortsOf(FoundNames)' = PortsOf(FoundNames)
  BY <1>5, <1>2, <1>3
<1>7. ASSUME NEW o PROVE Reached(o)' <=> Reached(o)
  BY <1>6 DEF Reached
<1>8. ASSUME NEW o PROVE Schemes(o)' = Schemes(o)
  BY DEF Schemes, Deployed
<1>9. Expected' = Expected
  <2> DEFINE Under(o) == {Absent} \cup {x \in FoundNames : <<x, o[1]>> \in site.forward}
             At(o) == {Url(x, o, s) : s \in Schemes(o), x \in Under(o)}
             Ports == {x \in site.open : x[3] = "tcp" /\ Reached(x)}
  <2>1. \A o : Under(o)' = Under(o)
    BY <1>5
  <2>2. ASSUME NEW o PROVE At(o)' = At(o)
    <3> HIDE DEF Under
    <3> QED BY <2>1, <1>8
  <2>3. Ports' = Ports
    BY <1>7
  <2>4. Expected = UNION {At(o) : o \in Ports} /\ Expected' = UNION {At(o)' : o \in Ports'}
    BY DEF Expected
  <2> HIDE DEF At, Ports
  <2> QED BY <2>2, <2>3, <2>4
<1> QED BY <1>5, <1>6, <1>7, <1>9

\* The URLs that are expected, one by one.
Endpoint(o) == o \in site.open /\ o[3] = "tcp" /\ Reached(o)
Label(x, o) == x = Absent \/ (x \in FoundNames /\ <<x, o[1]>> \in site.forward)

LEMMA ExpectedUrls ==
  ASSUME NEW u
  PROVE  u \in Expected <=>
           \E o, s, x : Endpoint(o) /\ s \in Schemes(o) /\ Label(x, o) /\ u = Url(x, o, s)
<1> DEFINE Under(o) == {Absent} \cup {x \in FoundNames : <<x, o[1]>> \in site.forward}
           At(o) == {Url(x, o, s) : s \in Schemes(o), x \in Under(o)}
           Ports == {x \in site.open : x[3] = "tcp" /\ Reached(x)}
<1>1. Expected = UNION {At(o) : o \in Ports}
  BY DEF Expected
<1>2. \A o : o \in Ports <=> Endpoint(o)
  BY DEF Endpoint
<1>3. \A o, x : x \in Under(o) <=> Label(x, o)
  BY DEF Label
<1>4. \A o : u \in At(o) <=> \E s, x : s \in Schemes(o) /\ x \in Under(o) /\ u = Url(x, o, s)
  <2> HIDE DEF Under
  <2> QED OBVIOUS
<1>5. u \in Expected <=> \E o : o \in Ports /\ u \in At(o)
  <2> HIDE DEF At, Ports
  <2> QED BY <1>1
<1> HIDE DEF At, Ports, Under
<1> QED BY <1>2, <1>3, <1>4, <1>5

-----------------------------------------------------------------------------
(* What an event of the stream says is so                                  *)

RequestedIsSo(e) ==
  e.role = "requested" =>
    e.name # Absent /\ e.name \in FoundNames /\ <<e.name, e.host>> \in site.forward

NameIsSo(e) ==
  e.kind = "fqdn" =>
    /\ e.name \in FoundNames
    /\ e.role = "dns" => <<e.name, e.host>> \in site.forward
    /\ e.alive => e.role = "requested" /\ e.host \in site.up

PlaceIsSo(e) ==
  /\ e.kind = "domain" => {e.name} \cup site.words \subseteq FoundNames
  /\ e.kind = "netblock" => site.up \subseteq HostsOf(FoundNames)
  /\ e.kind = "ip" => e.host \in HostsOf(FoundNames) /\ (e.alive => e.host \in site.up)
  /\ e.kind = "port" => <<e.host, e.port, e.proto>> \in PortsOf(FoundNames)

Spoken(e) == <<e.host, e.port, e.proto>>

\* A service is what nmap calls it, or what the probe of such a port was answered.
ServiceIsSo(e) ==
  e.kind = "service" =>
    /\ Spoken(e) \in site.open /\ Reached(Spoken(e)) /\ e.tls \in BOOLEAN
    /\ e.source # "web-probe" =>
         e.service = site.class[Spoken(e)].service /\ e.tls = site.class[Spoken(e)].tls
    /\ e.source = "web-probe" =>
         /\ Deployed("web-probe") /\ site.class[Spoken(e)].service \in Unidentified
         /\ e.service \in Web => e.tls = (e.service = "https") /\ <<e.host, e.port, e.tls>> \in site.web

UrlIsSo(e) == e.kind = "url" => e \in Expected

IsSo(e) ==
  IsEvent(e) /\ RequestedIsSo(e) /\ NameIsSo(e) /\ PlaceIsSo(e) /\ ServiceIsSo(e) /\ UrlIsSo(e)

\* The seeds are so.
LEMMA SeedsAreSo ==
  ASSUME OnSite, NEW e \in site.seeds
  PROVE  IsSo(e)
<1>1. Seed(e)
  BY DEF OnSite, CascadeAssumption
<1>2. CASE e.kind \in {"domain", "fqdn"} /\ e.name # Absent /\ e = Sighting(e.kind, e.name, "observed", Absent)
  <2>1. e.name \in SeededNames /\ (e.kind = "domain" => site.words \subseteq SeededNames)
    BY <1>2 DEF SeededNames, Seeded
  <2>2. IsEvent(e) /\ e.role = "observed" /\ e.alive = FALSE
    BY <1>2 DEF Sighting, Blank, IsEvent, Fields
  <2> QED BY <1>2, <2>1, <2>2, FoundIsClosed
      DEF Closed, IsSo, RequestedIsSo, NameIsSo, PlaceIsSo, ServiceIsSo, UrlIsSo
<1>3. CASE e.host # Absent /\ e = Address(e.host)
  <2>1. IsEvent(e) /\ e.kind = "ip" /\ e.role = Absent /\ e.alive = FALSE
    BY <1>3 DEF Address, Blank, IsEvent, Fields
  <2>2. e.host \in HostsOf(FoundNames)
    BY <2>1 DEF HostsOf, Seeded
  <2> QED BY <2>1, <2>2
      DEF IsSo, RequestedIsSo, NameIsSo, PlaceIsSo, ServiceIsSo, UrlIsSo, OnSite, CascadeAssumption
<1>4. CASE e.host # Absent /\ e = Port(Absent, <<e.host, e.port, e.proto>>)
  <2>1. IsEvent(e) /\ e.kind = "port" /\ e.role = Absent
    BY <1>4 DEF Port, Blank, IsEvent, Fields
  <2>2. <<e.host, e.port, e.proto>> \in PortsOf(FoundNames)
    BY <2>1 DEF PortsOf, Seeded
  <2> QED BY <2>1, <2>2
      DEF IsSo, RequestedIsSo, NameIsSo, PlaceIsSo, ServiceIsSo, UrlIsSo, OnSite, CascadeAssumption
<1>5. CASE e = [Blank EXCEPT !.kind = "netblock"]
  <2>1. IsEvent(e) /\ e.kind = "netblock" /\ e.role = Absent
    BY <1>5 DEF Blank, IsEvent, Fields
  <2>2. site.up \subseteq HostsOf(FoundNames)
    BY <2>1 DEF HostsOf, Seeded
  <2> QED BY <2>1, <2>2
      DEF IsSo, RequestedIsSo, NameIsSo, PlaceIsSo, ServiceIsSo, UrlIsSo, OnSite, CascadeAssumption
<1> QED BY <1>1, <1>2, <1>3, <1>4, <1>5 DEF Seed

\* DNS answers about names that are found are so.
LEMMA AnswersAreSo ==
  ASSUME OnSite, NEW ns, ns \subseteq FoundNames, NEW x \in Parse(ns)
  PROVE  IsSo(x)
<1>1. PICK f \in site.forward : f[1] \in ns /\ x = Sighting("fqdn", f[1], "dns", f[2])
  BY DEF Parse
<1>2. f = <<f[1], f[2]>>
  BY DEF OnSite, CascadeAssumption
<1>3. IsEvent(x) /\ x.kind = "fqdn" /\ x.name = f[1] /\ x.role = "dns" /\ x.host = f[2] /\ x.alive = FALSE
  BY <1>1 DEF Sighting, Blank, IsEvent, Fields
<1> QED BY <1>1, <1>2, <1>3 DEF IsSo, RequestedIsSo, NameIsSo, PlaceIsSo, ServiceIsSo, UrlIsSo

\* An address that answers, the name that was asked for and the names it is known under.
LEMMA DiscoveriesAreSo ==
  ASSUME OnSite, NEW e, IsSo(e), Eligible("nmap-discover", e), NEW x \in DiscoverEvents(e)
  PROVE  IsSo(x)
<1>1. /\ e.kind \in {"netblock", "fqdn", "ip"}
      /\ e.kind = "fqdn" => e.role \in {"requested", "dns"} /\ e.name # Absent
  BY DEF Eligible, Takes, BoundName
<1>2. PICK h \in site.up :
        /\ e.kind # "netblock" => h = e.host
        /\ \/ x = [Address(h) EXCEPT !.alive = TRUE]
           \/ \E r \in site.reverse : r[1] = h /\ x = Sighting("fqdn", r[2], "ptr", h)
           \/ e.kind = "fqdn" /\ x = [Sighting("fqdn", e.name, "requested", h) EXCEPT !.alive = TRUE]
  BY DEF DiscoverEvents
<1>3. h \in HostsOf(FoundNames) /\ (e.kind = "fqdn" => e.name \in FoundNames /\ <<e.name, h>> \in site.forward)
  <2>1. CASE e.kind = "fqdn"
    <3>1. e.name \in FoundNames /\ <<e.name, e.host>> \in site.forward
      BY <2>1, <1>1 DEF IsSo, RequestedIsSo, NameIsSo
    <3> QED BY <3>1, <2>1, <1>2 DEF HostsOf
  <2>2. CASE e.kind # "fqdn"
    BY <2>2, <1>1, <1>2 DEF IsSo, PlaceIsSo
  <2> QED BY <2>1, <2>2
<1>4. CASE x = [Address(h) EXCEPT !.alive = TRUE]
  <2>1. IsEvent(x) /\ x.kind = "ip" /\ x.role = Absent /\ x.host = h
    BY <1>4 DEF Address, Blank, IsEvent, Fields
  <2> QED BY <2>1, <1>3
      DEF IsSo, RequestedIsSo, NameIsSo, PlaceIsSo, ServiceIsSo, UrlIsSo, OnSite, CascadeAssumption
<1>5. ASSUME NEW r \in site.reverse, r[1] = h, x = Sighting("fqdn", r[2], "ptr", h) PROVE IsSo(x)
  <2>1. r[2] \in FoundNames
    BY <1>5, <1>3, FoundIsClosed DEF Closed, NamesAt
  <2>2. IsEvent(x) /\ x.kind = "fqdn" /\ x.name = r[2] /\ x.role = "ptr" /\ x.alive = FALSE
    BY <1>5 DEF Sighting, Blank, IsEvent, Fields
  <2> QED BY <2>1, <2>2 DEF IsSo, RequestedIsSo, NameIsSo, PlaceIsSo, ServiceIsSo, UrlIsSo
<1>6. CASE e.kind = "fqdn" /\ x = [Sighting("fqdn", e.name, "requested", h) EXCEPT !.alive = TRUE]
  <2>1. IsEvent(x) /\ x.kind = "fqdn" /\ x.name = e.name /\ x.role = "requested" /\ x.host = h
    BY <1>6 DEF Sighting, Blank, IsEvent, Fields
  <2> QED BY <2>1, <1>1, <1>2, <1>3, <1>6 DEF IsSo, RequestedIsSo, NameIsSo, PlaceIsSo, ServiceIsSo, UrlIsSo
<1> QED BY <1>2, <1>4, <1>5, <1>6

\* A port that is found, by itself and under the name it was requested by.
LEMMA PortsAreSo ==
  ASSUME OnSite, NEW e, RequestedIsSo(e), e.kind # "fqdn" \/ e.role = "requested",
         NEW o \in PortsOf(FoundNames), o = <<e.host, o[2], o[3]>>,
         NEW x \in {Absent, RequestedName(e)}
  PROVE  IsSo(Port(x, o))
<1> DEFINE p == Port(x, o)
<1>1. /\ IsEvent(p) /\ p.kind = "port" /\ p.name = x /\ p.host = e.host
      /\ p.role = IF x = Absent THEN Absent ELSE "requested"
      /\ <<p.host, p.port, p.proto>> = o
  BY DEF Port, Blank, IsEvent, Fields
<1>2. x # Absent => x = e.name /\ e.role = "requested"
  BY DEF RequestedName
<1>3. x # Absent => x \in FoundNames /\ <<x, e.host>> \in site.forward
  BY <1>2 DEF RequestedIsSo
<1>4. Absent # "requested"
  BY DEF OnSite, CascadeAssumption
<1> HIDE DEF p
<1>5. IsSo(p)
  BY <1>1, <1>3, <1>4 DEF IsSo, RequestedIsSo, NameIsSo, PlaceIsSo, ServiceIsSo, UrlIsSo
<1> QED BY <1>5 DEF p

LEMMA ScansAreSo ==
  ASSUME OnSite, NEW e, IsSo(e), e.alive, e.kind \in {"ip", "fqdn"},
         NEW found \in SUBSET Open, NEW x \in Expand(e, found)
  PROVE  IsSo(x)
<1>1. e.host \in HostsOf(FoundNames) \cap site.up /\ (e.kind = "fqdn" => e.role = "requested")
  <2>1. CASE e.kind = "ip"
    BY <2>1 DEF IsSo, PlaceIsSo
  <2>2. CASE e.kind = "fqdn"
    <3>1. e.role = "requested" /\ e.host \in site.up /\ e.name \in FoundNames /\ <<e.name, e.host>> \in site.forward
      BY <2>2 DEF IsSo, NameIsSo, RequestedIsSo
    <3> QED BY <3>1 DEF HostsOf
  <2> QED BY <2>1, <2>2
<1>2. CASE x = Address(e.host)
  <2>1. IsEvent(x) /\ x.kind = "ip" /\ x.role = Absent /\ x.alive = FALSE /\ x.host = e.host
    BY <1>2 DEF Address, Blank, IsEvent, Fields
  <2> QED BY <2>1, <1>1
      DEF IsSo, RequestedIsSo, NameIsSo, PlaceIsSo, ServiceIsSo, UrlIsSo, OnSite, CascadeAssumption
<1>3. ASSUME NEW n \in {Absent, RequestedName(e)}, NEW o \in found, o[1] = e.host, x = Port(n, o)
      PROVE  IsSo(x)
  <2>1. o \in PortsOf(FoundNames)
    BY <1>1, <1>3 DEF PortsOf
  <2>2. o = <<o[1], o[2], o[3]>>
    BY DEF OnSite, CascadeAssumption, Open
  <2> QED BY <1>1, <1>3, <2>1, <2>2, PortsAreSo DEF IsSo
<1> QED BY <1>2, <1>3 DEF Expand

\* A join of a name of an address and a port of it.
LEMMA JoinIsSo ==
  ASSUME OnSite, NEW f, NEW g, IsSo(f), IsSo(g), Eligible("reconcile", f), Eligible("reconcile", g),
         f.kind = "fqdn", g.kind = "port", f.host = g.host
  PROVE  IsSo(Join(f, g))
<1> DEFINE o == <<g.host, g.port, g.proto>>
           p == Join(f, g)
<1>1. f.name # Absent /\ f.role \in {"requested", "dns"}
  BY DEF Eligible, Filter, BoundName
<1>2. f.name \in FoundNames /\ <<f.name, g.host>> \in site.forward
  BY <1>1 DEF IsSo, RequestedIsSo, NameIsSo
<1>3. o \in PortsOf(FoundNames)
  BY DEF IsSo, PlaceIsSo
<1>4. /\ IsEvent(p) /\ p.kind = "port" /\ p.name = f.name /\ p.role = "requested"
      /\ p.host = g.host /\ p.port = g.port /\ p.proto = g.proto
  BY <1>1 DEF Join, Port, Blank, IsEvent, Fields
<1> HIDE DEF p
<1>5. IsSo(p)
  BY <1>1, <1>2, <1>3, <1>4 DEF IsSo, RequestedIsSo, NameIsSo, PlaceIsSo, ServiceIsSo, UrlIsSo
<1> QED BY <1>5 DEF p

\* The names of a certificate.
LEMMA CertificatesAreSo ==
  ASSUME OnSite, NEW e, IsSo(e), e.kind = "port", e.proto = "tcp", Deployed("tlsx"),
         NEW x \in Certificates(e)
  PROVE  IsSo(x)
<1>1. PICK c \in site.certs :
        /\ c[1] = e.host /\ c[2] = e.port
        /\ x = [Sighting("fqdn", c[3], "certificate", c[1])
                  EXCEPT !.port = c[2], !.proto = "tcp", !.tls = TRUE]
  BY DEF Certificates
<1>2. <<c[1], c[2], "tcp">> \in PortsOf(FoundNames)
  BY <1>1 DEF IsSo, PlaceIsSo
<1>3. c[3] \in FoundNames
  BY <1>2, FoundIsClosed DEF Closed, NamesAt
<1>4. IsEvent(x) /\ x.kind = "fqdn" /\ x.name = c[3] /\ x.role = "certificate" /\ x.alive = FALSE
  BY <1>1 DEF Sighting, Blank, IsEvent, Fields
<1> QED BY <1>3, <1>4 DEF IsSo, RequestedIsSo, NameIsSo, PlaceIsSo, ServiceIsSo, UrlIsSo

\* The service at a port.
LEMMA ServicesAreSo ==
  ASSUME OnSite, NEW e, IsSo(e), e.kind = "port", NEW x \in ServiceEvents(e)
  PROVE  IsSo(x)
<1>1. PICK o \in site.open :
        /\ o[1] = e.host /\ o[2] = e.port /\ o[3] = Scanned(e.proto)
        /\ x = [Port(RequestedName(e), o) EXCEPT !.kind = "service", !.service = site.class[o].service,
                                                 !.tls = site.class[o].tls]
  BY DEF ServiceEvents
<1>2. o = <<o[1], o[2], o[3]>> /\ site.class[o].tls \in BOOLEAN /\ Absent \notin {"requested", "web-probe"}
  BY DEF OnSite, CascadeAssumption
<1>3. /\ IsEvent(x) /\ x.kind = "service" /\ x.name = RequestedName(e) /\ x.host = o[1] /\ x.port = o[2]
      /\ x.proto = o[3] /\ x.role = (IF RequestedName(e) = Absent THEN Absent ELSE "requested")
      /\ x.service = site.class[o].service /\ x.tls = site.class[o].tls /\ x.source = Absent
  BY <1>1 DEF Port, Blank, IsEvent, Fields
<1>4. Reached(o)
  BY <1>1 DEF IsSo, PlaceIsSo, Reached
<1>5. Spoken(x) = o
  BY <1>2, <1>3 DEF Spoken
<1>6. RequestedIsSo(x)
  BY <1>1, <1>2, <1>3 DEF IsSo, RequestedIsSo, RequestedName
<1>7. ServiceIsSo(x)
  BY <1>2, <1>3, <1>4, <1>5 DEF ServiceIsSo
<1> QED BY <1>3, <1>6, <1>7 DEF IsSo, NameIsSo, PlaceIsSo, UrlIsSo

\* What a probe of an unidentified service is answered.
LEMMA ProbesAreSo ==
  ASSUME OnSite, NEW e, IsSo(e), Eligible("web-probe", e), Deployed("web-probe"), NEW x \in Probe(e)
  PROVE  IsSo(x)
<1>1. /\ e.kind = "service" /\ e.source # "web-probe" /\ e.service \in Unidentified
  BY DEF Eligible, Takes, Filter
<1>2. /\ IsEvent(e) /\ Spoken(e) \in site.open /\ Reached(Spoken(e)) /\ e.tls \in BOOLEAN
      /\ site.class[Spoken(e)].service \in Unidentified
  BY <1>1 DEF IsSo, ServiceIsSo
<1> DEFINE Answered ==
             /\ IsEvent(x) /\ x.kind = "service" /\ x.name = e.name /\ x.role = e.role
             /\ x.host = e.host /\ x.port = e.port /\ x.proto = e.proto
             /\ x.source = "web-probe" /\ x.tls \in BOOLEAN
             /\ x.service \in Web => x.tls = (x.service = "https") /\ <<x.host, x.port, x.tls>> \in site.web
<1>3. Answered
  <2>1. CASE x = [e EXCEPT !.source = "web-probe"]
    <3>1. x.service = e.service /\ x.tls = e.tls
      BY <2>1, <1>2 DEF IsSo, IsEvent, Fields
    <3>2. x.service \notin Web
      BY <3>1, <1>1 DEF Unidentified, Web
    <3> QED BY <2>1, <1>1, <1>2, <3>1, <3>2 DEF IsEvent, Fields
  <2>2. ASSUME NEW s \in BOOLEAN, <<e.host, e.port, s>> \in site.web,
               x = [e EXCEPT !.service = IF s THEN "https" ELSE "http", !.tls = s, !.source = "web-probe"]
        PROVE  Answered
    <3>1. /\ IsEvent(x) /\ x.kind = "service" /\ x.name = e.name /\ x.role = e.role /\ x.host = e.host
          /\ x.port = e.port /\ x.proto = e.proto /\ x.source = "web-probe" /\ x.tls = s
          /\ x.service = IF s THEN "https" ELSE "http"
      BY <2>2, <1>1, <1>2 DEF IsEvent, Fields
    <3>2. x.tls = (x.service = "https")
      BY <3>1
    <3> QED BY <3>1, <3>2, <2>2
  <2> HIDE DEF Answered
  <2> QED BY <2>1, <2>2 DEF Probe
<1>4. Spoken(x) = Spoken(e)
  BY <1>3 DEF Spoken
<1>5. RequestedIsSo(x)
  BY <1>3 DEF IsSo, RequestedIsSo
<1>6. ServiceIsSo(x)
  BY <1>2, <1>3, <1>4 DEF ServiceIsSo
<1> QED BY <1>3, <1>5, <1>6 DEF IsSo, NameIsSo, PlaceIsSo, UrlIsSo

\* The URL of a service.
LEMMA UrlsAreSo ==
  ASSUME OnSite, NEW e, IsSo(e), Eligible("as-url", e), NEW x \in AsUrl(e)
  PROVE  IsSo(x)
<1> DEFINE n == RequestedName(e)
           o == Spoken(e)
           s == e.tls \/ e.service = "https"
<1>0. e.kind = "service" /\ e.service \in Web /\ e.proto \in {Absent, "tcp"}
  BY DEF Eligible, Takes, Filter
<1>2. o \in site.open /\ Reached(o) /\ e.tls \in BOOLEAN
  BY <1>0 DEF IsSo, ServiceIsSo
<1>1. e.kind = "service" /\ e.service \in Web /\ e.proto = "tcp"
  <2>1. o[3] # Absent
    BY <1>2 DEF OnSite, CascadeAssumption
  <2> QED BY <1>0, <2>1 DEF Spoken
<1>3. Endpoint(o)
  BY <1>1, <1>2 DEF Endpoint, Spoken
<1>4. s \in Schemes(o)
  <2>1. s \in BOOLEAN
    OBVIOUS
  <2>2. CASE e.source # "web-probe"
    <3>1. e.service = site.class[o].service /\ e.tls = site.class[o].tls
      BY <1>1, <2>2 DEF IsSo, ServiceIsSo
    <3> QED BY <3>1, <1>1, <2>1 DEF Schemes
  <2>3. CASE e.source = "web-probe"
    <3>1. /\ Deployed("web-probe") /\ site.class[o].service \in Unidentified
          /\ e.tls = (e.service = "https") /\ <<e.host, e.port, e.tls>> \in site.web
      BY <1>1, <2>3 DEF IsSo, ServiceIsSo
    <3>2. s = e.tls /\ o[1] = e.host /\ o[2] = e.port
      BY <3>1, <1>2 DEF Spoken
    <3> HIDE DEF s, o
    <3> QED BY <3>1, <3>2, <2>1 DEF Schemes
  <2> QED BY <2>2, <2>3
<1>5. Label(n, o)
  BY <1>1 DEF Label, RequestedName, IsSo, RequestedIsSo, Spoken
<1>6. x = Url(n, o, s)
  BY <1>1 DEF AsUrl, Url, Spoken
<1>7. x \in Expected
  <2> HIDE DEF n, o, s
  <2> QED BY <1>3, <1>4, <1>5, <1>6, ExpectedUrls
<1>8. /\ IsEvent(x) /\ x.kind = "url" /\ x.name = n /\ x.host = e.host
      /\ x.role = IF n = Absent THEN Absent ELSE "requested"
  BY <1>6 DEF Url, Sighting, Blank, IsEvent, Fields, Spoken
<1>9. RequestedIsSo(x)
  <2>1. Absent # "requested" /\ o[1] = e.host
    BY DEF OnSite, CascadeAssumption, Spoken
  <2> HIDE DEF n, o, s
  <2> QED BY <2>1, <1>5, <1>8 DEF Label, RequestedIsSo
<1> QED BY <1>7, <1>8, <1>9 DEF IsSo, NameIsSo, PlaceIsSo, ServiceIsSo, UrlIsSo

\* The facts the reconciler has are events it was to have.
FactsAreSo ==
  \A t \in tasks : t[1] = "reconcile" =>
    /\ t = <<"reconcile", t[2]>> /\ t[2] \in stream
    /\ IsSo(t[2]) /\ Eligible("reconcile", t[2])

\* Whatever a worker publishes is so.
LEMMA OutputsAreSo ==
  ASSUME OnSite, FactsAreSo, NEW w \in site.workers, NEW e, IsSo(e), Eligible(w, e), ~Refuses(w, e),
         NEW x \in Outputs(w, e)
  PROVE  IsSo(x)
<1>1. w \in Workers
  BY DEF OnSite, CascadeAssumption
<1>2. CASE w = "resolve"
  <2>1. {e.name} \subseteq FoundNames
    BY <1>2 DEF Eligible, Takes, IsSo, NameIsSo, PlaceIsSo
  <2> QED BY <1>2, <2>1, AnswersAreSo DEF Outputs
<1>3. CASE w \in {"dnsx", "ctl"}
  <2>1. site.words \subseteq FoundNames
    BY <1>3 DEF Eligible, Takes, IsSo, PlaceIsSo
  <2> QED BY <1>3, <2>1, AnswersAreSo DEF Outputs
<1>4. CASE w = "nmap-discover"
  BY <1>4, DiscoveriesAreSo DEF Outputs
<1>5. CASE w = "nmap-quick"
  <2>1. {o \in site.open : o[2] \in TopPorts /\ o[3] = "tcp"} \in SUBSET Open
    BY DEF Open
  <2>2. e.alive /\ e.kind \in {"ip", "fqdn"}
    BY <1>5 DEF Eligible, Takes
  <2> QED BY <1>5, <2>1, <2>2, ScansAreSo DEF Outputs
<1>6. CASE w = "nmap-full"
  <2>1. site.open \in SUBSET Open
    BY <1>6 DEF Open, Deployed
  <2>2. e.alive /\ e.kind \in {"ip", "fqdn"}
    BY <1>6 DEF Eligible, Takes
  <2> QED BY <1>6, <2>1, <2>2, ScansAreSo DEF Outputs
<1>7. CASE w = "reconcile"
  <2>1. e.kind \in {"fqdn", "port"}
    BY <1>7 DEF Eligible, Takes
  <2>2. PICK f \in Facts : f.kind # e.kind /\ f.host = e.host
                           /\ x = IF e.kind = "fqdn" THEN Join(e, f) ELSE Join(f, e)
    BY <1>7 DEF Outputs, Joins
  <2>3. IsSo(f) /\ Eligible("reconcile", f) /\ f.kind \in {"fqdn", "port"}
    BY DEF Facts, FactsAreSo, Eligible, Takes
  <2> QED BY <1>7, <2>1, <2>2, <2>3, JoinIsSo
<1>8. CASE w = "tlsx"
  <2>1. e.kind = "port" /\ e.proto = "tcp" /\ Deployed("tlsx")
    BY <1>8 DEF Eligible, Takes, Refuses, Deployed
  <2> QED BY <1>8, <2>1, CertificatesAreSo DEF Outputs
<1>9. CASE w = "nmap-svc"
  <2>1. e.kind = "port"
    BY <1>9 DEF Eligible, Takes
  <2> QED BY <1>9, <2>1, ServicesAreSo DEF Outputs
<1>10. CASE w = "web-probe"
  BY <1>10, ProbesAreSo DEF Outputs, Deployed
<1>11. CASE w = "as-url"
  BY <1>11, UrlsAreSo DEF Outputs
<1> QED BY <1>1, <1>2, <1>3, <1>4, <1>5, <1>6, <1>7, <1>8, <1>9, <1>10, <1>11 DEF Workers

-----------------------------------------------------------------------------
(* The invariant                                                           *)

Grounded ==
  /\ site \in Sites /\ site.seeds \subseteq stream
  /\ (\A e \in stream : IsSo(e)) /\ FactsAreSo

LEMMA InitGrounded ==
  ASSUME CascadeAssumption, CascadeInit
  PROVE  Grounded
BY SeedsAreSo DEF CascadeInit, Grounded, FactsAreSo, OnSite

\* What is so stays so.
LEMMA SoStays ==
  ASSUME site' = site, NEW e
  PROVE  IsSo(e)' <=> IsSo(e)
<1>1. /\ RequestedIsSo(e)' <=> RequestedIsSo(e)
      /\ NameIsSo(e)' <=> NameIsSo(e)
  BY SameSite DEF RequestedIsSo, NameIsSo
<1>2. PlaceIsSo(e)' <=> PlaceIsSo(e)
  BY SameSite DEF PlaceIsSo
<1>3. ServiceIsSo(e)' <=> ServiceIsSo(e)
  BY SameSite DEF ServiceIsSo, Deployed, Spoken
<1>4. UrlIsSo(e)' <=> UrlIsSo(e)
  BY SameSite DEF UrlIsSo
<1> QED BY <1>1, <1>2, <1>3, <1>4 DEF IsSo

LEMMA NextGrounded ==
  ASSUME CascadeAssumption, Grounded, [CascadeNext]_cascadeVars
  PROVE  Grounded'
<1>1. CASE UNCHANGED cascadeVars
  <2>1. \A e : IsSo(e)' <=> IsSo(e)
    BY <1>1, SoStays DEF cascadeVars
  <2> QED BY <1>1, <2>1 DEF Grounded, FactsAreSo, cascadeVars
<1>2. ASSUME NEW w \in site.workers, NEW e \in stream, Handle(w, e) PROVE Grounded'
  <2>1. site' = site /\ tasks' = tasks \cup {Key(w, e)} /\ Eligible(w, e)
    BY <1>2 DEF Handle, Waiting
  <2>2. stream \subseteq stream' /\ (stream' # stream => ~Refuses(w, e) /\ stream' = stream \cup Outputs(w, e))
    BY <1>2 DEF Handle
  <2>3. \A x : IsSo(x)' <=> IsSo(x)
    BY <2>1, SoStays
  <2>4. \A x \in stream' : IsSo(x)
    BY <2>1, <2>2, OutputsAreSo DEF Grounded, OnSite
  <2>5. FactsAreSo'
    <3>1. Key(w, e)[1] = w /\ (w = "reconcile" => Key(w, e) = <<"reconcile", e>>)
      BY DEF Key
    <3>2. ASSUME NEW t \in tasks', t[1] = "reconcile"
          PROVE  t = <<"reconcile", t[2]>> /\ t[2] \in stream /\ IsSo(t[2]) /\ Eligible("reconcile", t[2])
      <4>1. CASE t \in tasks
        BY <4>1, <3>2 DEF Grounded, FactsAreSo
      <4>2. CASE t = Key(w, e)
        BY <4>2, <3>1, <3>2, <2>1 DEF Grounded
      <4> QED BY <4>1, <4>2, <2>1
    <3> QED BY <3>2, <2>2, <2>3 DEF FactsAreSo
  <2> QED BY <2>1, <2>2, <2>3, <2>4, <2>5 DEF Grounded
<1> QED BY <1>1, <1>2 DEF CascadeNext

-----------------------------------------------------------------------------
(* What the tasks that have not failed leave behind                        *)

\* A task was a task for some event, and everything it found is published.
Answered ==
  \A t \in tasks \ failed : t[1] # "reconcile" =>
    /\ t[1] \in Workers
    /\ \E e \in stream : Eligible(t[1], e) /\ Key(t[1], e) = t /\ Outputs(t[1], e) \subseteq stream

\* Whichever of two facts is observed second finds the first.
Joined ==
  \A f, g :
    /\ <<"reconcile", f>> \in tasks \ failed /\ <<"reconcile", g>> \in tasks \ failed
    /\ f.kind = "fqdn" /\ g.kind = "port" /\ f.host = g.host
    => Join(f, g) \in stream

\* The tools find the same as long as the network is.
LEMMA OutputsStay ==
  ASSUME site' = site, NEW w \in Workers \ {"reconcile"}, NEW e
  PROVE  Outputs(w, e)' = Outputs(w, e)
<1>1. ASSUME NEW ns PROVE Parse(ns)' = Parse(ns)
  BY DEF Parse
<1>2. DiscoverEvents(e)' = DiscoverEvents(e)
  BY DEF DiscoverEvents
<1>3. Certificates(e)' = Certificates(e) /\ ServiceEvents(e)' = ServiceEvents(e)
  BY DEF Certificates, ServiceEvents
<1>4. Probe(e)' = Probe(e)
  BY DEF Probe
<1>5. {o \in site.open : o[2] \in TopPorts /\ o[3] = "tcp"}' = {o \in site.open : o[2] \in TopPorts /\ o[3] = "tcp"}
  OBVIOUS
<1>6. CASE w \in {"resolve", "dnsx", "ctl"}
  BY <1>1, <1>6 DEF Outputs
<1>7. CASE w \in {"nmap-discover", "tlsx", "nmap-svc", "web-probe", "as-url"}
  BY <1>2, <1>3, <1>4, <1>7 DEF Outputs
<1>8. CASE w \in {"nmap-quick", "nmap-full"}
  BY <1>5, <1>8 DEF Outputs
<1> QED BY <1>6, <1>7, <1>8 DEF Workers

Sound == Grounded /\ Answered /\ Joined

LEMMA CascadeStarts ==
  ASSUME CascadeAssumption, CascadeInit
  PROVE  Sound
BY InitGrounded DEF CascadeInit, Sound, Answered, Joined

LEMMA HandleKeeps ==
  ASSUME CascadeAssumption, Sound, NEW w \in site.workers, NEW e \in stream, Handle(w, e)
  PROVE  Answered' /\ Joined'
<1>1. w \in Workers
  BY DEF Sound, Grounded, CascadeAssumption
<1>2. /\ site' = site /\ tasks' = tasks \cup {Key(w, e)} /\ Key(w, e) \notin tasks /\ Eligible(w, e)
      /\ stream \subseteq stream' /\ failed \subseteq failed'
  BY DEF Handle, Waiting
<1>3. Key(w, e) \notin failed' => stream' = stream \cup Outputs(w, e)
  BY DEF Handle
<1>4. /\ Key(w, e)[1] = w
      /\ \A x : <<"reconcile", x>> = Key(w, e) => w = "reconcile" /\ x = e
      /\ w = "reconcile" => Key(w, e) = <<"reconcile", e>>
  BY DEF Key
<1>5. Answered'
  <2> SUFFICES ASSUME NEW t \in tasks' \ failed', t[1] # "reconcile"
               PROVE  t[1] \in Workers /\ \E x \in stream' : /\ Eligible(t[1], x) /\ Key(t[1], x) = t
                                         /\ Outputs(t[1], x)' \subseteq stream'
    BY DEF Answered
  <2>1. CASE t \in tasks
    <3>1. PICK x \in stream : Eligible(t[1], x) /\ Key(t[1], x) = t /\ Outputs(t[1], x) \subseteq stream
      BY <2>1, <1>2 DEF Sound, Answered
    <3>2. t[1] \in Workers
      BY <2>1, <1>2 DEF Sound, Answered
    <3> QED BY <3>1, <3>2, <1>2, OutputsStay
  <2>2. CASE t = Key(w, e)
    <3>1. stream' = stream \cup Outputs(w, e)
      BY <2>2, <1>3
    <3> QED BY <2>2, <3>1, <1>1, <1>2, <1>4, OutputsStay
  <2> QED BY <2>1, <2>2, <1>2
<1>6. Joined'
  <2> SUFFICES ASSUME NEW f, NEW g,
                      <<"reconcile", f>> \in tasks' \ failed', <<"reconcile", g>> \in tasks' \ failed',
                      f.kind = "fqdn", g.kind = "port", f.host = g.host
               PROVE  Join(f, g) \in stream'
    BY DEF Joined
  <2>1. CASE <<"reconcile", f>> \in tasks /\ <<"reconcile", g>> \in tasks
    BY <2>1, <1>2 DEF Sound, Joined
  <2>2. CASE <<"reconcile", f>> = Key(w, e)
    <3>1. w = "reconcile" /\ e = f
      BY <2>2, <1>4
    <3>2. <<"reconcile", g>> \in tasks
      BY <3>1, <1>2, <1>4
    <3>3. g \in Facts
      BY <3>2 DEF Facts
    <3>4. Join(f, g) \in Joins(f)
      BY <3>3 DEF Joins
    <3> QED BY <3>1, <3>4, <2>2, <1>3 DEF Outputs
  <2>3. CASE <<"reconcile", g>> = Key(w, e)
    <3>1. w = "reconcile" /\ e = g
      BY <2>3, <1>4
    <3>2. <<"reconcile", f>> \in tasks
      BY <3>1, <1>2, <1>4
    <3>3. f \in Facts
      BY <3>2 DEF Facts
    <3>4. Join(f, g) \in Joins(g)
      BY <3>3 DEF Joins
    <3> QED BY <3>1, <3>4, <2>3, <1>3 DEF Outputs
  <2> QED BY <2>1, <2>2, <2>3, <1>2
<1> QED BY <1>5, <1>6

LEMMA CascadeKeeps ==
  ASSUME CascadeAssumption, Sound, [CascadeNext]_cascadeVars
  PROVE  Sound'
<1>1. Grounded'
  BY NextGrounded DEF Sound
<1>2. CASE UNCHANGED cascadeVars
  <2>1. ASSUME NEW w \in Workers \ {"reconcile"}, NEW e PROVE Outputs(w, e)' = Outputs(w, e)
    BY <1>2, OutputsStay DEF cascadeVars
  <2>2. Answered'
    <3> SUFFICES ASSUME NEW t \in tasks' \ failed', t[1] # "reconcile"
                 PROVE  t[1] \in Workers /\ \E x \in stream' : /\ Eligible(t[1], x) /\ Key(t[1], x) = t
                                           /\ Outputs(t[1], x)' \subseteq stream'
      BY DEF Answered
    <3>1. PICK x \in stream : Eligible(t[1], x) /\ Key(t[1], x) = t /\ Outputs(t[1], x) \subseteq stream
      BY <1>2 DEF Sound, Answered, cascadeVars
    <3>2. t[1] \in Workers
      BY <1>2 DEF Sound, Answered, cascadeVars
    <3> QED BY <3>1, <3>2, <2>1, <1>2 DEF cascadeVars
  <2>3. Joined'
    BY <1>2 DEF Sound, Joined, cascadeVars
  <2> QED BY <1>1, <2>2, <2>3 DEF Sound
<1>3. ASSUME NEW w \in site.workers, NEW e \in stream, Handle(w, e) PROVE Sound'
  BY <1>1, <1>3, HandleKeeps DEF Sound
<1> QED BY <1>2, <1>3 DEF CascadeNext

-----------------------------------------------------------------------------
(* When nothing is left to do                                              *)

\* The workers are idle, and what has failed costs nothing.
AtRest ==
  /\ CascadeAssumption /\ Sound /\ Equipped /\ Quiet
  /\ \A t \in failed : Harmless(t)

SameWork(e, f) ==
  /\ e.kind = f.kind /\ e.name = f.name /\ e.role = f.role /\ e.host = f.host /\ e.port = f.port
  /\ e.proto = f.proto /\ e.service = f.service /\ e.tls = f.tls

\* Whatever a worker would take was done, for an event of the same target.
LEMMA WorkIsDone ==
  ASSUME AtRest, NEW w \in site.workers, w # "reconcile", w = "nmap-quick" => ~Deployed("nmap-full"),
         NEW e \in stream, Eligible(w, e), ~Refuses(w, e)
  PROVE  \E f \in stream :
           IsEvent(f) /\ SameWork(f, e) /\ Eligible(w, f) /\ Outputs(w, f) \subseteq stream
<1>1. w \in Workers
  BY DEF AtRest, Sound, Grounded, CascadeAssumption
<1>2. IsEvent(e)
  BY DEF AtRest, Sound, Grounded, IsSo
<1>3. Key(w, e) \in tasks
  BY DEF AtRest, Quiet, Waiting
<1>4. Key(w, e)[1] = w /\ Key(w, e)[2].proto = e.proto
  BY <1>2 DEF Key, IsEvent, Fields
<1>5. Key(w, e) \notin failed
  BY <1>4 DEF AtRest, Harmless, Refuses
<1>6. PICK f \in stream : Eligible(w, f) /\ Key(w, f) = Key(w, e) /\ Outputs(w, f) \subseteq stream
  BY <1>3, <1>4, <1>5 DEF AtRest, Sound, Answered
<1>7. IsEvent(f)
  BY DEF AtRest, Sound, Grounded, IsSo
<1>8. SameWork(f, e)
  BY <1>1, <1>2, <1>6, <1>7, KeyTells DEF SameWork
<1> QED BY <1>6, <1>7, <1>8

\* The reconciler has every fact, and has joined it.
LEMMA Reconciled ==
  ASSUME AtRest, NEW f \in stream, NEW g \in stream,
         Eligible("reconcile", f), Eligible("reconcile", g),
         f.kind = "fqdn", g.kind = "port", f.host = g.host
  PROVE  Join(f, g) \in stream
<1>1. ASSUME NEW e \in stream, Eligible("reconcile", e)
      PROVE  <<"reconcile", e>> \in tasks \ failed
  <2>1. "reconcile" \in site.workers
    BY DEF AtRest, Equipped
  <2>2. <<"reconcile", e>> \in tasks
    BY <1>1, <2>1 DEF AtRest, Quiet, Waiting, Key
  <2>3. <<"reconcile", e>> \notin failed
    BY DEF AtRest, Harmless, Refuses
  <2> QED BY <2>2, <2>3
<1> QED BY <1>1 DEF AtRest, Sound, Joined

\* The addresses of a name are known.
Told(x) == \A f \in site.forward : f[1] = x => Sighting("fqdn", x, "dns", f[2]) \in stream

LEMMA NamesAreTold ==
  ASSUME AtRest, NEW e \in stream, e.kind \in {"domain", "fqdn"}, ~BoundName(e)
  PROVE  Told(e.name)
<1>1. "resolve" \in site.workers /\ Eligible("resolve", e) /\ ~Refuses("resolve", e)
  BY DEF AtRest, Equipped, Eligible, Takes, Filter, Refuses
<1>2. PICK f \in stream : f.name = e.name /\ Outputs("resolve", f) \subseteq stream
  BY <1>1, WorkIsDone DEF SameWork
<1>3. Parse({e.name}) \subseteq stream
  BY <1>2 DEF Outputs
<1> QED BY <1>3 DEF Told, Parse

ToldNames == {x \in Mentioned : Told(x)}

LEMMA SeedsAreTold ==
  ASSUME AtRest
  PROVE  SeededNames \subseteq ToldNames
<1>1. ASSUME NEW e \in site.seeds, e.kind \in {"domain", "fqdn"} PROVE Told(e.name)
  <2>1. e \in stream
    BY DEF AtRest, Sound, Grounded
  <2>2. Seed(e)
    BY DEF AtRest, Sound, Grounded, CascadeAssumption
  <2>3. e.host = Absent
    BY <1>1, <2>2 DEF Seed, Sighting, Address, Port, Blank
  <2> QED BY <1>1, <2>1, <2>3, NamesAreTold DEF BoundName
<1>2. ASSUME NEW x \in site.words, NEW e \in site.seeds, e.kind = "domain" PROVE Told(x)
  <2>1. PICK w \in {"dnsx", "ctl"} : w \in site.workers
    BY <1>2 DEF AtRest, Equipped, Seeded, Deployed
  <2>2. e \in stream /\ Eligible(w, e) /\ ~Refuses(w, e)
    BY <1>2 DEF AtRest, Sound, Grounded, Eligible, Takes, Filter, Refuses
  <2>3. PICK f \in stream : Outputs(w, f) \subseteq stream
    BY <2>1, <2>2, WorkIsDone
  <2>4. Parse(site.words) \subseteq stream
    BY <2>3 DEF Outputs
  <2> QED BY <2>4 DEF Told, Parse
<1>3. ASSUME NEW x \in SeededNames PROVE Told(x)
  BY <1>1, <1>2 DEF SeededNames, Seeded
<1> QED BY <1>3 DEF ToldNames, Mentioned

\* An address that is up is known to be, and the names it is known under are told.
LEMMA AddressesAreSeen ==
  ASSUME AtRest, NEW h \in HostsOf(ToldNames) \cap site.up
  PROVE  /\ [Address(h) EXCEPT !.alive = TRUE] \in stream
         /\ \A r \in site.reverse : r[1] = h => Told(r[2])
<1>1. ASSUME NEW e \in stream, Eligible("nmap-discover", e), e.kind # "netblock" => e.host = h,
             e.kind = "fqdn" => Told(e.name)
      PROVE  /\ [Address(h) EXCEPT !.alive = TRUE] \in stream
             /\ \A r \in site.reverse : r[1] = h => Told(r[2])
  <2>1. PICK f \in stream : SameWork(f, e) /\ Outputs("nmap-discover", f) \subseteq stream
    BY <1>1, WorkIsDone DEF AtRest, Equipped, Refuses
  <2>2. DiscoverEvents(f) \subseteq stream
    BY <2>1 DEF Outputs
  <2>3. h \in IF f.kind = "netblock" THEN site.up ELSE {f.host} \cap site.up
    BY <1>1, <2>1 DEF SameWork
  <2>4. [Address(h) EXCEPT !.alive = TRUE] \in stream
    BY <2>2, <2>3 DEF DiscoverEvents
  <2>5. ASSUME NEW r \in site.reverse, r[1] = h PROVE Told(r[2])
    <3>1. CASE f.kind = "fqdn" /\ r[2] = f.name
      BY <3>1, <1>1, <2>1 DEF SameWork
    <3>2. CASE ~(f.kind = "fqdn" /\ r[2] = f.name)
      <4> DEFINE p == Sighting("fqdn", r[2], "ptr", h)
      <4>1. p \in stream
        BY <2>2, <2>3, <2>5, <3>2 DEF DiscoverEvents
      <4>2. p.kind = "fqdn" /\ p.name = r[2] /\ p.role = "ptr"
        BY DEF Sighting, Blank
      <4> HIDE DEF p
      <4> QED BY <4>1, <4>2, NamesAreTold DEF BoundName
    <3> QED BY <3>1, <3>2
  <2> QED BY <2>4, <2>5
<1>2. CASE \E f \in site.forward : f[2] = h /\ f[1] \in ToldNames
  <2>1. PICK f \in site.forward : f[2] = h /\ f[1] \in ToldNames
    BY <1>2
  <2> DEFINE e == Sighting("fqdn", f[1], "dns", h)
  <2>2. e \in stream /\ Told(f[1])
    BY <2>1 DEF ToldNames, Told
  <2>3. e.kind = "fqdn" /\ e.name = f[1] /\ e.role = "dns" /\ e.host = h /\ e.alive = FALSE
    BY DEF Sighting, Blank
  <2>4. Absent \notin {f[1], h}
    BY <2>1 DEF AtRest, Sound, Grounded, CascadeAssumption
  <2> HIDE DEF e
  <2>5. Eligible("nmap-discover", e)
    BY <2>3, <2>4 DEF Eligible, Takes, Filter, BoundName
  <2> QED BY <2>2, <2>3, <2>5, <1>1
<1>3. CASE \E e \in site.seeds : e.kind = "netblock" \/ (e.kind = "ip" /\ e.host = h)
  <2>1. PICK e \in site.seeds : e.kind = "netblock" \/ (e.kind = "ip" /\ e.host = h)
    BY <1>3
  <2>2. Seed(e) /\ e \in stream
    BY DEF AtRest, Sound, Grounded, CascadeAssumption
  <2>3. e.alive = FALSE
    BY <2>2 DEF Seed, Sighting, Address, Port, Blank
  <2>4. Eligible("nmap-discover", e)
    BY <2>1, <2>3 DEF Eligible, Takes, Filter
  <2> QED BY <2>1, <2>2, <2>4, <1>1
<1> QED BY <1>2, <1>3 DEF HostsOf, Seeded

\* Every port that the seeds and the told names lead to is published.
LEMMA PortsAreSeen ==
  ASSUME AtRest, NEW o \in PortsOf(ToldNames)
  PROVE  Port(Absent, o) \in stream /\ o[1] # Absent
<1>1. CASE \E e \in site.seeds : e.kind = "port" /\ o = <<e.host, e.port, e.proto>>
  <2>1. PICK e \in site.seeds : e.kind = "port" /\ o = <<e.host, e.port, e.proto>>
    BY <1>1
  <2>2. Seed(e) /\ e \in stream
    BY DEF AtRest, Sound, Grounded, CascadeAssumption
  <2>3. e = Port(Absent, <<e.host, e.port, e.proto>>) /\ e.host # Absent
    BY <2>1, <2>2 DEF Seed, Sighting, Address, Blank
  <2> QED BY <2>1, <2>2, <2>3
<1>2. CASE o \in Open /\ o[1] \in HostsOf(ToldNames) \cap site.up
  <2> DEFINE a == [Address(o[1]) EXCEPT !.alive = TRUE]
             found(w) == IF w = "nmap-full" THEN site.open
                         ELSE {x \in site.open : x[2] \in TopPorts /\ x[3] = "tcp"}
  <2>1. a \in stream
    BY <1>2, AddressesAreSeen
  <2>2. a.kind = "ip" /\ a.host = o[1] /\ a.alive
    BY DEF Address, Blank
  <2>3. PICK w \in {"nmap-quick", "nmap-full"} :
          w \in site.workers /\ (w = "nmap-quick" => ~Deployed("nmap-full")) /\ o \in found(w)
    BY <1>2 DEF AtRest, Equipped, Deployed, Open
  <2> HIDE DEF a
  <2>4. Eligible(w, a) /\ ~Refuses(w, a)
    BY <2>2 DEF Eligible, Takes, Filter, Refuses
  <2>5. PICK f \in stream : SameWork(f, a) /\ Outputs(w, f) \subseteq stream
    BY <2>1, <2>3, <2>4, WorkIsDone
  <2>6. Expand(f, found(w)) \subseteq stream
    BY <2>5 DEF Outputs
  <2>7. Port(Absent, o) \in Expand(f, found(w))
    BY <2>2, <2>3, <2>5 DEF Expand, SameWork
  <2>8. o[1] # Absent
    BY <1>2 DEF AtRest, Sound, Grounded, CascadeAssumption, Open
  <2> QED BY <2>6, <2>7, <2>8
<1> QED BY <1>1, <1>2 DEF PortsOf, Seeded

\* So the told names are closed under what they lead to, and every name is told.
LEMMA FoundNamesAreTold ==
  ASSUME AtRest
  PROVE  FoundNames \subseteq ToldNames
<1>1. ASSUME NEW r \in site.reverse, r[1] \in HostsOf(ToldNames) \cap site.up PROVE Told(r[2])
  BY <1>1, AddressesAreSeen
<1>2. ASSUME NEW c \in site.certs, Deployed("tlsx"), <<c[1], c[2], "tcp">> \in PortsOf(ToldNames)
      PROVE  Told(c[3])
  <2> DEFINE o == <<c[1], c[2], "tcp">>
             p == Port(Absent, o)
             x == [Sighting("fqdn", c[3], "certificate", c[1])
                     EXCEPT !.port = c[2], !.proto = "tcp", !.tls = TRUE]
  <2>1. p \in stream
    BY <1>2, PortsAreSeen
  <2>2. p.kind = "port" /\ p.host = c[1] /\ p.port = c[2] /\ p.proto = "tcp"
    BY DEF Port, Blank
  <2> HIDE DEF p
  <2>3. Eligible("tlsx", p) /\ ~Refuses("tlsx", p)
    BY <2>2 DEF Eligible, Takes, Filter, Refuses
  <2>4. PICK f \in stream : SameWork(f, p) /\ Outputs("tlsx", f) \subseteq stream
    BY <1>2, <2>1, <2>3, WorkIsDone DEF Deployed
  <2>5. x \in stream
    BY <2>2, <2>4 DEF Outputs, Certificates, SameWork
  <2>6. x.kind = "fqdn" /\ x.name = c[3] /\ x.role = "certificate"
    BY DEF Sighting, Blank
  <2> HIDE DEF x
  <2> QED BY <2>5, <2>6, NamesAreTold DEF BoundName
<1>3. NamesAt(ToldNames) \subseteq ToldNames
  BY <1>1, <1>2 DEF NamesAt, ToldNames, Mentioned
<1>4. Closed(ToldNames)
  BY <1>3, SeedsAreTold DEF Closed
<1> QED BY <1>4, FoundIsLeast DEF ToldNames

\* Every port is published by itself and under each name of its address.
LEMMA NamedPortsAreSeen ==
  ASSUME AtRest, NEW o \in PortsOf(FoundNames), NEW n, Label(n, o)
  PROVE  \E p \in stream :
           /\ IsEvent(p) /\ p.kind = "port" /\ p.host = o[1] /\ p.port = o[2] /\ p.proto = o[3]
           /\ RequestedName(p) = n
<1> DEFINE g == Port(Absent, o)
<1>1. o \in PortsOf(ToldNames)
  BY FoundNamesAreTold, Monotone
<1>2. g \in stream /\ o[1] # Absent
  BY <1>1, PortsAreSeen
<1>3. /\ IsEvent(g) /\ g.kind = "port" /\ g.host = o[1] /\ g.port = o[2] /\ g.proto = o[3]
      /\ g.role = Absent /\ g.source = Absent
  BY DEF Port, Blank, IsEvent, Fields
<1>4. Absent \notin {"requested", "reconcile"}
  BY DEF AtRest, CascadeAssumption
<1> HIDE DEF g
<1>5. CASE n = Absent
  BY <1>2, <1>3, <1>4, <1>5 DEF RequestedName
<1>6. CASE n # Absent
  <2>1. n \in FoundNames /\ <<n, o[1]>> \in site.forward
    BY <1>6 DEF Label
  <2> DEFINE f == Sighting("fqdn", n, "dns", o[1])
             p == Join(f, g)
  <2>2. f \in stream
    BY <2>1, FoundNamesAreTold DEF ToldNames, Told
  <2>3. f.kind = "fqdn" /\ f.name = n /\ f.role = "dns" /\ f.host = o[1] /\ f.source = Absent
    BY DEF Sighting, Blank
  <2> HIDE DEF f
  <2>4. Eligible("reconcile", f) /\ Eligible("reconcile", g)
    BY <1>2, <1>3, <1>4, <1>6, <2>3 DEF Eligible, Takes, Filter, BoundName
  <2>5. p \in stream
    BY <1>2, <1>3, <2>2, <2>3, <2>4, Reconciled
  <2>6. /\ IsEvent(p) /\ p.kind = "port" /\ p.host = o[1] /\ p.port = o[2] /\ p.proto = o[3]
        /\ p.name = n /\ p.role = "requested"
    BY <1>3, <1>6, <2>3 DEF Join, Port, Blank, IsEvent, Fields
  <2> HIDE DEF p
  <2> QED BY <2>5, <2>6 DEF RequestedName
<1> QED BY <1>5, <1>6

\* And so is the service at it.
LEMMA ServicesAreSeen ==
  ASSUME AtRest, NEW o, Endpoint(o), NEW n, Label(n, o)
  PROVE  \E v \in stream :
           /\ IsEvent(v) /\ v.kind = "service" /\ v.host = o[1] /\ v.port = o[2] /\ v.proto = "tcp"
           /\ v.service = site.class[o].service /\ v.tls = site.class[o].tls /\ v.source = Absent
           /\ RequestedName(v) = n
<1>1. PICK x \in PortsOf(FoundNames) : x[1] = o[1] /\ x[2] = o[2] /\ Scanned(x[3]) = o[3]
  BY DEF Endpoint, Reached
<1>2. Label(n, x)
  BY <1>1 DEF Label
<1>3. PICK p \in stream :
        /\ IsEvent(p) /\ p.kind = "port" /\ p.host = o[1] /\ p.port = o[2] /\ p.proto = x[3]
        /\ RequestedName(p) = n
  BY <1>1, <1>2, NamedPortsAreSeen
<1>4. "nmap-svc" \in site.workers /\ Eligible("nmap-svc", p) /\ ~Refuses("nmap-svc", p)
  BY <1>3 DEF AtRest, Equipped, Eligible, Takes, Filter, Refuses
<1>5. PICK f \in stream : SameWork(f, p) /\ Outputs("nmap-svc", f) \subseteq stream
  BY <1>4, WorkIsDone
<1>6. RequestedName(f) = n
  BY <1>3, <1>5 DEF SameWork, RequestedName
<1> DEFINE v == [Port(n, o) EXCEPT !.kind = "service", !.service = site.class[o].service,
                                   !.tls = site.class[o].tls]
<1>7. v \in ServiceEvents(f)
  BY <1>1, <1>3, <1>5, <1>6 DEF ServiceEvents, SameWork, Endpoint
<1>8. v \in stream
  BY <1>5, <1>7 DEF Outputs
<1>9. /\ IsEvent(v) /\ v.kind = "service" /\ v.host = o[1] /\ v.port = o[2] /\ v.proto = o[3]
      /\ v.service = site.class[o].service /\ v.tls = site.class[o].tls /\ v.source = Absent
      /\ v.name = n /\ v.role = IF n = Absent THEN Absent ELSE "requested"
  BY DEF Port, Blank, IsEvent, Fields
<1> HIDE DEF v
<1>10. RequestedName(v) = n
  BY <1>9 DEF RequestedName
<1> QED BY <1>8, <1>9, <1>10 DEF Endpoint

\* A service that is known to be of the web has its URL.
LEMMA WebHasUrls ==
  ASSUME AtRest, NEW v \in stream, IsEvent(v), v.kind = "service", v.proto = "tcp", v.service \in Web,
         v.host # Absent, NEW o, v.host = o[1], v.port = o[2],
         NEW s, s = (v.tls \/ v.service = "https")
  PROVE  Url(RequestedName(v), o, s) \in stream
<1>1. "as-url" \in site.workers /\ Eligible("as-url", v) /\ ~Refuses("as-url", v)
  BY DEF AtRest, Equipped, Eligible, Takes, Filter, Refuses
<1>2. PICK f \in stream : SameWork(f, v) /\ Outputs("as-url", f) \subseteq stream
  BY <1>1, WorkIsDone
<1>3. RequestedName(f) = RequestedName(v)
  BY <1>2 DEF SameWork, RequestedName
<1>4. Url(RequestedName(v), o, s) \in AsUrl(f)
  BY <1>2, <1>3 DEF AsUrl, Url, SameWork
<1> QED BY <1>2, <1>4 DEF Outputs

\* Nothing that can be found is missing.
LEMMA ExpectedAreSeen ==
  ASSUME AtRest
  PROVE  Expected \subseteq Urls
<1> SUFFICES ASSUME NEW u \in Expected PROVE u \in Urls
  OBVIOUS
<1>1. PICK o, s, n : Endpoint(o) /\ s \in Schemes(o) /\ Label(n, o) /\ u = Url(n, o, s)
  BY ExpectedUrls
<1>2. o[1] # Absent /\ site.class[o].tls \in BOOLEAN
  BY <1>1 DEF Endpoint, AtRest, Sound, Grounded, CascadeAssumption
<1>3. PICK v \in stream :
        /\ IsEvent(v) /\ v.kind = "service" /\ v.host = o[1] /\ v.port = o[2] /\ v.proto = "tcp"
        /\ v.service = site.class[o].service /\ v.tls = site.class[o].tls /\ v.source = Absent
        /\ RequestedName(v) = n
  BY <1>1, ServicesAreSeen
<1>4. u \in stream
  <2>1. CASE site.class[o].service \in Web /\ s = (site.class[o].tls \/ site.class[o].service = "https")
    BY <1>1, <1>2, <1>3, <2>1, WebHasUrls
  <2>2. CASE /\ site.class[o].service \in Unidentified /\ Deployed("web-probe")
             /\ s \in BOOLEAN /\ <<o[1], o[2], s>> \in site.web
    <3>1. Eligible("web-probe", v) /\ ~Refuses("web-probe", v) /\ "web-probe" \in site.workers
      BY <1>2, <1>3, <2>2 DEF Eligible, Takes, Filter, Refuses, Deployed, AtRest, CascadeAssumption
    <3>2. PICK f \in stream : IsEvent(f) /\ SameWork(f, v) /\ Outputs("web-probe", f) \subseteq stream
      BY <3>1, WorkIsDone
    <3> DEFINE x == [f EXCEPT !.service = IF s THEN "https" ELSE "http", !.tls = s, !.source = "web-probe"]
    <3>3. x \in Probe(f)
      BY <1>3, <2>2, <3>2 DEF Probe, SameWork
    <3>4. x \in stream
      BY <3>2, <3>3 DEF Outputs
    <3>5. /\ IsEvent(x) /\ x.kind = "service" /\ x.host = o[1] /\ x.port = o[2] /\ x.proto = "tcp"
          /\ x.name = v.name /\ x.role = v.role
          /\ x.service = (IF s THEN "https" ELSE "http") /\ x.tls = s
      BY <1>3, <3>2 DEF SameWork, IsEvent, Fields
    <3> HIDE DEF x
    <3>6. RequestedName(x) = n
      BY <1>3, <3>5 DEF RequestedName
    <3>7. x.service \in Web /\ s = (x.tls \/ x.service = "https")
      BY <2>2, <3>5 DEF Web
    <3> QED BY <1>1, <1>2, <3>4, <3>5, <3>6, <3>7, WebHasUrls
  <2> QED BY <1>1, <2>1, <2>2 DEF Schemes
<1>5. u.kind = "url"
  BY <1>1 DEF Url, Sighting, Blank
<1> QED BY <1>4, <1>5 DEF Urls

-----------------------------------------------------------------------------
(* The theorems                                                            *)

\* Nothing is found that is not there: no URL but those of open ports under names that
\* resolve to the address and with schemes the port speaks (event/SCHEMA.md:57, 103).
THEOREM NothingIsMadeUp ==
  ASSUME CascadeAssumption
  PROVE  CascadeSpec => []OnlyWhatIsThere
<1>1. CascadeInit => Sound
  BY CascadeStarts
<1>2. Sound /\ [CascadeNext]_cascadeVars => Sound'
  BY CascadeKeeps
<1>3. Sound => OnlyWhatIsThere
  BY DEF Sound, Grounded, IsSo, UrlIsSo, RequestedIsSo, OnlyWhatIsThere, NothingIsInvented,
         RequestedNamesResolve, Urls
<1> QED BY <1>1, <1>2, <1>3, PTL DEF CascadeSpec

\* In any network, with any seeds and in any order of the work, the workers find every URL
\* there is to find once they have nothing left to do (README.md:103).
THEOREM NothingIsLeftOut ==
  ASSUME CascadeAssumption
  PROVE  CascadeSpec => []NothingIsMissed
<1>1. CascadeInit => Sound
  BY CascadeStarts
<1>2. Sound /\ [CascadeNext]_cascadeVars => Sound'
  BY CascadeKeeps
<1>3. Sound => NothingIsMissed
  BY ExpectedAreSeen DEF NothingIsMissed, AtRest
<1> QED BY <1>1, <1>2, <1>3, PTL DEF CascadeSpec
=============================================================================
