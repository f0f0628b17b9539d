------------------------------- MODULE Events --------------------------------
(***************************************************************************)
(* event.Canonical and what it rests on.  An event is made canonical when  *)
(* it is published and again by every reader of the stream; a task is the  *)
(* task of what the reader gets.  A hostname is a base and its trailing    *)
(* dots, of which one pass removes one; case and blanks, which one pass    *)
(* settles, are left out, and so are SNI, the Host header and addresses    *)
(* written as names (with a trailing dot, or where only names go).  The    *)
(* URL field is left out too: Canonical refuses what has another URL than  *)
(* that of its value, and of a value with at most three trailing dots it   *)
(* makes a URL without any, which no later pass finds to differ.           *)
(***************************************************************************)
EXTENDS Naturals

CONSTANTS
  IPs, Words,   \* addresses, and the hostnames without their trailing dots
  Bases,        \* those that are valid
  None,         \* an absent field
  MaxPort,      \* the largest port
  Raw           \* the events a worker, a user or an older release may publish

Kinds == {"fqdn", "ip", "port", "url", "service"}
Names == [base : Words, dots : Nat]
Hosts == IPs \cup Names
Current == 2
Roles == {"requested", "observed", "dns_a", "ptr"}

\* What may be written as an event.
Written ==
  [version : 0..Current, kind : Kinds,
   value : [host : Hosts, port : Nat, tls : BOOLEAN],
   host : Hosts \cup {None}, name : Names \cup {None}, role : Roles \cup {None, "unknown"},
   port : Nat, proto : {None, "tcp", "udp", "icmp"}, tls : BOOLEAN,
   meta : [ip : Hosts \cup {None}, host : Hosts \cup {None}, port : Nat,
           proto : {None, "tcp", "udp", "icmp"}, tunnel : BOOLEAN]]

EventAssumption ==
  /\ MaxPort \in Nat \ {0, 1} /\ Bases \subseteq Words
  /\ \A h \in IPs \cup {None} : h \notin Names
  /\ None \notin IPs /\ None \notin Roles /\ None # "icmp" /\ None # "tcp"
  /\ \A e \in Raw : /\ e \in Written
                    /\ e.kind = "fqdn" => e.value.host \in Names
                    /\ e.kind = "url" /\ e.value.host \in Names => e.value.host.dots <= 3

VARIABLES
  raw,    \* the event as it was written
  ev,     \* the event, or Refused
  before, \* the event before the last pass
  passes  \* Canonical applied: by the publisher, then by readers

vars == <<raw, ev, before, passes>>

Refused == [kind |-> "refused"]

IsIP(h) == h \in IPs

\* CanonFQDN: one trailing dot goes.
CanonFQDN(n) == IF n.dots > 0 THEN [n EXCEPT !.dots = @ - 1] ELSE n
CanonHost(h) == IF IsIP(h) THEN h ELSE CanonFQDN(h)
ValidName(n) == n.base \in Bases /\ n.dots = 0
ValidPort(p) == p \in 1..MaxPort

\* Target.Canonical: the typed target by itself.
CanonTarget(e) ==
  LET name == IF e.name = None THEN None ELSE CanonFQDN(e.name)
      role == IF e.name # None /\ e.role = None THEN "observed" ELSE e.role
  IN IF \/ e.host \notin IPs \cup {None}
        \/ name # None /\ ~ValidName(name)
        \/ name = None /\ e.role # None
        \/ role \notin Roles \cup {None}
        \/ e.port \notin 0..MaxPort
        \/ e.port # 0 /\ e.proto = "icmp"
     THEN Refused
     ELSE [e EXCEPT !.name = name, !.role = role]

\* Variant of BindAuthority: the address of the value replaces the target's.
BindOver(e, h, p) ==
  IF e.port \notin {0, p} THEN Refused
  ELSE IF IsIP(h) THEN [e EXCEPT !.port = p, !.host = IF @ = None THEN h ELSE @]
  ELSE [e EXCEPT !.port = p, !.name = CanonFQDN(h), !.role = "requested"]

\* Target.bindAuthority: the value's host and port, which the target may not
\* contradict.
BindAuthority(e, h, p) ==
  IF e.port \notin {0, p} THEN Refused
  ELSE IF IsIP(h)
  THEN IF e.host \in {None, h} THEN [e EXCEPT !.port = p, !.host = h] ELSE Refused
  ELSE CASE e.name = None -> [e EXCEPT !.port = p, !.name = CanonFQDN(h), !.role = "requested"]
         [] e.name = CanonFQDN(h) -> [e EXCEPT !.port = p]
         [] OTHER -> Refused

\* The port of a URL, or its scheme's: 1 stands for 80 and 2 for 443.
UrlPort(v) == IF v.port # 0 THEN v.port ELSE IF v.tls THEN 2 ELSE 1

\* Event.Canonical: the value, by its kind.
CanonValue(e) ==
  CASE e.kind = "fqdn" -> [e EXCEPT !.value.host = CanonFQDN(@)]
    [] e.kind = "ip" -> IF IsIP(e.value.host) THEN e ELSE Refused
    [] e.kind = "port" ->
         IF ~ValidPort(e.value.port) THEN Refused
         ELSE LET h == CanonHost(e.value.host)
              IN [e EXCEPT !.value.host = h, !.meta.host = h, !.meta.port = e.value.port]
    [] e.kind = "url" ->
         IF e.value.port \notin 0..MaxPort THEN Refused
         ELSE [e EXCEPT !.value.host = CanonHost(@)]
    [] e.kind = "service" -> e

\* normalize: the fields of an older schema become the typed target.  A port that is no
\* number, which is refused at once, and the name of a service are left out.
Promote(e) ==
  IF e.version = Current THEN e ELSE
  [e EXCEPT !.host = CASE @ # None -> @
                       [] IsIP(e.meta.ip) -> e.meta.ip
                       [] IsIP(e.meta.host) -> e.meta.host
                       [] OTHER -> None,
            !.port = IF @ = 0 THEN e.meta.port ELSE @,
            !.proto = IF @ = None THEN e.meta.proto ELSE @,
            !.tls = @ \/ e.meta.tunnel]

\* normalize: the target takes what the value says, by its kind.  URLTarget makes the
\* URL canonical once more, and then the name that is in it.
Bind(e) ==
  CASE e.kind = "fqdn" ->
         IF e.name \in {None, e.value.host} THEN [e EXCEPT !.name = e.value.host] ELSE Refused
    [] e.kind = "ip" ->
         IF e.host \in {None, e.value.host} THEN [e EXCEPT !.host = e.value.host] ELSE Refused
    [] e.kind = "port" ->
         LET bound == BindAuthority(e, e.value.host, e.value.port)
         IN IF bound = Refused THEN bound ELSE [bound EXCEPT !.proto = IF @ = None THEN "tcp" ELSE @]
    [] e.kind = "service" ->
         LET bound == BindAuthority(e, e.value.host, e.value.port)
         IN IF bound = Refused \/ ~ValidPort(e.value.port) THEN Refused
            ELSE [bound EXCEPT !.value.host = CanonHost(@)]
    [] e.kind = "url" ->
         LET bound == BindAuthority(e, CanonHost(CanonHost(e.value.host)), UrlPort(e.value))
         IN IF bound = Refused THEN bound
            ELSE [bound EXCEPT !.proto = IF @ = None THEN "tcp" ELSE @, !.tls = e.value.tls]

\* The steps of Canonical and normalize end at the first that refuses.
Then(e, Op(_)) == IF e = Refused THEN e ELSE Op(e)
Stamp(e) == [e EXCEPT !.version = Current]

\* Variant of Canonical: the target is not made canonical again at the end.
CanonicalOnce(e) ==
  Then(Then(Then(Then(Then(e, CanonValue), Promote), CanonTarget), Bind), Stamp)

Canonical(e) ==
  Then(Then(Then(Then(Then(Then(e, CanonValue), Promote), CanonTarget), Bind), CanonTarget), Stamp)

\* DedupKey: what makes two events one task.
DedupKey(e) == <<e.kind, e.value, e.host, e.name, e.role, e.port, e.proto, e.tls>>

-----------------------------------------------------------------------------
Init == raw \in Raw /\ ev = raw /\ before = raw /\ passes = 0

\* The publisher, and then each reader.
Pass ==
  /\ passes < 3 /\ ev # Refused
  /\ before' = ev /\ ev' = Canonical(ev) /\ passes' = passes + 1
  /\ UNCHANGED raw

Next == Pass

Spec == Init /\ [][Next]_vars

-----------------------------------------------------------------------------
(* Properties                                                              *)

Accepted == passes > 0 /\ ev # Refused

\* What a publisher accepts no reader refuses: an event on the stream is never
\* terminated as invalid by the workers it is for (work.go:419, coverage.go:238).
AcceptedStaysAccepted == passes > 1 => ev # Refused

\* The publisher's key of an event and every reader's are the same: it is one task
\* however often it is made canonical, unless a name was written with more than the
\* one trailing dot of an absolute name (work.go:76, coverage.go:238).
KeySettles ==
  passes > 1 /\ (IsIP(raw.value.host) \/ raw.value.host.dots <= 1) =>
    DedupKey(ev) = DedupKey(before)

\* Every reader of an event takes what its publisher accepted, as the same task.
ReadersAgree == AcceptedStaysAccepted /\ KeySettles

\* What an event says of its target does not contradict its value: a value with an
\* address has that host, one with a name that name, and the port is the value's
\* (SCHEMA.md:42).
TargetFollowsValue ==
  Accepted =>
    /\ IF IsIP(ev.value.host) THEN ev.host = ev.value.host
       ELSE ev.name.base = ev.value.host.base /\ ev.role # None
    /\ ev.kind \in {"port", "service"} => ev.port = ev.value.port

\* The address of a current event is its own or its value's: what it lists of
\* aliases and ancestors is never taken for the server (SCHEMA.md:141).
AddressIsNotGuessed ==
  Accepted /\ raw.version = Current =>
    ev.host \in {None, raw.host, raw.value.host}

\* The target of an event is what its publisher said of it, and nothing else.
TargetIsStated == TargetFollowsValue /\ AddressIsNotGuessed
=============================================================================
