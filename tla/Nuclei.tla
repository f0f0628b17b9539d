------------------------------- MODULE Nuclei --------------------------------
(***************************************************************************)
(* The nuclei workers: scan, and what it makes of the scanner's findings,  *)
(* its request log and the use of the task's resolver.  The scanner is     *)
(* external: its templates choose where they connect, it may ignore its    *)
(* flags, fail, or be killed while it writes.  dnspin (module DnsPin)      *)
(* answers for the bound name.  tcp stands for network too.                *)
(***************************************************************************)
EXTENDS Naturals, FiniteSets

CONSTANTS
  Inputs,      \* kind, name, host, port, proto
  Profiles,    \* kinds, transports, boundArgs, traceArgs, templates (types)
  Scanners,    \* starts, binds and traces: whether it works and honours its flags
  Addresses,   \* IP addresses
  None,        \* no name or address
  Resolves,    \* the addresses of each name, by other resolvers
  Ports,       \* ports templates may choose
  MaxRequests, \* bound on the requests of a scan
  MaxHits      \* bound on the hits it reports

\* A name that is asked for is no address: those are hosts (event/target.go:159).
NucleiAssumption ==
  /\ None \notin Addresses /\ MaxRequests \in Nat /\ MaxHits \in Nat
  /\ Scanners \subseteq [starts : BOOLEAN, binds : BOOLEAN, traces : BOOLEAN]
  /\ \A i \in Inputs : i.name \notin Addresses /\ i.host \in Addresses \cup {None}

VARIABLES
  in, profile, scanner, \* the task
  ctx,      \* the task is not cancelled
  pc,
  requests, \* what the scanner did: type, to, ip, port, ok
  used,     \* Resolver.Used
  log,      \* the request log: type, at, ok; torn; and whether the file is there
  hits,     \* stdout: type, at (matched-at), fields (host and port), ip; bad: it has
            \* a line that is torn or an error
  exit,     \* how the scanner ended
  out       \* scan's result: events, errors, pause

scanVars == <<in, profile, scanner, ctx, pc, requests, used, log, hits, exit, out>>
task == <<in, profile, scanner>>

Authority == IF in.name # None THEN in.name ELSE in.host
BindingName == in.name
Bound == BindingName # None /\ in.host # None
Target == in.kind = "url" \/ Authority # None
NoPlace == <<None, 0>>
NoResult == [events |-> {}, errors |-> {}, pause |-> FALSE]
Completed == pc = "done" /\ out.errors = {}

ScanInit ==
  /\ profile \in Profiles /\ scanner \in Scanners
  /\ in \in {i \in Inputs : i.kind \in profile.kinds}
  /\ ctx = TRUE /\ pc = "start" /\ requests = {} /\ used = FALSE
  /\ log = [at |-> {}, torn |-> FALSE, there |-> FALSE]
  /\ hits = [at |-> {}, bad |-> FALSE] /\ exit = "none" /\ out = NoResult

-----------------------------------------------------------------------------
(* Before the scanner: what the profile cannot do for this input           *)

RefuseInput(error, pause) ==
  /\ pc' = "done" /\ out' = [NoResult EXCEPT !.errors = {error}, !.pause = pause]
  /\ UNCHANGED <<task, ctx, requests, used, log, hits, exit>>

Supported == in.kind = "service" => in.proto \in profile.transports

Prepared == Supported /\ Target /\ profile.traceArgs /\ (Bound => profile.boundArgs)

Reject ==
  /\ pc = "start"
  /\ \/ (~Supported \/ ~Target) /\ RefuseInput("input", FALSE)
     \/ Supported /\ Target /\ ~profile.traceArgs /\ RefuseInput("profile", TRUE)
     \/ /\ Supported /\ Target /\ profile.traceArgs /\ Bound /\ ~profile.boundArgs
        /\ RefuseInput("profile", TRUE)
     \/ Prepared /\ Bound /\ RefuseInput("resolver", FALSE)

Launch ==
  /\ pc = "start" /\ Prepared
  /\ \/ scanner.starts /\ pc' = "scanning" /\ UNCHANGED exit
     \/ ~scanner.starts /\ pc' = "exited" /\ exit' = "startup"
  /\ UNCHANGED <<task, ctx, requests, used, log, hits, out>>

-----------------------------------------------------------------------------
(* The scanner                                                             *)

\* Where a hit says it matched.  It may lack that, or have it in a form that cannot be
\* read; its host and port are then of the request or of the input, or missing too.
Places(type, to, port) ==
  {[at |-> <<to, port>>, fields |-> NoPlace]} \cup
  CASE type = "http" -> {[at |-> None, fields |-> NoPlace]}
    [] type \in {"ssl", "tcp"} ->
         {[at |-> None, fields |-> f] : f \in {NoPlace, <<to, port>>, <<Authority, in.port>>}}
    [] OTHER -> {}

\* Where a template connects: to its target, to a port of its own, after a redirect
\* to another name.  An SSL request may be logged with the input instead.
Request(type) ==
  /\ pc = "scanning" /\ Cardinality(requests) < MaxRequests /\ type # "dns"
  /\ \E to \in {Authority} \cup (IF type = "http" THEN DOMAIN Resolves ELSE {}),
        port \in Ports \cup {in.port}, ok \in BOOLEAN :
       /\ port = in.port \/ type # "http"
       /\ LET pinned == Bound /\ scanner.binds /\ to = BindingName
          IN \E ip \in IF pinned THEN {in.host} ELSE IF to \in Addresses THEN {to} ELSE Resolves[to],
                at \in {<<to, port>>} \cup (IF type = "ssl" THEN {<<Authority, in.port>>} ELSE {}) :
               /\ requests' = requests \cup
                    {[type |-> type, to |-> to, ip |-> ip, port |-> port, ok |-> ok]}
               /\ used' = (used \/ pinned)
               /\ log' = IF ~scanner.traces THEN log
                         ELSE [log EXCEPT !.at = @ \cup {[type |-> type, at |-> at, ok |-> ok]},
                                          !.there = TRUE]
               /\ \/ hits' = hits
                  \/ /\ ok /\ Cardinality(hits.at) < MaxHits
                     /\ \E known \in {ip, None}, p \in Places(type, to, port) :
                          hits' = [hits EXCEPT !.at =
                                     @ \cup {[type |-> type, at |-> p.at, fields |-> p.fields, ip |-> known]}]
  /\ UNCHANGED <<task, ctx, pc, exit, out>>

\* A DNS template asks for the name of the target; the task's resolver makes up an answer.
RequestDns ==
  /\ pc = "scanning" /\ Cardinality(requests) < MaxRequests
  /\ \E ok \in BOOLEAN, hit \in BOOLEAN :
       LET r == [type |-> "dns", at |-> <<Authority, 0>>, ok |-> ok]
       IN /\ requests' = requests \cup
               {[type |-> "dns", to |-> Authority, ip |-> None, port |-> 0, ok |-> ok]}
          /\ log' = IF scanner.traces THEN [log EXCEPT !.at = @ \cup {r}, !.there = TRUE] ELSE log
          /\ hits' = IF ~(ok /\ hit /\ Cardinality(hits.at) < MaxHits) THEN hits
                     ELSE [hits EXCEPT !.at =
                             @ \cup {[type |-> "dns", at |-> r.at, fields |-> NoPlace, ip |-> None]}]
  /\ used' = (used \/ (Bound /\ scanner.binds))
  /\ UNCHANGED <<task, ctx, pc, exit, out>>

\* It ends by itself, or is killed with its task, or by the system, while it writes.
Exit ==
  /\ pc = "scanning" /\ pc' = "exited"
  /\ \/ /\ ctx /\ exit' = "ok" /\ log' = [log EXCEPT !.there = scanner.traces]
        /\ \E bad \in BOOLEAN : hits' = [hits EXCEPT !.bad = bad]
     \/ /\ exit' = "failed"
        /\ \E at \in SUBSET log.at, torn \in BOOLEAN, there \in {log.there, scanner.traces} :
             log' = [at |-> at, torn |-> torn /\ there, there |-> there]
        /\ \E at \in SUBSET hits.at, bad \in BOOLEAN : hits' = [at |-> at, bad |-> bad]
  /\ UNCHANGED <<task, ctx, requests, used, out>>

Cancel ==
  /\ ctx /\ pc # "done" /\ ctx' = FALSE
  /\ UNCHANGED <<task, pc, requests, used, log, hits, exit, out>>

-----------------------------------------------------------------------------
(* What came of it                                                         *)

\* Where a finding is said to be: where it matched, or else, over HTTP, at the URL of the
\* task, and otherwise where the scanner's host and port say.
Place(h) ==
  CASE h.type \in {"http", "ssl", "tcp"} /\ h.at # None -> h.at
    [] h.type = "http" /\ h.at = None /\ in.kind = "url" -> <<Authority, in.port>>
    [] h.type \in {"ssl", "tcp"} /\ h.at = None -> h.fields
    [] OTHER -> NoPlace

ProtoOf(h) == IF h.type \in {"ssl", "tcp"} \/ Place(h) # NoPlace THEN "tcp" ELSE None

\* Variant of FindingTarget: the task's address unless another is reported.
FindingTargetInherited(h) ==
  LET to == Place(h)[1]
  IN [name  |-> IF to \in Addresses THEN None ELSE to,
      host  |-> IF h.ip # None THEN h.ip ELSE IF to \in Addresses THEN to ELSE in.host,
      port  |-> Place(h)[2], proto |-> ProtoOf(h), type |-> h.type]

\* findingTarget: that place, and the address the scanner reports.
FindingTarget(h) ==
  LET to == Place(h)[1]
  IN [name  |-> IF to \in Addresses THEN None ELSE to,
      host  |-> IF h.ip # None THEN h.ip ELSE IF to \in Addresses THEN to ELSE None,
      port  |-> Place(h)[2], proto |-> ProtoOf(h), type |-> h.type]

\* parseHits: a line that cannot be read, or reports an error, is one of its own.
Findings == {FindingTarget(h) : h \in hits.at}
HitErrors == IF hits.bad THEN {"hits"} ELSE {}

\* serviceRequestEndpoint.
OnEndpoint(r) == r.type \in {"tcp", "ssl"} /\ in.proto = "tcp" /\ r.at = <<Authority, in.port>>

\* parseTrace.
TraceErrors ==
  IF log.torn THEN {"log"}
  ELSE IF log.at = {} THEN {"nothing logged"}
  ELSE {e \in {"requests failed", "off endpoint"} :
          \/ e = "requests failed" /\ \E r \in log.at : ~r.ok
          \/ e = "off endpoint" /\ in.kind = "service" /\ \E r \in log.at : r.ok /\ ~OnEndpoint(r)}

\* toolrun.Failure.
RunErrors == IF ~ctx THEN {"cancelled"} ELSE IF exit = "ok" THEN {} ELSE {exit}

\* A finding at another endpoint than the one requested.
Mismatch(f) ==
  \/ Bound /\ f.name = BindingName /\ f.host # in.host
  \/ /\ in.kind = "service"
     /\ <<f.host, f.port, f.proto, f.name>> # <<in.host, in.port, in.proto, BindingName>>

\* Variant of NoTraceFile: however the scanner ended.
NoTraceFileAtAll == ~log.there

\* A scanner that ended well and left no log ignores the setting.
NoTraceFile == RunErrors = {} /\ ~log.there

\* Variant of Unused: the resolver need not be asked.
UnusedIgnored == FALSE
Unused == Bound /\ ~used

\* Answers that the task's resolver made up are no findings.
Published(events) == {f \in events : Bound => f.type # "dns"}

Finish ==
  /\ pc = "exited" /\ pc' = "done"
  /\ LET dns == Bound /\ (\E r \in log.at : r.type = "dns" \/ \E f \in Findings : f.type = "dns")
         events == Published(Findings)
     IN out' =
          [events |-> events,
           errors |-> UNION {RunErrors,
                             HitErrors,
                             IF log.there THEN TraceErrors ELSE {"log"},
                             IF Unused THEN {"binding"} ELSE {},
                             IF dns THEN {"dns"} ELSE {},
                             IF \E f \in events : Mismatch(f) THEN {"mismatch"} ELSE {}},
           pause  |-> NoTraceFile \/ dns \/ (ctx /\ exit = "startup")]
  /\ UNCHANGED <<task, ctx, requests, used, log, hits, exit>>

ScanNext ==
  \/ Reject \/ Launch \/ Exit \/ Cancel \/ Finish
  \/ \E type \in profile.templates : IF type = "dns" THEN RequestDns ELSE Request(type)

ScanSpec == ScanInit /\ [][ScanNext]_scanVars

-----------------------------------------------------------------------------
(* Properties                                                              *)

\* A completed task has scanned what was asked for: something was requested and nothing
\* failed, requests for the bound name went to the bound address although the scanner
\* resolved it by itself, and those of a service to its port, over its transport.  The
\* endpoint of an SSL request is the scanner's word (cmd/nuclei/TESTING.md:33)
\* (sdk/WORKFLOW.md:114, cmd/nuclei/scan.go:76).
CompletedWasScanned ==
  Completed =>
    /\ requests # {} /\ \A r \in requests : r.ok
    /\ Bound => \A r \in requests : r.to = in.name => r.ip = in.host
    /\ in.kind = "service" =>
         \A r \in requests : /\ in.proto = "tcp" /\ r.type \in {"tcp", "ssl"}
                              /\ r.type = "tcp" => r.port = in.port

\* What a finding names answered the scanner there.
NamesIt(f, r) ==
  f.name \in {r.to, None} /\ f.port \in {r.port, 0} /\ f.host \in {r.ip, None}

\* It names what the task asked for; the address is reported, or the task has no name.
NamesTheTask(f, r) ==
  /\ f.name = BindingName /\ f.port = in.port
  /\ f.host \in {r.ip, IF BindingName = None THEN in.host ELSE None}

\* A finding is of a request that succeeded, and names what answered it.  One that lacks
\* the place of its match may be given that of the task instead, but not the address a
\* name is bound to: the scanner may have gone elsewhere (cmd/nuclei/parse.go:105).
FindingsNameWhatAnswered ==
  \A f \in out.events :
    \E r \in requests :
      /\ r.ok /\ f.type = r.type
      /\ \/ NamesIt(f, r)
         \/ NamesTheTask(f, r) /\ \E h \in hits.at : h.type = f.type /\ h.at = None

\* What the scanner reported is kept however the scan ends, except what it found out
\* from the answers the task's own resolver made up (cmd/nuclei/scan.go:79).
FindingsSurviveFailure ==
  pc = "done" /\ exit \notin {"none", "startup"} =>
    \A h \in hits.at : FindingTarget(h) \in out.events <=> ~(h.type = "dns" /\ Bound)

\* What was found is published, as it was found.
FindingsAreKept == FindingsNameWhatAnswered /\ FindingsSurviveFailure

\* The tool is paused for a fault of its profile or its installation, and not because
\* an input failed, a server did not answer, or a scan was killed (cmd/nuclei/scan.go:71).
OnlySharedFaultsPause ==
  out.pause =>
    \/ ~profile.traceArgs \/ ~profile.boundArgs \/ "dns" \in profile.templates
    \/ ~scanner.starts \/ ~scanner.traces
=============================================================================
