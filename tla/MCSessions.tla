----------------------------- MODULE MCSessions ------------------------------
(***************************************************************************)
(* What is begun and has to end, for TLC: the browser session and the DNS  *)
(* servers of a task, and the deliveries of the sinks.  They share no      *)
(* state: a behaviour is one of one of them, in one of its settings, while *)
(* nothing happens in the others.                                          *)
(***************************************************************************)
EXTENDS BrowserCapture, Sinks, DnsPin

CONSTANTS home, other, e1, e2, e3, p1, p2, Off

VARIABLES
  part,                                          \* which of them, and its setting
  xfile, xsynced, xhtml, xreceived, xstatus, xattempts, xhandlers, xup, xcrashes
                                                 \* Sinks, in the other settings

-----------------------------------------------------------------------------
(* BrowserCapture: two pages of one site and Blank; sessions that follow   *)
(* no, one and two redirects, and two that cannot start                    *)

Profile(limit) ==
  [url |-> home, limit |-> limit, timeout |-> 2, idle |-> 1, named |-> FALSE, boundArgs |-> FALSE]

MCUrls      == {home, other}
MCAuthority == [u \in MCUrls |-> "site"]
MCConfigs   == {Profile(0), Profile(1), Profile(2), [Profile(1) EXCEPT !.idle = 2],
                [Profile(1) EXCEPT !.named = TRUE]}

NoBrowser == Init /\ cfg = Profile(0)

-----------------------------------------------------------------------------
(* Sinks: report with its page, which is Sinks itself; export by two       *)
(* processes and posts to the API, with handlers that stall                *)

NoReport == SinkInit

Others == {"export", "api"}

Sink(s) == INSTANCE Sinks WITH
  file <- xfile, synced <- xsynced, html <- xhtml, received <- xreceived,
  status <- xstatus, attempts <- xattempts, handlers <- xhandlers, up <- xup,
  crashes <- xcrashes,
  Events <- {e1, e2}, Procs <- {p1, p2},
  Mode <- IF s = "export" THEN "file" ELSE "api",
  MaxPending <- IF s = "export" THEN 2 ELSE 1, MaxAttempts <- 2,
  MaxCrashes <- 2, Tears <- FALSE, Stalls <- TRUE

OtherVars ==
  <<xfile, xsynced, xhtml, xreceived, xstatus, xattempts, xhandlers, xup, xcrashes>>
NoOthers ==
  /\ xfile = Off /\ xsynced = Off /\ xhtml = Off /\ xreceived = Off /\ xstatus = Off
  /\ xattempts = Off /\ xhandlers = Off /\ xup = Off /\ xcrashes = Off

-----------------------------------------------------------------------------
ASSUME CaptureParameters == CaptureAssumption
ASSUME DnsPinParameters  == DnsPinAssumption
ASSUME SinkParameters    == SinkAssumption /\ \A s \in Others : Sink(s)!SinkAssumption

MCInit ==
  \/ part = "browser" /\ Init /\ DnsInit /\ NoReport /\ NoOthers
  \/ part = "dns" /\ DnsInit /\ NoBrowser /\ NoReport /\ NoOthers
  \/ part = "report" /\ SinkInit /\ NoBrowser /\ DnsInit /\ NoOthers
  \/ /\ part \in Others /\ NoBrowser /\ DnsInit /\ NoReport
     /\ \E s \in Others : part = s /\ Sink(s)!SinkInit

MCNext ==
  \/ part = "browser" /\ Next /\ UNCHANGED <<part, dnsVars, sinkVars, OtherVars>>
  \/ part = "dns" /\ DnsNext /\ UNCHANGED <<part, vars, sinkVars, OtherVars>>
  \/ part = "report" /\ SinkNext /\ UNCHANGED <<part, vars, dnsVars, OtherVars>>
  \/ /\ \E s \in Others : part = s /\ Sink(s)!SinkNext
     /\ UNCHANGED <<part, vars, dnsVars, sinkVars>>

\* The fairness of BrowserCapture, DnsPin and Sinks, each while it runs.
MCFairness ==
  /\ Fairness
  /\ WF_dnsVars(part = "dns" /\ StartResolver) /\ WF_dnsVars(part = "dns" /\ ToolEnds)
  /\ WF_dnsVars(part = "dns" /\ Closed) /\ WF_dnsVars(part = "dns" /\ Watch)
  /\ WF_dnsVars(part = "dns" /\ Close)
  /\ \A s \in Transport : /\ WF_dnsVars(part = "dns" /\ Serve(s))
                          /\ WF_dnsVars(part = "dns" /\ Answer(s))
  /\ \A p \in Procs :
       /\ WF_sinkVars(part = "report" /\ StartProcess(p))
       /\ WF_sinkVars(part = "report" /\ \E e \in Events : Claim(p, e))
  /\ WF_sinkVars(part = "report" /\ \E h \in handlers : Deliver(h))
  /\ \A s \in Others :
       /\ \A p \in {p1, p2} :
            /\ WF_OtherVars(part = s /\ Sink(s)!StartProcess(p))
            /\ WF_OtherVars(part = s /\ \E e \in {e1, e2} : Sink(s)!Claim(p, e))
       /\ WF_OtherVars(part = s /\ \E h \in xhandlers : Sink(s)!Deliver(h))

MCSpec == MCInit /\ [][MCNext]_<<part, vars, dnsVars, sinkVars, OtherVars>> /\ MCFairness

-----------------------------------------------------------------------------
(* The safety properties are the components' own; those of export and the  *)
(* API, and what is about the end, hold where they apply                   *)

\* An event that export or the API has completed is in the file or was accepted
\* (cmd/report/sink.go:53).  Whatever crashes, stalls or is cancelled, every event ends,
\* and the sockets, servers and goroutines of a task are gone (dnspin.go:115).
DeliveredAndReleased ==
  /\ [](\A s \in Others : part = s => Sink(s)!CompletedIsDelivered)
  /\ <>[](/\ part = "dns" => Released
          /\ part = "report" => Settled
          /\ \A s \in Others : part = s => Sink(s)!Settled)
=============================================================================
