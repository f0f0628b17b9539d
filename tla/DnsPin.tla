------------------------------- MODULE DnsPin --------------------------------
(***************************************************************************)
(* dnspin.Resolver: the DNS servers of one task, from Start to Close.      *)
(* Two servers run in goroutines of their own, a third closes all when the *)
(* task is cancelled, and the worker closes them when its tool is done.    *)
(* dns.Server is external: it serves once it is activated, and a shutdown  *)
(* that comes before that finds nothing to stop.                           *)
(***************************************************************************)
EXTENDS Naturals

CONSTANTS
  MaxQueries \* bound: queries of a name that is forwarded

DnsPinAssumption == MaxQueries \in Nat

VARIABLES
  caller,    \* the worker: in Start, at its tool, closing, or done
  live,       \* whether the resolver's context is live
  socket,    \* per transport: not opened, open, closed
  server,    \* per transport: its goroutine
  started,   \* per transport: dns.Server.started
  close,     \* the one Close: not begun, at either server, done
  watcher,   \* the goroutine that waits for the context
  forwards,  \* per transport: queries that wait for an upstream
  queries    \* bound on those

dnsVars == <<caller, live, socket, server, started, close, watcher, forwards, queries>>

Transport == {"udp", "tcp"}

DnsInit ==
  /\ caller = "listen" /\ live = TRUE
  /\ socket = [s \in Transport |-> "none"] /\ server = [s \in Transport |-> "none"]
  /\ started = [s \in Transport |-> FALSE]
  /\ close = "no" /\ watcher = "none"
  /\ forwards = [s \in Transport |-> 0] /\ queries = 0

\* Both sockets, or neither.
OpenSockets ==
  /\ caller = "listen"
  /\ \/ /\ socket' = [s \in Transport |-> "open"] /\ server' = [server EXCEPT !["udp"] = "launched"]
        /\ caller' = "udp"
     \/ /\ socket' \in {socket, [socket EXCEPT !["udp"] = "closed"]}
        /\ caller' = "done" /\ UNCHANGED server
  /\ UNCHANGED <<live, started, close, watcher, forwards, queries>>

\* The first server is ready, then the second; then the watcher is started.
Ready ==
  /\ caller \in Transport /\ server[caller] \in {"serving", "ending", "failed"}
  /\ IF caller = "udp"
     THEN caller' = "tcp" /\ server' = [server EXCEPT !["tcp"] = "launched"] /\ UNCHANGED watcher
     ELSE caller' = "using" /\ watcher' = "waiting" /\ UNCHANGED server
  /\ UNCHANGED <<live, socket, started, close, forwards, queries>>

\* The server has failed or the task is cancelled: Close comes first, then the sockets.
GiveUp ==
  /\ caller \in Transport /\ (server[caller] = "failed" \/ ~live)
  /\ caller' = "undo"
  /\ IF close = "no" THEN close' = "udp" /\ live' = FALSE ELSE UNCHANGED <<close, live>>
  /\ UNCHANGED <<socket, server, started, watcher, forwards, queries>>

\* Variant of Undo: Close is trusted to have closed the sockets.
UndoNothing ==
  /\ caller = "undo" /\ close = "done" /\ caller' = "done"
  /\ UNCHANGED <<live, socket, server, started, close, watcher, forwards, queries>>

Undo ==
  /\ caller = "undo" /\ close = "done" /\ caller' = "done"
  /\ socket' = [s \in Transport |-> "closed"]
  /\ UNCHANGED <<live, server, started, close, watcher, forwards, queries>>

\* The tool has ended, and with it the task.
ToolEnds ==
  /\ caller = "using" /\ caller' = "closing"
  /\ IF close = "no" THEN close' = "udp" /\ live' = FALSE ELSE UNCHANGED <<close, live>>
  /\ UNCHANGED <<socket, server, started, watcher, forwards, queries>>

\* sync.Once: the second Close returns when the first has.
Closed ==
  /\ caller = "closing" /\ close = "done" /\ caller' = "done"
  /\ UNCHANGED <<live, socket, server, started, close, watcher, forwards, queries>>

\* The watcher: the context is done, of its own or because of a Close.
Watch ==
  /\ watcher = "waiting" /\ ~live /\ watcher' = "ended"
  /\ close' = IF close = "no" THEN "udp" ELSE close
  /\ UNCHANGED <<caller, live, socket, server, started, forwards, queries>>

\* ShutdownContext stops a server that has started, and does not wait for one that has not.
Shutdown ==
  /\ close \in Transport /\ started[close]
  /\ started' = [started EXCEPT ![close] = FALSE]
  /\ socket' = IF close = "tcp" THEN [socket EXCEPT !["tcp"] = "closed"] ELSE socket
  /\ close' = IF close = "udp" THEN "udp wait" ELSE "tcp wait"
  /\ UNCHANGED <<caller, live, server, watcher, forwards, queries>>

NotStarted ==
  /\ close \in Transport /\ ~started[close]
  /\ close' = IF close = "udp" THEN "tcp" ELSE "done"
  /\ UNCHANGED <<caller, live, socket, server, started, watcher, forwards, queries>>

\* It waits for the server's queries, two seconds in all, and closes the packet socket.
ShutdownEnds ==
  /\ close \in {"udp wait", "tcp wait"}
  /\ IF close = "udp wait" THEN close' = "tcp" /\ socket' = [socket EXCEPT !["udp"] = "closed"]
     ELSE close' = "done" /\ UNCHANGED socket
  /\ UNCHANGED <<caller, live, server, started, watcher, forwards, queries>>

-----------------------------------------------------------------------------
(* The servers and their queries                                           *)

Activate(s) ==
  /\ server[s] = "launched" /\ server' = [server EXCEPT ![s] = "activated"]
  /\ started' = [started EXCEPT ![s] = TRUE]
  /\ UNCHANGED <<caller, live, socket, close, watcher, forwards, queries>>

\* NotifyStartedFunc.
Notify(s) ==
  /\ server[s] = "activated" /\ server' = [server EXCEPT ![s] = "serving"]
  /\ UNCHANGED <<caller, live, socket, started, close, watcher, forwards, queries>>

\* A query of another name, which an upstream is asked.
Forward(s) ==
  /\ server[s] = "serving" /\ started[s] /\ socket[s] = "open" /\ queries < MaxQueries
  /\ forwards' = [forwards EXCEPT ![s] = @ + 1] /\ queries' = queries + 1
  /\ UNCHANGED <<caller, live, socket, server, started, close, watcher>>

Answer(s) ==
  /\ forwards[s] > 0 /\ forwards' = [forwards EXCEPT ![s] = @ - 1]
  /\ UNCHANGED <<caller, live, socket, server, started, close, watcher, queries>>

\* The loop of the server ends with its start flag or its socket, or by an error of its
\* own; it then waits for its queries and closes what it listens on.
LoopEnds(s) ==
  /\ server[s] = "serving" /\ (~started[s] \/ socket[s] = "closed")
  /\ server' = [server EXCEPT ![s] = "ending"]
  /\ UNCHANGED <<caller, live, socket, started, close, watcher, forwards, queries>>

Breaks(s) ==
  /\ server[s] = "serving" /\ started[s] /\ socket[s] = "open"
  /\ server' = [server EXCEPT ![s] = "ending"]
  /\ UNCHANGED <<caller, live, socket, started, close, watcher, forwards, queries>>

Returns(s) ==
  /\ server[s] = "ending" /\ forwards[s] = 0
  /\ server' = [server EXCEPT ![s] = "failed"] /\ socket' = [socket EXCEPT ![s] = "closed"]
  /\ UNCHANGED <<caller, live, started, close, watcher, forwards, queries>>

\* The task is cancelled: a shutdown, a timeout, a lost lease.
CancelTask ==
  /\ live /\ live' = FALSE
  /\ UNCHANGED <<caller, socket, server, started, close, watcher, forwards, queries>>

StartResolver == OpenSockets \/ Ready \/ GiveUp \/ Undo
Close == Shutdown \/ NotStarted \/ ShutdownEnds
Serve(s) == Activate(s) \/ Notify(s) \/ LoopEnds(s) \/ Returns(s)

DnsNext ==
  \/ StartResolver \/ ToolEnds \/ Closed \/ Watch \/ Close \/ CancelTask
  \/ \E s \in Transport : Serve(s) \/ Forward(s) \/ Answer(s) \/ Breaks(s)

\* Goroutines run; the tool is killed when its task ends, and upstreams time out.
DnsFairness ==
  /\ WF_dnsVars(StartResolver) /\ WF_dnsVars(ToolEnds) /\ WF_dnsVars(Closed) /\ WF_dnsVars(Watch) /\ WF_dnsVars(Close)
  /\ \A s \in Transport : WF_dnsVars(Serve(s)) /\ WF_dnsVars(Answer(s))

DnsSpec == DnsInit /\ [][DnsNext]_dnsVars /\ DnsFairness

-----------------------------------------------------------------------------
(* Properties                                                              *)

\* A tool is not started before both of its servers have been seen to serve: neither a
\* query over UDP nor its repetition over TCP is refused for coming early
\* (internal/dnspin/dnspin.go:104).
ReadyWhenReturned ==
  caller = "using" => \A s \in Transport : server[s] \notin {"none", "launched", "activated"}

\* When the worker is done with the resolver no socket of it is open, whether it was
\* closed, was given up while a server was about to start, or never began: a server that
\* starts after that finds nothing to serve (internal/dnspin/dnspin.go:117).
NothingStaysOpen == caller = "done" => \A s \in Transport : socket[s] # "open"

\* The sockets of a task serve when its tool starts, and not after it has ended.
ServesItsTask == ReadyWhenReturned /\ NothingStaysOpen

Released ==
  /\ caller = "done" /\ watcher # "waiting"
  /\ \A s \in Transport : socket[s] # "open" /\ server[s] \in {"none", "failed"}

\* Whenever the task is cancelled, its sockets and goroutines are gone in the end: a
\* worker that runs for weeks leaks none, not even of a server that was only about to
\* start when it was closed (internal/dnspin/dnspin.go:115).
EverythingIsReleased == <>[]Released
=============================================================================
