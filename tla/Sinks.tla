-------------------------------- MODULE Sinks --------------------------------
(***************************************************************************)
(* The sinks: report appends an event to a JSONL file, syncs it and builds *)
(* an HTML page from the whole file, or posts the event; export only       *)
(* appends and syncs.  They run under the work engine: an event is claimed,*)
(* its handler executes, the outcome is recorded, and an interrupted       *)
(* handler is executed again.  Processes and the machine may crash between *)
(* any two steps.                                                          *)
(***************************************************************************)
EXTENDS Naturals, Sequences, FiniteSets

CONSTANTS
  Events, Procs,
  Mode,         \* "html": report to a file; "file": export; "api": REPORT_URL
  MaxPending,   \* the durable's limit of unacknowledged messages
  MaxAttempts,  \* executions of a task
  MaxCrashes,   \* bound on the crashes
  Tears,        \* a write may be cut short
  Stalls,       \* a handler may outlive its timeout and its grace
  NoEvent

SinkAssumption ==
  /\ Mode \in {"html", "file", "api"} /\ Tears \in BOOLEAN /\ Stalls \in BOOLEAN
  /\ MaxPending \in Nat \ {0} /\ MaxAttempts \in Nat \ {0} /\ MaxCrashes \in Nat
  /\ IsFiniteSet(Events) /\ NoEvent \notin Events

VARIABLES
  file,     \* the lines of the JSONL file: an event, and whether it can be read
  synced,   \* how many of them survive a crash of the machine
  html,     \* report.html: the events it shows
  received, \* the API: the idempotency keys it has accepted
  status, attempts, \* the task of each event
  handlers, \* the handlers that execute, and the startups (of NoEvent)
  up,       \* processes that take messages
  crashes

disk == <<file, synced, html>>
sinkVars == <<disk, received, status, attempts, handlers, up, crashes>>

Handler(p, e, at) == [proc |-> p, event |-> e, at |-> at, view |-> {}, live |-> TRUE]
Step(h, at) == handlers' = (handlers \ {h}) \cup {[h EXCEPT !.at = at]}
Line(e, whole) == [event |-> e, whole |-> whole]
Readable == \A i \in DOMAIN file : file[i].whole
Written == {file[i].event : i \in {i \in DOMAIN file : file[i].whole}}

\* A line that follows a torn one runs into it.
Appended(e, whole) ==
  Append(file, Line(e, whole /\ (file = <<>> \/ file[Len(file)].whole)))

-----------------------------------------------------------------------------
(* The engine                                                              *)

Executing(e) == \E h \in handlers : h.event = e /\ h.live

\* Variant of MayClaim: a message whose handler has died is not delivered again.
MayClaimOnce(e) ==
  /\ status[e] = "ready"
  /\ Cardinality({x \in Events \ {e} : status[x] = "running"}) < MaxPending

\* A message may be taken while fewer others than the limit are unacknowledged;
\* one whose handler has died is delivered again.
MayClaim(e) ==
  /\ status[e] = "ready" \/ (status[e] = "running" /\ ~Executing(e))
  /\ Cardinality({x \in Events \ {e} : status[x] = "running"}) < MaxPending

Claim(p, e) ==
  /\ p \in up /\ MayClaim(e)
  /\ IF attempts[e] < MaxAttempts
     THEN /\ status' = [status EXCEPT ![e] = "running"]
          /\ attempts' = [attempts EXCEPT ![e] = @ + 1]
          /\ handlers' = handlers \cup {Handler(p, e, IF Mode = "api" THEN "post" ELSE "append")}
     ELSE status' = [status EXCEPT ![e] = "failed"] /\ UNCHANGED <<attempts, handlers>>
  /\ UNCHANGED <<disk, received, up, crashes>>

\* A handler returns: the outcome of its task is recorded, unless the task was
\* given up; a startup that succeeds lets its process take messages.
HandlerReturns(h, outcome) ==
  /\ handlers' = handlers \ {h}
  /\ status' = IF h.live /\ h.event # NoEvent THEN [status EXCEPT ![h.event] = outcome] ELSE status
  /\ up' = IF h.event = NoEvent /\ outcome = "completed" THEN up \cup {h.proc} ELSE up
  /\ UNCHANGED <<attempts, crashes>>

\* invoke: a handler that does not stop is left behind and its task has failed.
Abandon(h) ==
  /\ Stalls /\ h.live /\ h.event # NoEvent
  /\ handlers' = (handlers \ {h}) \cup {[h EXCEPT !.live = FALSE]}
  /\ status' = [status EXCEPT ![h.event] = "failed"]
  /\ UNCHANGED <<disk, received, attempts, up, crashes>>

-----------------------------------------------------------------------------
(* deliver and initFile                                                    *)

AppendLine(h) ==
  /\ h.at = "append"
  /\ file' = Appended(h.event, TRUE)
  /\ Step(h, "sync")
  /\ UNCHANGED <<synced, html, received, status, attempts, up, crashes>>

\* The disk is full: a part of the line is there.
AppendFails(h) ==
  /\ h.at = "append"
  /\ \/ file' = file
     \/ Tears /\ file' = Appended(h.event, FALSE)
  /\ HandlerReturns(h, "failed")
  /\ UNCHANGED <<synced, html, received>>

\* Variant of Sync: the file is closed without being synced.
CloseOnly(h) ==
  /\ h.at = "sync"
  /\ Step(h, IF Mode = "html" THEN "read" ELSE "done")
  /\ UNCHANGED <<disk, received, status, attempts, up, crashes>>

Sync(h) ==
  /\ h.at = "sync"
  /\ synced' = Len(file)
  /\ Step(h, IF Mode = "html" THEN "read" ELSE "done")
  /\ UNCHANGED <<file, html, received, status, attempts, up, crashes>>

\* readJSONL: a line that cannot be read is an error for the whole file.
Read(h) ==
  /\ h.at = "read"
  /\ IF Readable
     THEN /\ handlers' = (handlers \ {h}) \cup {[h EXCEPT !.at = "rename", !.view = Written]}
          /\ UNCHANGED <<status, attempts, up, crashes>>
     ELSE HandlerReturns(h, "failed")
  /\ UNCHANGED <<disk, received>>

\* writeHTML: the page is written aside and renamed.
Rename(h) ==
  /\ h.at = "rename"
  /\ html' = h.view
  /\ Step(h, "done")
  /\ UNCHANGED <<file, synced, received, status, attempts, up, crashes>>

Done(h) == h.at = "done" /\ HandlerReturns(h, "completed") /\ UNCHANGED <<disk, received>>

\* An API error or a busy API is retried, a refusal is final.
Outcome(answer) ==
  CASE answer = "accepted" -> "completed"
    [] answer \in {"error", "busy"} -> "ready"
    [] answer = "refused" -> "failed"

\* The API accepts the event, or not; after an error it may have accepted it.
Post(h) ==
  /\ h.at = "post"
  /\ \E answer \in {"accepted", "error", "busy", "refused"} :
       /\ HandlerReturns(h, Outcome(answer))
       /\ received' \in
            CASE answer = "accepted" -> {received \cup {h.event}}
              [] answer = "error" -> {received, received \cup {h.event}}
              [] OTHER -> {received}
  /\ UNCHANGED disk

\* initFile: a process that starts builds the page before it takes messages.
StartProcess(p) ==
  /\ p \notin up /\ \A h \in handlers : h.proc = p => h.event # NoEvent
  /\ IF Mode = "html" THEN handlers' = handlers \cup {Handler(p, NoEvent, "read")} /\ up' = up
     ELSE up' = up \cup {p} /\ UNCHANGED handlers
  /\ UNCHANGED <<disk, received, status, attempts, crashes>>

-----------------------------------------------------------------------------
(* Crashes                                                                 *)

\* A process dies, in the middle of a write perhaps.
CrashProcess(p) ==
  /\ crashes < MaxCrashes /\ crashes' = crashes + 1
  /\ up' = up \ {p}
  /\ handlers' = {h \in handlers : h.proc # p}
  /\ \/ file' = file
     \/ Tears /\ \E h \in handlers : h.proc = p /\ h.at = "append" /\ file' = Appended(h.event, FALSE)
  /\ UNCHANGED <<synced, html, received, status, attempts>>

\* The machine dies: what was not synced may be lost, the page with it.
CrashMachine ==
  /\ crashes < MaxCrashes /\ crashes' = crashes + 1
  /\ up' = {} /\ handlers' = {} /\ html' = {}
  /\ \E k \in synced..Len(file) : file' = SubSeq(file, 1, k)
  /\ synced' = Len(file')
  /\ UNCHANGED <<received, status, attempts>>

-----------------------------------------------------------------------------
SinkInit ==
  /\ file = <<>> /\ synced = 0 /\ html = {} /\ received = {}
  /\ status = [e \in Events |-> "ready"] /\ attempts = [e \in Events |-> 0]
  /\ handlers = {} /\ up = {} /\ crashes = 0

Deliver(h) ==
  AppendLine(h) \/ AppendFails(h) \/ Sync(h) \/ Read(h) \/ Rename(h) \/ Done(h) \/ Post(h)

SinkNext ==
  \/ \E p \in Procs : StartProcess(p) \/ CrashProcess(p) \/ \E e \in Events : Claim(p, e)
  \/ \E h \in handlers : Deliver(h) \/ Abandon(h)
  \/ CrashMachine

\* Processes are restarted, messages delivered, handlers executed.
SinkFairness ==
  /\ \A p \in Procs : WF_sinkVars(StartProcess(p)) /\ WF_sinkVars(\E e \in Events : Claim(p, e))
  /\ WF_sinkVars(\E h \in handlers : Deliver(h))

SinkSpec == SinkInit /\ [][SinkNext]_sinkVars /\ SinkFairness

-----------------------------------------------------------------------------
(* Properties                                                              *)

\* The disk, the tasks and the handlers have their types.
SinkTypeOK ==
  /\ synced \in 0..Len(file) /\ html \subseteq Events /\ received \subseteq Events
  /\ status \in [Events -> {"ready", "running", "completed", "failed"}]
  /\ \A e \in Events : attempts[e] \in 0..MaxAttempts
  /\ \A h \in handlers : h.proc \in Procs /\ h.event \in Events \cup {NoEvent}

Completed == {e \in Events : status[e] = "completed"}

\* A completed event can be read back from the file, or was accepted by the API,
\* whatever crashes afterwards (WORKFLOW.md:132, README.md:140).
CompletedIsDelivered ==
  Completed \subseteq IF Mode = "api" THEN received ELSE Written

\* While a process takes messages the page shows every completed event: no build
\* of the page is undone by an older one (cmd/report/main.go:25).
HtmlShowsCompleted == Mode = "html" /\ up # {} => Completed \subseteq html

\* What is completed can be read wherever it was to be delivered.
CompletedCanBeRead == CompletedIsDelivered /\ HtmlShowsCompleted

\* Startup rebuilds the page, whatever the file holds: a process that has crashed
\* takes messages again (README.md:136).
StartsAgain == \A p \in Procs : []<>(p \in up)

Settled == \A e \in Events : status[e] \in {"completed", "failed"}

\* Every event is delivered or has failed in the end.
EveryEventEnds == <>[]Settled
=============================================================================
