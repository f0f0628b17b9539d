# A TLA+ model of adama

`adama` is a set of reconnaissance workers around NATS JetStream. Every worker
subscribes to kinds of events, runs a tool on each eligible event and publishes
what it found as further events. The part of the program that is hard to get
right is the SDK that all workers share (`src/sdk`): it executes each unit of
work a bounded number of times although deliveries repeat, replicas crash,
stall and are replaced, and replies of the store are lost. This directory holds
TLA+ modules of that engine, of what surrounds it (registry, rules, coverage,
circuit breaker, live view), of the workers with state or protocols of their own
(reconciler, browser, redirects, nuclei, task DNS, sinks) and of all workers as
one system; TLC configurations that check them; and proofs.

## Inventory

| Component | State | Operations | Talks to |
|---|---|---|---|
| **Work engine** `sdk/work.go`, `sdk/health.go` | Task record per work key (`ADAMA_WORK`), saved batch per execution (`ADAMA_OUTBOX`), circuit breaker per tool (`ADAMA_TOOLS`); per replica: remembered record and revision, batch, heartbeat goroutine | `claim`, `heartbeat`, `process`, `invoke`, `publishResult`, `finish`, `onMsg`, `pauseTool` | JetStream KV with compare-and-swap, object store, the durable consumer, the EVENTS stream |
| **Worker loop and bus** `sdk/sdk.go` | the durable consumer's deliveries | `Connect`, `Run`, `consumer`, `Publish`, shutdown | engine, registry |
| **Settings** `sdk/config.go` | budgets, durations | `defaults` | engine |
| **Registry** `sdk/registry.go`, `scripts/register-workers.py` | one registration per worker name, one inventory (`ADAMA_REGISTRY`) | `Register` (create or compare-and-swap), `Registrations` (watch), `SetInventory` (put), `Inventory` | coverage |
| **Input rules** `sdk/rule.go` | none | `Match`, `Validate` | onMsg, coverage |
| **Reconciler** `internal/reconcile` | facts per scope and host (`ADAMA_FACTS`) | `Handle` (store one side, read the other), `join`, `intersectGates` | runs as a handler of the engine with `MaxPending` 1 |
| **Coverage** `internal/coverage` | none kept; reads registry, stream, ledger, consumers | `planner.add`, `expectations`, `Snapshot` | all stores |
| **Events and targets** `event` | none | `Canonical`, `Target.Canonical`, `bindAuthority`, `DedupKey`, `Allowed`, `InheritGate` | everything |
| **Browser capture** `internal/browsercapture` | navigation record shared by the CDP listener and `Run` | `listen`, `settle`, `Run` | httpx worker |
| **Redirect discovery** `cmd/httpx/browser.go` | depth carried in event metadata | `browserEvents` | engine |
| **Task-local DNS** `internal/dnspin` | answer counter, two servers | `Start`, `Close` | httpx, nuclei workers |
| **nuclei** `cmd/nuclei`, `internal/toolrun` | the request log and the output of one scan | `scan`, `parseHits`, `parseTrace`, `Failure` | task-local DNS, engine |
| **Tools and parsers** `internal/toolrun`, `nmapx`, `dnsresult`, `webprobe`, `asurl`, `cmd/*` | none | run a subprocess, translate its output | engine |
| **Sinks** `cmd/report`, `cmd/export` | a JSONL file, a page built from it, or an HTTP API | append, sync, rewrite; post | engine |
| **Operator** `cmd/work`, `cmd/seed`, `cmd/watch`, `cmd/ctl` | none | `work resume`, listings, coverage, seeding; `watch` keeps the rows of who works | stores, activity notes |

What makes each correct, and what is hard about it:

* **Work engine.** At most `MaxAttempts` executions of a work key, each counted
  before it starts; one writer of the record at a time; nothing published that
  was not saved; the output index never ahead of the stream; a batch once saved
  is published and not made again; a terminal record is final; a message is
  settled only when its task is terminal, and every message is settled in the
  end. Hard: expired leases with a stalled owner, crashes between any two store
  calls, lost replies, redelivery, several messages with one key, heartbeats
  concurrent with the main path, the pause of a tool, shutdown.
* **Registry.** One contract per name; a replacement never overwrites one it has
  not read; the inventory is ready only after a complete provisioning. Hard:
  concurrent provisioning runs.
* **Reconciler.** Every supported pair of a name and a port of one host and
  scope is emitted at least once whatever the order of arrival and the crashes;
  the gates of a pair are no wider than either fact's. Hard: store-before-read.
* **Coverage.** The set of expected work depends on the set of observations and
  not on their order; `complete` is said only of a state that really was
  complete at the boundary. Hard: reads spread over time.
* **Browser capture.** An image is kept only if the document it shows is the one
  whose responses were recorded; capture ends. Hard: navigation at any moment.
* **Redirect discovery.** Chains end at the limit, over any number of tasks, and
  what answered is attributed to who answered. Hard: a name with several
  addresses, loops, sessions that fail half way.
* **Task-local DNS.** A tool starts after its servers and nothing outlives the
  task. Hard: a cancellation while a server is about to start.
* **nuclei.** A completed scan scanned its endpoint; findings keep their own.
  Hard: a scanner that ignores its flags, goes elsewhere, or is killed writing.
* **Sinks.** What is completed can be read. Hard: crashes between and within
  writes, handlers that outlive their timeout.
* **Events.** Every reader accepts what the publisher accepted, as the same task.
* **Rules.** Coverage expects what the worker takes, from a copy that went
  through JSON.
* **Pause.** A shared fault stops all replicas and loses no input.
* **All workers.** The URLs found do not depend on the order of the work.

The hazards list in `PROJECT.json` has each of these at its line.

## Plan

1. `Work` with `TaskLedger`, `MCWork`, `WorkProofs` (the engine). *Done.*
2. `Gates`: `Allowed`, `InheritGate`, `intersectGates` as operators, with the
   lemmas about them in `ReconcileProofs`. *Done.*
3. `Reconcile` with `MCReconcile`, `ReconcileProofs`: `Handle` as store,
   snapshot, emit, over at-least-once executions. *Done.*
4. `Registry`: concurrent `Register`, replacement, `SetInventory`, the
   provisioning script, the durable of a replica. *Done.*
5. `Planner`, `Plans` and `Coverage`: the planner as a function of the observations,
   then at work on them, then `Snapshot` against concurrent writers. *Done.*
6. `ToolPause`, `BrowserCapture`, `Redirects`, `Sinks`, `Events`, `Rules`,
   `DnsPin`, `Nuclei`, `Watch`; and `Cascade`, which composes what the workers
   take and publish. *Done.*
7. Proofs: what reaches the stream, `Work` implementing `TaskLedger`, and the safety
   properties of `Registry`, `Coverage`, `ToolPause`, `Redirects`, `Sinks` and
   `BrowserCapture`. *Done.*
8. Proofs of the rest: what a scan of `Nuclei` says of its requests, the readers of
   `Events`, the planner at work, the rows of `Watch`, the resolver of `DnsPin`, and
   that `Cascade` finds all there is and nothing else. *Done.* What is left of safety
   is `Rules`, whose operators are recursive.

## The work engine: `Work`

One work key, any number of replicas and messages.

| Model | Code |
|---|---|
| `task` | the `Task` record in `ADAMA_WORK`; `owned` is `Owner != ""`, `scan` the `ResultKey`, `next` `NextOutput`, `pubAttempts` `PublishAttempts`, `emitted` `Emitted` |
| `lease`, `backoff`, `late` | whether `LeaseUntil` and `NextAttempt` lie ahead and whether `Deadline` has passed; the code tests nothing else of the three |
| `outbox` | the batch under each ScanID: its number of events and what `Error` and `Retry` say |
| `stream` | the set of output events in EVENTS; publishing an event ID again adds nothing |
| `delivery` | the durable consumer's view of each message |
| `paused` | a key for the tool in `ADAMA_TOOLS` |
| `pc`, `hand`, `held`, `fresh`, `batch`, `cancelled` | per replica: the place in `Run`/`onMsg`/`process`/`publishResult`, the message, `workLease.task`, whether `workLease.revision` is still current, the `savedResult`, whether `workCtx` is cancelled |
| `runs` | history: how often the handler ran under each ScanID |

Each action is one store call or one decision of the code, in the code's order;
the table of `PROJECT.json` gives its lines. Every write of the record goes
through `Update`, the compare-and-swap of `workLease.update`: it is refused when
the remembered revision is stale (`WriteFails`), applied, or applied while its
reply is lost. `Heartbeat` may happen wherever the goroutine of `heartbeat` may
run. The attempt number serves as the ScanID: an attempt that was recorded draws
a new ID and one that was not leaves no trace.

Faults, each bounded by `MaxFaults` together: a replica crashes (`Crash`), is
told to stop (`Shutdown`), stalls past its renewed lease (`LeaseExpires` while
it beats), a store call fails or its reply is lost, an acknowledgement is lost,
and, once their number is in `DamageAt`, the object store may lose or garble a
batch (`DamageBatch`), as often as one is saved that a later claim may read. Redelivery
(`Redeliver`) and the passing of time are not faults and are not bounded.

### Properties

| Property | Says |
|---|---|
| `TypeOK` | the budgets and ranges of every record |
| `ExecutionsAreCounted` | no attempt runs twice, none runs uncounted |
| `OneWriter` | of the replicas past their claim at most one can still write |
| `PublishedWasSaved` | what the stream holds is in the saved batch |
| `IndexIsPublished` | `NextOutput` never runs ahead of the stream |
| `EvidenceIsCounted` | `Emitted` is the number of distinct events in the stream, but for the one in flight |
| `CompletedIsPublished` | a completed task has published a whole batch without error |
| `TerminalIsFinal` | no step changes a terminal record |
| `RerunOnlyAfterPublishing` | publication is never repaired by scanning again |
| `SettledIsTerminal` | no valid message is settled before its task is terminal |
| `EveryMessageSettles` | every message is settled for good in the end |
| `KeepsTheLedger` | the replicas implement `TaskLedger` |

`TaskLedger` is what an observer of one key may rely on: phases, executions
charged to a budget, an execution only when all that was published is accounted
for, events published and accounted one by one, final phases final. It knows
neither replicas nor revisions, leases or messages. The mapping
is part of `Work`; TLC checks it, and `WorkProofs` proves it.

## The reconciler: `Gates` and `Reconcile`

`Gates` has a gate as a record of two sets and a profile, and the functions of
`event.go` and `reconcile.go` on it. `Reconcile` extends it with the worker:

| Model | Code |
|---|---|
| `obs` | what each event reports: scope and host (`place`), name or transport and port (`subject`), gate; chosen at the start |
| `facts` | the events in `ADAMA_FACTS`; `Key` says which of them replace each other |
| `task` | status, attempts and `ScanID` of each event's record; `publishing` is `running` with a saved batch |
| `step`, `want`, `joined`, `failed` | per execution, an event with the number of its attempt: the place in `Handle`, the keys the watch still owes, the joins so far, whether an error is returned |
| `endpoints` | the joined ports in the stream |

`Store`, `Watch`, `Receive`, `EndOfSnapshot` and `Interrupt` are the steps of
`Handle`, `Save` to `StopPublishing` what the engine does around it. Executions
of the same event and of different ones overlap although `MaxPending` is 1: a
replica that stalled past its lease goes on. A watch is external: it delivers, in
any order and mixed with other entries, at least one for every key that existed
when it began, with what the key holds by then. Lists in a meta that name the
same tools in another order have different keys in the code and one in the model.

| Property | Says |
|---|---|
| `TypeOK` | ranges, and at most one fact per key |
| `NoPairIsLost` | a completed name and a completed port of one place have their endpoint in the stream |
| `GatesAreIntersected` | a worker may take an endpoint exactly when it may take both facts |

## Registration: `Registry`

| Model | Code |
|---|---|
| `registry` | the registrations in `ADAMA_REGISTRY` with their revisions; a contract stands for a `Fingerprint` |
| `inventory` | the inventory under its key: ready or not, and its names |
| `durable` | the consumer of each name: the subjects it filters by, its limits |
| `pc`, `job`, `found` | per actor: its place in `Run` and `Register`, what it registers, the entry its `Get` returned |
| `left`, `built` | per provisioning run: the services still to register, the contracts of its images |
| `overlapped` | history: two provisioning runs have been at work at once |

`Create`, `Get` and `Update` are the store calls of `Register`; `Begin`, `Declare`
and `Abort` those of `register-workers.py`; `Start` to `Compare` the start of a
replica, which registers its own contract, and then binds a durable it must find
as it would have made it. `Migrate` is the operator who deletes a durable.

| Property | Says |
|---|---|
| `RunningContractIsRegistered` | replicas past their registration share the registered contract |
| `DurableFeedsTheContract` | what a listening replica is delivered is what its contract promises, under its own limits |
| `ReplacesWhatItRead` | a contract is only replaced by who was told to and has read that very contract |
| `ReadyNamesAreRegistered` | a ready inventory names registered workers |
| `ReadyDescribesADeployment` | without overlap it is the work of one complete run |
| `UnfinishedIsVisible` | without overlap a run under way leaves the inventory unfinished |

## Input rules: `Rules`

`Match`, `Validate` and the JSON of a rule (`Encoded`, which drops what is empty)
as recursive operators; `Register` takes a rule from the worker to the registry
or refuses it. `Says` is the reference: every part that is stated holds.
`SamePredicate` says that coverage filters as the worker does, `NoPartIsIgnored`
that `Match`, which stops at the first part there is, ignores nothing of a rule
that `Validate` accepts, `RegisteredIsValid` that it is still valid when read back.

## Coverage: `Planner`, `Plans` and `Coverage`

`Planner` has `planner.add` and `expectations` as operators (`Add`, `StillBlocked`)
on a plan of sets with at most one member per key, next to definitions that know
no order (`Expected`, `Missing`). `Plans` is the planner at work: a deployment is chosen,
and one retained event after the other taken (`Observe`). `PlanIsOfTheSet` compares the
plan with the definitions at every moment.

The planner keeps one blocker of a worker, value and address, the last. If a certificate
mentions a name at an address that another event binds it to, they ask for different
things, liveness and resolution: the prerequisite is `Contested`. The later blocker
replaces the other, and a missing resolution is dropped again because the name is bound.
So the order decides whether the address is reported, and `EveryBoundAddressIsReported`
fails (`planner_certificate`). What is true of every order is that the blockers lie
between what is `Certain`, which is missing and not contested, and what is `Missing`.
The observations of `coverage` include that certificate.

| Property | Says |
|---|---|
| `PlansWhatWorkersTake` | coverage expects exactly the tasks the workers would take |
| `BlockersIgnoreOrder` | nothing is reported as blocked that is not missing, and all that is certainly missing is |

`Coverage` is `Snapshot`, one action per read of a store (`ReadRegistrations` to
`ReadRegistryEnd`), against `Change`: publishing and deleting events, registering,
recording an inventory, and the records of tasks. The sequence numbers the code
compares are variables of their own (`registrySeq`, `workSeq`), so that a change
that is undone still counts.

| Property | Says |
|---|---|
| `CompleteWasTrue` | `work_complete_at_snapshot` is said only if at one instant between the first and the last read every task was done and nothing certain was missing (`AllCertainDone`) |
| `QuietReportIsExact` | a snapshot that nothing disturbs says complete if all is done and nothing is missing (`AllDone`), and only if `AllCertainDone` |

Since terminal records are final, the second reading of the ledger is not what
`CompleteWasTrue` rests on; the second readings of stream and registry are. In the setting
with a certificate a report may say complete although a contested address never answered.

## Events: `Events`

`Canonical` with what it calls, step by step as in the code (`CanonValue`, `Promote`,
`CanonTarget`, `Bind`), each of which may refuse, applied by the publisher and by two
readers. A hostname is a base and a number of trailing dots, since `CanonFQDN` removes
one. Addresses that are written as names (with a trailing dot, or where only a name
goes) are left out, and so is the URL field: it is the URL of the value as long as that
was written with at most three trailing dots. `normalize` compares the two, and as one
`Canonical` takes one dot off the value and three off the field, a reader would refuse the
URL with four that the publisher accepted. Of an older event `Promote` takes address, port,
transport and TLS from its meta; the name of a service is left out, and so is a port that
is no number, which is refused at once.

| Property | Says |
|---|---|
| `AcceptedStaysAccepted` | no reader refuses what a publisher accepted |
| `KeySettles` | it is one task however often it is made canonical (names with at most one trailing dot: each pass removes one of several) |
| `TargetFollowsValue` | the target does not contradict the value |
| `AddressIsNotGuessed` | an address of a current event is its own or its value's, never that of an alias or an ancestor |

## The circuit breaker: `ToolPause`

Several tasks and replicas of one tool. `Loop` and `Check` are the two reads of
`ADAMA_TOOLS`, before and after a message is pulled; `Execute`, `Pause` and
`Record` follow a shared fault; `Break`, `Repair` and `Resume` are the
installation and the operator. `past` and `since` are history: who had passed the
check when the pause was stored, and what each began afterwards.
`PauseStopsReplicas` says that the window between check and execution costs one
execution of each replica that stood in it, and nothing more; `EveryTaskEnds`
(`PausedTasksEnd` in its run) that a pause loses no input.

## The browser: `BrowserCapture` and `Redirects`

`BrowserCapture` is one session. The browser is external: it opens, redirects,
answers, commits, drops and rewrites navigations whenever it wants, and emits
events. `Listen` is the listener, which writes `n` under its lock and wakes
`settle` through the channel `token`; `Changed`, `TimerFires` and `Quiet` are
`settle`; `Run` takes the image between two looks at the document (`LookOnce`,
`LookBack`). Assumed of the browser: events and replies arrive in the order in
which they are emitted; only documents without authority (`about:blank`,
error pages) replace another without an event; and a new navigation of the frame
cancels one that still waits for its response, while one that has it may commit
first. Without the last a chain that was overtaken could report a redirect after the
request of the navigation that overtook it; `listen` takes the last request for
the current one, and from a limit of two on the image could then be of another
document than the last hop.

| Property | Says |
|---|---|
| `ImageShowsLastHop` | an image that is kept shows the document of the last recorded response |
| `NoImagePastTheLimit` | a session past its redirects yields none |
| `QuietPageIsTaken` | once the document has loaded the quiet period ends |

`Redirects` is the worker around it: a task is a session (`Begin`, `Respond`,
`End`) of a URL event, the documents that answered become events and so tasks
(`Found`), with the depth they have used up. `far` is the true distance, kept for
the property.

When a session ends with an image the address bar may show any URL: a fragment, what
`history.pushState` put there, or none (`Blank`). `browserEvents` keeps the image if
scheme and authority (`Origin`) are those of the last response (`Kept`), states the address
bar at that response's address as the image's endpoint (`ShotTarget`), and gives the event
of the last response that URL too (`Renamed`). So such a URL need not have been answered
by itself, which the properties allow for: `shots` keeps which response an image is of.
A fragment is not sent to a server, so responses are of a URL's `Document`. Assumed are
URLs in their canonical form and images that are valid PNGs. The diagnostic event that stands
for a failed screenshot is left out: it is no evidence of an endpoint and no task.

| Property | Says |
|---|---|
| `ChainHasOneBudget` | no URL is discovered by more redirects than the profile allows, over all tasks |
| `EndpointsAnswered` | an image is attributed to the address that served its document and a URL of that origin; an event to a URL its address answered for, or to the endpoint of such an image |
| `CompletedReachedItsEndpoint` | a completed task has an image and reached the backend it asked for |
| `ResponsesSurviveFailure` | what answered within the budget has an event of its address, at its own URL or, as the document of an image, at what the address bar showed |

## Task-local DNS: `DnsPin`

`Start` (`Listen`, `Ready`, `GiveUp`, `Undo`), the goroutine that waits for the
context (`Watch`) and `Close` with its `sync.Once`, against two servers of
`dns.Server` that are launched, activated, notified, broken and shut down. A
shutdown that comes before the activation finds nothing to stop.
`ServesItsTask` is `ReadyWhenReturned`, the tool starts after both servers have been seen
to serve, and `NothingStaysOpen`, no socket is open once the worker is done with the
resolver, however it ended. `EverythingIsReleased`: in the end no goroutine runs either.

## nuclei: `Nuclei`

`scan` before the scanner (`Reject`, `Launch`) and after it (`Finish`: findings,
request log, use of the resolver, `toolrun.Failure`). The scanner is external: a
template connects to the target, to a port of its own or, after a redirect, to
another name; the scanner may ignore the resolver or the log, fail, or be killed
while it writes. `requests` is the truth, `log` and `hits` what it says. A hit may lack
the place it matched at, or state it so that it cannot be read (`Places`). `findingTarget`
then takes the URL of the task over HTTP, its name, port and literal address, and otherwise
the host and port the scanner reports, which may be the input's (`Place`). An HTTP hit
with a place that is no URL, which gets no target, is left out.

| Property | Says |
|---|---|
| `CompletedWasScanned` | a completed task made requests that all succeeded, at the bound address, and for a service at its port over its transport |
| `FindingsNameWhatAnswered` | a finding is of a request that succeeded and names what answered it; one without the place of its match may name that of the task, never the address a name is bound to |
| `FindingsSurviveFailure` | what was reported is kept, except what came of the resolver's own answers |
| `OnlySharedFaultsPause` | the tool is not paused for a fault of an input or of the network |

The endpoint of an SSL request is the scanner's word: `cmd/nuclei/TESTING.md`
says that its log may name the input instead.

## Sinks: `Sinks`

`file` is the JSONL file with the lines that a machine crash leaves (`synced`) and
whether they can be read; `html` the page; `received` the API. A handler goes
through `AppendLine`, `Sync`, `Read` and `Rename`, or `Post`; `Start` is
`initFile`, outside any delivery. Executions are claimed and recorded as in
`Work`, and `Abandon` is a handler that outlives its timeout.

| Property | Says |
|---|---|
| `CompletedIsDelivered` | a completed event can be read back, whatever crashes later |
| `HtmlShowsCompleted` | the page shows it while a process takes messages |
| `CompletedCanBeRead` | both |
| `StartsAgain` | a process that crashed comes up again (implied by `EveryEventEnds` where writes are whole; broken by torn ones) |
| `EveryEventEnds` | every event is delivered or has failed in the end |

The passing instances have one report process and writes that are not cut short;
`sinks_torn` shows what a torn write does.

## The live view: `Watch`

The notes that `process` and `publishResult` send and the rows `store.apply` makes
of them. `task` is the record as in `Work`, in few states; `wire` the notes of each
replica on their way.

| Property | Says |
|---|---|
| `WorkingIsShown` | whoever executes a task, and whose notes have arrived, has a row, through crashes and take-overs |
| `ShownIsWorking` | until something crashes, every row is of a task somebody holds or whose end is on its way |
| `EveryRowEnds` | without crashes no row is left in the end |

The first two are `RowsAreTrue`. It holds for tasks of different subjects: a name with
two addresses breaks it, as a crash between outcome and note breaks the others.

## All workers: `Cascade`

What each worker takes (`Kinds`, `Filter`), its work key (`Key`) and what it
publishes (`Outputs`) as operators, and one action, `Handle`: a worker takes an
event whose key is free, and its task completes or fails for good, with what its tool
has found or without. Eleven workers: resolve, dnsx, ctl, nmap-discover,
nmap-quick, nmap-full, reconcile, tlsx, nmap-svc, web-probe, as-url. A task of tlsx
for UDP is refused (`Refuses`). A port is scanned over the transport nmap has arguments
for (`Scanned`): the shipped nmap-svc answers a UDP port with a TCP scan. Events are of
the current schema, so the requested name is that of the target, never that of an older
event's meta (`RequestedName`). The network is external, and a seed is a domain or a name, an address
or a port of one, or a netblock (`Seed`).

What there is to find is said without reference to workers, order or events. `Closed` names are a
set that has those of the seeds and those its addresses are known under or present in
certificates; `FoundNames` is the least such set; `Expected` has the URLs of the web
ports at the addresses of these names, by themselves and under every name that resolves
to the address.

| Property | Says |
|---|---|
| `NothingIsMissed` | when nothing is left to do every web endpoint the seeds lead to has its URL under every name that resolves to it |
| `NothingIsInvented` | and there are no other URLs |
| `RequestedNamesResolve` | a name is requested of an address only where it resolves to it |

`NothingIsMissed` is about a deployment that can get from a seed to a URL (`Equipped`) and
failures that cost nothing (`Harmless`): tlsx's refusals, and those of nmap-quick where
nmap-full is deployed.

## Runs

| Run | Instance | Question |
|---|---|---|
| `work` | 2 replicas, a message and one that is rejected, 2 attempts, batches up to 2, 1 publication pass, 1 fault | all invariants and action properties of the record, the refinement of `TaskLedger` |
| `work_live` | batches of at most 1, 1 fault and then damage of the outbox, fairness | every message settles, none early, and no scan to repair a publication |
| `reconcile` | a name and a port, 5 reports, 2 attempts, 2 executions at a time | pairs found, gates intersected |
| `coverage` | `Plans`: up to 8 of 11 observations in every order, 3 or 4 workers. `Coverage`: one worker with two contracts and two addresses, before any provisioning; a worker that waits for liveness; a certificate of a bound name; events of two runs of a scope; 5 changes each | planner against its definition; no false certificate, exact reports |
| `operations` | `Registry`: two provisioning runs of two services, in turn and overlapping, and one run around two replicas with two contracts and limits. `ToolPause`: 2 replicas, 3 tasks, 2 attempts, 3 faults. `Watch`: 2 replicas, 2 subjects, 2 attempts, no crash or 2 | contracts, inventory, durables; pause and resume; rows |
| `sessions` | `BrowserCapture`: 2 loaders, 3 requests, 1 same-document navigation, 5 profiles with limits from 0 to 2. `DnsPin`: 2 queries, cancellation at any moment. `Sinks`: report with 3 events and 3 crashes; export and the API with 2 processes, 2 events, 2 crashes and stalled handlers | images; start and release; delivery |
| `tools` | `Redirects`: a chain of four URLs with a loop, limit 2, two pairs of URLs of one origin, one of them a fragment, 2 addresses, with tasks that are bound and that are not. `Nuclei`: 8 inputs, 7 profiles, 5 kinds of scanner, 2 requests, 1 hit | budget and attribution; evidence and findings |
| `meaning` | `Events`: forty thousand spellings, three passes. `Rules`: ten thousand rules. `Cascade`: 9 networks in all orders, and one of them with a task that fails | readers agree with publishers; one meaning of a rule; what is found |
| `work_straddle` | no fault, an instant may pass between claim's clock readings | finding: a message is dropped |
| `reconcile_profile` | 1 attempt | finding: the profile depends on the order of arrival |
| `planner_certificate` | 2 observations | finding: an address is lost from the report |
| `sinks_torn` | 1 process, 1 crash | finding: a torn line stops every startup |

`MCCoverage`, `MCOperations`, `MCSessions`, `MCTools` and `MCMeaning` check several
components in one run. A variable, `setting` or `part`, is chosen at the start and
never changes; in a behaviour that is about one component nothing happens in the others.
Each of them extends the components it checks, with constants that hold what all its
settings need (`Registry`, `ToolPause` and `Watch` in `MCOperations`; `BrowserCapture`,
`DnsPin` and `Sinks` in `MCSessions`; `Redirects` and `Nuclei` in `MCTools`; `Events` and
`Cascade` in `MCMeaning`; `Coverage` and `Plans` in `MCCoverage`). A setting admits some of
the initial states and the steps that stay within what it has. The safety properties are
checked as the component states them, and it is these that the theorems are about.

Three instances are not extended: `Rules`, whose operators are recursive, in `MCMeaning`,
and `Sinks` a second and a third time, for export and for the API, in `MCSessions`. Their
variables are `Off` in a behaviour that is not about them, and their properties are stated
under `part = ...`. So is what must happen in the end, with the fairness of the
component restated there, since it does not happen in the behaviours of others. Rows that
end are asked for in the setting without crashes, which has fairness.

Facets of one promise, which the sections above explain one by one, are checked as
one property, their conjunction:

| Checked | Parts |
|---|---|
| `ListensAsRegistered` | `RunningContractIsRegistered`, `DurableFeedsTheContract` |
| `InventoryIsTrue` | `ReadyNamesAreRegistered`, and without overlap `ReadyDescribesADeployment` and `UnfinishedIsVisible` |
| `RowsAreTrue` | `WorkingIsShown`, `ShownIsWorking` |
| `ImageIsOfTheChain` | `ImageShowsLastHop`, `NoImagePastTheLimit` |
| `ServesItsTask` | `ReadyWhenReturned`, `NothingStaysOpen` |
| `DeliveredAndReleased` | in the end `Settled` of report, export and the API and `Released` of the resolver, and always `CompletedIsDelivered` of export and the API |
| `CompletedCanBeRead` | `CompletedIsDelivered`, `HtmlShowsCompleted` |
| `OutcomeIsWhatWasSeen` | `CompletedReachedItsEndpoint`, `ResponsesSurviveFailure` |
| `FindingsAreKept` | `FindingsNameWhatAnswered`, `FindingsSurviveFailure` |
| `ReadersAgree` | `AcceptedStaysAccepted`, `KeySettles` |
| `TargetIsStated` | `TargetFollowsValue`, `AddressIsNotGuessed` |
| `RuleHasOneMeaning` | `SamePredicate`, `NoPartIsIgnored`, `RegisteredIsValid` |
| `PlanIsOfTheSet` | `PlansWhatWorkersTake`, `BlockersIgnoreOrder` |
| `OnlyWhatIsThere` | `NothingIsInvented`, `RequestedNamesResolve` |

`TypeOK` says what the variables of a module hold. It is checked for `Work`, and proved
for `Work`, `Reconcile`, `Registry`, `ToolPause` (`PauseTypeOK`), `Redirects` and `Sinks`
(`SinkTypeOK`); elsewhere it is there to be read.

**Bounds.** Two replicas are an owner and its replacement; a third only repeats
the role of either, since all it can do to them goes through the record's
revision. Two attempts give a first execution, a retry and an exhausted budget.
Batches of two events give a publication that stops before, between and after
events. One publication pass gives a first pass and an exhausted budget; the
later owner's pass after an interruption is the exhausted one. One fault reaches
every place once, and `DamageAt = {1}` lets the batch a fault left behind be lost
or garbled before the next claim reads it; without a fault no batch is read again.
What more faults could add, in replacements of replacements, is covered for the
record by the proofs, which bound neither replicas, messages nor faults. For the
reconciler two executions at a time are a reader and a writer, or a stalled
execution and its replacement; five reports differ in place, subject, allow list,
deny list and profile; facts that share a key are
covered by the proof of `NoPairIsLost`, which bounds nothing. Symmetry over the
replicas is used in the safety runs of `Work` only.

Two contracts are an old and a new one, two provisioning runs a first and one
that overtakes it. A snapshot reads each store twice, and five changes put one
before, between and after the readings of a store, with two for another one. Two navigations are
the recorded one and one that replaces it at any step; three requests are the
document, a redirect within the limit and one past it. A chain of four URLs is
longer than the limit of two, and its loop makes it endless. Three events and
crashes let a page lag behind by one event and lose it again. Two requests of a
scan are a good and a bad one; a second hit would be another finding by itself (the proofs
bound neither). Each network of `Cascade` is the smallest with its
difficulty: a port only the full scan finds, a certificate that names a host here
or elsewhere, a reverse name, two backends, a domain, a netblock, a seeded UDP port that is
scanned over TCP, UDP. A failure is tried in the network where nmap-full makes up for
nmap-quick.

Deadlock is not checked where the system rests when its work is done: the replicas
of `Work`, a snapshot with its report, a session, a scan and a resolver at their
end, and runs whose inputs are bounded.

**Fairness.** In `work_live` a replica that holds a message goes on
(`pc[r] \notin Waiting /\ Step(r)`): every store call has `operationContext`'s
five seconds, the handler has `TaskTimeout` and `ShutdownGrace`, and what fails
is a step too. It may crash instead. One replica (`Survivor`) goes on polling:
the compose file restarts containers, and the bounded faults include its own
crashes. Clocks advance, the consumer redelivers what is not answered
(`MaxDeliver` -1) and the operator resumes a paused tool; without that last
assumption pending inputs wait, as `WORKFLOW.md` says. No fairness is assumed of
heartbeats, faults or the deadline. `ToolPause` assumes the same of replicas and
operator. `BrowserCapture` assumes that the listener, the timer and the goroutine
of `settle` run, and nothing of the browser. `Sinks` assumes restarts, deliveries
and handlers that go on. `DnsPin` assumes goroutines that run, a tool that is
killed with its task (`toolrun`) and upstreams that time out. `Watch` assumes
replicas that go on, notes that arrive once they are sent, and a publication
budget that ends.

**Findings.** Each is a run that TLC must find violated; `PROJECT.json` quotes the
line of the repository it disagrees with.

| Run | Shows |
|---|---|
| `work_straddle` | `claim` decides with one reading of the clock and computes the delay with a later one; when the lease or the backoff runs out in between the delay is not positive and `process` acknowledges the message as that of a finished task |
| `reconcile_profile` | `intersectGates` drops a profile that two facts disagree on and `InheritGate` puts back that of the fact handled last |
| `planner_certificate` | one blocker per name and address: a certificate observed later replaces a missing liveness by a missing resolution, which is then dropped |
| `sinks_torn` | a torn line stops every later startup of report |

`work_live` sets `ClockStraddle` to FALSE, since every message that settles early is
that of `work_straddle`; `work` and the proofs about the record leave it free.

**Limits met while modelling.** The code has these too; no run is kept for them. The
passing instances stay on this side of them, except for the UDP port, which a network of
`Cascade` has.

* `WORKFLOW.md` draws `failed` as reachable from `publishing` only; `process` also
  fails an interrupted task out of `running` or `retry_wait`.
* Of two overlapping provisioning runs the first to end declares the inventory ready
  (`UnfinishedIsVisible` is stated for runs in turn).
* A second report process that starts replaces the page by one built from an older
  read (`HtmlShowsCompleted` is stated for one process), and after a torn line
  export appends the next event to it (`Tears` is FALSE in `sessions`).
* `src/README.md:107` says of nmap-svc "matching TCP/UDP scan"; its shipped profile has no
  arguments for UDP, so the task of a UDP port scans TCP. `Cascade` follows the code
  (`Scanned`): a UDP port leads to the URL of what is open over TCP under its number, if
  anything is.
* Rows of `watch` are keyed without the address: the end of a name's task at one
  address removes the row of the other (`RowsAreTrue` is checked for tasks of
  different subjects). A crash between a task's end and its note leaves a row until
  watch restarts (`ShownIsWorking` and `EveryRowEnds` are stated without crashes).

## Proofs

### `WorkProofs`

For every number of replicas and messages, all budgets and any number of faults
(under `WorkAssumption`: positive budgets, natural bounds, `Survivor` a replica):

| Theorem | Property |
|---|---|
| `TypeCorrect` | `TypeOK` |
| `SingleWriter` | `OneWriter` |
| `ExecutionBudget` | `ExecutionsAreCounted` |
| `TerminalStays` | `TerminalIsFinal` |
| `MessagesAreKept` | `SettledIsTerminal`, assuming `~ClockStraddle` |

None of the properties is inductive. The invariant `Inv` adds what the code
relies on without saying it:

* `Places`: what a replica knows where it stands. It holds a non-terminal record
  past its claim, a ScanID equal to the attempt number while it executes, a
  decoded batch while it publishes, an index below the batch's length in a pass,
  a budget not yet spent before it counts.
* `FreshIsCurrent`: a revision that is still current belongs to a copy equal to
  the record. This is what compare-and-swap provides, and it turns what a writer
  knows of its copy into a fact about the record: a writer's copy is not
  terminal, hence no write meets a terminal record.
* `Counted`: an execution about to start is counted, has not run, and no other
  replica stands at the start of the same one.

Steps are split three ways. *Moves* leave the record alone: `LocalTyped` and
`MovesFit` treat them one by one, `MovesAreLocal` says what they share. *Writes*
all are `Update`s of a record that `Sound` describes (`WritesAreSound`), so the
invariant is shown once for all of them (`WritesPreserveInv`). Heartbeats write
the record as it is, and the environment touches neither record nor replicas.
`MessagesAreKept` adds that a replica about to acknowledge holds a rejected
message or a task that is done (`Acknowledging`).

The second half of the module is about what reaches the EVENTS stream, under the
same assumption:

| Theorem | Property |
|---|---|
| `IndexFollowsStream` | `IndexIsPublished` |
| `EvidenceCount` | `EvidenceIsCounted` |
| `RerunsFollowPublication` | `RerunOnlyAfterPublishing` |
| `LedgerIsKept` | `KeepsTheLedger` |
| `SavedBeforePublished` | `PublishedWasSaved`, assuming `DamageAt = {}` |
| `CompletedMeansPublished` | `CompletedIsPublished`, assuming `DamageAt = {}` |

The last two assume an object store that keeps what it is given: what was lost or
garbled cannot be compared with the stream. The first four hold with damage as well.

The invariant `Evidence` relates outbox, stream, record and replicas. Its core is
that an execution has one batch: nobody but its replica has it until it is saved,
and from then on whoever handles it handles the same number of events. That follows from
`Counted`, for a ScanID is drawn once. A replica that lost its
lease may publish again what the record has passed, never what lies ahead of the
record, and so `NextOutput` is the only event that may be in the stream without
being counted (`Flight`). Steps are sorted by what they do to these relations, not by
name: a move leaves its execution, stays with it, resumes a saved batch, saves
one or publishes an event (`MoveKinds`); a write claims or rephases, begins an attempt,
counts an event, or lets go of a finished execution (`WriteKinds`). Each kind has its lemma,
and the two lists are shown to be complete once. `LedgerIsKept` reads the same lists
as steps of `TaskLedger`. `Kept` adds, for an outbox without damage, that what is
handled is what it holds.

### `ReconcileProofs`

For every set of events, all reports whose gates admit the reconciler, any budget
and any number of overlapping executions (`ReconcileAssumption`):

| Theorem | Property |
|---|---|
| `PairsAreFound` | `NoPairIsLost` |
| `GatesNeitherBroadenNorNarrow` | `GatesAreIntersected` |
| `TypeCorrect` | `TypeOK` |

The heart of the first is `OneOfTwoSees`: of any two executions that have read, or
are reading, for opposite facts, one has joined them or is still owed the key of
the other. It is kept because who reads has stored (`OwnSideStored`) and no key
ever disappears (`KeysAreKept`): the later of the two watches owes the key of the
earlier. Who has read to the end is owed nothing (`NothingOwed`), and a completed
task names such an execution, with its joins published (`CompletedIsPublished`);
an execution that returned an error, or that belongs to a replica which lost its
lease, proves nothing and is never needed. The second rests on two lemmas about
gates: two gates that admit the reconciler always have a join (`SeenIsJoinable`,
so the refusal in `intersectGates` never strikes a fact in the bucket), and the
join, filled up by `InheritGate` from either fact, admits what both admit
(`MeetAllowsWhatBothDo`). TLC has checked the invariant on the instances above.

### `OperationProofs`

| Theorem | Property |
|---|---|
| `RegisteredWorkersListen` | `ListensAsRegistered` |
| `InventoryTells` | `InventoryIsTrue` |
| `ReplacementsAreRead` | `ReplacesWhatItRead` |
| `PausesStop` | `PauseStopsReplicas` |
| `RowsTellTheTruth` | `RowsAreTrue`, assuming `RowsDiffer` |
| `TypeCorrect`, `PausesTyped` | `TypeOK` of `Registry`, `PauseTypeOK` |

`Registry`, for any names, contracts and limits, any replicas and provisioning runs
(`RegistryAssumption`: there are services, actors and values do not clash).

`Reads` is compare-and-swap: a revision names one entry, so what an actor has read is
what is there or has an older revision, and its update is refused. `ReplacesAlone` is
what the script provides, which stops the workers before it replaces their
contracts; without it a listening replica would be left with an old one. `Progress`
says that a run at work has each name registered or still to come, so the inventory
it declares in the end names registered workers, however many runs overlap. That the
inventory is the work of one complete run is claimed only until two runs have been at
work at once, which the history variable `overlapped` remembers: `InTurn` is the
invariant until then. `RegisterOutcome` says once what `Register` comes to for replicas
and runs.

`ToolPause`, for any number of replicas, tasks, attempts and faults: while the tool is
paused, who is about to execute had passed its check when the pause was stored and has
not executed since (`Stopping`). That needs that a task is taken exactly as long as one
replica holds it (`Placed`).

`Watch`, for any number of replicas, tasks, attempts and crashes, and notes that travel as
long as the model lets them. `RowsDiffer` is that two tasks have two rows, which the code
does not ensure (see the limits above). A task that is executed has a row or its start is
on its way, and no end of it is on its way from anybody (`Announced`): whoever took it up
did so when nothing of it was under way, or it was new and nobody had told of an end
(`Exclusive`). For the other direction a start under way is followed by its end or is that of the
task at hand (`Followed`), so the row it makes is somebody's.

### `CoverageProofs`

For any contracts, observations and number of changes:

| Theorem | Property |
|---|---|
| `CertificatesAreTrue` | `CompleteWasTrue` |
| `ReportsAreExact` | `QuietReportIsExact` |
| `PlansAreOfTheSet` | `PlanIsOfTheSet` |
| `PlansIgnoreOrder` | the same of a whole history, as `Snapshot` plans it |

`CoverageAssumption` and `PlanAssumption` have finite deployments with one contract per
name, and domains that are not alive. Of a certificate that mentions a name at its own address
nothing is assumed: what the planner makes of it is part of the statements, which leave the
order to decide about `Contested` prerequisites and no others.

`PlanOf` says what a plan has kept of a set of observations; each `Add` keeps it
(`AddPlans`), which makes it an invariant of `Plans`. A plan like that expects `Expected`
(`ReadyIsExpected`); what blocks it is `Missing` (`BlockedIsMissing`); and all that is
`Certain` blocks it (`CertainIsBlocked`): of the blockers of one task and prerequisite it
kept the last only, but unless they are contested all of them lack the same (`OneLack`).
Unrolling the recursive function of `Planned` (`PlansExist`,
`Unrolled`) carries it to the whole history. Since no theorem of the library that takes an
operator can be used, the induction goes through the least number of a
set (`LeastOf`), which the well-foundedness of `<` provides. For the snapshot,
`Vouched` says that an unchanged sequence number vouches for what was read under it,
`Seen` that without a warning the snapshot has seen the whole history but for what was
removed since, `Counted` what its counters count, and `Certified` that a
favourable verdict which the readings still to come do not overturn was true when the
stream was read again. `Undisturbed` is the other direction, for a snapshot nothing disturbs.

### `ToolProofs`

| Theorem | Property |
|---|---|
| `OneBudget` | `ChainHasOneBudget` |
| `AnsweredEndpoints` | `EndpointsAnswered` |
| `NothingSeenIsLost` | `OutcomeIsWhatWasSeen` |
| `CompletedScans` | `CompletedWasScanned` |
| `KeptFindings` | `FindingsAreKept` |
| `SharedFaultsPause` | `OnlySharedFaultsPause` |
| `ResolverServesItsTask` | `ServesItsTask` |
| `TypeCorrect` | `TypeOK` of `Redirects` |

`Redirects`, for any URLs, addresses, links and events of others
(`RedirectAssumption`: events of others state their true depth, and URLs of one origin name the
same address or none): the depth of an event is
the number of redirects its chain has taken (`Counted`), and a session has the rest of it
(`Working`). `FoundAll` is about `browserEvents`: every endpoint that answered within the
budget is published at the first redirect that reached it. With the address bar in its
place (`Renamed`) the event of the last response is that of the image, which has the
response's origin and so, if it names an address at all, the response's own.

`Nuclei`, for any inputs, profiles, scanners and servers, and whatever templates request
(`NucleiAssumption`: a name that is asked for is not an address, since `bindAuthority` and
`bindingName` take what parses as an address for one). The invariant relates what the worker
reads to what the scanner did: a request for a name that is bound went to its address, unless
the scanner ignores the resolver (`Pinned`); the log has nothing but requests, and has all of
them if the scan ended well (`Traced`); a finding is of a request that was answered
(`Answered`); what a hit without a place is given is the task's, which names no address but a
literal one. What `scan` concludes follows from these at its last step, `Finish`.

`DnsPin`, for any number of queries: nothing is closed before `Start` has ended
(`Launching`), and a `Close` that comes after finds both servers started, so it closes one
socket after the other (`Shutting`). A `Close` that comes before may find nothing to stop;
then `Start` closes the sockets itself.

### `SinksProofs`

| Theorem | Property |
|---|---|
| `DeliveryLasts` | `CompletedIsDelivered`, assuming `~Tears` |
| `PagesAreCurrent` | `CompletedCanBeRead`, assuming `~Tears`, and of a page `SerialBuilds` |
| `TypeCorrect` | `SinkTypeOK`, assuming `~Tears` |

For any events, processes and crashes: what is completed, and what a handler
has only to show, was synced (`Saved`); a line written whole stays whole
(`AppendedIsWhole`). `~Tears` excludes what `sinks_torn` shows. The page is proved current
for the deployment the code has (`SerialBuilds`: one process, `MaxPending` 1, and no
handler that outlives its timeout), where one handler at a time reads and renames; with
more it is not so.

### `BrowserCaptureProofs`

`ImagesAreOfTheChain` proves `ImageIsOfTheChain` for any pages, profiles and limits,
and a browser that does anything at any moment within what is assumed of it above
(`CaptureAssumption`: limits are natural numbers, as `Config.Validate` ensures when a
profile is loaded, and `Blank` is none of the network documents). What a reply says
was so when the browser executed the command, and `listen` may be far behind it; so
the invariant speaks of the feed that is still to be heard:

* `Chained(l)`: loader `l` is that of the newest request, heard or to be heard. Only
  it waits for a response, and its response, if it has one, is the last hop or is to
  become it with no request after. Once `l` is the document no navigation is in
  flight, and only a blank document can follow.
* `Apart`: what is in flight has not loaded, and nothing that has loaded is answered
  again.
* `Still`: what the image and the last look say of the document as long as `listen`
  has noted nothing since the document was marked. What it notes is a new version,
  which `Stable` then finds.

The steps of the browser keep the first two (`OpenKeeps` to `ShowKeeps`), and with them
the third (`BrowserKeepsHeld`). `DeliveredKeeps` says once what it means that the head of
the feed is delivered, to `listen` or to `Run`.

### `MeaningProofs`

| Theorem | Property |
|---|---|
| `ReadersTakeWhatWasAccepted` | `ReadersAgree` |
| `TargetIsTheValue` | `TargetIsStated` |
| `NothingIsMadeUp` | `OnlyWhatIsThere` |
| `NothingIsLeftOut` | `NothingIsMissed` |

`Events`, for any addresses, hostnames, ports and numbers of trailing dots (of a URL at most
three, as above); that the model has two readers is not used (`EventAssumption`: addresses,
names and absent fields are told apart, which is what `net/netip` and an empty field do; an
fqdn has a name for a value, because the module leaves out addresses that are written as names,
which `validName` would accept). An accepted event is `Settled`: its target is canonical and
agrees with its value. `FirstPass` shows that one `Canonical` settles any event, `SettledStays`
that another accepts it and changes nothing but dots of the value. The dots are why the key
settles only for names with at most one: a pass takes one off a value but up to five off the
name in it, so the value of an accepted event may still have a few dots (`Slack` says how many,
for each kind), and its next pass is another task.

`Cascade`, for any network, deployment, seeds and failures (`CascadeAssumption`: fields of
events and of the network are told apart from absent ones, and seeds are what `seed`
publishes). *Nothing is made up* by induction over the steps: every event of the stream says
what is so (`IsSo`: a name that is among `FoundNames`, a port at a found address, a service
that nmap or the probe would call that, a URL that is `Expected`), and a worker that is given
such an event publishes such events (`OutputsAreSo`). *Nothing is left out* is not an
induction over steps, since what is expected may be many tasks away. The invariant has only what
a task leaves behind: everything its event leads to is in the stream (`Answered`), and of two
facts that were reconciled the second found the first (`Joined`). When the workers are idle
and failures were harmless, each event that a worker takes has been answered
(`WorkIsDone`, `Reconciled`). So the names whose addresses are in the stream (`ToldNames`)
are a closed set, which the least closed set is part of, and each URL that is expected has been reached
from a found name by a chain of answered tasks.

### Only model-checked

* Liveness (`EveryMessageSettles`, `PausedTasksEnd`, `RowsEnd`, `QuietPageIsTaken`,
  `DeliveredAndReleased`): temporal reasoning from fairness, and ENABLED, are out of the
  prover's reach.
* `Rules` (`RuleHasOneMeaning`): its operators are RECURSIVE, and what they compute is an
  induction over data.

All other properties of the passing runs have a theorem.

## Not modelled

* Reading profiles and environment variables, and their defaults: budgets and
  limits are constants with the ranges `defaults` enforces.
* `seed`, `ctl` and the listings of `work`: they publish or read once.
* In `Redirects`: URLs in other spellings, images that are no valid PNG, and the diagnostic
  event of a failed screenshot. In `Nuclei`: an HTTP hit whose place is no URL.
* What is sent over HTTP, TLS or to a DNS upstream, the layout of pages and
  reports, headers and probe details, and the syntax of the tools' outputs.
* In `Events`: findings, netblocks, schema-2 `Input` targets, SNI and the Host
  header, ICMP, the URL field and URLs with more than three trailing dots, case and
  blanks, and addresses written as names (with a trailing dot, or where only a name
  goes), and of older events the name of a service and a port that is no number. In
  `Cascade`: gates and several scopes (seeds with different gates in one
  scope share work keys, for which `event/SCHEMA.md` asks for a new scope), SNI, the
  requested name of events of an older schema, and everything after a URL. Seeds of ports are of addresses: of a bare name nmap picks
  one address, which the definition of what there is to find does not know.
* JetStream itself: KV updates are atomic compare-and-swaps, the stream keeps
  what it acknowledged, and a message ID is never stored twice. The server's
  deduplication window (its default, two minutes, as `Connect` sets none) is not
  modelled: a repetition after it is a second copy of an event with the same ID,
  which the set in `stream` does not distinguish.
* Several work keys: they share nothing but the consumer's `MaxAckPending` and
  the circuit breaker.
* `InProgress` and negative-acknowledgement delays: a message may be redelivered
  at any time, which includes every timing they could produce.
* A handler that ignores cancellation beyond the grace: `invoke` abandons it, and
  what it does afterwards is not followed.
* Which events are bound names and open ports (`Name` and `Port` are given), and
  the outputs of the reconciler itself, which its input rule excludes.
* Logs and the wording of errors.
