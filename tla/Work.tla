-------------------------------- MODULE Work --------------------------------
(***************************************************************************)
(* The durable execution of one unit of work (src/sdk/work.go): several    *)
(* replicas of a worker receive the messages that carry the same work key  *)
(* and share one task record in the ADAMA_WORK bucket, one saved batch per *)
(* execution in the ADAMA_OUTBOX store, the EVENTS stream and the tool's   *)
(* circuit breaker in ADAMA_TOOLS.                                         *)
(*                                                                         *)
(* Time is abstracted to what the code tests of it: whether the record's   *)
(* LeaseUntil and NextAttempt lie in the future (lease, backoff) and       *)
(* whether its Deadline has passed (late).  A KV revision is abstracted to *)
(* whether the one a replica remembers is still the record's own (fresh).  *)
(* A ScanID is the number of the attempt that drew it: each applied        *)
(* attempt update draws a fresh one, so both name the same executions.     *)
(***************************************************************************)
EXTENDS Naturals, FiniteSets

CONSTANTS
  Replica,            \* replicas of the worker
  Msg,                \* messages of the worker's durable consumer
  Rejected,           \* those of Msg that do not decode or are not eligible
  MaxAttempts,        \* Config.MaxAttempts
  MaxPublishAttempts, \* Config.MaxPublishAttempts
  MaxOut,             \* bound on the events of one saved batch
  MaxFaults,          \* bound on crashes, shutdowns, stalls and failed calls
  DamageAt,           \* numbers of faults after which a saved batch may be damaged
  ClockStraddle,      \* whether an instant may pass between claim's clock readings
  Survivor            \* a replica that never stops for good (fairness only)

ASSUME WorkAssumption ==
  /\ Rejected \subseteq Msg
  /\ MaxAttempts \in Nat \ {0}
  /\ MaxPublishAttempts \in Nat \ {0}
  /\ MaxOut \in Nat
  /\ MaxFaults \in Nat
  /\ DamageAt \subseteq Nat
  /\ ClockStraddle \in BOOLEAN
  /\ Survivor \in Replica

VARIABLES
  \* durable, shared by the replicas
  task,      \* the Task record of the work key
  lease,     \* task.LeaseUntil is in the future
  backoff,   \* task.NextAttempt is in the future
  late,      \* task.Deadline has passed
  outbox,    \* saved batch per ScanID
  stream,    \* output events the EVENTS stream holds, as <<ScanID, position>>
  delivery,  \* per message: waiting, handed to a replica, or settled
  paused,    \* ADAMA_TOOLS holds a fault for this tool
  \* local to a replica, lost when it crashes
  pc,        \* where it stands in Run / onMsg / process / publishResult
  hand,      \* the message in hand, as a set of at most one
  held,      \* workLease.task
  fresh,     \* workLease.revision is the record's current revision
  batch,     \* the savedResult in hand
  cancelled, \* workCtx is cancelled; its heartbeat has stopped
  \* history and bounds
  runs,      \* handler executions per ScanID
  faults     \* faults taken so far

durable == <<task, lease, backoff, late, outbox, stream, delivery, paused>>
local   == <<pc, hand, held, fresh, batch, cancelled>>
vars    == <<durable, local, runs, faults>>

-----------------------------------------------------------------------------
(* The task record and the saved results                                   *)

Scans == 1..MaxAttempts

\* TaskRunning .. TaskFailed, and "absent" for a key that has no record yet.
Status   == {"absent", "running", "publishing", "retry_wait", "completed", "failed"}
Terminal == {"completed", "failed"}

\* owned is Owner # "", scan the ResultKey (0 when empty), next is NextOutput.
Task == [status: Status, owned: BOOLEAN, attempts: 0..MaxAttempts,
         pubAttempts: 0..MaxPublishAttempts, scan: 0..MaxAttempts,
         next: 0..MaxOut, emitted: Nat]

NoTask  == [status |-> "absent", owned |-> FALSE, attempts |-> 0,
            pubAttempts |-> 0, scan |-> 0, next |-> 0, emitted |-> 0]
NewTask == [NoTask EXCEPT !.status = "running", !.owned = TRUE]

\* savedResult: n events, and what Error and Retry say of the execution.
Result   == [n: 0..MaxOut, err: {"none", "terminal", "retry"}]
NoResult == [n |-> 0, err |-> "absent"]
Garbled  == [n |-> 0, err |-> "corrupt"]
Saved    == Result \cup {NoResult, Garbled}

Events == Scans \X (1..MaxOut)

\* Places from which process() writes the task record with its lease.
Writing == {"claiming", "begin", "publishing", "counting", "publish",
            "advance", "defer", "settle", "fail"}
\* Places from which a replica calls another store: a failed call ends process().
Calling == {"received", "reading", "loading", "pausing", "saving"}
\* Places where the lease is held and the heartbeat goroutine may be running.
Leased  == (Writing \ {"claiming"}) \cup {"loading", "invoke", "running", "pausing", "saving"}
Waiting == {"idle", "listening"}
PC      == Writing \cup Calling \cup Leased \cup Waiting \cup {"ack", "nak"}

Init ==
  /\ task = NoTask
  /\ lease = FALSE /\ backoff = FALSE /\ late = FALSE
  /\ outbox = [s \in Scans |-> NoResult]
  /\ stream = {}
  /\ delivery = [m \in Msg |-> "ready"]
  /\ paused = FALSE
  /\ pc = [r \in Replica |-> "idle"]
  /\ hand = [r \in Replica |-> {}]
  /\ held = [r \in Replica |-> NoTask]
  /\ fresh = [r \in Replica |-> FALSE]
  /\ batch = [r \in Replica |-> NoResult]
  /\ cancelled = [r \in Replica |-> FALSE]
  /\ runs = [s \in Scans |-> 0]
  /\ faults = 0

-----------------------------------------------------------------------------
(* Faults and writes                                                       *)

\* A fault is taken; the runs bound how many one behaviour has.
Fault == faults < MaxFaults /\ faults' = faults + 1

\* process() returns an error: onMsg logs it and NAKs, the task keeps its lease.
Abort(r) ==
  /\ pc' = [pc EXCEPT ![r] = "nak"]
  /\ held' = [held EXCEPT ![r] = NoTask]
  /\ batch' = [batch EXCEPT ![r] = NoResult]

\* Variant of OnlyFresh: a write does not outdate the revisions others remember.
OnlyFreshLocally(r) == fresh' = [fresh EXCEPT ![r] = TRUE]

\* The revision r read or wrote last becomes the only current one.
OnlyFresh(r) == fresh' = [q \in Replica |-> q = r]

\* Variant of Update: a plain Put, that does not look at the revision.
UpdateUnchecked(r, t, l, b, then) ==
  /\ task' = t /\ lease' = l /\ backoff' = b
  /\ OnlyFresh(r)
  /\ held' = [held EXCEPT ![r] = t]
  /\ pc' = [pc EXCEPT ![r] = then]
  /\ UNCHANGED <<late, outbox, stream, delivery, paused, hand, batch, cancelled, runs, faults>>

\* workLease.update and the KV write of claim: compare-and-swap of record t
\* against the remembered revision.  It is acknowledged and r goes on at
\* "then", or it is applied while its reply is lost and process() fails.
Update(r, t, l, b, then) ==
  /\ fresh[r]
  /\ task' = t /\ lease' = l /\ backoff' = b
  /\ \/ /\ OnlyFresh(r)
        /\ held' = [held EXCEPT ![r] = t]
        /\ pc' = [pc EXCEPT ![r] = then]
        /\ UNCHANGED <<batch, faults>>
     \/ /\ Fault
        /\ fresh' = [q \in Replica |-> FALSE]
        /\ Abort(r)
  /\ UNCHANGED <<late, outbox, stream, delivery, paused, hand, cancelled, runs>>

\* A write that is not applied: the revision is stale (a newer write won), or
\* the store did not answer.  claim's conflict NAKs just the same.
WriteFails(r) ==
  /\ pc[r] \in Writing
  /\ \/ ~fresh[r] /\ UNCHANGED faults
     \/ Fault
  /\ Abort(r)
  /\ fresh' = [fresh EXCEPT ![r] = FALSE]
  /\ UNCHANGED <<durable, hand, cancelled, runs>>

\* Any other store that does not answer: Tools.Get, KV.Get, GetBytes,
\* pauseTool, PutBytes.
CallFails(r) ==
  /\ pc[r] \in Calling
  /\ Fault
  /\ Abort(r)
  /\ fresh' = [fresh EXCEPT ![r] = FALSE]
  /\ UNCHANGED <<durable, hand, cancelled, runs>>

\* A step that touches nothing but where r stands.
Goto(r, place) == pc' = [pc EXCEPT ![r] = place]

\* loadResult of the claimed ResultKey.
Loaded(r) == IF held[r].scan = 0 THEN NoResult ELSE outbox[held[r].scan]

Spent(r) == held[r].attempts >= MaxAttempts \/ late

-----------------------------------------------------------------------------
(* Faulty variants: each is an action below with the slip its comment names *)
(* and takes its place to show that a property would notice.               *)

\* ReadTask: work that is leased or waiting is acknowledged as somebody else's.
ReadTaskAcksLeased(r) ==
  /\ pc[r] = "reading"
  /\ \/ /\ task.status \in Terminal \/ lease \/ backoff
        /\ Goto(r, "ack")
        /\ UNCHANGED <<held, fresh>>
     \/ /\ task.status \notin Terminal /\ ~lease /\ ~backoff
        /\ Goto(r, "claiming")
        /\ held' = [held EXCEPT ![r] = task]
        /\ fresh' = [fresh EXCEPT ![r] = TRUE]
  /\ UNCHANGED <<durable, hand, batch, cancelled, runs, faults>>

\* ReadTask: finished work is deferred too.
ReadTaskNeverSkips(r) ==
  /\ pc[r] = "reading"
  /\ \/ /\ task.status \in Terminal \/ lease \/ backoff
        /\ Goto(r, "nak")
        /\ UNCHANGED <<held, fresh>>
     \/ /\ task.status \notin Terminal /\ ~lease /\ ~backoff
        /\ Goto(r, "claiming")
        /\ held' = [held EXCEPT ![r] = task]
        /\ fresh' = [fresh EXCEPT ![r] = TRUE]
  /\ UNCHANGED <<durable, hand, batch, cancelled, runs, faults>>

\* NeedsExecution: the execution budget is not consulted.
NeedsExecutionUnbudgeted(r) ==
  /\ pc[r] = "loading"
  /\ Loaded(r) = NoResult /\ held[r].status # "publishing"
  /\ Goto(r, IF cancelled[r] THEN "nak" ELSE "begin")
  /\ UNCHANGED <<durable, hand, held, fresh, batch, cancelled, runs, faults>>

\* NeedsExecution: a batch that is missing while it is published is made again.
NeedsExecutionAnyStatus(r) ==
  /\ pc[r] = "loading"
  /\ Loaded(r) = NoResult /\ ~Spent(r)
  /\ Goto(r, IF cancelled[r] THEN "nak" ELSE "begin")
  /\ UNCHANGED <<durable, hand, held, fresh, batch, cancelled, runs, faults>>

\* BeginAttempt: the evidence count is reset with the output index.
BeginAttemptRecounting(r) ==
  /\ pc[r] = "begin"
  /\ Update(r, [held[r] EXCEPT !.status = "running", !.attempts = @ + 1,
                               !.scan = held[r].attempts + 1,
                               !.pubAttempts = 0, !.next = 0, !.emitted = 0],
            lease, FALSE, "invoke")

\* SaveBatch: publication starts with the batch in memory only.
SaveBatchSkipped(r) ==
  /\ pc[r] = "saving"
  /\ Goto(r, "publishing")
  /\ UNCHANGED <<durable, hand, held, fresh, batch, cancelled, runs, faults>>

\* MarkPublishing: the last event of a batch is left out.
MarkPublishingShort(r) ==
  /\ pc[r] = "publishing"
  /\ Update(r, [held[r] EXCEPT !.status = "publishing"], lease, backoff,
            IF held[r].next + 1 >= batch[r].n THEN "settle"
            ELSE IF held[r].pubAttempts >= MaxPublishAttempts THEN "fail" ELSE "counting")

\* Publish: a failed publication counts as done.
PublishIgnoringErrors(r) ==
  /\ pc[r] = "publish" /\ ~cancelled[r]
  /\ \/ /\ stream' = stream \cup {<<held[r].scan, held[r].next + 1>>}
        /\ UNCHANGED faults
     \/ /\ UNCHANGED stream
        /\ Fault
  /\ Goto(r, "advance")
  /\ UNCHANGED <<task, lease, backoff, late, outbox, delivery, paused,
                 hand, held, fresh, batch, cancelled, runs>>

-----------------------------------------------------------------------------
(* Run and onMsg                                                           *)

\* Run reads the circuit breaker before it asks for a message.
Poll(r) ==
  /\ pc[r] = "idle" /\ ~paused
  /\ Goto(r, "listening")
  /\ UNCHANGED <<durable, hand, held, fresh, batch, cancelled, runs, faults>>

\* Next hands out a waiting message.  onMsg terminates an invalid event and
\* acknowledges an ineligible one at once: neither has a task.
Receive(r) ==
  /\ pc[r] = "listening"
  /\ \E m \in Msg :
       /\ delivery[m] = "ready"
       /\ delivery' = [delivery EXCEPT ![m] = "out"]
       /\ hand' = [hand EXCEPT ![r] = {m}]
       /\ Goto(r, IF m \in Rejected THEN "ack" ELSE "received")
  /\ UNCHANGED <<task, lease, backoff, late, outbox, stream, paused,
                 held, fresh, batch, cancelled, runs, faults>>

\* onMsg reads the circuit breaker again; a paused tool or a shutdown defers.
CheckTool(r) ==
  /\ pc[r] = "received"
  /\ Goto(r, IF paused \/ cancelled[r] THEN "nak" ELSE "reading")
  /\ UNCHANGED <<durable, hand, held, fresh, batch, cancelled, runs, faults>>

\* The consumer is told and the replica forgets the message.  Whichever delivery
\* an acknowledgement answers, it settles the message; NAK only returns one
\* that is out.  Neither waits for the server: both may be lost.
Settle(r, place, told) ==
  /\ pc[r] = place
  /\ \/ delivery' = told /\ UNCHANGED faults
     \/ Fault /\ UNCHANGED delivery
  /\ Goto(r, "idle")
  /\ hand' = [hand EXCEPT ![r] = {}]
  /\ held' = [held EXCEPT ![r] = NoTask]
  /\ fresh' = [fresh EXCEPT ![r] = FALSE]
  /\ batch' = [batch EXCEPT ![r] = NoResult]
  /\ cancelled' = [cancelled EXCEPT ![r] = FALSE]
  /\ UNCHANGED <<task, lease, backoff, late, outbox, stream, paused, runs>>

Ack(r) == Settle(r, "ack", [m \in Msg |-> IF m \in hand[r] THEN "done" ELSE delivery[m]])

Nak(r) == Settle(r, "nak", [m \in Msg |-> IF m \in hand[r] /\ delivery[m] = "out"
                                          THEN "ready" ELSE delivery[m]])

-----------------------------------------------------------------------------
(* claim and heartbeat                                                     *)

\* The heartbeat goroutine of the work r holds is running.
Beating(r) == pc[r] \in Leased \cup {"ack", "nak"} /\ held[r] # NoTask /\ ~cancelled[r]

\* Some replica renews the lease: it can only expire if that one stalls.
Renewed == \E r \in Replica : Beating(r) /\ fresh[r] /\ held[r].owned

\* claim's KV.Get: a terminal task is skipped with an Ack, a live lease or a
\* pending backoff is deferred, anything else may be claimed at this revision.
ReadTask(r) ==
  /\ pc[r] = "reading"
  /\ \/ /\ task.status \in Terminal
        /\ Goto(r, "ack")
        /\ UNCHANGED <<held, fresh>>
     \/ /\ task.status \notin Terminal /\ (lease \/ backoff)
        /\ Goto(r, "nak")
        /\ UNCHANGED <<held, fresh>>
     \/ /\ task.status \notin Terminal /\ ~lease /\ ~backoff
        /\ Goto(r, "claiming")
        /\ held' = [held EXCEPT ![r] = task]
        /\ fresh' = [fresh EXCEPT ![r] = TRUE]
  /\ UNCHANGED <<durable, hand, batch, cancelled, runs, faults>>

\* claim reads the clock twice: "now" still finds LeaseUntil or NextAttempt ahead,
\* time.Until, after it, does not.  process() takes a delay that is not positive
\* for a finished task and acknowledges the message.
StraddledDefer(r) ==
  /\ pc[r] = "reading" /\ ClockStraddle
  /\ task.status \notin Terminal /\ (lease \/ backoff)
  /\ IF lease /\ Renewed THEN Fault ELSE UNCHANGED faults
  /\ lease' = FALSE /\ backoff' = FALSE
  /\ Goto(r, "ack")
  /\ UNCHANGED <<task, late, outbox, stream, delivery, paused,
                 hand, held, fresh, batch, cancelled, runs>>

\* claim's Create or Update: a lease for a new owner, the rest as it was.
Claim(r) ==
  /\ pc[r] = "claiming"
  /\ Update(r, IF held[r].status = "absent" THEN NewTask ELSE [held[r] EXCEPT !.owned = TRUE],
            TRUE, backoff, "loading")

\* A tick writes the record again, with a renewed lease while it has an owner.
\* When the reply or the InProgress that follows is lost, the work is cancelled.
Heartbeat(r) ==
  /\ Beating(r) /\ fresh[r]
  /\ task' = held[r]
  /\ lease' = (lease \/ held[r].owned)
  /\ \/ OnlyFresh(r) /\ UNCHANGED <<cancelled, faults>>
     \/ /\ Fault
        /\ OnlyFresh(r) \/ fresh' = [q \in Replica |-> FALSE]
        /\ cancelled' = [cancelled EXCEPT ![r] = TRUE]
  /\ UNCHANGED <<backoff, late, outbox, stream, delivery, paused, pc, hand, held, batch, runs>>

\* A tick whose write is refused or unanswered cancels the work.
HeartbeatFails(r) ==
  /\ Beating(r)
  /\ \/ ~fresh[r] /\ UNCHANGED faults
     \/ Fault
  /\ cancelled' = [cancelled EXCEPT ![r] = TRUE]
  /\ UNCHANGED <<durable, pc, hand, held, fresh, batch, runs>>

-----------------------------------------------------------------------------
(* process: find a saved batch, or execute once more                       *)

\* A batch saved by an earlier owner is published, never executed again.
ResumeBatch(r) ==
  /\ pc[r] = "loading" /\ Loaded(r) \in Result
  /\ batch' = [batch EXCEPT ![r] = Loaded(r)]
  /\ Goto(r, "publishing")
  /\ UNCHANGED <<durable, hand, held, fresh, cancelled, runs, faults>>

\* A garbled batch, a batch that went missing while it was being published, or
\* no batch and no budget: the task is to fail.
GiveUp(r) ==
  /\ pc[r] = "loading"
  /\ \/ Loaded(r) = Garbled
     \/ Loaded(r) = NoResult /\ (held[r].status = "publishing" \/ Spent(r))
  /\ Goto(r, "fail")
  /\ UNCHANGED <<durable, hand, held, fresh, batch, cancelled, runs, faults>>

\* No batch, and budget left: execute, unless the context is gone by now.
NeedsExecution(r) ==
  /\ pc[r] = "loading"
  /\ Loaded(r) = NoResult /\ held[r].status # "publishing" /\ ~Spent(r)
  /\ Goto(r, IF cancelled[r] THEN "nak" ELSE "begin")
  /\ UNCHANGED <<durable, hand, held, fresh, batch, cancelled, runs, faults>>

\* The attempt is counted, under a new ScanID, before the handler runs.
BeginAttempt(r) ==
  /\ pc[r] = "begin"
  /\ Update(r, [held[r] EXCEPT !.status = "running", !.attempts = @ + 1,
                               !.scan = held[r].attempts + 1,
                               !.pubAttempts = 0, !.next = 0],
            lease, FALSE, "invoke")

Invoke(r) ==
  /\ pc[r] = "invoke"
  /\ runs' = [runs EXCEPT ![held[r].scan] = @ + 1]
  /\ Goto(r, "running")
  /\ UNCHANGED <<durable, hand, held, fresh, batch, cancelled, faults>>

\* invoke returns: success, an error with the events found so far, a panic, the
\* context's error after a timeout or a cancellation, or no answer within the
\* grace; invalid children are dropped and make the error terminal.  A
\* ToolUnavailable error trips the circuit breaker first.
Return(r) ==
  /\ pc[r] = "running"
  /\ \E result \in Result, unavailable \in BOOLEAN :
       /\ unavailable => result.err # "none"
       /\ batch' = [batch EXCEPT ![r] = result]
       /\ Goto(r, IF unavailable THEN "pausing" ELSE "saving")
  /\ UNCHANGED <<durable, hand, held, fresh, cancelled, runs, faults>>

\* A Put that is applied without an answer fails process() like any other.
PauseTool(r) ==
  /\ pc[r] = "pausing"
  /\ paused' = TRUE
  /\ \/ Goto(r, "saving") /\ UNCHANGED <<held, fresh, batch, faults>>
     \/ Fault /\ Abort(r) /\ fresh' = [fresh EXCEPT ![r] = FALSE]
  /\ UNCHANGED <<task, lease, backoff, late, outbox, stream, delivery, hand, cancelled, runs>>

\* The batch is stored under the ScanID of this attempt before any event of it
\* is published.
SaveBatch(r) ==
  /\ pc[r] = "saving"
  /\ outbox' = [outbox EXCEPT ![held[r].scan] = batch[r]]
  /\ \/ Goto(r, "publishing") /\ UNCHANGED <<held, fresh, batch, faults>>
     \/ Fault /\ Abort(r) /\ fresh' = [fresh EXCEPT ![r] = FALSE]
  /\ UNCHANGED <<task, lease, backoff, late, stream, delivery, paused, hand, cancelled, runs>>

-----------------------------------------------------------------------------
(* publishResult                                                           *)

\* The update to TaskPublishing, then publishResult's prelude: nothing left to
\* publish, the publication budget spent, or one more pass to count.
MarkPublishing(r) ==
  /\ pc[r] = "publishing"
  /\ Update(r, [held[r] EXCEPT !.status = "publishing"], lease, backoff,
            IF held[r].next >= batch[r].n THEN "settle"
            ELSE IF held[r].pubAttempts >= MaxPublishAttempts THEN "fail" ELSE "counting")

CountPass(r) ==
  /\ pc[r] = "counting"
  /\ Update(r, [held[r] EXCEPT !.pubAttempts = @ + 1], lease, backoff, "publish")

\* The next event goes to the stream under its own message ID: publishing it
\* again adds nothing.  A failed publication may have reached the stream.
Publish(r) ==
  /\ pc[r] = "publish" /\ ~cancelled[r]
  /\ \/ /\ stream' = stream \cup {<<held[r].scan, held[r].next + 1>>}
        /\ Goto(r, "advance")
        /\ UNCHANGED faults
     \/ /\ stream' \in {stream, stream \cup {<<held[r].scan, held[r].next + 1>>}}
        /\ Goto(r, "defer")
        /\ Fault
  /\ UNCHANGED <<task, lease, backoff, late, outbox, delivery, paused,
                 hand, held, fresh, batch, cancelled, runs>>

\* The index moves after the event is in the stream.
Advance(r) ==
  /\ pc[r] = "advance"
  /\ Update(r, [held[r] EXCEPT !.next = @ + 1, !.emitted = @ + 1], lease, backoff,
            IF held[r].next + 1 < batch[r].n THEN "publish" ELSE "settle")

\* A failed publication gives the lease back and waits.
Defer(r) ==
  /\ pc[r] = "defer"
  /\ Update(r, [held[r] EXCEPT !.owned = FALSE], FALSE, TRUE, "nak")

\* A cancelled pass gives the lease back where it stands.
Release(r) ==
  /\ pc[r] = "publish" /\ cancelled[r]
  /\ Update(r, [held[r] EXCEPT !.owned = FALSE], FALSE, backoff, "nak")

RetryDue(r) == batch[r].err = "retry" /\ held[r].attempts < MaxAttempts /\ ~late

\* A retryable error with budget left: everything saved is published, so the
\* next attempt starts without a batch.
ScheduleRetry(r) ==
  /\ pc[r] = "settle" /\ RetryDue(r)
  /\ Update(r, [held[r] EXCEPT !.status = "retry_wait", !.scan = 0, !.owned = FALSE],
            FALSE, TRUE, "nak")

\* workLease.finish.
Finish(r, status) ==
  Update(r, [held[r] EXCEPT !.status = status, !.owned = FALSE], FALSE, FALSE, "ack")

Conclude(r) ==
  /\ pc[r] = "settle" /\ ~RetryDue(r)
  /\ Finish(r, IF batch[r].err = "none" THEN "completed" ELSE "failed")

Fail(r) == pc[r] = "fail" /\ Finish(r, "failed")

-----------------------------------------------------------------------------
(* The environment: clocks, the consumer's timer, the operator and faults  *)

LeaseExpires ==
  /\ lease
  /\ IF Renewed THEN Fault ELSE UNCHANGED faults
  /\ lease' = FALSE
  /\ UNCHANGED <<task, backoff, late, outbox, stream, delivery, paused, local, runs>>

BackoffEnds ==
  /\ backoff /\ backoff' = FALSE
  /\ UNCHANGED <<task, lease, late, outbox, stream, delivery, paused, local, runs, faults>>

DeadlinePasses ==
  /\ task # NoTask /\ ~late /\ late' = TRUE
  /\ UNCHANGED <<task, lease, backoff, outbox, stream, delivery, paused, local, runs, faults>>

\* AckWait ends without an answer (a late InProgress included).
Redeliver(m) ==
  /\ delivery[m] = "out"
  /\ delivery' = [delivery EXCEPT ![m] = "ready"]
  /\ UNCHANGED <<task, lease, backoff, late, outbox, stream, paused, local, runs, faults>>

\* work resume TOOL, once the tool is repaired.
Resume ==
  /\ paused /\ paused' = FALSE
  /\ UNCHANGED <<task, lease, backoff, late, outbox, stream, delivery, local, runs, faults>>

\* The process dies and its container is restarted.
Crash(r) ==
  /\ pc[r] \notin Waiting /\ Fault
  /\ Goto(r, "idle")
  /\ hand' = [hand EXCEPT ![r] = {}]
  /\ held' = [held EXCEPT ![r] = NoTask]
  /\ fresh' = [fresh EXCEPT ![r] = FALSE]
  /\ batch' = [batch EXCEPT ![r] = NoResult]
  /\ cancelled' = [cancelled EXCEPT ![r] = FALSE]
  /\ UNCHANGED <<durable, runs>>

\* SIGTERM: the context is cancelled; the replica ends what it holds, exits and
\* is started again.
Shutdown(r) ==
  /\ pc[r] \notin Waiting /\ ~cancelled[r] /\ Fault
  /\ cancelled' = [cancelled EXCEPT ![r] = TRUE]
  /\ UNCHANGED <<durable, pc, hand, held, fresh, batch, runs>>

\* The object store loses a batch or returns one that does not decode. Only a batch
\* that a later claim may still read matters, so only such a one is damaged.
DamageBatch(s) ==
  /\ faults \in DamageAt
  /\ ~lease /\ task.status \notin Terminal /\ s = task.scan
  /\ outbox[s] \in Result
  /\ \E damaged \in {NoResult, Garbled} : outbox' = [outbox EXCEPT ![s] = damaged]
  /\ UNCHANGED <<task, lease, backoff, late, stream, delivery, paused, local, runs, faults>>

-----------------------------------------------------------------------------
\* What a replica does by itself while it runs.
Step(r) ==
  \/ Poll(r) \/ Receive(r) \/ CheckTool(r) \/ Ack(r) \/ Nak(r)
  \/ ReadTask(r) \/ StraddledDefer(r) \/ Claim(r)
  \/ ResumeBatch(r) \/ GiveUp(r) \/ NeedsExecution(r)
  \/ BeginAttempt(r) \/ Invoke(r) \/ Return(r) \/ PauseTool(r) \/ SaveBatch(r)
  \/ MarkPublishing(r) \/ CountPass(r) \/ Publish(r) \/ Advance(r) \/ Defer(r) \/ Release(r)
  \/ ScheduleRetry(r) \/ Conclude(r) \/ Fail(r)
  \/ WriteFails(r)

Next ==
  \/ \E r \in Replica : Step(r) \/ Heartbeat(r) \/ HeartbeatFails(r)
                        \/ CallFails(r) \/ Crash(r) \/ Shutdown(r)
  \/ LeaseExpires \/ BackoffEnds \/ DeadlinePasses \/ Resume
  \/ \E m \in Msg : Redeliver(m)
  \/ \E s \in Scans : DamageBatch(s)

Spec == Init /\ [][Next]_vars

\* A replica carries what it holds to an end (every store call and the handler
\* have a timeout) unless it crashes, and one goes on asking for messages;
\* clocks advance, the consumer redelivers, the operator repairs the tool.
Fairness ==
  /\ \A r \in Replica : WF_vars(pc[r] \notin Waiting /\ Step(r))
  /\ WF_vars(Step(Survivor))
  /\ WF_vars(LeaseExpires) /\ WF_vars(BackoffEnds) /\ WF_vars(Resume)
  /\ \A m \in Msg : WF_vars(Redeliver(m))

FairSpec == Spec /\ Fairness

-----------------------------------------------------------------------------
(* Properties                                                              *)

TypeOK ==
  /\ task \in Task
  /\ lease \in BOOLEAN /\ backoff \in BOOLEAN /\ late \in BOOLEAN /\ paused \in BOOLEAN
  /\ outbox \in [Scans -> Saved]
  /\ stream \subseteq Events
  /\ delivery \in [Msg -> {"ready", "out", "done"}]
  /\ pc \in [Replica -> PC]
  /\ hand \in [Replica -> SUBSET Msg]
  /\ held \in [Replica -> Task]
  /\ fresh \in [Replica -> BOOLEAN]
  /\ batch \in [Replica -> Saved]
  /\ cancelled \in [Replica -> BOOLEAN]
  /\ runs \in [Scans -> Nat]
  /\ faults \in 0..MaxFaults

\* The execution budget: no attempt runs its handler twice and none runs that
\* the durable record has not counted, whoever crashed, stalled or was replaced.
ExecutionsAreCounted ==
  \A s \in Scans : runs[s] <= (IF s <= task.attempts THEN 1 ELSE 0)

\* Compare-and-swap leaves one writer: of the replicas past their claim, at most
\* one can still change the record, and it works on the record as it is.
OneWriter ==
  \A r \in Replica : pc[r] \in Leased /\ fresh[r] =>
    /\ held[r] = task
    /\ \A q \in Replica : pc[q] \in Leased /\ fresh[q] => q = r

\* No input is dropped: the consumer only forgets a valid message when the task
\* has its final state (process acknowledges after finish, never before).
SettledIsTerminal ==
  \A m \in Msg \ Rejected :
    delivery[m] = "done" => task.status \in Terminal

\* Save before publish: whatever the stream holds of an execution is in the
\* batch the outbox keeps for it, so that a replacement can go on.
PublishedWasSaved ==
  \A e \in stream : outbox[e[1]] \in Result /\ e[2] <= outbox[e[1]].n

\* The output index never runs ahead of the stream, whichever owner moved it.
IndexIsPublished ==
  task.scan # 0 => \A k \in 1..task.next : <<task.scan, k>> \in stream

\* The evidence count: over all attempts and owners, the record misses at most
\* the event in flight and counts no event twice, and nothing when it completes.
EvidenceIsCounted ==
  /\ Cardinality(stream) \in {task.emitted, task.emitted + 1}
  /\ task.status = "completed" => Cardinality(stream) = task.emitted

\* A completed task has published the whole batch of an execution without error.
CompletedIsPublished ==
  task.status = "completed" =>
    /\ task.scan # 0 /\ outbox[task.scan].err = "none"
    /\ \A k \in 1..outbox[task.scan].n : <<task.scan, k>> \in stream

\* A terminal task never changes again: not by replays, heartbeats still ticking
\* after finish, or an owner that lost its lease.
TerminalIsFinal == [][task.status \in Terminal => task' = task]_vars

\* Publication is never repaired by scanning again: a new attempt is counted
\* only for a task that is not publishing, and after a scheduled retry only when
\* all that its predecessor saved is in the stream.
RerunOnlyAfterPublishing ==
  [][task'.attempts # task.attempts =>
       /\ task.status # "publishing"
       /\ task.status = "retry_wait" =>
            \A k \in 1..outbox[task.attempts].n : <<task.attempts, k>> \in stream]_vars

Ledger == INSTANCE TaskLedger WITH
            phase <- task.status,
            attempts <- task.attempts,
            published <- Cardinality(stream),
            counted <- task.emitted

\* The replicas together keep the ledger the documentation describes: each of
\* their steps is a step of it or changes nothing it shows.
KeepsTheLedger == Ledger!Spec

\* Every message of the consumer is eventually settled for good.
EveryMessageSettles == \A m \in Msg : <>[](delivery[m] = "done")
=============================================================================
