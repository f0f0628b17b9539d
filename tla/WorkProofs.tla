----------------------------- MODULE WorkProofs -----------------------------
(***************************************************************************)
(* What holds of Work for every number of replicas and messages, every     *)
(* budget and any number of faults.  First the record and its writers;     *)
(* then what reaches the EVENTS stream: it was saved before, the record's  *)
(* output index and evidence count follow it, and the replicas together    *)
(* keep the ledger of TaskLedger.                                          *)
(***************************************************************************)
EXTENDS Work, FiniteSetTheorems, TLAPS

-----------------------------------------------------------------------------
(* The inductive invariant                                                 *)

Attempting == {"invoke", "running", "pausing", "saving"}
Passing    == {"counting", "publish", "advance", "defer"}

\* What a replica knows that stands at place p with the copy h of the record and
\* the batch b in its hands.
Fits(p, h, b) ==
  /\ h.status = "absent" => h = NoTask
  /\ p \in Leased \cup {"claiming"} => h.status \notin Terminal
  /\ p \in Leased => h.status # "absent"
  /\ p = "begin" => h.attempts < MaxAttempts
  /\ p \in Attempting => h.scan = h.attempts
  /\ p \in Attempting \cup Passing \cup {"publishing", "settle"} => h.scan # 0
  /\ p \in Passing \cup {"pausing", "saving", "publishing", "settle"} => b \in Result
  /\ p \in Passing => h.next < b.n
  /\ p = "counting" => h.pubAttempts < MaxPublishAttempts

Places == \A r \in Replica : Fits(pc[r], held[r], batch[r])

\* A key without a record has nothing to show, and a remembered revision that is
\* still current belongs to a copy that is the record.
RecordFits     == task.status = "absent" => task = NoTask
FreshIsCurrent == \A r \in Replica : fresh[r] => held[r] = task

\* An execution about to start is counted, has not run, and is one replica's own.
Starting ==
  \A r \in Replica : pc[r] = "invoke" =>
    /\ held[r].scan <= task.attempts /\ runs[held[r].scan] = 0
    /\ \A q \in Replica : pc[q] = "invoke" /\ held[q].scan = held[r].scan => q = r

Counted == ExecutionsAreCounted /\ Starting

Inv == TypeOK /\ Places /\ RecordFits /\ FreshIsCurrent /\ OneWriter /\ Counted

LEMMA NotSaved == NoResult \notin Result /\ Garbled \notin Result /\ NoResult # Garbled
BY DEF NoResult, Garbled, Result

LEMMA RecordsTyped ==
  NoTask \in Task /\ NewTask \in Task /\ NoResult \in Saved /\ Result \subseteq Saved
<1>1. NoTask \in Task
  BY WorkAssumption DEF WorkAssumption, NoTask, Task, Status
<1>2. NewTask \in Task
  BY <1>1 DEF NewTask, Task, Status
<1> QED BY <1>1, <1>2 DEF Saved

\* The ScanID of an attempt or of a batch in hand is one of the scans.
LEMMA ScanInHand ==
  ASSUME TypeOK, Places, NEW r \in Replica,
         pc[r] \in Attempting \cup Passing \cup {"publishing", "settle"}
  PROVE  held[r].scan \in Scans
<1>1. held[r] \in Task
  BY DEF TypeOK
<1>2. held[r].scan \in 0..MaxAttempts /\ held[r].scan # 0
  BY <1>1 DEF Task, Places, Fits
<1> QED BY <1>2, WorkAssumption DEF Scans

\* An acknowledged or a lost write of a well-typed record keeps every type.
LEMMA UpdateTyped ==
  ASSUME TypeOK, NEW r \in Replica, NEW t \in Task, NEW l \in BOOLEAN, NEW b \in BOOLEAN,
         NEW then \in PC, Update(r, t, l, b, then)
  PROVE  TypeOK'
<1> USE WorkAssumption, RecordsTyped DEF TypeOK
<1>1. CASE OnlyFresh(r) /\ held' = [held EXCEPT ![r] = t] /\ pc' = [pc EXCEPT ![r] = then]
           /\ UNCHANGED <<batch, faults>>
  BY <1>1 DEF Update, OnlyFresh
<1>2. CASE Fault /\ fresh' = [q \in Replica |-> FALSE] /\ Abort(r)
  BY <1>2 DEF Update, Fault, Abort, PC
<1> QED BY <1>1, <1>2 DEF Update

\* The steps of a replica that do not write the record.
Moves(r) ==
  \/ Poll(r) \/ Receive(r) \/ CheckTool(r) \/ Ack(r) \/ Nak(r)
  \/ ReadTask(r) \/ StraddledDefer(r) \/ ResumeBatch(r) \/ GiveUp(r)
  \/ NeedsExecution(r) \/ Invoke(r) \/ Return(r) \/ PauseTool(r) \/ SaveBatch(r) \/ Publish(r)
  \/ WriteFails(r) \/ CallFails(r) \/ HeartbeatFails(r) \/ Crash(r) \/ Shutdown(r)

LEMMA LocalTyped ==
  ASSUME TypeOK, Places, NEW r \in Replica, Moves(r)
  PROVE  TypeOK'
<1> USE WorkAssumption, RecordsTyped DEF TypeOK, Goto, PC, durable
<1>1. CASE Poll(r)
  BY <1>1 DEF Poll, Waiting
<1>2. CASE Receive(r)
  BY <1>2 DEF Receive, Waiting, Calling
<1>3. CASE CheckTool(r)
  BY <1>3 DEF CheckTool, Calling
<1>4. CASE Ack(r)
  BY <1>4 DEF Ack, Settle, Fault, Waiting
<1>5. CASE Nak(r)
  BY <1>5 DEF Nak, Settle, Fault, Waiting
<1>6. CASE ReadTask(r)
  BY <1>6, ZenonT(60) DEF ReadTask, Writing
<1>7. CASE StraddledDefer(r)
  <2>1. faults' \in 0..MaxFaults
    BY <1>7 DEF StraddledDefer, Fault
  <2> QED BY <1>7, <2>1 DEF StraddledDefer
<1>8. CASE ResumeBatch(r)
  BY <1>8 DEF ResumeBatch, Writing
<1>9. CASE GiveUp(r)
  BY <1>9 DEF GiveUp, Writing
<1>10. CASE NeedsExecution(r)
  BY <1>10 DEF NeedsExecution, Writing
<1>11. CASE Invoke(r)
  <2>1. runs' \in [Scans -> Nat]
    BY <1>11, ScanInHand DEF Invoke, Attempting
  <2> QED BY <1>11, <2>1 DEF Invoke, Leased
<1>12. CASE Return(r)
  BY <1>12 DEF Return, Calling
<1>13. CASE PauseTool(r)
  <2>1. pc' \in [Replica -> PC] /\ held' \in [Replica -> Task]
    BY <1>13 DEF PauseTool, Calling, Abort
  <2>2. fresh' \in [Replica -> BOOLEAN]
    BY <1>13 DEF PauseTool
  <2>4. batch' \in [Replica -> Saved]
    BY <1>13 DEF PauseTool, Abort
  <2>3. faults' \in 0..MaxFaults
    BY <1>13 DEF PauseTool, Fault
  <2> QED BY <1>13, <2>1, <2>2, <2>3, <2>4 DEF PauseTool
<1>14. CASE SaveBatch(r)
  <2>1. pc' \in [Replica -> PC] /\ held' \in [Replica -> Task]
    BY <1>14 DEF SaveBatch, Writing, Abort
  <2>2. fresh' \in [Replica -> BOOLEAN]
    BY <1>14 DEF SaveBatch
  <2>5. batch' \in [Replica -> Saved]
    BY <1>14 DEF SaveBatch, Abort
  <2>3. faults' \in 0..MaxFaults
    BY <1>14 DEF SaveBatch, Fault
  <2>4. outbox' \in [Scans -> Saved]
    BY <1>14, ScanInHand DEF SaveBatch, Attempting
  <2> QED BY <1>14, <2>1, <2>2, <2>3, <2>4, <2>5 DEF SaveBatch
<1>15. CASE WriteFails(r)
  BY <1>15 DEF WriteFails, Abort, Fault
<1>16. CASE CallFails(r)
  BY <1>16 DEF CallFails, Abort, Fault
<1>17. CASE HeartbeatFails(r)
  BY <1>17 DEF HeartbeatFails, Fault
<1>18. CASE Crash(r)
  BY <1>18 DEF Crash, Waiting, Fault
<1>19. CASE Shutdown(r)
  BY <1>19 DEF Shutdown, Fault
<1>20. CASE Publish(r)
  <2>1. held[r].scan \in Scans /\ held[r].next + 1 \in 1..MaxOut
    <3>1. batch[r] \in Result /\ held[r].next < batch[r].n /\ held[r] \in Task
      BY <1>20 DEF Publish, Places, Fits, Passing
    <3>2. held[r].next + 1 \in 1..MaxOut
      BY <3>1 DEF Task, Result
    <3> QED BY <1>20, <3>2, ScanInHand DEF Publish, Passing
  <2>2. stream' \subseteq Events
    BY <1>20, <2>1 DEF Publish, Events
  <2>3. faults' \in 0..MaxFaults
    BY <1>20 DEF Publish, Fault
  <2>4. pc' \in [Replica -> PC]
    BY <1>20 DEF Publish, Writing
  <2> QED BY <1>20, <2>2, <2>3, <2>4 DEF Publish
<1> QED BY <1>1, <1>2, <1>3, <1>4, <1>5, <1>6, <1>7, <1>8, <1>9, <1>10, <1>11, <1>12, <1>13, <1>14, <1>15, <1>16, <1>17, <1>18, <1>19, <1>20
     DEF Moves

-----------------------------------------------------------------------------
(* The writes of process and publishResult                                 *)

\* What every write has in common: it comes from work in progress, counts at
\* most one attempt, and ends the work exactly when it makes the task terminal.
Sound(r, t, then) ==
  /\ pc[r] \in Writing /\ held[r].status \notin Terminal
  /\ t.status # "absent"
  /\ then \in Leased \cup {"ack", "nak"}
  /\ then = "ack" => t.status \in Terminal
  /\ \/ t.attempts = held[r].attempts /\ then # "invoke"
     \/ t.attempts = held[r].attempts + 1
  /\ Fits(then, t, batch[r])

Writes(r) ==
  \/ Claim(r) \/ BeginAttempt(r) \/ MarkPublishing(r) \/ CountPass(r) \/ Advance(r)
  \/ Defer(r) \/ Release(r) \/ ScheduleRetry(r) \/ Conclude(r) \/ Fail(r)

SoundWrite(r) ==
  \E t \in Task, l \in BOOLEAN, b \in BOOLEAN, then \in PC :
    Update(r, t, l, b, then) /\ Sound(r, t, then)

LEMMA WritesAreSound ==
  ASSUME TypeOK, Places, NEW r \in Replica, Writes(r)
  PROVE  SoundWrite(r)
<1> DEFINE h == held[r]
<1>0. h \in Task /\ lease \in BOOLEAN /\ backoff \in BOOLEAN
  BY DEF TypeOK
<1>p. Fits(pc[r], h, batch[r])
  BY DEF Places
<1>s. ASSUME NEW t \in Task, NEW l \in BOOLEAN, NEW b \in BOOLEAN, NEW then \in PC,
             Update(r, t, l, b, then), Sound(r, t, then)
      PROVE  SoundWrite(r)
  BY <1>s DEF SoundWrite
<1> USE WorkAssumption DEF Sound, Fits, PC, Writing, Leased, Attempting, Passing, Terminal
<1>1. CASE Claim(r)
  <2> DEFINE t == IF h.status = "absent" THEN NewTask ELSE [h EXCEPT !.owned = TRUE]
  <2>1. t \in Task
    BY <1>0, RecordsTyped DEF Task
  <2>2. t.status # "absent" /\ t.status \notin Terminal /\ t.attempts = h.attempts
    BY <1>0, <1>1, <1>p DEF Task, NewTask, NoTask, Claim
  <2> HIDE DEF t
  <2>3. Sound(r, t, "loading")
    BY <1>1, <1>p, <2>2 DEF Claim
  <2>4. Update(r, t, TRUE, backoff, "loading")
    BY <1>1 DEF Claim, t
  <2> QED BY <1>0, <1>s, <2>1, <2>3, <2>4
<1>2. CASE BeginAttempt(r)
  <2> DEFINE t == [h EXCEPT !.status = "running", !.attempts = @ + 1,
                            !.scan = h.attempts + 1, !.pubAttempts = 0, !.next = 0]
  <2>1. h.attempts \in 0..MaxAttempts /\ h.attempts < MaxAttempts
    BY <1>0, <1>2, <1>p DEF BeginAttempt, Task
  <2> DEFINE u == [h EXCEPT !.status = "running"]
             v == [u EXCEPT !.attempts = @ + 1]
             w == [v EXCEPT !.scan = h.attempts + 1]
             x == [w EXCEPT !.pubAttempts = 0]
  <2>u. u \in Task /\ u.status = "running" /\ u.attempts = h.attempts
    BY <1>0 DEF Task, Status
  <2>v. t = [x EXCEPT !.next = 0]
    OBVIOUS
  <2> HIDE DEF t, u
  <2>w. v \in Task /\ v.status = "running" /\ v.attempts = h.attempts + 1
    BY <2>1, <2>u DEF Task
  <2> HIDE DEF v
  <2>x. w \in Task /\ w.status = "running" /\ w.attempts = h.attempts + 1 /\ w.scan = h.attempts + 1
    BY <2>1, <2>w DEF Task
  <2> HIDE DEF w
  <2>y. x \in Task /\ x.status = "running" /\ x.attempts = h.attempts + 1 /\ x.scan = h.attempts + 1
    BY <2>x DEF Task
  <2> HIDE DEF x
  <2>2. t \in Task /\ t.status = "running" /\ t.attempts = h.attempts + 1 /\ t.scan = h.attempts + 1
    BY <2>v, <2>y DEF Task
  <2>3. t.scan = t.attempts /\ t.scan # 0
    BY <2>1, <2>2
  <2> HIDE DEF t
  <2>4. Sound(r, t, "invoke")
    BY <1>2, <1>p, <2>2, <2>3 DEF BeginAttempt
  <2>5. Update(r, t, lease, FALSE, "invoke")
    BY <1>2 DEF BeginAttempt, t
  <2> QED BY <1>0, <1>s, <2>2, <2>4, <2>5
<1>3. CASE MarkPublishing(r)
  <2> DEFINE t == [h EXCEPT !.status = "publishing"]
             then == IF h.next >= batch[r].n THEN "settle"
                     ELSE IF h.pubAttempts >= MaxPublishAttempts THEN "fail" ELSE "counting"
  <2>1. t \in Task /\ t.status = "publishing" /\ t.attempts = h.attempts /\ t.scan = h.scan
        /\ t.next = h.next /\ t.pubAttempts = h.pubAttempts
    BY <1>0 DEF Task, Status
  <2>2. batch[r] \in Result /\ h.scan # 0
    BY <1>3, <1>p DEF MarkPublishing
  <2>3. ~(h.next >= batch[r].n) => h.next < batch[r].n
    BY <1>0, <2>2 DEF Task, Result
  <2>4. ~(h.pubAttempts >= MaxPublishAttempts) => h.pubAttempts < MaxPublishAttempts
    BY <1>0 DEF Task
  <2>5. then \in PC
    OBVIOUS
  <2> HIDE DEF t
  <2>6. Sound(r, t, then)
    BY <1>3, <1>p, <2>1, <2>2, <2>3, <2>4 DEF MarkPublishing
  <2>7. Update(r, t, lease, backoff, then)
    BY <1>3 DEF MarkPublishing, t
  <2> HIDE DEF then
  <2> QED BY <1>0, <1>s, <2>1, <2>5, <2>6, <2>7
<1>4. CASE CountPass(r)
  <2> DEFINE t == [h EXCEPT !.pubAttempts = @ + 1]
  <2>1. h.pubAttempts \in 0..MaxPublishAttempts /\ h.pubAttempts < MaxPublishAttempts
    BY <1>0, <1>4, <1>p DEF CountPass, Task
  <2>2. t \in Task /\ t.status = h.status /\ t.attempts = h.attempts /\ t.scan = h.scan
        /\ t.next = h.next
    BY <1>0, <2>1 DEF Task
  <2> HIDE DEF t
  <2>3. Sound(r, t, "publish")
    BY <1>4, <1>p, <2>2 DEF CountPass
  <2>4. Update(r, t, lease, backoff, "publish")
    BY <1>4 DEF CountPass, t
  <2> QED BY <1>0, <1>s, <2>2, <2>3, <2>4
<1>5. CASE Advance(r)
  <2> DEFINE t == [h EXCEPT !.next = @ + 1, !.emitted = @ + 1]
             then == IF h.next + 1 < batch[r].n THEN "publish" ELSE "settle"
  <2>1. batch[r] \in Result /\ h.next < batch[r].n
    BY <1>5, <1>p DEF Advance
  <2>2. h.next + 1 \in 0..MaxOut
    BY <1>0, <2>1 DEF Task, Result
  <2> DEFINE u == [h EXCEPT !.next = @ + 1]
  <2>a. u \in Task /\ u.status = h.status /\ u.attempts = h.attempts /\ u.scan = h.scan
        /\ u.next = h.next + 1
    BY <1>0, <2>2 DEF Task
  <2>b. t = [u EXCEPT !.emitted = @ + 1]
    BY <1>0 DEF Task
  <2> HIDE DEF t, u
  <2>3. t \in Task /\ t.status = h.status /\ t.attempts = h.attempts /\ t.scan = h.scan
        /\ t.next = h.next + 1
    BY <2>a, <2>b DEF Task
  <2>4. then \in PC
    OBVIOUS
  <2>5. Sound(r, t, then)
    BY <1>5, <1>p, <2>1, <2>3 DEF Advance
  <2>6. Update(r, t, lease, backoff, then)
    BY <1>5 DEF Advance, t
  <2> HIDE DEF then
  <2> QED BY <1>0, <1>s, <2>3, <2>4, <2>5, <2>6
<1>6. CASE Defer(r) \/ Release(r)
  <2> DEFINE t == [h EXCEPT !.owned = FALSE]
  <2>1. t \in Task /\ t.status = h.status /\ t.attempts = h.attempts
    BY <1>0 DEF Task
  <2> HIDE DEF t
  <2>2. Sound(r, t, "nak")
    BY <1>6, <1>p, <2>1 DEF Defer, Release
  <2>3. \E b \in BOOLEAN : Update(r, t, FALSE, b, "nak")
    BY <1>0, <1>6 DEF Defer, Release, t
  <2> QED BY <1>s, <2>1, <2>2, <2>3
<1>7. CASE ScheduleRetry(r)
  <2> DEFINE t == [h EXCEPT !.status = "retry_wait", !.scan = 0, !.owned = FALSE]
  <2> DEFINE u == [h EXCEPT !.status = "retry_wait"]
             v == [u EXCEPT !.scan = 0]
  <2>a. u \in Task /\ u.status = "retry_wait" /\ u.attempts = h.attempts
    BY <1>0 DEF Task, Status
  <2>b. t = [v EXCEPT !.owned = FALSE]
    OBVIOUS
  <2> HIDE DEF t, u
  <2>c. v \in Task /\ v.status = "retry_wait" /\ v.attempts = h.attempts
    BY <2>a DEF Task
  <2> HIDE DEF v
  <2>1. t \in Task /\ t.status = "retry_wait" /\ t.attempts = h.attempts
    BY <2>b, <2>c DEF Task
  <2>2. Sound(r, t, "nak")
    BY <1>7, <1>p, <2>1 DEF ScheduleRetry
  <2>3. Update(r, t, FALSE, TRUE, "nak")
    BY <1>7 DEF ScheduleRetry, t
  <2> QED BY <1>s, <2>1, <2>2, <2>3
<1>8. CASE Conclude(r) \/ Fail(r)
  <2>1. PICK status \in Terminal : Finish(r, status) /\ pc[r] \in {"settle", "fail"}
    BY <1>8 DEF Conclude, Fail
  <2> DEFINE t == [h EXCEPT !.status = status, !.owned = FALSE]
  <2>2. t \in Task /\ t.status \in Terminal /\ t.attempts = h.attempts
    BY <1>0, <2>1 DEF Task, Status
  <2> HIDE DEF t
  <2>3. Sound(r, t, "ack")
    BY <1>p, <2>1, <2>2
  <2>4. Update(r, t, FALSE, FALSE, "ack")
    BY <2>1 DEF Finish, t
  <2> QED BY <1>s, <2>2, <2>3, <2>4
<1> QED BY <1>1, <1>2, <1>3, <1>4, <1>5, <1>6, <1>7, <1>8 DEF Writes

-----------------------------------------------------------------------------
(* Every step preserves the invariant                                      *)

\* A move keeps what the replica knows where it stands.
LEMMA MovesFit ==
  ASSUME TypeOK, Places, RecordFits, NEW r \in Replica, Moves(r)
  PROVE  Places'
<1>0. Fits(pc[r], held[r], batch[r])
  BY DEF Places
<1> USE DEF Writing, Leased, Attempting, Passing
<1>1. SUFFICES /\ \A q \in Replica \ {r} : /\ pc'[q] = pc[q] /\ held'[q] = held[q]
                                           /\ batch'[q] = batch[q]
               /\ Fits(pc'[r], held'[r], batch'[r])
  BY DEF Places
<1>2. CASE Poll(r)
  BY <1>0, <1>2 DEF Poll, Waiting, Goto, TypeOK, Fits
<1>3. CASE Receive(r)
  BY <1>0, <1>3 DEF Receive, Goto, TypeOK, Fits
<1>4. CASE CheckTool(r)
  BY <1>0, <1>4 DEF CheckTool, Goto, TypeOK, Fits
<1>5. CASE Ack(r)
  BY <1>0, <1>5 DEF Ack, Settle, Goto, TypeOK, Fits
<1>6. CASE Nak(r)
  BY <1>0, <1>6 DEF Nak, Settle, Goto, TypeOK, Fits
<1>7. CASE ReadTask(r)
  BY <1>0, <1>7 DEF ReadTask, RecordFits, Goto, TypeOK, Fits
<1>8. CASE StraddledDefer(r)
  BY <1>0, <1>8 DEF StraddledDefer, Goto, TypeOK, Fits
<1>9. CASE ResumeBatch(r)
  <2>1. held[r].scan # 0 /\ Loaded(r) \in Result
    BY <1>9, NotSaved DEF ResumeBatch, Loaded
  <2>2. pc'[r] = "publishing" /\ held' = held /\ batch'[r] = Loaded(r)
    BY <1>9 DEF ResumeBatch, Goto, TypeOK
  <2>3. Fits(pc'[r], held'[r], batch'[r])
    BY <1>0, <1>9, <2>1, <2>2 DEF ResumeBatch, Fits, Writing, Leased, Attempting, Passing
  <2> QED BY <1>9, <2>3 DEF ResumeBatch, Goto, TypeOK
<1>10. CASE GiveUp(r)
  BY <1>0, <1>10 DEF GiveUp, Goto, TypeOK, Fits
<1>11. CASE NeedsExecution(r)
  <2>1. held[r].attempts < MaxAttempts
    BY <1>11, WorkAssumption DEF NeedsExecution, Spent, TypeOK, Task
  <2> QED
    BY <1>0, <1>11, <2>1
    DEF NeedsExecution, Goto, TypeOK, Fits
<1>12. CASE Invoke(r)
  BY <1>0, <1>12 DEF Invoke, Goto, TypeOK, Fits
<1>13. CASE Return(r)
  BY <1>0, <1>13 DEF Return, Goto, TypeOK, Fits
<1>14. CASE PauseTool(r)
  BY <1>0, <1>14 DEF PauseTool, Abort, Goto, TypeOK, Fits
<1>15. CASE SaveBatch(r)
  BY <1>0, <1>15 DEF SaveBatch, Abort, Goto, TypeOK, Fits
<1>16. CASE WriteFails(r)
  BY <1>0, <1>16 DEF WriteFails, Abort, Goto, TypeOK, Fits
<1>17. CASE CallFails(r)
  BY <1>0, <1>17 DEF CallFails, Abort, Goto, TypeOK, Fits
<1>18. CASE HeartbeatFails(r)
  BY <1>0, <1>18 DEF HeartbeatFails, Goto, TypeOK, Fits
<1>19. CASE Crash(r)
  BY <1>0, <1>19 DEF Crash, Goto, TypeOK, Fits
<1>20. CASE Shutdown(r)
  BY <1>0, <1>20 DEF Shutdown, Goto, TypeOK, Fits
<1>21. CASE Publish(r)
  BY <1>0, <1>21 DEF Publish, Goto, TypeOK, Fits
<1> QED BY <1>2, <1>3, <1>4, <1>5, <1>6, <1>7, <1>8, <1>9, <1>10, <1>11, <1>12, <1>13, <1>14, <1>15, <1>16, <1>17, <1>18, <1>19, <1>20, <1>21 DEF Moves

\* What the moves other than Invoke have in common: they leave the record and
\* the other replicas alone, and only a claim to come makes a revision current.
LEMMA MovesAreLocal ==
  ASSUME TypeOK, FreshIsCurrent, NEW r \in Replica, Moves(r), ~Invoke(r)
  PROVE  /\ task' = task /\ runs' = runs
         /\ \A q \in Replica \ {r} : pc'[q] = pc[q] /\ held'[q] = held[q] /\ fresh'[q] = fresh[q]
         /\ fresh'[r] => held'[r] = task
         /\ pc'[r] \in Leased /\ fresh'[r] => pc[r] \in Leased /\ fresh[r]
         /\ pc'[r] # "invoke" \/ (pc'[r] = pc[r] /\ held'[r] = held[r])
<1> USE DEF TypeOK, Goto, FreshIsCurrent, durable
<1>1. CASE Poll(r)
  BY <1>1 DEF Poll, Leased, Writing
<1>2. CASE Receive(r)
  BY <1>2 DEF Receive, Leased, Writing
<1>3. CASE CheckTool(r)
  BY <1>3 DEF CheckTool, Leased, Writing
<1>4. CASE Ack(r)
  <2>1. /\ task' = task /\ runs' = runs
        /\ \A q \in Replica \ {r} : pc'[q] = pc[q] /\ held'[q] = held[q] /\ fresh'[q] = fresh[q]
    BY <1>4 DEF Ack, Settle
  <2>2. pc'[r] \notin Leased /\ pc'[r] # "invoke" /\ ~fresh'[r]
    BY <1>4 DEF Ack, Settle, Leased, Writing
  <2> QED BY <2>1, <2>2
<1>5. CASE Nak(r)
  <2>1. /\ task' = task /\ runs' = runs
        /\ \A q \in Replica \ {r} : pc'[q] = pc[q] /\ held'[q] = held[q] /\ fresh'[q] = fresh[q]
    BY <1>5 DEF Nak, Settle
  <2>2. pc'[r] \notin Leased /\ pc'[r] # "invoke" /\ ~fresh'[r]
    BY <1>5 DEF Nak, Settle, Leased, Writing
  <2> QED BY <2>1, <2>2
<1>6. CASE ReadTask(r)
  <2>1. /\ task' = task /\ runs' = runs
        /\ \A q \in Replica \ {r} : pc'[q] = pc[q] /\ held'[q] = held[q] /\ fresh'[q] = fresh[q]
    BY <1>6 DEF ReadTask
  <2>2. pc'[r] \notin Leased /\ pc'[r] # "invoke"
    BY <1>6 DEF ReadTask, Leased, Writing
  <2>3. fresh'[r] => held'[r] = task
    BY <1>6 DEF ReadTask
  <2> QED BY <2>1, <2>2, <2>3
<1>7. CASE StraddledDefer(r)
  BY <1>7 DEF StraddledDefer, Leased, Writing
<1>8. CASE ResumeBatch(r)
  BY <1>8 DEF ResumeBatch, Leased, Writing
<1>9. CASE GiveUp(r)
  BY <1>9 DEF GiveUp, Leased, Writing
<1>10. CASE NeedsExecution(r)
  BY <1>10 DEF NeedsExecution, Leased, Writing
<1>11. CASE Return(r)
  BY <1>11 DEF Return, Leased, Writing
<1>12. CASE PauseTool(r)
  <2>1. /\ task' = task /\ runs' = runs
        /\ \A q \in Replica \ {r} : pc'[q] = pc[q] /\ held'[q] = held[q] /\ fresh'[q] = fresh[q]
    BY <1>12 DEF PauseTool, Abort
  <2>2. pc[r] \in Leased /\ pc'[r] # "invoke"
    BY <1>12 DEF PauseTool, Abort, Leased
  <2>3. fresh'[r] => fresh[r] /\ held'[r] = task
    BY <1>12 DEF PauseTool, Abort
  <2> QED BY <2>1, <2>2, <2>3
<1>13. CASE SaveBatch(r)
  <2>1. /\ task' = task /\ runs' = runs
        /\ \A q \in Replica \ {r} : pc'[q] = pc[q] /\ held'[q] = held[q] /\ fresh'[q] = fresh[q]
    BY <1>13 DEF SaveBatch, Abort
  <2>2. pc[r] \in Leased /\ pc'[r] # "invoke"
    BY <1>13 DEF SaveBatch, Abort, Leased
  <2>3. fresh'[r] => fresh[r] /\ held'[r] = task
    BY <1>13 DEF SaveBatch, Abort
  <2> QED BY <2>1, <2>2, <2>3
<1>14. CASE WriteFails(r)
  <2>1. /\ task' = task /\ runs' = runs
        /\ \A q \in Replica \ {r} : pc'[q] = pc[q] /\ held'[q] = held[q] /\ fresh'[q] = fresh[q]
    BY <1>14 DEF WriteFails, Abort
  <2>2. pc'[r] \notin Leased /\ pc'[r] # "invoke" /\ ~fresh'[r]
    BY <1>14 DEF WriteFails, Abort, Leased, Writing
  <2> QED BY <2>1, <2>2
<1>15. CASE CallFails(r)
  <2>1. /\ task' = task /\ runs' = runs
        /\ \A q \in Replica \ {r} : pc'[q] = pc[q] /\ held'[q] = held[q] /\ fresh'[q] = fresh[q]
    BY <1>15 DEF CallFails, Abort
  <2>2. pc'[r] \notin Leased /\ pc'[r] # "invoke" /\ ~fresh'[r]
    BY <1>15 DEF CallFails, Abort, Leased, Writing
  <2> QED BY <2>1, <2>2
<1>16. CASE HeartbeatFails(r)
  BY <1>16 DEF HeartbeatFails
<1>17. CASE Crash(r)
  <2>1. /\ task' = task /\ runs' = runs
        /\ \A q \in Replica \ {r} : pc'[q] = pc[q] /\ held'[q] = held[q] /\ fresh'[q] = fresh[q]
    BY <1>17 DEF Crash
  <2>2. pc'[r] \notin Leased /\ pc'[r] # "invoke" /\ ~fresh'[r]
    BY <1>17 DEF Crash, Leased, Writing
  <2> QED BY <2>1, <2>2
<1>18. CASE Shutdown(r)
  BY <1>18 DEF Shutdown
<1>19. CASE Publish(r)
  <2>1. /\ task' = task /\ runs' = runs
        /\ \A q \in Replica \ {r} : pc'[q] = pc[q] /\ held'[q] = held[q] /\ fresh'[q] = fresh[q]
    BY <1>19 DEF Publish
  <2>2. pc[r] \in Leased /\ pc'[r] # "invoke" /\ held' = held /\ fresh' = fresh
    BY <1>19 DEF Publish, Leased, Writing
  <2> QED BY <2>1, <2>2
<1> QED BY <1>1, <1>2, <1>3, <1>4, <1>5, <1>6, <1>7, <1>8, <1>9, <1>10, <1>11, <1>12, <1>13, <1>14, <1>15, <1>16, <1>17, <1>18, <1>19 DEF Moves

LEMMA MovesPreserveInv ==
  ASSUME Inv, NEW r \in Replica, Moves(r)
  PROVE  Inv'
<1>1. TypeOK' /\ Places'
  BY LocalTyped, MovesFit DEF Inv
<1>2. CASE Invoke(r)
  <2>1. /\ pc[r] = "invoke" /\ pc' = [pc EXCEPT ![r] = "running"]
        /\ runs' = [runs EXCEPT ![held[r].scan] = @ + 1]
        /\ UNCHANGED <<task, held, fresh>>
    BY <1>2 DEF Invoke, Goto, durable
  <2>2. held[r].scan \in Scans /\ held[r].scan <= task.attempts /\ runs[held[r].scan] = 0
    BY <2>1, ScanInHand DEF Inv, Counted, Starting, Attempting
  <2>3. RecordFits' /\ FreshIsCurrent'
    BY <2>1 DEF Inv, RecordFits, FreshIsCurrent
  <2>4. OneWriter'
    BY <2>1 DEF Inv, TypeOK, OneWriter, Leased
  <2>5. ExecutionsAreCounted'
    BY <2>1, <2>2 DEF Inv, TypeOK, Counted, ExecutionsAreCounted
  <2>6. ASSUME NEW q \in Replica, pc'[q] = "invoke"
        PROVE  q # r /\ pc[q] = "invoke" /\ held[q].scan # held[r].scan
    BY <2>1, <2>6 DEF Inv, TypeOK, Counted, Starting
  <2>7. Counted'
    BY <2>1, <2>2, <2>5, <2>6 DEF Inv, TypeOK, Counted, Starting
  <2> QED BY <1>1, <2>3, <2>4, <2>7 DEF Inv
<1>3. CASE ~Invoke(r)
  <2>1. /\ task' = task /\ runs' = runs
        /\ \A q \in Replica \ {r} : pc'[q] = pc[q] /\ held'[q] = held[q] /\ fresh'[q] = fresh[q]
        /\ fresh'[r] => held'[r] = task
        /\ pc'[r] \in Leased /\ fresh'[r] => pc[r] \in Leased /\ fresh[r]
        /\ pc'[r] # "invoke" \/ (pc'[r] = pc[r] /\ held'[r] = held[r])
    BY <1>3, MovesAreLocal DEF Inv
  <2>2. RecordFits' /\ FreshIsCurrent'
    BY <2>1 DEF Inv, RecordFits, FreshIsCurrent
  <2>3. OneWriter'
    BY <2>1, <2>2 DEF Inv, OneWriter, FreshIsCurrent
  <2>4. Counted'
    BY <2>1 DEF Inv, Counted, Starting, ExecutionsAreCounted
  <2> QED BY <1>1, <2>2, <2>3, <2>4 DEF Inv
<1> QED BY <1>2, <1>3

LEMMA WritesPreserveInv ==
  ASSUME Inv, NEW r \in Replica, Writes(r)
  PROVE  Inv'
<1>1. PICK t \in Task, l \in BOOLEAN, b \in BOOLEAN, then \in PC :
        Update(r, t, l, b, then) /\ Sound(r, t, then)
  BY WritesAreSound DEF Inv, SoundWrite
<1>2. TypeOK'
  BY <1>1, UpdateTyped DEF Inv
<1>3. fresh[r] /\ task' = t /\ runs' = runs /\ held[r] = task
  BY <1>1 DEF Inv, Update, FreshIsCurrent
<1>4. RecordFits'
  BY <1>1, <1>3 DEF RecordFits, Sound
<1>5. t.attempts \in Nat /\ task.attempts \in Nat /\ task.attempts <= t.attempts
  BY <1>1, <1>3, WorkAssumption DEF Inv, TypeOK, Task, Sound
<1>6. ExecutionsAreCounted'
  BY <1>3, <1>5 DEF Inv, TypeOK, Counted, ExecutionsAreCounted, Scans
<1>7. CASE OnlyFresh(r) /\ held' = [held EXCEPT ![r] = t] /\ pc' = [pc EXCEPT ![r] = then]
           /\ UNCHANGED <<batch, faults>>
  <2>1. /\ \A q \in Replica : fresh'[q] = (q = r)
        /\ held'[r] = t /\ pc'[r] = then /\ batch' = batch
        /\ \A q \in Replica \ {r} : held'[q] = held[q] /\ pc'[q] = pc[q]
    BY <1>7 DEF Inv, TypeOK, OnlyFresh
  <2>2. Places'
    BY <1>1, <2>1 DEF Inv, Places, Sound
  <2>3. FreshIsCurrent'
    BY <1>3, <2>1 DEF FreshIsCurrent
  <2>4. OneWriter'
    BY <1>3, <2>1 DEF OneWriter
  <2>5. ASSUME then = "invoke" PROVE Counted'
    <3>1. t.attempts = task.attempts + 1 /\ t.scan = t.attempts /\ t.scan \in Scans
      BY <1>1, <1>3, <1>5, <2>5, WorkAssumption DEF Sound, Fits, Attempting, Task, Scans
    <3>2. runs[t.scan] = 0
      BY <1>5, <3>1 DEF Inv, TypeOK, Counted, ExecutionsAreCounted
    <3>3. ASSUME NEW q \in Replica \ {r}, pc[q] = "invoke"
          PROVE  held[q].scan <= task.attempts /\ held[q].scan # t.scan
      <4>1. held[q].scan <= task.attempts /\ held[q].scan \in Nat
        BY <3>3, WorkAssumption DEF Inv, TypeOK, Task, Counted, Starting
      <4> QED BY <1>5, <3>1, <4>1
    <3>4. ASSUME NEW q \in Replica \ {r}, pc[q] = "invoke"
          PROVE  held[q].scan <= t.attempts
      <4>1. held[q].scan \in Nat
        BY WorkAssumption DEF Inv, TypeOK, Task
      <4> QED BY <1>5, <3>3, <3>4, <4>1
    <3>5. held'[r].scan <= task'.attempts /\ runs'[held'[r].scan] = 0
      BY <1>3, <1>5, <2>1, <3>1, <3>2
    <3>6. \A q \in Replica \ {r} : pc'[q] = "invoke" =>
            /\ held'[q].scan <= task'.attempts /\ runs'[held'[q].scan] = 0
            /\ held'[q].scan # held'[r].scan
      BY <1>3, <2>1, <3>3, <3>4 DEF Inv, Counted, Starting
    <3>7. \A q, p \in Replica \ {r} :
            pc'[q] = "invoke" /\ pc'[p] = "invoke" /\ held'[p].scan = held'[q].scan => p = q
      BY <2>1 DEF Inv, Counted, Starting
    <3>8. \A q \in Replica : pc'[q] = "invoke" =>
            /\ held'[q].scan <= task'.attempts /\ runs'[held'[q].scan] = 0
            /\ \A p \in Replica : pc'[p] = "invoke" /\ held'[p].scan = held'[q].scan => p = q
      BY <3>5, <3>6, <3>7
    <3>9. Starting'
      BY <3>8 DEF Starting
    <3> QED BY <1>6, <3>9 DEF Counted
  <2>6. ASSUME then # "invoke" PROVE Counted'
    <3>1. ASSUME NEW q \in Replica, pc'[q] = "invoke"
          PROVE  q # r /\ pc[q] = "invoke" /\ held'[q] = held[q] /\ held[q].scan <= t.attempts
      <4>1. q # r /\ pc[q] = "invoke" /\ held'[q] = held[q]
        BY <2>1, <2>6, <3>1
      <4>2. held[q].scan <= task.attempts /\ held[q].scan \in Nat
        BY <4>1, WorkAssumption DEF Inv, TypeOK, Task, Counted, Starting
      <4> QED BY <1>5, <4>1, <4>2
    <3>2. \A q \in Replica : pc[q] = "invoke" =>
            /\ runs[held[q].scan] = 0
            /\ \A p \in Replica : pc[p] = "invoke" /\ held[p].scan = held[q].scan => p = q
      BY DEF Inv, Counted, Starting
    <3>3. \A q \in Replica : pc'[q] = "invoke" =>
            /\ held'[q].scan <= task'.attempts /\ runs'[held'[q].scan] = 0
            /\ \A p \in Replica : pc'[p] = "invoke" /\ held'[p].scan = held'[q].scan => p = q
      BY <1>3, <3>1, <3>2
    <3>4. Starting'
      BY <3>3 DEF Starting
    <3> QED BY <1>6, <3>4 DEF Counted
  <2> QED BY <1>2, <1>4, <2>2, <2>3, <2>4, <2>5, <2>6 DEF Inv
<1>8. CASE Fault /\ fresh' = [q \in Replica |-> FALSE] /\ Abort(r)
  <2>1. /\ \A q \in Replica : ~fresh'[q]
        /\ pc'[r] = "nak" /\ held'[r] = NoTask /\ batch'[r] = NoResult
        /\ \A q \in Replica \ {r} : pc'[q] = pc[q] /\ held'[q] = held[q] /\ batch'[q] = batch[q]
    BY <1>8 DEF Inv, TypeOK, Abort
  <2>2. Fits("nak", NoTask, NoResult)
    BY DEF Fits, Leased, Writing, Attempting, Passing
  <2>3. Places'
    BY <2>1, <2>2 DEF Inv, Places
  <2>4. FreshIsCurrent' /\ OneWriter'
    BY <2>1 DEF FreshIsCurrent, OneWriter
  <2>5. ASSUME NEW q \in Replica, pc'[q] = "invoke"
        PROVE  q # r /\ pc[q] = "invoke" /\ held'[q] = held[q] /\ held[q].scan <= t.attempts
    <3>1. q # r /\ pc[q] = "invoke" /\ held'[q] = held[q]
      BY <2>1, <2>5
    <3>2. held[q].scan <= task.attempts /\ held[q].scan \in Nat
      BY <3>1, WorkAssumption DEF Inv, TypeOK, Task, Counted, Starting
    <3> QED BY <1>5, <3>1, <3>2
  <2>6. Counted'
    BY <1>3, <1>6, <2>5 DEF Inv, Counted, Starting
  <2> QED BY <1>2, <1>4, <2>3, <2>4, <2>6 DEF Inv
<1> QED BY <1>1, <1>7, <1>8 DEF Update

\* A tick writes the record as its owner holds it: as it is.
LEMMA HeartbeatPreservesInv ==
  ASSUME Inv, NEW r \in Replica, Heartbeat(r)
  PROVE  Inv'
<1>1. /\ fresh[r] /\ task' = task
      /\ UNCHANGED <<backoff, late, outbox, stream, delivery, paused, pc, hand, held, batch, runs>>
  BY DEF Inv, FreshIsCurrent, Heartbeat
<1>2. fresh' \in [Replica -> BOOLEAN] /\ \A q \in Replica : fresh'[q] => q = r
  BY DEF Heartbeat, OnlyFresh
<1>3. cancelled' \in [Replica -> BOOLEAN]
  BY DEF Inv, TypeOK, Heartbeat
<1>9. faults' \in 0..MaxFaults
  BY WorkAssumption DEF Inv, TypeOK, Heartbeat, Fault
<1>4. lease' \in BOOLEAN
  BY DEF Inv, TypeOK, Task, Heartbeat
<1>5. TypeOK'
  BY <1>1, <1>2, <1>3, <1>4, <1>9 DEF Inv, TypeOK
<1>6. Places' /\ RecordFits' /\ FreshIsCurrent'
  BY <1>1, <1>2 DEF Inv, Places, RecordFits, FreshIsCurrent
<1>7. OneWriter'
  BY <1>1, <1>2 DEF Inv, FreshIsCurrent, OneWriter
<1>8. Counted'
  BY <1>1 DEF Inv, Counted, Starting, ExecutionsAreCounted
<1> QED BY <1>5, <1>6, <1>7, <1>8 DEF Inv

Environment ==
  \/ LeaseExpires \/ BackoffEnds \/ DeadlinePasses \/ Resume
  \/ \E m \in Msg : Redeliver(m)
  \/ \E s \in Scans : DamageBatch(s)

LEMMA EnvironmentTyped ==
  ASSUME TypeOK, Environment
  PROVE  TypeOK' /\ UNCHANGED <<task, local, runs>>
<1> USE WorkAssumption DEF TypeOK, local
<1>1. CASE LeaseExpires
  <2>1. faults' \in 0..MaxFaults
    BY <1>1 DEF LeaseExpires, Fault
  <2> QED BY <1>1, <2>1 DEF LeaseExpires
<1>2. CASE BackoffEnds
  BY <1>2 DEF BackoffEnds
<1>3. CASE DeadlinePasses
  BY <1>3 DEF DeadlinePasses
<1>4. CASE Resume
  BY <1>4 DEF Resume
<1>5. CASE \E m \in Msg : Redeliver(m)
  BY <1>5 DEF Redeliver
<1>6. CASE \E s \in Scans : DamageBatch(s)
  BY <1>6 DEF DamageBatch, Saved
<1> QED BY <1>1, <1>2, <1>3, <1>4, <1>5, <1>6 DEF Environment

LEMMA UntouchedInv ==
  ASSUME Inv, TypeOK', UNCHANGED <<task, local, runs>>
  PROVE  Inv'
BY DEF Inv, local, Places, RecordFits, FreshIsCurrent, OneWriter, Counted, Starting,
       ExecutionsAreCounted

LEMMA InitInv == Init => Inv
<1> SUFFICES ASSUME Init PROVE Inv
  OBVIOUS
<1> USE DEF Init
<1>1. TypeOK
  <2>1. pc \in [Replica -> PC] /\ hand \in [Replica -> SUBSET Msg]
    BY DEF PC, Waiting
  <2>2. held \in [Replica -> Task] /\ batch \in [Replica -> Saved] /\ task \in Task
    BY RecordsTyped
  <2>3. outbox \in [Scans -> Saved] /\ runs \in [Scans -> Nat] /\ stream \subseteq Events
    BY RecordsTyped
  <2>4. faults \in 0..MaxFaults
    BY WorkAssumption
  <2>5. fresh \in [Replica -> BOOLEAN] /\ cancelled \in [Replica -> BOOLEAN]
        /\ delivery \in [Msg -> {"ready", "out", "done"}]
    OBVIOUS
  <2> QED BY <2>1, <2>2, <2>3, <2>4, <2>5 DEF TypeOK
<1>2. Places
  BY DEF Places, Fits, Leased, Writing, Attempting, Passing
<1>3. RecordFits /\ FreshIsCurrent /\ OneWriter
  BY DEF RecordFits, FreshIsCurrent, OneWriter
<1>4. task.attempts = 0
  BY DEF NoTask
<1>5. Counted
  BY <1>4 DEF Counted, Starting, ExecutionsAreCounted, Scans
<1> QED BY <1>1, <1>2, <1>3, <1>5 DEF Inv

\* A step moves or writes for one replica, ticks, or is the environment's.
LEMMA StepsSplit ==
  ASSUME Next
  PROVE  \/ \E r \in Replica : Moves(r) \/ Writes(r) \/ Heartbeat(r)
         \/ Environment
<1>1. ASSUME NEW r \in Replica, Step(r) PROVE Moves(r) \/ Writes(r)
  BY <1>1, SMT DEF Step, Moves, Writes
<1>2. CASE \E r \in Replica : Step(r) \/ Heartbeat(r) \/ HeartbeatFails(r)
                             \/ CallFails(r) \/ Crash(r) \/ Shutdown(r)
  BY <1>1, <1>2, Zenon DEF Moves
<1> QED BY <1>2, Zenon DEF Next, Environment

LEMMA NextInv == Inv /\ [Next]_vars => Inv'
<1> SUFFICES ASSUME Inv, [Next]_vars PROVE Inv'
  OBVIOUS
<1>1. ASSUME NEW r \in Replica, Moves(r) PROVE Inv'
  BY <1>1, MovesPreserveInv
<1>2. ASSUME NEW r \in Replica, Writes(r) PROVE Inv'
  BY <1>2, WritesPreserveInv
<1>3. ASSUME NEW r \in Replica, Heartbeat(r) PROVE Inv'
  BY <1>3, HeartbeatPreservesInv
<1>4. CASE Environment
  BY <1>4, EnvironmentTyped, UntouchedInv DEF Inv
<1>5. CASE UNCHANGED vars
  <2>1. UNCHANGED <<task, local, runs>>
    BY <1>5 DEF vars, durable
  <2>2. TypeOK'
    BY <1>5 DEF Inv, TypeOK, vars, durable, local
  <2> QED BY <2>1, <2>2, UntouchedInv
<1> QED BY <1>1, <1>2, <1>3, <1>4, <1>5, StepsSplit

-----------------------------------------------------------------------------
(* What steps leave alone                                                  *)

LEMMA TerminalStep ==
  ASSUME Inv, [Next]_vars, task.status \in Terminal
  PROVE  task' = task
<1>1. ASSUME NEW r \in Replica, Moves(r) PROVE task' = task
  <2>1. CASE Invoke(r)
    BY <2>1 DEF Invoke, durable
  <2>2. CASE ~Invoke(r)
    BY <1>1, <2>2, MovesAreLocal DEF Inv
  <2> QED BY <2>1, <2>2
<1>2. ASSUME NEW r \in Replica, Writes(r) PROVE FALSE
  <2>1. fresh[r] /\ held[r].status \notin Terminal
    BY <1>2, WritesAreSound DEF Inv, SoundWrite, Sound, Update
  <2> QED BY <2>1 DEF Inv, FreshIsCurrent
<1>3. ASSUME NEW r \in Replica, Heartbeat(r) PROVE task' = task
  BY <1>3 DEF Inv, FreshIsCurrent, Heartbeat
<1>4. CASE Environment
  BY <1>4, EnvironmentTyped DEF Inv
<1>5. CASE UNCHANGED vars
  BY <1>5 DEF vars, durable
<1> QED BY <1>1, <1>2, <1>3, <1>4, <1>5, StepsSplit

\* A replica that is about to acknowledge holds a message that was rejected or
\* whose task is done.
Acknowledging ==
  \A r \in Replica : pc[r] = "ack" => hand[r] \subseteq Rejected \/ task.status \in Terminal

\* A step brings a replica to its acknowledgement only for such a message, and
\* settles no message but one that is being acknowledged.
Keeps ==
  /\ \A q \in Replica : pc'[q] = "ack" =>
       \/ pc[q] = "ack" /\ hand'[q] = hand[q]
       \/ hand'[q] \subseteq Rejected
       \/ task'.status \in Terminal
  /\ \A m \in Msg : delivery'[m] = "done" =>
       \/ delivery[m] = "done"
       \/ \E q \in Replica : pc[q] = "ack" /\ m \in hand[q]

LEMMA MovesKeep ==
  ASSUME ~ClockStraddle, TypeOK, NEW r \in Replica, Moves(r)
  PROVE  Keeps
<1> USE DEF TypeOK, Goto, durable, Keeps
<1>1. CASE Poll(r)
  BY <1>1 DEF Poll
<1>2. CASE Receive(r)
  BY <1>2 DEF Receive
<1>3. CASE CheckTool(r)
  BY <1>3 DEF CheckTool
<1>4. CASE Ack(r)
  <2>1. \A q \in Replica : pc'[q] = "ack" => pc[q] = "ack" /\ hand'[q] = hand[q]
    BY <1>4 DEF Ack, Settle
  <2>2. pc[r] = "ack" /\ \A m \in Msg : delivery'[m] = "done" => delivery[m] = "done" \/ m \in hand[r]
    BY <1>4 DEF Ack, Settle
  <2> QED BY <2>1, <2>2
<1>5. CASE Nak(r)
  <2>1. \A q \in Replica : pc'[q] = "ack" => pc[q] = "ack" /\ hand'[q] = hand[q]
    BY <1>5 DEF Nak, Settle
  <2>2. \A m \in Msg : delivery'[m] = "done" => delivery[m] = "done"
    BY <1>5 DEF Nak, Settle
  <2> QED BY <2>1, <2>2
<1>6. CASE ReadTask(r)
  BY <1>6 DEF ReadTask
<1>7. CASE StraddledDefer(r)
  BY <1>7 DEF StraddledDefer
<1>8. CASE ResumeBatch(r)
  BY <1>8 DEF ResumeBatch
<1>9. CASE GiveUp(r)
  BY <1>9 DEF GiveUp
<1>10. CASE NeedsExecution(r)
  BY <1>10 DEF NeedsExecution
<1>11. CASE Invoke(r)
  BY <1>11 DEF Invoke
<1>12. CASE Return(r)
  BY <1>12 DEF Return
<1>13. CASE PauseTool(r)
  BY <1>13 DEF PauseTool, Abort
<1>14. CASE SaveBatch(r)
  BY <1>14 DEF SaveBatch, Abort
<1>15. CASE WriteFails(r)
  BY <1>15 DEF WriteFails, Abort
<1>16. CASE CallFails(r)
  BY <1>16 DEF CallFails, Abort
<1>17. CASE HeartbeatFails(r)
  BY <1>17 DEF HeartbeatFails
<1>18. CASE Crash(r)
  BY <1>18 DEF Crash
<1>19. CASE Shutdown(r)
  BY <1>19 DEF Shutdown
<1>20. CASE Publish(r)
  BY <1>20 DEF Publish
<1> QED BY <1>1, <1>2, <1>3, <1>4, <1>5, <1>6, <1>7, <1>8, <1>9, <1>10, <1>11, <1>12, <1>13, <1>14, <1>15, <1>16, <1>17, <1>18, <1>19, <1>20 DEF Moves

LEMMA StepsKeep ==
  ASSUME ~ClockStraddle, Inv, [Next]_vars
  PROVE  Keeps
<1>1. ASSUME NEW r \in Replica, Moves(r) PROVE Keeps
  BY <1>1, MovesKeep DEF Inv
<1>2. ASSUME NEW r \in Replica, Writes(r) PROVE Keeps
  <2>1. PICK t \in Task, l \in BOOLEAN, b \in BOOLEAN, then \in PC :
          Update(r, t, l, b, then) /\ Sound(r, t, then)
    BY <1>2, WritesAreSound DEF Inv, SoundWrite
  <2>2. task' = t /\ hand' = hand /\ delivery' = delivery
    BY <2>1 DEF Update
  <2>3. \A q \in Replica : pc'[q] = "ack" => pc[q] = "ack" \/ then = "ack"
    BY <2>1 DEF Inv, TypeOK, Update, Abort
  <2> QED BY <2>1, <2>2, <2>3 DEF Sound, Keeps
<1>3. ASSUME NEW r \in Replica, Heartbeat(r) PROVE Keeps
  BY <1>3 DEF Heartbeat, Keeps
<1>4. CASE Environment
  <2>1. pc' = pc /\ hand' = hand
    BY <1>4, EnvironmentTyped DEF Inv, local
  <2>2. \A m \in Msg : delivery'[m] = "done" => delivery[m] = "done"
    BY <1>4 DEF Inv, TypeOK, Environment, LeaseExpires, BackoffEnds, DeadlinePasses, Resume,
                Redeliver, DamageBatch
  <2> QED BY <2>1, <2>2 DEF Keeps
<1>5. CASE UNCHANGED vars
  BY <1>5 DEF vars, durable, local, Keeps
<1> QED BY <1>1, <1>2, <1>3, <1>4, <1>5, StepsSplit

-----------------------------------------------------------------------------
(* Theorems: the record                                                    *)

THEOREM Invariance == Spec => []Inv
BY InitInv, NextInv, PTL DEF Spec

\* Whatever the replicas, the store, the consumer and the faults do, process()
\* only ever writes well-formed records: no attempt or publication pass beyond
\* its budget, no output index beyond the batch.
THEOREM TypeCorrect == Spec => []TypeOK
<1>1. Inv => TypeOK
  BY DEF Inv
<1> QED BY Invariance, <1>1, PTL

\* Compare-and-swap on the remembered revision leaves at most one replica past
\* its claim that can still write the task record.
THEOREM SingleWriter == Spec => []OneWriter
<1>1. Inv => OneWriter
  BY DEF Inv
<1> QED BY Invariance, <1>1, PTL

\* No execution runs its handler twice, and none runs that the durable record
\* has not counted against MaxAttempts.
THEOREM ExecutionBudget == Spec => []ExecutionsAreCounted
<1>1. Inv => ExecutionsAreCounted
  BY DEF Inv, Counted
<1> QED BY Invariance, <1>1, PTL

\* Once the record is completed or failed no write changes it, heartbeats of a
\* finished owner and replicas that lost their lease included.
THEOREM TerminalStays == Spec => TerminalIsFinal
<1>1. Inv /\ [Next]_vars => [task.status \in Terminal => task' = task]_vars
  BY TerminalStep
<1> QED BY Invariance, <1>1, PTL DEF Spec, TerminalIsFinal

\* As long as no instant passes between the two clock readings of claim, onMsg
\* acknowledges a valid message only when its task has reached its final state.
THEOREM MessagesAreKept ==
  ASSUME ~ClockStraddle
  PROVE  Spec => []SettledIsTerminal
<1> DEFINE Kept == SettledIsTerminal /\ Acknowledging
<1>1. Init => Kept
  BY DEF Init, SettledIsTerminal, Acknowledging
<1>2. Inv /\ Kept /\ [Next]_vars => Kept'
  <2> SUFFICES ASSUME Inv, Kept, [Next]_vars PROVE Kept'
    OBVIOUS
  <2>1. Keeps
    BY StepsKeep
  <2>2. task.status \in Terminal => task'.status \in Terminal
    BY TerminalStep
  <2>3. Acknowledging'
    BY <2>1, <2>2 DEF Keeps, Acknowledging
  <2>4. SettledIsTerminal'
    BY <2>1, <2>2 DEF Keeps, Acknowledging, SettledIsTerminal
  <2> QED BY <2>3, <2>4
<1>3. Kept => SettledIsTerminal
  OBVIOUS
<1> HIDE DEF Kept
<1> QED BY Invariance, <1>1, <1>2, <1>3, PTL DEF Spec

-----------------------------------------------------------------------------
(* The inductive invariant of what reaches the stream                      *)

\* Places at which a replica has a batch of its own or of the outbox to publish.
Handling == Passing \cup {"publishing", "settle"}

\* The phases in which events of the record's execution may be in the stream.
Out == {"publishing", "completed", "failed"}

\* What a replica knows, beyond Fits, of its copy h of the record and its batch b.
Knows(p, h, b) ==
  /\ p = "begin" => h.status \in {"running", "retry_wait"}
  /\ p \in Passing \cup {"settle"} => h.status = "publishing"
  /\ p = "settle" => h.next >= b.n

Phases == \A r \in Replica : Knows(pc[r], held[r], batch[r])

\* Nothing is saved or published under a ScanID that has not been drawn.
Drawn ==
  /\ task.scan \in {0, task.attempts}
  /\ \A r \in Replica : held[r].scan <= task.attempts
  /\ \A s \in Scans : s > task.attempts => outbox[s] = NoResult /\ \A e \in stream : e[1] # s

\* An execution is its replica's own until its batch is saved: nobody else has it,
\* nothing of it is published, and the record has not gone on to publish it.
Executing ==
  \A r \in Replica : pc[r] \in Attempting =>
    /\ outbox[held[r].scan] = NoResult
    /\ \A e \in stream : e[1] # held[r].scan
    /\ held[r].scan = task.attempts => task.status \in {"running", "failed"}
    /\ \A q \in Replica :
         pc[q] \in Attempting \cup Handling /\ held[q].scan = held[r].scan => q = r

\* An execution has one batch: what replicas handle, what the outbox holds unless it
\* was damaged, and what bounds the events in the stream.
Agreeing ==
  /\ \A r \in Replica : pc[r] \in Handling =>
       /\ outbox[held[r].scan] \in Result => outbox[held[r].scan] = batch[r]
       /\ \A e \in stream : e[1] = held[r].scan => e[2] <= batch[r].n
       /\ \A q \in Replica :
            pc[q] \in Handling /\ held[q].scan = held[r].scan => batch[q] = batch[r]
  /\ \A e \in stream : outbox[e[1]] \in Result => e[2] <= outbox[e[1]].n

\* The event a replica is about, at the index of its copy of the record: it is in the
\* stream, or it is the next one of the record itself.  A replica that lost its lease
\* may be behind the record, never ahead.
Behind ==
  \A r \in Replica : pc[r] \in Passing =>
    /\ held[r].scan = task.scan => task.status \in Out /\ held[r].next <= task.next
    /\ \/ <<held[r].scan, held[r].next + 1>> \in stream
       \/ held[r].scan = task.scan /\ held[r].next = task.next /\ task.status # "completed"
    /\ pc[r] = "advance" => <<held[r].scan, held[r].next + 1>> \in stream

\* The event after the record's output index: the only one that may be in the stream
\* without being counted.
Flight == <<task.scan, task.next + 1>>

Indexed ==
  /\ IndexIsPublished
  /\ \A e \in stream : e[1] = task.scan => e[2] <= task.next + 1 /\ task.status \in Out

Accounted ==
  /\ IsFiniteSet(stream)
  /\ Cardinality(stream \ {Flight}) = task.emitted
  /\ task.status = "completed" => Flight \notin stream

\* A retry waits without a batch, and only when all that was saved of the execution
\* is published.
Retried ==
  task.status = "retry_wait" =>
    /\ task.scan = 0 /\ task.attempts > 0
    /\ \A k \in 1..outbox[task.attempts].n : <<task.attempts, k>> \in stream

Evidence ==
  /\ Phases /\ Drawn /\ Executing /\ Agreeing /\ Behind /\ Indexed /\ Accounted /\ Retried

LEMMA EventsTyped ==
  ASSUME TypeOK, NEW e \in stream
  PROVE  e[1] \in Scans /\ e[2] \in 1..MaxOut /\ e = <<e[1], e[2]>>
BY DEF TypeOK, Events

LEMMA InitEvidence == Init => Evidence
<1> SUFFICES ASSUME Init PROVE Evidence
  OBVIOUS
<1>1. \A r \in Replica : pc[r] = "idle" /\ held[r] = NoTask
  BY DEF Init
<1>2. NoTask.scan = 0 /\ NoTask.attempts = 0 /\ NoTask.emitted = 0 /\ NoTask.status = "absent"
  BY DEF NoTask
<1>3. Phases /\ Executing /\ Agreeing /\ Behind
  BY <1>1 DEF Init, Phases, Knows, Executing, Agreeing, Behind, Handling, Passing, Attempting
<1>4. Drawn /\ Indexed /\ Retried
  BY <1>1, <1>2 DEF Init, Drawn, Indexed, IndexIsPublished, Retried
<1>5. stream \ {Flight} = {}
  BY DEF Init
<1>6. Accounted
  BY <1>2, <1>5, FS_EmptySet DEF Init, Accounted
<1> QED BY <1>3, <1>4, <1>6 DEF Evidence

-----------------------------------------------------------------------------
(* The steps that leave the record alone                                   *)

\* Only r may change where it stands and what it has in its hands.
Others(r) ==
  \A q \in Replica \ {r} : pc'[q] = pc[q] /\ held'[q] = held[q] /\ batch'[q] = batch[q]

\* r goes where it has no execution and no batch, or where it may start an execution.
Leaves(r) ==
  /\ UNCHANGED <<outbox, stream>>
  /\ held'[r] \in {held[r], NoTask, task}
  /\ pc'[r] \notin Attempting \cup Handling
  /\ pc'[r] = "begin" => held'[r].status \in {"running", "retry_wait"}

\* r goes on with what it has, or with its execution.
Stays(r) ==
  /\ UNCHANGED <<outbox, stream>>
  /\ held'[r] = held[r]
  /\ \/ pc'[r] = pc[r] /\ batch'[r] = batch[r]
     \/ pc[r] \in Attempting /\ pc'[r] \in Attempting

LEMMA MoveKinds ==
  ASSUME Inv, NEW r \in Replica, Moves(r)
  PROVE  /\ task' = task /\ Others(r)
         /\ Leaves(r) \/ Stays(r) \/ ResumeBatch(r) \/ SaveBatch(r) \/ Publish(r)
<1> USE DEF Inv, TypeOK, Goto, durable, Others, Leaves, Stays, Attempting, Handling, Passing
<1>1. CASE Poll(r)
  BY <1>1 DEF Poll
<1>2. CASE Receive(r)
  BY <1>2 DEF Receive
<1>3. CASE CheckTool(r)
  BY <1>3 DEF CheckTool
<1>4. CASE Ack(r)
  BY <1>4 DEF Ack, Settle
<1>5. CASE Nak(r)
  BY <1>5 DEF Nak, Settle
<1>6. CASE ReadTask(r)
  BY <1>6 DEF ReadTask
<1>7. CASE StraddledDefer(r)
  BY <1>7 DEF StraddledDefer
<1>8. CASE ResumeBatch(r)
  BY <1>8 DEF ResumeBatch
<1>9. CASE GiveUp(r)
  BY <1>9 DEF GiveUp
<1>10. CASE NeedsExecution(r)
  <2>1. held[r].status \in {"running", "retry_wait"}
    <3>1. held[r] \in Task /\ held[r].status \notin Terminal /\ held[r].status # "absent"
      BY <1>10 DEF NeedsExecution, Places, Fits, Leased
    <3> QED BY <1>10, <3>1 DEF NeedsExecution, Task, Status, Terminal
  <2> QED BY <1>10, <2>1 DEF NeedsExecution
<1>11. CASE Invoke(r)
  BY <1>11 DEF Invoke
<1>12. CASE Return(r)
  BY <1>12 DEF Return
<1>13. CASE PauseTool(r)
  BY <1>13 DEF PauseTool, Abort
<1>14. CASE SaveBatch(r)
  BY <1>14 DEF SaveBatch, Abort
<1>15. CASE WriteFails(r)
  BY <1>15 DEF WriteFails, Abort
<1>16. CASE CallFails(r)
  BY <1>16 DEF CallFails, Abort
<1>17. CASE HeartbeatFails(r)
  BY <1>17 DEF HeartbeatFails
<1>18. CASE Crash(r)
  BY <1>18 DEF Crash
<1>19. CASE Shutdown(r)
  BY <1>19 DEF Shutdown
<1>20. CASE Publish(r)
  BY <1>20 DEF Publish
<1> QED BY <1>1, <1>2, <1>3, <1>4, <1>5, <1>6, <1>7, <1>8, <1>9, <1>10, <1>11, <1>12, <1>13, <1>14, <1>15, <1>16, <1>17, <1>18, <1>19, <1>20
     DEF Moves

\* What Drawn, Fits and the types say of the numbers involved.
LEMMA Numbers ==
  ASSUME Inv, Evidence
  PROVE  /\ task.attempts \in 0..MaxAttempts /\ task.scan \in 0..MaxAttempts
         /\ task.next \in 0..MaxOut /\ task.emitted \in Nat
         /\ \A r \in Replica : /\ held[r] \in Task
                                /\ held[r].scan \in 0..MaxAttempts /\ held[r].next \in 0..MaxOut
                                /\ held[r].attempts \in 0..MaxAttempts
         /\ \A r \in Replica : pc[r] \in Attempting \cup Handling => held[r].scan \in Scans
BY ScanInHand DEF Inv, TypeOK, Task, Handling

LEMMA LeavingKeeps ==
  ASSUME Inv, Evidence, NEW r \in Replica, task' = task, Others(r), Leaves(r)
  PROVE  Evidence'
<1> USE DEF Evidence, Others, Leaves
<1>1. /\ UNCHANGED <<task, outbox, stream>>
      /\ \A q \in Replica : pc'[q] \in Attempting \cup Handling =>
           pc'[q] = pc[q] /\ held'[q] = held[q] /\ batch'[q] = batch[q]
  OBVIOUS
<1>2. Phases'
  BY DEF Phases, Knows, Handling
<1>3. Drawn'
  <2>1. held'[r].scan <= task.attempts
    BY Numbers, WorkAssumption DEF Drawn, NoTask
  <2> QED BY <1>1, <2>1 DEF Drawn
<1>4. Executing'
  BY <1>1 DEF Executing
<1>5. Agreeing'
  BY <1>1 DEF Agreeing
<1>6. Behind'
  BY <1>1 DEF Behind, Handling
<1>7. Indexed' /\ Accounted' /\ Retried'
  BY <1>1 DEF Indexed, IndexIsPublished, Accounted, Flight, Retried
<1> QED BY <1>2, <1>3, <1>4, <1>5, <1>6, <1>7

LEMMA StayingKeeps ==
  ASSUME Inv, Evidence, NEW r \in Replica, task' = task, Others(r), Stays(r)
  PROVE  Evidence'
<1> USE DEF Evidence, Others, Stays
<1>1. /\ UNCHANGED <<task, outbox, stream>>
      /\ \A q \in Replica : held'[q] = held[q]
      /\ \A q \in Replica : pc'[q] \in Attempting <=> pc[q] \in Attempting
      /\ \A q \in Replica : pc'[q] \notin Attempting => pc'[q] = pc[q] /\ batch'[q] = batch[q]
  OBVIOUS
<1> HIDE DEF Others, Stays
<1>d. Attempting \cap (Handling \cup {"begin"}) = {} /\ Passing \subseteq Handling
  BY DEF Attempting, Handling, Passing
<1>2. Phases'
  BY <1>1, <1>d DEF Phases, Knows, Handling
<1>3. Drawn'
  BY <1>1 DEF Drawn
<1>4. Executing'
  BY <1>1, <1>d DEF Executing
<1>5. Agreeing'
  BY <1>1, <1>d DEF Agreeing
<1>6. Behind'
  BY <1>1, <1>d DEF Behind, Attempting
<1>7. Indexed' /\ Accounted' /\ Retried'
  BY <1>1 DEF Indexed, IndexIsPublished, Accounted, Flight, Retried
<1> QED BY <1>2, <1>3, <1>4, <1>5, <1>6, <1>7

\* The batch of the outbox is what every replica handles of this execution.
LEMMA ResumingKeeps ==
  ASSUME Inv, Evidence, NEW r \in Replica, task' = task, Others(r), ResumeBatch(r)
  PROVE  Evidence'
<1> USE DEF Evidence, Others
<1>0. held[r].scan \in Scans /\ Loaded(r) = outbox[held[r].scan] /\ outbox[held[r].scan] \in Result
  BY Numbers, NotSaved, WorkAssumption DEF ResumeBatch, Loaded, Scans
<1>1. /\ UNCHANGED <<task, outbox, stream, held>>
      /\ pc[r] = "loading" /\ pc'[r] = "publishing" /\ batch'[r] = outbox[held[r].scan]
  BY <1>0 DEF ResumeBatch, Goto, durable, Inv, TypeOK
<1>d. "publishing" \notin Attempting \cup Passing \cup {"begin", "settle", "advance"}
  BY DEF Attempting, Passing
<1>2. Phases'
  BY <1>1, <1>d DEF Phases, Knows
<1>3. Drawn'
  BY <1>1 DEF Drawn
<1>4. Executing'
  BY <1>0, <1>1, <1>d, NotSaved DEF Executing
<1>5. Agreeing'
  <2>1. \A q \in Replica : pc'[q] \in Handling /\ held[q].scan = held[r].scan =>
          batch'[q] = outbox[held[r].scan]
    BY <1>0, <1>1 DEF Agreeing
  <2>2. \A e \in stream : e[1] = held[r].scan => e[2] <= outbox[held[r].scan].n
    BY <1>0 DEF Agreeing
  <2> QED BY <1>1, <2>1, <2>2 DEF Agreeing
<1>6. Behind'
  BY <1>1, <1>d DEF Behind
<1>7. Indexed' /\ Accounted' /\ Retried'
  BY <1>1 DEF Indexed, IndexIsPublished, Accounted, Flight, Retried
<1> QED BY <1>2, <1>3, <1>4, <1>5, <1>6, <1>7

\* An execution that is saved becomes one that is handled.
LEMMA SavingKeeps ==
  ASSUME Inv, Evidence, NEW r \in Replica, task' = task, Others(r), SaveBatch(r)
  PROVE  Evidence'
<1> USE DEF Evidence, Others
<1> DEFINE s == held[r].scan
<1>0. s \in Scans /\ pc[r] = "saving" /\ pc[r] \in Attempting /\ batch[r] \in Result
  BY Numbers DEF SaveBatch, Attempting, Inv, Places, Fits
<1>1. /\ UNCHANGED <<task, stream>>
      /\ outbox'[s] = batch[r]
      /\ \A x \in Scans \ {s} : outbox'[x] = outbox[x]
      /\ \/ pc'[r] = "publishing" /\ held'[r] = held[r] /\ batch'[r] = batch[r]
         \/ pc'[r] = "nak" /\ held'[r] = NoTask
  BY <1>0 DEF SaveBatch, Abort, Goto, Inv, TypeOK
<1>d. /\ "publishing" \notin Attempting \cup Passing \cup {"begin", "settle", "advance"}
      /\ "nak" \notin Attempting \cup Handling \cup Passing \cup {"begin", "settle", "advance"}
      /\ Passing \subseteq Handling
  BY DEF Attempting, Passing, Handling
<1>e. /\ \A e \in stream : e[1] # s
      /\ s = task.attempts => task.status \in {"running", "failed"}
      /\ \A q \in Replica \ {r} : pc[q] \in Attempting \cup Handling => held[q].scan # s
  BY <1>0 DEF Executing
<1>n. NoTask.scan = 0 /\ 0 <= task.attempts
  BY Numbers, WorkAssumption DEF NoTask
<1>2. Phases'
  BY <1>1, <1>d DEF Phases, Knows
<1>3. Drawn'
  <2>1. s <= task.attempts /\ \A x \in Scans : x > task.attempts => x # s
    BY <1>0, Numbers, WorkAssumption DEF Drawn, Scans
  <2> QED BY <1>1, <1>n, <2>1 DEF Drawn
<1>4. Executing'
  <2> SUFFICES ASSUME NEW q \in Replica, pc'[q] \in Attempting
               PROVE  /\ outbox'[held'[q].scan] = NoResult
                      /\ \A e \in stream : e[1] # held'[q].scan
                      /\ held'[q].scan = task.attempts => task.status \in {"running", "failed"}
                      /\ \A p \in Replica : pc'[p] \in Attempting \cup Handling
                                           /\ held'[p].scan = held'[q].scan => p = q
    BY <1>1 DEF Executing
  <2>1. q # r /\ pc[q] \in Attempting /\ held'[q] = held[q] /\ held[q].scan \in Scans \ {s}
    BY <1>1, <1>d, <1>e, Numbers
  <2>2. \A p \in Replica : pc'[p] \in Attempting \cup Handling =>
          pc[p] \in Attempting \cup Handling /\ held'[p] = held[p]
    BY <1>0, <1>1, <1>d
  <2> QED BY <1>1, <2>1, <2>2 DEF Executing
<1>5. Agreeing'
  <2>1. \A q \in Replica \ {r} : pc'[q] \in Handling =>
          /\ pc[q] \in Handling /\ held'[q] = held[q] /\ batch'[q] = batch[q]
          /\ held[q].scan \in Scans \ {s}
    BY <1>e, Numbers
  <2>2. \A e \in stream : e[1] \in Scans \ {s}
    BY <1>e, EventsTyped DEF Inv
  <2>3. \A e \in stream : outbox'[e[1]] \in Result => e[2] <= outbox'[e[1]].n
    BY <1>1, <2>2 DEF Agreeing
  <2>4. \A q \in Replica : pc'[q] \in Handling =>
          /\ outbox'[held'[q].scan] \in Result => outbox'[held'[q].scan] = batch'[q]
          /\ \A e \in stream : e[1] = held'[q].scan => e[2] <= batch'[q].n
          /\ \A p \in Replica :
               pc'[p] \in Handling /\ held'[p].scan = held'[q].scan => batch'[p] = batch'[q]
    BY <1>1, <1>d, <2>1, <2>2 DEF Agreeing
  <2> QED BY <1>1, <2>3, <2>4 DEF Agreeing
<1>6. Behind'
  BY <1>1, <1>d DEF Behind
<1>7. Indexed' /\ Accounted'
  BY <1>1 DEF Indexed, IndexIsPublished, Accounted, Flight
<1>8. Retried'
  <2> SUFFICES ASSUME task.status = "retry_wait" PROVE Retried'
    BY <1>1 DEF Retried
  <2>1. task.attempts \in Scans \ {s}
    BY <1>e, Numbers, WorkAssumption DEF Retried, Scans
  <2> QED BY <1>1, <2>1 DEF Retried
<1> QED BY <1>2, <1>3, <1>4, <1>5, <1>6, <1>7, <1>8

\* What reaches the stream is there already, or it is the next event of the record.
LEMMA PublishingKeeps ==
  ASSUME Inv, Evidence, NEW r \in Replica, task' = task, Others(r), Publish(r)
  PROVE  Evidence'
<1> USE DEF Evidence, Others
<1> DEFINE s == held[r].scan
           new == <<held[r].scan, held[r].next + 1>>
<1>0. /\ s \in Scans /\ held[r].next \in Nat
      /\ pc[r] = "publish" /\ batch[r] \in Result /\ held[r].next < batch[r].n
      /\ held[r].status = "publishing"
  BY Numbers, WorkAssumption DEF Publish, Passing, Handling, Inv, Places, Fits, Phases, Knows
<1>1. /\ UNCHANGED <<task, outbox, held, batch>>
      /\ \/ pc'[r] = "advance" /\ stream' = stream \cup {new}
         \/ pc'[r] = "defer" /\ stream' \in {stream, stream \cup {new}}
      /\ \A q \in Replica \ {r} : pc'[q] = pc[q]
  BY DEF Publish, Goto, Inv, TypeOK
<1>d. /\ {"publish", "advance", "defer"} \subseteq Passing /\ Passing \subseteq Handling
      /\ Handling \cap (Attempting \cup {"begin"}) = {} /\ "settle" \notin Passing
  BY DEF Passing, Handling, Attempting
<1>2. Phases'
  BY <1>0, <1>1, <1>d DEF Phases, Knows
<1>s. \A q \in Replica : /\ pc'[q] \in Attempting <=> pc[q] \in Attempting
                         /\ pc'[q] \in Handling <=> pc[q] \in Handling
                         /\ pc'[q] \in Passing <=> pc[q] \in Passing
  BY <1>0, <1>1, <1>d
<1>b. new \in stream \/ (new = Flight /\ s = task.scan /\ held[r].next = task.next
                         /\ task.status # "completed")
  BY <1>0, <1>d DEF Behind, Flight
<1>3. Drawn'
  <2>1. s <= task.attempts
    BY DEF Drawn
  <2>2. \A x \in Scans : x > task.attempts => x # s
    BY <1>0, <2>1, Numbers, WorkAssumption DEF Scans
  <2> QED BY <1>1, <2>2 DEF Drawn
<1>4. Executing'
  <2>1. \A q \in Replica : pc[q] \in Attempting => held[q].scan # s
    BY <1>0, <1>d DEF Executing
  <2> QED BY <1>1, <1>s, <2>1 DEF Executing
<1>5. Agreeing'
  <2>n. new[1] = s /\ new[2] = held[r].next + 1 /\ new[2] <= batch[r].n
    BY <1>0 DEF Result
  <2>1. \A e \in stream' : e \in stream \/ (e[1] = s /\ e[2] <= batch[r].n)
    BY <1>1, <2>n
  <2>2. outbox[s] \in Result => outbox[s] = batch[r]
    BY <1>0, <1>d DEF Agreeing
  <2>3. \A q \in Replica : pc[q] \in Handling /\ held[q].scan = s => batch[q] = batch[r]
    BY <1>0, <1>d DEF Agreeing
  <2>4. \A e \in stream' : outbox[e[1]] \in Result => e[2] <= outbox[e[1]].n
    BY <2>1, <2>2 DEF Agreeing
  <2>5. \A q \in Replica : pc[q] \in Handling =>
          \A e \in stream' : e[1] = held[q].scan => e[2] <= batch[q].n
    BY <2>1, <2>3 DEF Agreeing
  <2> QED BY <1>1, <1>s, <2>4, <2>5 DEF Agreeing
<1>6. Behind'
  <2>1. \A q \in Replica : pc'[q] = "advance" => q = r \/ pc[q] = "advance"
    BY <1>1
  <2>2. pc'[r] = "advance" => new \in stream'
    BY <1>1
  <2>3. stream \subseteq stream'
    BY <1>1
  <2> QED BY <1>1, <1>s, <2>1, <2>2, <2>3 DEF Behind
<1>7. Indexed'
  <2>1. s = task.scan => task.status \in Out /\ held[r].next <= task.next
    BY <1>0, <1>d DEF Behind
  <2>2. s = task.scan => new[2] <= task.next + 1
    BY <1>0, <2>1, Numbers, WorkAssumption
  <2>3. \A e \in stream' : e \in stream \/ e = new
    BY <1>1
  <2>4. stream \subseteq stream'
    BY <1>1
  <2> QED BY <1>1, <2>1, <2>2, <2>3, <2>4 DEF Indexed, IndexIsPublished
<1>8. Accounted'
  <2>1. stream' \ {Flight} = stream \ {Flight} /\ Flight' = Flight
    BY <1>1, <1>b DEF Flight
  <2>2. task.status = "completed" => stream' = stream
    BY <1>1, <1>b
  <2>3. IsFiniteSet(stream')
    BY <1>1, FS_AddElement DEF Accounted
  <2> QED BY <1>1, <2>1, <2>2, <2>3 DEF Accounted
<1>9. Retried'
  BY <1>1 DEF Retried
<1> QED BY <1>2, <1>3, <1>4, <1>5, <1>6, <1>7, <1>8, <1>9

LEMMA MovesKeepEvidence ==
  ASSUME Inv, Evidence, NEW r \in Replica, Moves(r)
  PROVE  Evidence'
BY MoveKinds, LeavingKeeps, StayingKeeps, ResumingKeeps, SavingKeeps, PublishingKeeps

-----------------------------------------------------------------------------
(* The writes of the record                                                *)

\* The record the writer r held becomes t, and r goes on at "then", or its
\* reply is lost and it gives up.
Records(r, t, then) ==
  /\ task = held[r] /\ task' = t /\ UNCHANGED <<outbox, stream>> /\ Others(r)
  /\ \/ pc'[r] = then /\ held'[r] = t /\ batch'[r] = batch[r]
     \/ pc'[r] = "nak" /\ held'[r] = NoTask

\* The write counts no attempt, moves no index and accounts for no event.
SameCounts(t) ==
  t.scan = task.scan /\ t.attempts = task.attempts /\ t.next = task.next /\ t.emitted = task.emitted

LEMMA UpdateIsWriting ==
  ASSUME Inv, NEW r \in Replica, NEW t, NEW l, NEW b, NEW then, Update(r, t, l, b, then)
  PROVE  Records(r, t, then)
BY DEF Inv, TypeOK, FreshIsCurrent, Update, Abort, Records, Others

\* The only thing a Claim says of the record is that it is being executed.
Claims(r, t) ==
  /\ pc[r] = "claiming" /\ SameCounts(t)
  /\ t.status = task.status \/ (task.status = "absent" /\ t.status = "running")

Begins(r, t) ==
  /\ pc[r] = "begin" /\ task.attempts < MaxAttempts /\ t.status = "running"
  /\ t.attempts = task.attempts + 1 /\ t.scan = task.attempts + 1 /\ t.next = 0
  /\ t.emitted = task.emitted

Marks(r, t, then) ==
  /\ pc[r] = "publishing" /\ SameCounts(t) /\ t.status = "publishing"
  /\ \/ then = "settle" /\ task.next >= batch[r].n
     \/ then = "counting" /\ task.next < batch[r].n
     \/ then = "fail"

Passes(r, t, then) ==
  /\ pc[r] \in Passing /\ SameCounts(t) /\ t.status = task.status
  /\ then \in {"publish", "nak"}

Counts(r, t, then) ==
  /\ pc[r] = "advance" /\ t.status = task.status /\ t.scan = task.scan
  /\ t.attempts = task.attempts /\ t.next = task.next + 1 /\ t.emitted = task.emitted + 1
  /\ \/ then = "publish"
     \/ then = "settle" /\ task.next + 1 >= batch[r].n

Retries(r, t) ==
  /\ pc[r] = "settle" /\ task.attempts < MaxAttempts /\ t.status = "retry_wait"
  /\ t.scan = 0 /\ t.attempts = task.attempts /\ t.next = task.next /\ t.emitted = task.emitted

Ends(r, t) ==
  /\ pc[r] \in {"settle", "fail"} /\ SameCounts(t) /\ t.status \in Terminal
  /\ t.status = "completed" => pc[r] = "settle" /\ batch[r].err = "none"

WriteKind(r, t, then) ==
  \/ Claims(r, t) /\ then = "loading"
  \/ Begins(r, t) /\ then = "invoke"
  \/ Marks(r, t, then)
  \/ Passes(r, t, then)
  \/ Counts(r, t, then)
  \/ Retries(r, t) /\ then = "nak"
  \/ Ends(r, t) /\ then = "ack"

LEMMA WriteKinds ==
  ASSUME Inv, NEW r \in Replica, Writes(r)
  PROVE  \E t, then : Records(r, t, then) /\ WriteKind(r, t, then)
<1> DEFINE h == held[r]
<1>0. h \in Task /\ lease \in BOOLEAN /\ backoff \in BOOLEAN /\ batch[r] \in Saved
  BY DEF Inv, TypeOK
<1>p. Fits(pc[r], h, batch[r])
  BY DEF Inv, Places
<1>f. task = h
  BY DEF Writes, Claim, BeginAttempt, MarkPublishing, CountPass, Advance, Defer, Release,
         ScheduleRetry, Conclude, Fail, Finish, Update, Inv, FreshIsCurrent
<1>s. ASSUME NEW t, NEW l, NEW b, NEW then, Update(r, t, l, b, then), WriteKind(r, t, then)
      PROVE  \E u, place : Records(r, u, place) /\ WriteKind(r, u, place)
  BY <1>s, UpdateIsWriting
<1> USE DEF WriteKind, SameCounts
<1>1. CASE Claim(r)
  <2> DEFINE t == IF h.status = "absent" THEN NewTask ELSE [h EXCEPT !.owned = TRUE]
  <2>1. Claims(r, t)
    BY <1>0, <1>1, <1>p, <1>f DEF Claim, Claims, Task, NewTask, NoTask, Fits
  <2>2. Update(r, t, TRUE, backoff, "loading")
    BY <1>1 DEF Claim
  <2> HIDE DEF t
  <2> QED BY <1>s, <2>1, <2>2
<1>2. CASE BeginAttempt(r)
  <2> DEFINE t == [h EXCEPT !.status = "running", !.attempts = @ + 1,
                            !.scan = h.attempts + 1, !.pubAttempts = 0, !.next = 0]
  <2>1. h.attempts < MaxAttempts
    BY <1>2, <1>p DEF BeginAttempt, Fits
  <2>2. /\ t.status = "running" /\ t.attempts = h.attempts + 1 /\ t.scan = h.attempts + 1
        /\ t.next = 0 /\ t.emitted = h.emitted
    BY <1>0 DEF Task
  <2>3. Update(r, t, lease, FALSE, "invoke")
    BY <1>2 DEF BeginAttempt
  <2> HIDE DEF t
  <2>4. Begins(r, t)
    BY <1>2, <1>f, <2>1, <2>2 DEF BeginAttempt, Begins
  <2> QED BY <1>s, <2>3, <2>4
<1>3. CASE MarkPublishing(r)
  <2> DEFINE t == [h EXCEPT !.status = "publishing"]
             then == IF h.next >= batch[r].n THEN "settle"
                     ELSE IF h.pubAttempts >= MaxPublishAttempts THEN "fail" ELSE "counting"
  <2>1. t.status = "publishing" /\ SameCounts(t)
    BY <1>0, <1>f DEF Task
  <2>2. batch[r] \in Result
    BY <1>3, <1>p DEF MarkPublishing, Fits
  <2>3. ~(h.next >= batch[r].n) => h.next < batch[r].n
    BY <1>0, <2>2 DEF Task, Result
  <2>4. Update(r, t, lease, backoff, then)
    BY <1>3 DEF MarkPublishing
  <2> HIDE DEF t
  <2>5. Marks(r, t, then)
    BY <1>3, <1>f, <2>1, <2>3 DEF MarkPublishing, Marks
  <2> HIDE DEF then
  <2> QED BY <1>s, <2>4, <2>5
<1>4. CASE CountPass(r)
  <2> DEFINE t == [h EXCEPT !.pubAttempts = @ + 1]
  <2>1. SameCounts(t) /\ t.status = h.status
    BY <1>0, <1>f DEF Task
  <2>2. Update(r, t, lease, backoff, "publish")
    BY <1>4 DEF CountPass
  <2> HIDE DEF t
  <2>3. Passes(r, t, "publish")
    BY <1>4, <1>f, <2>1 DEF CountPass, Passes, Passing
  <2> QED BY <1>s, <2>2, <2>3
<1>5. CASE Advance(r)
  <2> DEFINE t == [h EXCEPT !.next = @ + 1, !.emitted = @ + 1]
             then == IF h.next + 1 < batch[r].n THEN "publish" ELSE "settle"
  <2>1. /\ t.status = h.status /\ t.scan = h.scan /\ t.attempts = h.attempts
        /\ t.next = h.next + 1 /\ t.emitted = h.emitted + 1
    BY <1>0 DEF Task
  <2>2. batch[r] \in Result
    BY <1>5, <1>p DEF Advance, Fits, Passing
  <2>3. ~(h.next + 1 < batch[r].n) => h.next + 1 >= batch[r].n
    BY <1>0, <2>2 DEF Task, Result
  <2>4. Update(r, t, lease, backoff, then)
    BY <1>5 DEF Advance
  <2> HIDE DEF t
  <2>5. Counts(r, t, then)
    BY <1>5, <1>f, <2>1, <2>3 DEF Advance, Counts
  <2> HIDE DEF then
  <2> QED BY <1>s, <2>4, <2>5
<1>6. CASE Defer(r) \/ Release(r)
  <2> DEFINE t == [h EXCEPT !.owned = FALSE]
  <2>1. SameCounts(t) /\ t.status = h.status
    BY <1>0, <1>f DEF Task
  <2>2. \E b : Update(r, t, FALSE, b, "nak")
    BY <1>6 DEF Defer, Release
  <2> HIDE DEF t
  <2>3. Passes(r, t, "nak")
    BY <1>6, <1>f, <2>1 DEF Defer, Release, Passes, Passing
  <2> QED BY <1>s, <2>2, <2>3
<1>7. CASE ScheduleRetry(r)
  <2> DEFINE t == [h EXCEPT !.status = "retry_wait", !.scan = 0, !.owned = FALSE]
  <2>1. /\ t.status = "retry_wait" /\ t.scan = 0 /\ t.attempts = h.attempts /\ t.next = h.next
        /\ t.emitted = h.emitted
    BY <1>0 DEF Task
  <2>2. Update(r, t, FALSE, TRUE, "nak")
    BY <1>7 DEF ScheduleRetry
  <2> HIDE DEF t
  <2>3. Retries(r, t)
    BY <1>7, <1>f, <2>1 DEF ScheduleRetry, RetryDue, Retries
  <2> QED BY <1>s, <2>2, <2>3
<1>8. CASE Conclude(r) \/ Fail(r)
  <2>1. PICK status \in Terminal :
          /\ Finish(r, status) /\ pc[r] \in {"settle", "fail"}
          /\ status = "completed" => pc[r] = "settle" /\ batch[r].err = "none"
    BY <1>8 DEF Conclude, Fail, Terminal
  <2> DEFINE t == [h EXCEPT !.status = status, !.owned = FALSE]
  <2>2. t.status = status /\ SameCounts(t)
    BY <1>0, <1>f DEF Task
  <2>3. Update(r, t, FALSE, FALSE, "ack")
    BY <2>1 DEF Finish
  <2> HIDE DEF t
  <2>4. Ends(r, t)
    BY <2>1, <2>2 DEF Ends
  <2> QED BY <1>s, <2>3, <2>4
<1> QED BY <1>1, <1>2, <1>3, <1>4, <1>5, <1>6, <1>7, <1>8 DEF Writes

\* While the writer handles the batch of the record's own execution, nobody still
\* executes for that record, and who handles the same execution has the same batch.
LEMMA WriterHandles ==
  ASSUME Inv, Evidence, NEW r \in Replica, held[r] = task, pc[r] \in Handling
  PROVE  /\ task.scan = task.attempts /\ task.scan \in Scans /\ batch[r] \in Result
         /\ \A q \in Replica : pc[q] \in Attempting => held[q].scan # task.attempts
         /\ \A q \in Replica : pc[q] \in Handling /\ held[q].scan = task.scan => batch[q] = batch[r]
         /\ task.next >= batch[r].n =>
              /\ Flight \notin stream
              /\ \A q \in Replica : pc[q] \in Passing /\ held[q].scan = task.scan =>
                   held[q].next # task.next
<1>0. task.scan \in Scans /\ Handling \cap Attempting = {}
  BY Numbers DEF Handling, Attempting, Passing
<1>1. task.scan = task.attempts
  BY <1>0, WorkAssumption DEF Evidence, Drawn, Scans
<1>2. batch[r] \in Result
  BY DEF Inv, Places, Fits, Handling
<1>3. \A q \in Replica : pc[q] \in Attempting => held[q].scan # task.attempts
  BY <1>0, <1>1 DEF Evidence, Executing
<1>4. \A q \in Replica : pc[q] \in Handling /\ held[q].scan = task.scan => batch[q] = batch[r]
  BY DEF Evidence, Agreeing
<1>5. ASSUME task.next >= batch[r].n, Flight \in stream PROVE FALSE
  <2>1. task.next + 1 <= batch[r].n
    BY <1>5 DEF Evidence, Agreeing, Flight
  <2> QED BY <1>2, <1>5, <2>1, Numbers DEF Result
<1>6. ASSUME task.next >= batch[r].n,
             NEW q \in Replica, pc[q] \in Passing, held[q].scan = task.scan, held[q].next = task.next
      PROVE  FALSE
  <2>1. held[q].next < batch[r].n
    BY <1>4, <1>6 DEF Inv, Places, Fits, Handling
  <2> QED BY <1>2, <1>6, <2>1, Numbers DEF Result
<1> QED BY <1>0, <1>1, <1>2, <1>3, <1>4, <1>5, <1>6

\* Where the replicas are after a write: r where the write sends it, or nowhere.
LEMMA AfterWrite ==
  ASSUME NEW r \in Replica, NEW t, NEW then, Records(r, t, then)
  PROVE  /\ task' = t /\ UNCHANGED <<outbox, stream>>
         /\ \A q \in Replica : pc'[q] \in Attempting \cup Handling \cup {"begin"} =>
              \/ q # r /\ pc'[q] = pc[q] /\ held'[q] = held[q] /\ batch'[q] = batch[q]
              \/ q = r /\ pc'[q] = then /\ held'[q] = t /\ batch'[q] = batch[q]
         /\ \A q \in Replica : held'[q] \in {held[q], t, NoTask}
BY DEF Records, Others, Attempting, Handling, Passing

\* A write that counts nothing only moves the record to another phase.
Rephases(r, t, then) ==
  \/ Claims(r, t) /\ then = "loading"
  \/ Marks(r, t, then)
  \/ Passes(r, t, then)
  \/ Ends(r, t) /\ then = "ack"

LEMMA RephasingKeeps ==
  ASSUME Inv, Evidence, NEW r \in Replica, NEW t, NEW then,
         Records(r, t, then), Rephases(r, t, then)
  PROVE  Evidence'
<1> USE DEF Evidence
<1>0. held[r] = task /\ Fits(pc[r], task, batch[r]) /\ Knows(pc[r], task, batch[r])
  BY DEF Records, Inv, Places, Phases
<1>1. /\ UNCHANGED <<outbox, stream>>
      /\ \A q \in Replica : pc'[q] \in Attempting \cup Handling \cup {"begin"} =>
              \/ q # r /\ pc'[q] = pc[q] /\ held'[q] = held[q] /\ batch'[q] = batch[q]
              \/ q = r /\ pc'[q] = then /\ held'[q] = t /\ batch'[q] = batch[q]
      /\ \A q \in Replica : held'[q] \in {held[q], t, NoTask}
      /\ task' = t
  BY AfterWrite
<1>2. t.scan = task.scan /\ t.attempts = task.attempts /\ t.next = task.next /\ t.emitted = task.emitted
  BY DEF Rephases, Claims, Marks, Passes, Ends, SameCounts
<1>d. /\ then \in {"loading", "settle", "counting", "fail", "publish", "nak", "ack"}
      /\ then \in Handling => pc[r] \in Handling
      /\ then \in Handling => then \in {"settle", "counting", "publish"}
      /\ {"loading", "settle", "counting", "fail", "publish", "nak", "ack"} \cap (Attempting \cup {"begin"}) = {}
      /\ Passing \subseteq Handling /\ "settle" \in Handling /\ "settle" \notin Passing
      /\ "publishing" \in Handling
  BY DEF Rephases, Claims, Marks, Passes, Ends, Handling, Passing, Attempting
<1>t. /\ task.status \in Out => t.status \in Out
      /\ then \in Passing \cup {"settle"} => t.status = "publishing"
      /\ then = "settle" => task.next >= batch[r].n
      /\ t.status = "retry_wait" => task.status = "retry_wait"
      /\ t.status = "completed" /\ task.status # "completed" =>
           pc[r] = "settle" /\ task.next >= batch[r].n
      /\ t.status # task.status /\ t.status \notin {"running", "failed"} => pc[r] \in Handling
  BY <1>0, <1>d DEF Rephases, Claims, Marks, Passes, Ends, Out, Terminal, Knows, Passing, Handling
<1> HIDE DEF Evidence
<1>w. ASSUME pc[r] \in Handling
      PROVE  /\ \A q \in Replica : pc[q] \in Attempting => held[q].scan # task.attempts
             /\ task.next >= batch[r].n =>
                  /\ Flight \notin stream
                  /\ \A q \in Replica : pc[q] \in Passing /\ held[q].scan = task.scan =>
                       held[q].next # task.next
  BY <1>0, <1>w, WriterHandles DEF Records
<1>n. task.scan <= task.attempts /\ NoTask.scan <= task.attempts
  BY Numbers, WorkAssumption DEF Evidence, Drawn, NoTask
<1>3. Phases'
  BY <1>1, <1>2, <1>d, <1>t DEF Evidence, Phases, Knows
<1>4. Drawn'
  BY <1>1, <1>2, <1>n DEF Evidence, Drawn
<1>5. Executing'
  <2>1. \A q \in Replica : pc'[q] \in Attempting =>
          q # r /\ pc[q] \in Attempting /\ held'[q] = held[q]
    BY <1>1, <1>d
  <2>2. \A q \in Replica : pc'[q] \in Handling => pc[q] \in Handling /\ held'[q].scan = held[q].scan
    BY <1>0, <1>1, <1>2, <1>d DEF Records
  <2>3. \A q \in Replica : pc[q] \in Attempting /\ held[q].scan = task.attempts =>
          task.status \in {"running", "failed"} /\ t.status \in {"running", "failed"}
    BY <1>t, <1>w DEF Evidence, Executing
  <2> QED BY <1>1, <1>2, <2>1, <2>2, <2>3 DEF Evidence, Executing
<1>6. Agreeing'
  <2>1. \A q \in Replica : pc'[q] \in Handling =>
          pc[q] \in Handling /\ held'[q].scan = held[q].scan /\ batch'[q] = batch[q]
    BY <1>0, <1>1, <1>2, <1>d DEF Records
  <2> QED BY <1>1, <2>1 DEF Evidence, Agreeing
<1>7. Behind'
  <2>1. ASSUME NEW q \in Replica, q # r, pc'[q] \in Passing
        PROVE  /\ held'[q].scan = t.scan => t.status \in Out /\ held'[q].next <= t.next
               /\ \/ <<held'[q].scan, held'[q].next + 1>> \in stream
                  \/ held'[q].scan = t.scan /\ held'[q].next = t.next /\ t.status # "completed"
               /\ pc'[q] = "advance" => <<held'[q].scan, held'[q].next + 1>> \in stream
    <3>1. pc'[q] = pc[q] /\ held'[q] = held[q]
      BY <1>1, <1>d, <2>1
    <3>2. held[q].scan = task.scan /\ held[q].next = task.next /\ task.status # "completed" =>
            t.status # "completed"
      BY <1>d, <1>t, <1>w, <2>1, <3>1
    <3> QED BY <1>2, <1>t, <2>1, <3>1, <3>2 DEF Evidence, Behind
  <2>2. ASSUME pc'[r] \in Passing
        PROVE  /\ held'[r] = t /\ t.status = "publishing" /\ pc'[r] # "advance"
               /\ t.next <= t.next
    BY <1>1, <1>2, <1>d, <1>t, <2>2, Numbers, WorkAssumption
  <2>3. {"publishing"} \subseteq Out /\ "publishing" # "completed"
    BY DEF Out
  <2> QED BY <1>1, <2>1, <2>2, <2>3 DEF Behind
<1>8. Indexed'
  BY <1>1, <1>2, <1>t DEF Evidence, Indexed, IndexIsPublished
<1>9. Accounted'
  BY <1>1, <1>2, <1>d, <1>t, <1>w DEF Evidence, Accounted, Flight
<1>10. Retried'
  BY <1>1, <1>2, <1>t DEF Evidence, Retried
<1> QED BY <1>3, <1>4, <1>5, <1>6, <1>7, <1>8, <1>9, <1>10 DEF Evidence

\* A new execution has a ScanID of its own: nothing is saved or published under it.
LEMMA BeginningKeeps ==
  ASSUME Inv, Evidence, NEW r \in Replica, NEW t, Records(r, t, "invoke"), Begins(r, t)
  PROVE  Evidence'
<1> DEFINE new == task.attempts + 1
<1>0. held[r] = task /\ task.status \in {"running", "retry_wait"}
  BY DEF Records, Begins, Evidence, Phases, Knows
<1>1. /\ UNCHANGED <<outbox, stream>>
      /\ \A q \in Replica : pc'[q] \in Attempting \cup Handling \cup {"begin"} =>
              \/ q # r /\ pc'[q] = pc[q] /\ held'[q] = held[q] /\ batch'[q] = batch[q]
              \/ q = r /\ pc'[q] = "invoke" /\ held'[q] = t /\ batch'[q] = batch[q]
      /\ \A q \in Replica : held'[q] \in {held[q], t, NoTask}
      /\ task' = t
  BY AfterWrite
<1>2. /\ t.scan = new /\ t.attempts = new /\ t.next = 0 /\ t.emitted = task.emitted
      /\ t.status = "running" /\ new \in Scans /\ new \in Nat /\ new > task.attempts /\ task.attempts \in Nat
  BY Numbers, WorkAssumption DEF Begins, Scans
<1>3. /\ outbox[new] = NoResult /\ \A e \in stream : e[1] # new
      /\ \A q \in Replica : held[q].scan # new
  <2>1. \A q \in Replica : held[q].scan <= task.attempts /\ held[q].scan \in Nat
    BY Numbers, WorkAssumption DEF Evidence, Drawn
  <2> QED BY <1>2, <2>1 DEF Evidence, Drawn
<1> HIDE DEF new
<1>d. /\ "invoke" \notin Handling \cup {"begin"} /\ Passing \subseteq Handling /\ "settle" \in Handling
      /\ Handling \cap Attempting = {} /\ {"running", "retry_wait"} \cap Out = {}
  BY DEF Handling, Passing, Attempting, Out
<1>h. \A q \in Replica : pc'[q] \in Handling \cup {"begin"} =>
        q # r /\ pc'[q] = pc[q] /\ held'[q] = held[q] /\ batch'[q] = batch[q]
  BY <1>1, <1>d
<1>4. Phases'
  BY <1>d, <1>h DEF Evidence, Phases, Knows
<1>5. Drawn'
  <2>1. \A q \in Replica : held[q].scan <= task.attempts /\ held[q].scan \in Nat
    BY Numbers, WorkAssumption DEF Evidence, Drawn
  <2>3. \A q \in Replica : held'[q].scan <= new
    BY <1>1, <1>2, <2>1 DEF NoTask
  <2>2. \A s \in Scans : s > new => s > task.attempts
    BY <1>2 DEF Scans
  <2> QED BY <1>1, <1>2, <2>2, <2>3 DEF Evidence, Drawn
<1>6. Executing'
  <2>1. \A q \in Replica : pc'[q] \in Attempting \cup Handling =>
          \/ q # r /\ pc[q] = pc'[q] /\ held'[q] = held[q]
          \/ q = r /\ held'[q] = t
    BY <1>1
  <2> QED BY <1>1, <1>2, <1>3, <2>1 DEF Evidence, Executing
<1>7. Agreeing'
  BY <1>1, <1>h DEF Evidence, Agreeing
<1>8. Behind'
  <2>1. \A q \in Replica : pc[q] \in Passing => held[q].scan # task.scan
    BY <1>0, <1>d DEF Evidence, Behind
  <2>2. \A q \in Replica : pc'[q] \in Passing =>
          pc'[q] = pc[q] /\ held'[q] = held[q]
    BY <1>d, <1>h
  <2> QED BY <1>1, <1>2, <1>3, <2>1, <2>2 DEF Evidence, Behind
<1>9. Indexed'
  BY <1>1, <1>2, <1>3 DEF Evidence, Indexed, IndexIsPublished
<1>10. Accounted'
  <2>1. Flight \notin stream /\ Flight' \notin stream
    BY <1>0, <1>1, <1>2, <1>3, <1>d DEF Evidence, Indexed, Flight
  <2>2. stream \ {Flight'} = stream \ {Flight}
    BY <2>1
  <2> QED BY <1>1, <1>2, <2>2 DEF Evidence, Accounted
<1>11. Retried'
  BY <1>1, <1>2 DEF Retried
<1> QED BY <1>4, <1>5, <1>6, <1>7, <1>8, <1>9, <1>10, <1>11 DEF Evidence

\* The index moves over the event in flight, and counts it.
LEMMA CountingKeeps ==
  ASSUME Inv, Evidence, NEW r \in Replica, NEW t, NEW then,
         Records(r, t, then), Counts(r, t, then)
  PROVE  Evidence'
<1>0. /\ held[r] = task /\ pc[r] = "advance" /\ task.status = "publishing" /\ task.scan \in Scans
      /\ Flight \in stream
  BY Numbers DEF Records, Counts, Evidence, Phases, Knows, Passing, Handling, Behind, Flight
<1>1. /\ UNCHANGED <<outbox, stream>>
      /\ \A q \in Replica : pc'[q] \in Attempting \cup Handling \cup {"begin"} =>
              \/ q # r /\ pc'[q] = pc[q] /\ held'[q] = held[q] /\ batch'[q] = batch[q]
              \/ q = r /\ pc'[q] = then /\ held'[q] = t /\ batch'[q] = batch[q]
      /\ \A q \in Replica : held'[q] \in {held[q], t, NoTask}
      /\ task' = t
  BY AfterWrite
<1>2. /\ t.scan = task.scan /\ t.attempts = task.attempts /\ t.next = task.next + 1
      /\ t.emitted = task.emitted + 1 /\ t.status = "publishing"
      /\ task.next \in Nat /\ task.emitted \in Nat
  BY <1>0, Numbers, WorkAssumption DEF Counts
<1>d. /\ then \in {"publish", "settle"} /\ "publish" \in Passing /\ "settle" \notin Passing
      /\ then = "settle" => t.next >= batch[r].n
      /\ Passing \subseteq Handling /\ {"advance", "settle"} \subseteq Handling
      /\ Handling \cap (Attempting \cup {"begin"}) = {} /\ "publishing" \in Out
  BY <1>2 DEF Counts, Handling, Passing, Attempting, Out
<1>n. task.scan <= task.attempts /\ NoTask.scan <= task.attempts
  BY Numbers, WorkAssumption DEF Evidence, Drawn, NoTask
<1>3. Phases'
  BY <1>1, <1>2, <1>d DEF Evidence, Phases, Knows
<1>4. Drawn'
  BY <1>1, <1>2, <1>n DEF Evidence, Drawn
<1>h. \A q \in Replica : pc'[q] \in Handling =>
        pc[q] \in Handling /\ held'[q].scan = held[q].scan /\ batch'[q] = batch[q]
  BY <1>0, <1>1, <1>2, <1>d
<1>5. Executing'
  <2>1. \A q \in Replica : pc'[q] \in Attempting =>
          q # r /\ pc[q] \in Attempting /\ held'[q] = held[q]
    BY <1>1, <1>d
  <2> QED BY <1>0, <1>1, <1>2, <1>h, <2>1 DEF Evidence, Executing
<1>6. Agreeing'
  BY <1>1, <1>h DEF Evidence, Agreeing
<1>7. Behind'
  <2>1. ASSUME NEW q \in Replica, q # r, pc'[q] \in Passing
        PROVE  /\ held'[q].scan = t.scan => held'[q].next <= t.next
               /\ <<held'[q].scan, held'[q].next + 1>> \in stream
    <3>1. pc[q] \in Passing /\ held'[q] = held[q] /\ held[q].next \in Nat
      BY <1>1, <1>d, <2>1, Numbers, WorkAssumption
    <3>2. held[q].scan = task.scan => held[q].next <= task.next
      BY <3>1 DEF Evidence, Behind
    <3>3. <<held[q].scan, held[q].next + 1>> \in stream
      BY <1>0, <3>1 DEF Evidence, Behind, Flight
    <3> QED BY <1>2, <3>1, <3>2, <3>3
  <2>2. ASSUME pc'[r] \in Passing
        PROVE  held'[r] = t /\ pc'[r] # "advance" /\ t.next <= t.next
    BY <1>1, <1>2, <1>d, <2>2
  <2> QED BY <1>1, <1>2, <1>d, <2>1, <2>2 DEF Behind
<1>8. Indexed'
  <2>1. \A k \in 1..t.next : k \in 1..task.next \/ k = task.next + 1
    BY <1>2
  <2>2. \A k \in 1..t.next : <<task.scan, k>> \in stream
    BY <1>0, <2>1, WorkAssumption DEF Evidence, Indexed, IndexIsPublished, Flight, Scans
  <2>3. \A e \in stream : e[1] = task.scan => e[2] <= t.next + 1
    BY <1>2, EventsTyped, WorkAssumption DEF Evidence, Indexed, Inv
  <2> QED BY <1>1, <1>2, <1>d, <2>2, <2>3 DEF Indexed, IndexIsPublished
<1>9. Accounted'
  <2>1. Flight' \notin stream
    BY <1>1, <1>2 DEF Evidence, Indexed, Flight
  <2>2. stream' \ {Flight'} = stream /\ stream = (stream \ {Flight}) \cup {Flight}
    BY <1>0, <1>1, <2>1
  <2>3. IsFiniteSet(stream \ {Flight}) /\ Flight \notin stream \ {Flight}
    BY FS_RemoveElement DEF Evidence, Accounted
  <2>4. Cardinality(stream) = Cardinality(stream \ {Flight}) + 1
    BY <2>2, <2>3, FS_AddElement
  <2> QED BY <1>1, <1>2, <2>2, <2>4 DEF Evidence, Accounted
<1>10. Retried'
  BY <1>1, <1>2 DEF Retried
<1> QED BY <1>3, <1>4, <1>5, <1>6, <1>7, <1>8, <1>9, <1>10 DEF Evidence

\* A retry lets go of an execution all of whose events are counted.
LEMMA RetryingKeeps ==
  ASSUME Inv, Evidence, NEW r \in Replica, NEW t, Records(r, t, "nak"), Retries(r, t)
  PROVE  Evidence'
<1>0. /\ held[r] = task /\ task.status = "publishing" /\ pc[r] = "settle" /\ pc[r] \in Handling
      /\ task.next >= batch[r].n
  BY DEF Records, Retries, Evidence, Phases, Knows, Handling
<1>1. /\ UNCHANGED <<outbox, stream>>
      /\ \A q \in Replica : pc'[q] \in Attempting \cup Handling \cup {"begin"} =>
              \/ q # r /\ pc'[q] = pc[q] /\ held'[q] = held[q] /\ batch'[q] = batch[q]
              \/ q = r /\ pc'[q] = "nak" /\ held'[q] = t /\ batch'[q] = batch[q]
      /\ \A q \in Replica : held'[q] \in {held[q], t, NoTask}
      /\ task' = t
  BY AfterWrite
<1>2. /\ t.scan = 0 /\ t.attempts = task.attempts /\ t.next = task.next
      /\ t.emitted = task.emitted /\ t.status = "retry_wait" /\ task.next \in Nat
  BY Numbers, WorkAssumption DEF Retries
<1>w. /\ task.scan = task.attempts /\ task.scan \in Scans /\ batch[r] \in Result
      /\ \A q \in Replica : pc[q] \in Attempting => held[q].scan # task.attempts
      /\ Flight \notin stream
      /\ \A q \in Replica : pc[q] \in Passing /\ held[q].scan = task.scan => held[q].next # task.next
  BY <1>0, WriterHandles
<1>d. /\ "nak" \notin Attempting \cup Handling \cup {"begin"} /\ Passing \subseteq Handling
      /\ "settle" \in Handling /\ 0 \notin Scans
  BY DEF Handling, Passing, Attempting, Scans
<1>h. \A q \in Replica : pc'[q] \in Attempting \cup Handling \cup {"begin"} =>
        pc'[q] = pc[q] /\ held'[q] = held[q] /\ batch'[q] = batch[q]
  BY <1>1, <1>d
<1>3. Phases'
  BY <1>d, <1>h DEF Evidence, Phases, Knows
<1>4. Drawn'
  <2>1. \A q \in Replica : held'[q].scan <= task.attempts
    BY <1>1, <1>2, Numbers, WorkAssumption DEF Evidence, Drawn, NoTask
  <2> QED BY <1>1, <1>2, <2>1 DEF Evidence, Drawn
<1>5. Executing'
  BY <1>1, <1>2, <1>h, <1>w DEF Evidence, Executing
<1>6. Agreeing'
  BY <1>1, <1>h DEF Evidence, Agreeing
<1>7. Behind'
  <2>1. \A q \in Replica : pc'[q] \in Passing =>
          pc[q] \in Passing /\ pc'[q] = pc[q] /\ held'[q] = held[q] /\ held[q].scan # 0
    BY <1>d, <1>h, Numbers
  <2> QED BY <1>1, <1>2, <1>w, <2>1 DEF Evidence, Behind
<1>8. Indexed'
  <2>1. \A e \in stream : e[1] # 0
    BY <1>d, EventsTyped DEF Inv
  <2> QED BY <1>1, <1>2, <2>1 DEF Indexed, IndexIsPublished
<1>9. Accounted'
  <2>1. Flight' \notin stream
    BY <1>1, <1>2, <1>d, EventsTyped DEF Inv, Flight
  <2>2. stream \ {Flight'} = stream \ {Flight}
    BY <1>w, <2>1
  <2> QED BY <1>1, <1>2, <2>2 DEF Evidence, Accounted
<1>10. Retried'
  <2>1. outbox[task.scan] \in Result => outbox[task.scan] = batch[r]
    BY <1>0 DEF Evidence, Agreeing
  <2>2. outbox[task.scan] \notin Result => outbox[task.scan].n = 0
    BY <1>w DEF Inv, TypeOK, Saved, NoResult, Garbled
  <2>3. \A k \in 1..outbox[task.scan].n : k \in 1..task.next
    BY <1>0, <1>2, <1>w, <2>1, <2>2 DEF Result
  <2>4. \A k \in 1..outbox[task.scan].n : <<task.scan, k>> \in stream
    BY <1>d, <1>w, <2>3 DEF Evidence, Indexed, IndexIsPublished
  <2> QED BY <1>1, <1>2, <1>w, <2>4, WorkAssumption DEF Retried, Scans
<1> QED BY <1>3, <1>4, <1>5, <1>6, <1>7, <1>8, <1>9, <1>10 DEF Evidence

LEMMA WritesKeepEvidence ==
  ASSUME Inv, Evidence, NEW r \in Replica, Writes(r)
  PROVE  Evidence'
<1>1. PICK t, then : Records(r, t, then) /\ WriteKind(r, t, then)
  BY WriteKinds
<1>2. CASE Begins(r, t) /\ then = "invoke"
  BY <1>1, <1>2, BeginningKeeps
<1>3. CASE Counts(r, t, then)
  BY <1>1, <1>3, CountingKeeps
<1>4. CASE Retries(r, t) /\ then = "nak"
  BY <1>1, <1>4, RetryingKeeps
<1>5. CASE Rephases(r, t, then)
  BY <1>1, <1>5, RephasingKeeps
<1> QED BY <1>1, <1>2, <1>3, <1>4, <1>5 DEF WriteKind, Rephases

-----------------------------------------------------------------------------
(* The invariant is inductive                                              *)

\* Damage takes a batch away or garbles it; it never makes one up.
LEMMA DamageKeeps ==
  ASSUME Inv, Evidence, NEW s \in Scans, DamageBatch(s)
  PROVE  Evidence'
<1>1. /\ UNCHANGED <<task, stream, pc, held, batch>> /\ outbox[s] \in Result
      /\ outbox'[s] \notin Result /\ outbox'[s].n = 0
      /\ \A x \in Scans \ {s} : outbox'[x] = outbox[x]
  BY NotSaved DEF DamageBatch, local, Inv, TypeOK, NoResult, Garbled, Result
<1>2. Phases' /\ Behind' /\ Indexed' /\ Accounted'
  BY <1>1 DEF Evidence, Phases, Behind, Indexed, IndexIsPublished, Accounted, Flight
<1>3. Drawn'
  BY <1>1, NotSaved DEF Evidence, Drawn
<1>4. Executing'
  <2>1. \A q \in Replica : pc[q] \in Attempting => held[q].scan \in Scans \ {s}
    BY <1>1, NotSaved, Numbers DEF Evidence, Executing
  <2> QED BY <1>1, <2>1 DEF Evidence, Executing
<1>5. Agreeing'
  <2>1. \A x \in Scans : outbox'[x] \in Result => outbox'[x] = outbox[x]
    BY <1>1
  <2>2. \A q \in Replica : pc[q] \in Handling => held[q].scan \in Scans
    BY Numbers
  <2>3. \A e \in stream : e[1] \in Scans
    BY EventsTyped DEF Inv
  <2> QED BY <1>1, <2>1, <2>2, <2>3 DEF Evidence, Agreeing
<1>6. Retried'
  <2> SUFFICES ASSUME task.status = "retry_wait" PROVE Retried'
    BY <1>1 DEF Retried
  <2>1. task.attempts \in Scans
    BY Numbers, WorkAssumption DEF Evidence, Retried, Scans
  <2> QED BY <1>1, <2>1 DEF Evidence, Retried
<1> QED BY <1>2, <1>3, <1>4, <1>5, <1>6 DEF Evidence

LEMMA UntouchedEvidence ==
  ASSUME Evidence, UNCHANGED <<task, outbox, stream, pc, held, batch>>
  PROVE  Evidence'
BY DEF Evidence, Phases, Drawn, Executing, Agreeing, Behind, Indexed, IndexIsPublished,
       Accounted, Flight, Retried

LEMMA NextEvidence == Inv /\ Evidence /\ [Next]_vars => Evidence'
<1> SUFFICES ASSUME Inv, Evidence, [Next]_vars PROVE Evidence'
  OBVIOUS
<1>1. ASSUME NEW r \in Replica, Moves(r) PROVE Evidence'
  BY <1>1, MovesKeepEvidence
<1>2. ASSUME NEW r \in Replica, Writes(r) PROVE Evidence'
  BY <1>2, WritesKeepEvidence
<1>3. ASSUME NEW r \in Replica, Heartbeat(r) PROVE Evidence'
  BY <1>3, UntouchedEvidence DEF Heartbeat, Inv, FreshIsCurrent
<1>4. CASE Environment
  <2>1. ASSUME NEW s \in Scans, DamageBatch(s) PROVE Evidence'
    BY <2>1, DamageKeeps
  <2>2. CASE ~\E s \in Scans : DamageBatch(s)
    <3>1. UNCHANGED <<task, outbox, stream, pc, held, batch>>
      BY <1>4, <2>2 DEF Environment, LeaseExpires, BackoffEnds, DeadlinePasses, Resume, Redeliver, local
    <3> QED BY <3>1, UntouchedEvidence
  <2> QED BY <2>1, <2>2
<1>5. CASE UNCHANGED vars
  BY <1>5, UntouchedEvidence DEF vars, durable, local
<1> QED BY <1>1, <1>2, <1>3, <1>4, <1>5, StepsSplit

\* Whether the event in flight is in the stream is all that separates what is
\* published from what is counted.
LEMMA Accounting ==
  ASSUME Inv, Evidence
  PROVE  Cardinality(stream) = IF Flight \in stream THEN task.emitted + 1 ELSE task.emitted
<1>1. IsFiniteSet(stream \ {Flight}) /\ Flight \notin stream \ {Flight}
  BY FS_RemoveElement DEF Evidence, Accounted
<1>2. CASE Flight \in stream
  <2>1. stream = (stream \ {Flight}) \cup {Flight}
    BY <1>2
  <2> QED BY <1>1, <1>2, <2>1, FS_AddElement DEF Evidence, Accounted
<1>3. CASE Flight \notin stream
  <2>1. stream = stream \ {Flight}
    BY <1>3
  <2> QED BY <1>3, <2>1 DEF Evidence, Accounted
<1> QED BY <1>2, <1>3

-----------------------------------------------------------------------------
(* The replicas keep the ledger                                            *)

LedgerStep == [Ledger!Next]_(Ledger!ledger)

LEMMA InitLedger == Init => Ledger!Init
BY FS_EmptySet DEF Init, NoTask, Ledger!Init

LEMMA StutterLedger ==
  ASSUME task' = task, stream' = stream
  PROVE  LedgerStep
BY DEF LedgerStep, Ledger!ledger

LEMMA PublishLedger ==
  ASSUME Inv, Evidence, NEW r \in Replica, task' = task, Publish(r)
  PROVE  LedgerStep
<1> DEFINE new == <<held[r].scan, held[r].next + 1>>
<1>1. pc[r] = "publish" /\ stream' \in {stream, stream \cup {new}}
  BY DEF Publish
<1>2. CASE stream' = stream
  BY <1>2, StutterLedger
<1>3. CASE stream' # stream
  <2>1. new \notin stream /\ stream' = stream \cup {new}
    BY <1>1, <1>3
  <2>2. new = Flight /\ task.status \in {"publishing", "failed"}
    BY <1>1, <2>1 DEF Evidence, Behind, Passing, Flight, Out
  <2>3. Cardinality(stream) = task.emitted
    BY <2>1, <2>2, Accounting
  <2>4. Cardinality(stream') = Cardinality(stream) + 1
    BY <2>1, FS_AddElement DEF Evidence, Accounted
  <2>5. Ledger!Publish
    BY <2>2, <2>3, <2>4 DEF Ledger!Publish, Ledger!Settled
  <2> QED BY <2>5 DEF LedgerStep, Ledger!Next
<1> QED BY <1>2, <1>3

LEMMA WriteLedger ==
  ASSUME Inv, Evidence, NEW r \in Replica, Writes(r)
  PROVE  LedgerStep
<1>1. PICK t, then : Records(r, t, then) /\ WriteKind(r, t, then)
  BY WriteKinds
<1>2. /\ task' = t /\ stream' = stream /\ held[r] = task
      /\ Fits(pc[r], task, batch[r]) /\ Knows(pc[r], task, batch[r])
  BY <1>1 DEF Records, Inv, Places, Evidence, Phases
<1>n. task \in Task /\ task.attempts \in Nat /\ task.emitted \in Nat
  BY Numbers, WorkAssumption DEF Inv, TypeOK
<1>s. Flight \in stream => task.status \in Out
  BY DEF Evidence, Indexed, Flight
<1>w. pc[r] = "settle" => Cardinality(stream) = task.emitted
  BY <1>2, WriterHandles, Accounting DEF Knows, Handling
<1>3. CASE Claims(r, t)
  <2>1. CASE t.status = task.status
    BY <1>2, <1>3, <2>1 DEF Claims, SameCounts, LedgerStep, Ledger!ledger
  <2>2. CASE task.status = "absent" /\ t.status = "running"
    <3>1. Ledger!Accept
      BY <1>2, <1>3, <2>2 DEF Claims, SameCounts, Ledger!Accept
    <3> QED BY <3>1 DEF LedgerStep, Ledger!Next
  <2> QED BY <1>3, <2>1, <2>2 DEF Claims
<1>4. CASE Begins(r, t)
  <2>1. task.status \in {"running", "retry_wait"}
    BY <1>2, <1>4 DEF Begins, Knows
  <2>2. Cardinality(stream) = task.emitted
    BY <1>s, <2>1, Accounting DEF Out
  <2>3. Ledger!Execute
    BY <1>2, <1>4, <2>1, <2>2 DEF Begins, Ledger!Execute, Ledger!Settled
  <2> QED BY <2>3 DEF LedgerStep, Ledger!Next
<1>5. CASE Marks(r, t, then)
  <2>1. task.scan # 0 /\ task.status \notin Terminal \cup {"absent"}
    BY <1>2, <1>5 DEF Marks, Fits, Leased, Writing
  <2>2. task.attempts > 0 /\ task.status \in {"running", "publishing"}
    BY <1>n, <2>1 DEF Evidence, Drawn, Retried, Task, Status, Terminal
  <2>3. CASE task.status = "publishing"
    BY <1>2, <1>5, <2>3 DEF Marks, SameCounts, LedgerStep, Ledger!ledger
  <2>4. CASE task.status = "running"
    <3>1. Ledger!Save
      BY <1>2, <1>5, <2>2, <2>4 DEF Marks, SameCounts, Ledger!Save
    <3> QED BY <3>1 DEF LedgerStep, Ledger!Next
  <2> QED BY <2>2, <2>3, <2>4
<1>6. CASE Passes(r, t, then)
  BY <1>2, <1>6 DEF Passes, SameCounts, LedgerStep, Ledger!ledger
<1>7. CASE Counts(r, t, then)
  <2>1. task.status = "publishing" /\ Flight \in stream
    BY <1>2, <1>7 DEF Counts, Knows, Passing, Evidence, Behind, Flight
  <2>2. Cardinality(stream) = task.emitted + 1
    BY <2>1, Accounting
  <2>3. Ledger!Count
    BY <1>2, <1>7, <2>1, <2>2 DEF Counts, Ledger!Count
  <2> QED BY <2>3 DEF LedgerStep, Ledger!Next
<1>8. CASE Retries(r, t)
  <2>1. Ledger!Retry
    BY <1>2, <1>8, <1>w DEF Retries, Knows, Ledger!Retry, Ledger!Settled
  <2> QED BY <2>1 DEF LedgerStep, Ledger!Next
<1>9. CASE Ends(r, t)
  <2>1. CASE t.status = "completed"
    <3>1. Ledger!Complete
      BY <1>2, <1>9, <1>w, <2>1 DEF Ends, SameCounts, Knows, Ledger!Complete, Ledger!Settled
    <3> QED BY <3>1 DEF LedgerStep, Ledger!Next
  <2>2. CASE t.status = "failed"
    <3>1. task.status \notin Terminal \cup {"absent"}
      BY <1>2, <1>9 DEF Ends, Fits, Leased, Writing
    <3>2. task.status \in {"running", "publishing", "retry_wait"}
      BY <1>n, <3>1 DEF Task, Status, Terminal
    <3>3. Ledger!GiveUp
      BY <1>2, <1>9, <2>2, <3>2 DEF Ends, SameCounts, Ledger!GiveUp
    <3> QED BY <3>3 DEF LedgerStep, Ledger!Next
  <2> QED BY <1>9, <2>1, <2>2 DEF Ends, Terminal
<1> QED BY <1>1, <1>3, <1>4, <1>5, <1>6, <1>7, <1>8, <1>9 DEF WriteKind

LEMMA NextLedger == Inv /\ Evidence /\ [Next]_vars => LedgerStep
<1> SUFFICES ASSUME Inv, Evidence, [Next]_vars PROVE LedgerStep
  OBVIOUS
<1>1. ASSUME NEW r \in Replica, Moves(r) PROVE LedgerStep
  <2>1. CASE Publish(r)
    BY <1>1, <2>1, MoveKinds, PublishLedger
  <2>2. CASE ~Publish(r)
    <3>1. task' = task /\ stream' = stream
      BY <1>1, <2>2, MoveKinds DEF Leaves, Stays, ResumeBatch, SaveBatch, durable
    <3> QED BY <3>1, StutterLedger
  <2> QED BY <2>1, <2>2
<1>2. ASSUME NEW r \in Replica, Writes(r) PROVE LedgerStep
  BY <1>2, WriteLedger
<1>3. ASSUME NEW r \in Replica, Heartbeat(r) PROVE LedgerStep
  BY <1>3, StutterLedger DEF Heartbeat, Inv, FreshIsCurrent
<1>4. CASE Environment
  <2>1. task' = task /\ stream' = stream
    BY <1>4 DEF Environment, LeaseExpires, BackoffEnds, DeadlinePasses, Resume, Redeliver, DamageBatch
  <2> QED BY <2>1, StutterLedger
<1>5. CASE UNCHANGED vars
  BY <1>5, StutterLedger DEF vars, durable
<1> QED BY <1>1, <1>2, <1>3, <1>4, <1>5, StepsSplit

-----------------------------------------------------------------------------
(* An outbox that keeps what it is given                                   *)

\* The batch a replica publishes is the one the outbox keeps for the execution.
Backed == \A r \in Replica : pc[r] \in Handling => outbox[held[r].scan] = batch[r]

Kept == Backed /\ PublishedWasSaved /\ CompletedIsPublished

LEMMA InitKept == Init => Kept
BY DEF Init, Kept, Backed, Handling, Passing, PublishedWasSaved, CompletedIsPublished, NoTask

LEMMA SavingStaysKept ==
  ASSUME Inv, Evidence, Kept, NEW r \in Replica, task' = task, Others(r), SaveBatch(r)
  PROVE  Kept'
<1> DEFINE s == held[r].scan
<1>0. s \in Scans /\ pc[r] \in Attempting /\ "nak" \notin Handling
  BY Numbers DEF SaveBatch, Attempting, Handling, Passing
<1>1. /\ stream' = stream /\ outbox'[s] = batch[r]
      /\ \A x \in Scans \ {s} : outbox'[x] = outbox[x]
      /\ \/ pc'[r] = "publishing" /\ held'[r] = held[r] /\ batch'[r] = batch[r]
         \/ pc'[r] = "nak"
  BY <1>0 DEF SaveBatch, Abort, Goto, Inv, TypeOK
<1>2. /\ \A e \in stream : e[1] # s
      /\ s = task.attempts => task.status # "completed"
      /\ \A q \in Replica \ {r} : pc[q] \in Handling => held[q].scan # s
  BY <1>0 DEF Evidence, Executing
<1>3. Backed'
  <2>1. \A q \in Replica \ {r} : pc'[q] \in Handling =>
          /\ pc[q] \in Handling /\ held'[q] = held[q] /\ batch'[q] = batch[q]
          /\ held[q].scan \in Scans \ {s}
    BY <1>2, Numbers DEF Others
  <2> QED BY <1>0, <1>1, <2>1 DEF Kept, Backed
<1>4. PublishedWasSaved'
  BY <1>1, <1>2, EventsTyped DEF Inv, Kept, PublishedWasSaved
<1>5. CompletedIsPublished'
  <2>1. task.status = "completed" => task.scan \in Scans \ {s}
    BY <1>0, <1>2, Numbers, WorkAssumption DEF Evidence, Drawn, Kept, CompletedIsPublished, Scans
  <2> QED BY <1>1, <2>1 DEF Kept, CompletedIsPublished
<1> QED BY <1>3, <1>4, <1>5 DEF Kept

LEMMA PublishingStaysKept ==
  ASSUME Inv, Evidence, Kept, NEW r \in Replica, task' = task, Publish(r)
  PROVE  Kept'
<1>1. /\ UNCHANGED <<outbox, held, batch>>
      /\ stream' \in {stream, stream \cup {<<held[r].scan, held[r].next + 1>>}}
      /\ \A q \in Replica : pc'[q] \in Handling => pc[q] \in Handling
  BY DEF Publish, Goto, Inv, TypeOK, Handling, Passing
<1>2. /\ outbox[held[r].scan] = batch[r] /\ batch[r] \in Result
      /\ held[r].next + 1 <= batch[r].n
  <2>1. pc[r] \in Passing /\ pc[r] \in Handling
    BY DEF Publish, Passing, Handling
  <2>2. batch[r] \in Result /\ held[r].next < batch[r].n /\ held[r].next \in 0..MaxOut
    BY <2>1, Numbers DEF Inv, Places, Fits
  <2> QED BY <2>1, <2>2 DEF Kept, Backed, Result
<1>3. Backed'
  BY <1>1 DEF Kept, Backed
<1>4. PublishedWasSaved'
  BY <1>1, <1>2 DEF Kept, PublishedWasSaved
<1>5. CompletedIsPublished'
  BY <1>1 DEF Kept, CompletedIsPublished
<1> QED BY <1>3, <1>4, <1>5 DEF Kept

LEMMA MovesStayKept ==
  ASSUME Inv, Evidence, Kept, NEW r \in Replica, Moves(r)
  PROVE  Kept'
<1>0. task' = task /\ Others(r)
  BY MoveKinds
<1>d. Attempting \cap Handling = {}
  BY DEF Attempting, Handling, Passing
<1>1. CASE Leaves(r) \/ Stays(r)
  BY <1>0, <1>1, <1>d
  DEF Leaves, Stays, Others, Kept, Backed, PublishedWasSaved, CompletedIsPublished
<1>2. CASE ResumeBatch(r)
  <2>1. /\ UNCHANGED <<outbox, stream, held>> /\ batch'[r] = outbox[held[r].scan]
    BY <1>2, NotSaved DEF ResumeBatch, Loaded, durable, Inv, TypeOK
  <2> QED BY <1>0, <2>1 DEF Others, Kept, Backed, PublishedWasSaved, CompletedIsPublished
<1> QED BY <1>0, <1>1, <1>2, MoveKinds, SavingStaysKept, PublishingStaysKept

LEMMA WritesStayKept ==
  ASSUME Inv, Evidence, Kept, NEW r \in Replica, Writes(r)
  PROVE  Kept'
<1>1. PICK t, then : Records(r, t, then) /\ WriteKind(r, t, then)
  BY WriteKinds
<1>2. /\ UNCHANGED <<outbox, stream>> /\ task' = t /\ held[r] = task
      /\ \A q \in Replica : pc'[q] \in Attempting \cup Handling \cup {"begin"} =>
              \/ q # r /\ pc'[q] = pc[q] /\ held'[q] = held[q] /\ batch'[q] = batch[q]
              \/ q = r /\ pc'[q] = then /\ held'[q] = t /\ batch'[q] = batch[q]
  BY <1>1, AfterWrite DEF Records
<1>3. Backed'
  <2>1. then \in Handling => pc[r] \in Handling /\ t.scan = task.scan
    BY <1>1 DEF WriteKind, Claims, Begins, Marks, Passes, Counts, Retries, Ends, SameCounts,
                Handling, Passing
  <2> QED BY <1>2, <2>1 DEF Kept, Backed
<1>4. CompletedIsPublished'
  <2> SUFFICES ASSUME t.status = "completed" PROVE CompletedIsPublished'
    BY <1>2 DEF CompletedIsPublished
  <2>1. CASE Ends(r, t)
    <3>1. /\ pc[r] = "settle" /\ pc[r] \in Handling /\ batch[r].err = "none"
          /\ t.scan = task.scan
      BY <2>1 DEF Ends, SameCounts, Handling
    <3>2. /\ batch[r] \in Result /\ task.scan \in Scans /\ task.next >= batch[r].n
      BY <1>2, <3>1, WriterHandles DEF Evidence, Phases, Knows
    <3>3. outbox[task.scan] = batch[r]
      BY <1>2, <3>1 DEF Kept, Backed
    <3>4. \A k \in 1..batch[r].n : k \in 1..task.next
      BY <3>2, Numbers DEF Result
    <3>5. \A k \in 1..batch[r].n : <<task.scan, k>> \in stream
      BY <3>2, <3>4, WorkAssumption DEF Evidence, Indexed, IndexIsPublished, Scans
    <3> QED BY <1>2, <3>1, <3>2, <3>3, <3>5, WorkAssumption DEF CompletedIsPublished, Scans
  <2>2. CASE ~Ends(r, t)
    <3>1. t.status = task.status /\ task.status \notin Terminal
      BY <1>1, <1>2, <2>2, WritesAreSound
      DEF WriteKind, Claims, Begins, Marks, Passes, Counts, Retries, Inv, SoundWrite, Sound
    <3> QED BY <3>1 DEF Terminal
  <2> QED BY <2>1, <2>2
<1> QED BY <1>2, <1>3, <1>4 DEF Kept, PublishedWasSaved

LEMMA NextKept == DamageAt = {} /\ Inv /\ Evidence /\ Kept /\ [Next]_vars => Kept'
<1> SUFFICES ASSUME DamageAt = {}, Inv, Evidence, Kept, [Next]_vars PROVE Kept'
  OBVIOUS
<1>u. ASSUME UNCHANGED <<task, outbox, stream, pc, held, batch>> PROVE Kept'
  BY <1>u DEF Kept, Backed, PublishedWasSaved, CompletedIsPublished
<1>1. ASSUME NEW r \in Replica, Moves(r) PROVE Kept'
  BY <1>1, MovesStayKept
<1>2. ASSUME NEW r \in Replica, Writes(r) PROVE Kept'
  BY <1>2, WritesStayKept
<1>3. ASSUME NEW r \in Replica, Heartbeat(r) PROVE Kept'
  BY <1>3, <1>u DEF Heartbeat, Inv, FreshIsCurrent
<1>4. CASE Environment
  <2>1. \A s \in Scans : ~DamageBatch(s)
    BY DEF DamageBatch
  <2>2. UNCHANGED <<task, outbox, stream, pc, held, batch>>
    BY <1>4, <2>1 DEF Environment, LeaseExpires, BackoffEnds, DeadlinePasses, Resume, Redeliver, local
  <2> QED BY <1>u, <2>2
<1>5. CASE UNCHANGED vars
  BY <1>5, <1>u DEF vars, durable, local
<1> QED BY <1>1, <1>2, <1>3, <1>4, <1>5, StepsSplit

-----------------------------------------------------------------------------
(* Theorems: the EVENTS stream                                             *)

THEOREM EvidenceInvariance == Spec => []Evidence
BY Invariance, InitEvidence, NextEvidence, PTL DEF Spec

\* NextOutput never runs ahead of the EVENTS stream: whichever owner moved it, and
\* whatever became of the saved batch, every event below it has been published.
THEOREM IndexFollowsStream == Spec => []IndexIsPublished
<1>1. Evidence => IndexIsPublished
  BY DEF Evidence, Indexed
<1> QED BY EvidenceInvariance, <1>1, PTL

\* Task.Emitted misses at most the event in flight and counts none twice, over all
\* attempts, owners and republications; a completed task's count is exact.
THEOREM EvidenceCount == Spec => []EvidenceIsCounted
<1>1. Inv /\ Evidence => EvidenceIsCounted
  BY Accounting DEF Evidence, Accounted, EvidenceIsCounted
<1> QED BY Invariance, EvidenceInvariance, <1>1, PTL

\* beginAttempt never counts an attempt for a record that is publishing, and after
\* a scheduled retry only when all that the previous attempt saved is in the stream.
THEOREM RerunsFollowPublication == Spec => RerunOnlyAfterPublishing
<1> DEFINE Rerun ==
      task'.attempts # task.attempts =>
        /\ task.status # "publishing"
        /\ task.status = "retry_wait" =>
             \A k \in 1..outbox[task.attempts].n : <<task.attempts, k>> \in stream
<1>1. Inv /\ Evidence /\ [Next]_vars => [Rerun]_vars
  <2> SUFFICES ASSUME Inv, Evidence, [Next]_vars, task'.attempts # task.attempts
               PROVE  /\ task.status # "publishing"
                      /\ task.status = "retry_wait" =>
                           \A k \in 1..outbox[task.attempts].n : <<task.attempts, k>> \in stream
    OBVIOUS
  <2>1. ASSUME NEW r \in Replica, Moves(r) PROVE FALSE
    BY <2>1, MoveKinds
  <2>2. ASSUME NEW r \in Replica, Writes(r) PROVE task.status \in {"running", "retry_wait"}
    <3>1. PICK t, then : Records(r, t, then) /\ WriteKind(r, t, then)
      BY <2>2, WriteKinds
    <3>2. Begins(r, t)
      BY <3>1 DEF Records, WriteKind, Claims, Marks, Passes, Counts, Retries, Ends, SameCounts
    <3> QED BY <3>1, <3>2 DEF Records, Begins, Evidence, Phases, Knows
  <2>3. ASSUME NEW r \in Replica, Heartbeat(r) PROVE FALSE
    BY <2>3 DEF Heartbeat, Inv, FreshIsCurrent
  <2>4. ~Environment
    BY EnvironmentTyped DEF Inv
  <2>5. task.status \in {"running", "retry_wait"}
    BY <2>1, <2>2, <2>3, <2>4, StepsSplit DEF vars, durable
  <2> QED BY <2>5 DEF Evidence, Retried
<1> QED BY Invariance, EvidenceInvariance, <1>1, PTL DEF Spec, RerunOnlyAfterPublishing

\* Every step of the replicas, of the stores and of their failures is a step of
\* TaskLedger or changes nothing it shows: the ledger of src/sdk/WORKFLOW.md is kept.
THEOREM LedgerIsKept == Spec => KeepsTheLedger
<1> SUFFICES Spec => Ledger!Spec
  BY DEF KeepsTheLedger
<1>1. Inv /\ Evidence /\ [Next]_vars => [Ledger!Next]_(Ledger!ledger)
  BY NextLedger DEF LedgerStep
<1> QED BY Invariance, EvidenceInvariance, InitLedger, <1>1, PTL DEF Spec, Ledger!Spec

\* As long as the outbox keeps what it is given: every event in the stream is in the
\* batch saved for its execution, whoever published it (publishResult).
THEOREM SavedBeforePublished ==
  ASSUME DamageAt = {}
  PROVE  Spec => []PublishedWasSaved
<1>1. Kept => PublishedWasSaved
  BY DEF Kept
<1> QED BY Invariance, EvidenceInvariance, InitKept, NextKept, <1>1, PTL DEF Spec

\* As long as the outbox keeps what it is given: finish marks a task completed only
\* when an execution without error has its whole batch in the stream.
THEOREM CompletedMeansPublished ==
  ASSUME DamageAt = {}
  PROVE  Spec => []CompletedIsPublished
<1>1. Kept => CompletedIsPublished
  BY DEF Kept
<1> QED BY Invariance, EvidenceInvariance, InitKept, NextKept, <1>1, PTL DEF Spec

=============================================================================
