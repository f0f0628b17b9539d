----------------------------- MODULE SinksProofs -----------------------------
(***************************************************************************)
(* What holds of Sinks for any events, processes, attempts and crashes, in *)
(* each of its modes, as long as no write is cut short.                    *)
(***************************************************************************)
EXTENDS Sinks, FiniteSetTheorems, TLAPS

WholeLine == [event : Events, whole : {TRUE}]
Places    == {"append", "sync", "read", "rename", "done", "post"}
Handled   == [proc : Procs, event : Events \cup {NoEvent}, at : Places, view : SUBSET Events,
              live : BOOLEAN]

\* The events of the first k lines, and of those a crash of the machine leaves.
Lines(k) == {file[i].event : i \in 1..k}
Kept     == Lines(synced)

-----------------------------------------------------------------------------
(* The inductive invariants                                                *)

Types ==
  /\ file \in Seq(WholeLine) /\ synced \in 0..Len(file)
  /\ html \subseteq Events /\ received \subseteq Events
  /\ status \in [Events -> {"ready", "running", "completed", "failed"}]
  /\ attempts \in [Events -> 0..MaxAttempts]
  /\ handlers \subseteq Handled /\ up \subseteq Procs

\* A startup appends nothing; who has nothing to append posts, and the other way round.
Courses ==
  \A h \in handlers :
    /\ h.event = NoEvent => h.at \in {"read", "rename", "done"}
    /\ h.at = "post" <=> Mode = "api"
    /\ h.at \in {"read", "rename"} => Mode = "html"

\* What is completed, and what only remains to be shown, was synced.
Saved ==
  /\ Completed \subseteq IF Mode = "api" THEN received ELSE Kept
  /\ \A h \in handlers : h.event # NoEvent =>
       /\ h.at = "sync" => h.event \in Lines(Len(file))
       /\ h.at \in {"read", "rename", "done"} => h.event \in Kept

\* The page is built by one process, one handler at a time.
SerialBuilds ==
  /\ Mode = "html" /\ MaxPending = 1 /\ ~Stalls
  /\ \A p, q \in Procs : p = q

\* There is one handler, and the page is as new as what was completed when it read.
Serial ==
  /\ \A g, h \in handlers : g = h
  /\ \A h \in handlers :
       /\ h.live /\ (h.event = NoEvent <=> h.proc \notin up)
       /\ h.event # NoEvent => status[h.event] = "running"
       /\ h.at = "rename" => Completed \subseteq h.view /\ {h.event} \ {NoEvent} \subseteq h.view
       /\ h.at = "done" => Completed \subseteq html /\ {h.event} \ {NoEvent} \subseteq html
  /\ up # {} => Completed \subseteq html

Inv == Types /\ Courses /\ Saved /\ (SerialBuilds => Serial)

-----------------------------------------------------------------------------
(* Lines                                                                   *)

LEMMA WholeLinesAreWritten ==
  ASSUME Types
  PROVE  Readable /\ Written = Lines(Len(file)) /\ Kept \subseteq Lines(Len(file))
         /\ Lines(Len(file)) \subseteq Events
<1>1. \A i \in 1..Len(file) : file[i] \in WholeLine
  BY DEF Types
<1>2. DOMAIN file = 1..Len(file) /\ synced \in 0..Len(file) /\ Len(file) \in Nat
  BY DEF Types
<1>3. \A i \in 1..Len(file) : file[i].whole = TRUE /\ file[i].event \in Events
  BY <1>1 DEF WholeLine
<1>4. {i \in DOMAIN file : file[i].whole} = 1..Len(file)
  BY <1>2, <1>3
<1>5. Written = Lines(Len(file))
  BY <1>4 DEF Written, Lines
<1> QED BY <1>2, <1>3, <1>5 DEF Readable, Kept, Lines

\* A line that is appended whole stays whole, as no line before it is torn.
LEMMA AppendedIsWhole ==
  ASSUME Types, NEW e \in Events
  PROVE  Appended(e, TRUE) = Append(file, [event |-> e, whole |-> TRUE])
<1>1. file = <<>> \/ file[Len(file)].whole = TRUE
  <2>1. CASE file # <<>>
    <3>1. Len(file) \in 1..Len(file)
      BY <2>1 DEF Types
    <3>2. file[Len(file)] \in WholeLine
      BY <3>1 DEF Types
    <3> QED BY <3>2 DEF WholeLine
  <2> QED BY <2>1
<1>2. (TRUE /\ (file = <<>> \/ file[Len(file)].whole)) = TRUE
  BY <1>1
<1> QED BY <1>2 DEF Appended, Line

\* It follows the others.
LEMMA AppendedFollows ==
  ASSUME Types, NEW e \in Events, file' = Append(file, [event |-> e, whole |-> TRUE]),
         synced' = synced
  PROVE  /\ file' \in Seq(WholeLine) /\ synced' \in 0..Len(file')
         /\ Kept' = Kept /\ Lines(Len(file)) \subseteq Lines(Len(file))'
         /\ e \in Lines(Len(file))'
<1> DEFINE l == [event |-> e, whole |-> TRUE]
<1>3. file' = Append(file, l)
  OBVIOUS
<1>4. l \in WholeLine /\ l.event = e
  BY DEF WholeLine
<1> HIDE DEF l
<1>6. file \in Seq(WholeLine) /\ synced \in 0..Len(file) /\ Len(file) \in Nat
  BY DEF Types
<1>5. /\ file' \in Seq(WholeLine) /\ Len(file') = Len(file) + 1 /\ file'[Len(file) + 1] = l
      /\ \A i \in 1..Len(file) : file'[i] = file[i]
  BY <1>3, <1>4, <1>6
<1>7. \A i \in 1..synced : i \in 1..Len(file)
  BY <1>6
<1>8. Kept' = Kept
  BY <1>5, <1>7 DEF Kept, Lines
<1>9. Lines(Len(file)) \subseteq Lines(Len(file))'
  <2>1. \A i \in 1..Len(file) : i \in 1..Len(file') /\ file'[i] = file[i]
    BY <1>5, <1>6
  <2> QED BY <2>1 DEF Lines
<1>10. e \in Lines(Len(file))'
  <2>1. Len(file) + 1 \in 1..Len(file') /\ file'[Len(file) + 1].event = e
    BY <1>4, <1>5, <1>6
  <2> QED BY <2>1 DEF Lines
<1> QED BY <1>5, <1>6, <1>8, <1>9, <1>10

-----------------------------------------------------------------------------
(* The steps of a handler                                                  *)

\* The handler h takes the place of g, and nothing else becomes of the tasks.
Replaces(g, h) ==
  /\ handlers' = (handlers \ {g}) \cup {h} /\ h \in Handled
  /\ h.proc = g.proc /\ h.event = g.event /\ h.live = g.live
  /\ UNCHANGED <<status, attempts, up, crashes>>

LEMMA StepReplaces ==
  ASSUME Types, NEW h \in handlers, NEW at \in Places, Step(h, at),
         UNCHANGED <<status, attempts, up, crashes>>
  PROVE  \E g : Replaces(h, g) /\ g.at = at /\ g.view = h.view
<1> DEFINE g == [h EXCEPT !.at = at]
<1>1. h \in Handled
  BY DEF Types
<1>2. g \in Handled /\ g.proc = h.proc /\ g.event = h.event /\ g.live = h.live /\ g.at = at
      /\ g.view = h.view
  BY <1>1 DEF Handled
<1>3. handlers' = (handlers \ {h}) \cup {g}
  BY DEF Step
<1> HIDE DEF g
<1> QED BY <1>2, <1>3 DEF Replaces

\* A handler goes on: what it wrote, read or showed is as its place says.
LEMMA ReplacingKeeps ==
  ASSUME SinkAssumption, Inv, NEW h \in handlers, NEW g, Replaces(h, g),
         file' \in Seq(WholeLine), synced' \in 0..Len(file'), html' \subseteq Events,
         received' = received, Kept \subseteq Kept',
         Lines(Len(file)) \subseteq Lines(Len(file))',
         g.event = NoEvent => g.at \in {"read", "rename", "done"},
         g.at # "post", Mode # "api", g.at \in {"read", "rename"} => Mode = "html",
         g.event # NoEvent =>
           /\ g.at = "sync" => g.event \in Lines(Len(file))'
           /\ g.at \in {"read", "rename", "done"} => g.event \in Kept',
         html' = html \/ (SerialBuilds => Completed \subseteq html'),
         SerialBuilds =>
           /\ g.at = "rename" => Completed \subseteq g.view /\ {g.event} \ {NoEvent} \subseteq g.view
           /\ g.at = "done" => Completed \subseteq html' /\ {g.event} \ {NoEvent} \subseteq html'
  PROVE  Inv'
<1>1. Completed' = Completed
  BY DEF Replaces, Completed
<1>2. Types'
  BY DEF Inv, Types, Replaces
<1>3. Courses'
  BY DEF Inv, Courses, Replaces
<1>4. Saved'
  BY <1>1 DEF Inv, Saved, Replaces
<1>5. ASSUME SerialBuilds PROVE Serial'
  <2>1. handlers' = {g} /\ handlers = {h}
    BY <1>5 DEF Inv, Serial, Replaces
  <2> QED BY <1>1, <1>5, <2>1 DEF Inv, Serial, Replaces
<1> QED BY <1>2, <1>3, <1>4, <1>5 DEF Inv, SerialBuilds

\* A handler returns: completed if its event is delivered and, where one handler is at
\* work, shown.
LEMMA ReturningKeeps ==
  ASSUME SinkAssumption, Inv, NEW h \in handlers,
         NEW outcome \in {"ready", "completed", "failed"}, HandlerReturns(h, outcome),
         UNCHANGED <<file, synced, html>>, received \subseteq received', received' \subseteq Events,
         outcome = "completed" =>
           IF Mode = "api" THEN h.event \in received' ELSE h.at = "done"
  PROVE  Inv'
<1>0. h \in Handled /\ handlers' = handlers \ {h} /\ UNCHANGED <<attempts, crashes>>
  BY DEF Inv, Types, HandlerReturns
<1>1. Kept' = Kept /\ Lines(Len(file))' = Lines(Len(file))
  BY DEF Kept, Lines
<1>2. /\ status' \in [Events -> {"ready", "running", "completed", "failed"}]
      /\ \A e \in Events : e # h.event => status'[e] = status[e]
      /\ Completed' \subseteq
           Completed \cup (IF outcome = "completed" THEN {h.event} \ {NoEvent} ELSE {})
  <2>1. CASE h.live /\ h.event # NoEvent
    <3>1. h.event \in Events /\ status' = [status EXCEPT ![h.event] = outcome]
      BY <1>0, <2>1 DEF HandlerReturns, Handled
    <3> QED BY <2>1, <3>1 DEF Inv, Types, Completed
  <2>2. CASE ~(h.live /\ h.event # NoEvent)
    BY <2>2 DEF HandlerReturns, Inv, Types, Completed
  <2> QED BY <2>1, <2>2
<1>3. Types'
  BY <1>0, <1>2 DEF Inv, Types, HandlerReturns, Handled
<1>4. Courses'
  BY <1>0 DEF Inv, Courses
<1>5. Saved'
  <2>1. Completed' \subseteq IF Mode = "api" THEN received' ELSE Kept'
    BY <1>1, <1>2 DEF Inv, Saved
  <2> QED BY <1>0, <1>1, <2>1 DEF Inv, Saved
<1>6. ASSUME SerialBuilds PROVE Serial'
  <2>1. handlers' = {}
    BY <1>0, <1>6 DEF Inv, Serial
  <2>2. ASSUME up' # {} PROVE Completed' \subseteq html'
    <3>1. CASE outcome = "completed"
      <4>1. h.at = "done"
        BY <1>6, <3>1 DEF SerialBuilds
      <4> QED BY <1>2, <1>6, <4>1 DEF Inv, Serial
    <3>2. CASE outcome # "completed"
      <4>1. up' = up
        BY <3>2 DEF HandlerReturns
      <4> QED BY <1>2, <1>6, <2>2, <3>2, <4>1 DEF Inv, Serial
    <3> QED BY <3>1, <3>2
  <2> QED BY <2>1, <2>2 DEF Serial
<1> QED BY <1>3, <1>4, <1>5, <1>6 DEF Inv, SerialBuilds

LEMMA DeliverKeeps ==
  ASSUME SinkAssumption, ~Tears, Inv, NEW h \in handlers, Deliver(h)
  PROVE  Inv'
<1>0. h \in Handled
  BY DEF Inv, Types
<1>l. /\ Readable /\ Written = Lines(Len(file)) /\ Kept \subseteq Lines(Len(file))
      /\ Lines(Len(file)) \subseteq Events
  BY WholeLinesAreWritten DEF Inv
<1>1. CASE AppendLine(h)
  <2>1. /\ h.at = "append" /\ file' = Appended(h.event, TRUE) /\ Step(h, "sync")
        /\ UNCHANGED <<synced, html, received, status, attempts, up, crashes>>
    BY <1>1 DEF AppendLine
  <2>2. h.event # NoEvent /\ h.event \in Events /\ Mode # "api"
    BY <1>0, <2>1 DEF Inv, Courses, Handled
  <2>3. /\ file' \in Seq(WholeLine) /\ synced' \in 0..Len(file') /\ Kept' = Kept
        /\ Lines(Len(file)) \subseteq Lines(Len(file))' /\ h.event \in Lines(Len(file))'
    BY <2>1, <2>2, AppendedIsWhole, AppendedFollows DEF Inv
  <2>4. PICK g : Replaces(h, g) /\ g.at = "sync" /\ g.view = h.view
    BY <2>1, StepReplaces DEF Inv, Places
  <2>5. g.event = h.event
    BY <2>4 DEF Replaces
  <2> QED BY <2>1, <2>2, <2>3, <2>4, <2>5, ReplacingKeeps DEF Inv, Types
<1>2. CASE AppendFails(h)
  <2>1. HandlerReturns(h, "failed") /\ UNCHANGED <<file, synced, html, received>>
    BY <1>2 DEF AppendFails
  <2> QED BY <2>1, ReturningKeeps DEF Inv, Types
<1>3. CASE Sync(h)
  <2> DEFINE at == IF Mode = "html" THEN "read" ELSE "done"
  <2>1. /\ h.at = "sync" /\ synced' = Len(file) /\ Step(h, at)
        /\ UNCHANGED <<file, html, received, status, attempts, up, crashes>>
    BY <1>3 DEF Sync
  <2>2. h.event # NoEvent /\ Mode # "api" /\ h.event \in Lines(Len(file))
    BY <2>1 DEF Inv, Courses, Saved
  <2>3. Kept' = Lines(Len(file)) /\ Lines(Len(file))' = Lines(Len(file))
    BY <2>1 DEF Kept, Lines
  <2>4. PICK g : Replaces(h, g) /\ g.at = at /\ g.view = h.view
    BY <2>1, StepReplaces DEF Inv, Places
  <2>5. g.event = h.event
    BY <2>4 DEF Replaces
  <2>6. file' \in Seq(WholeLine) /\ synced' \in 0..Len(file')
    BY <2>1 DEF Inv, Types
  <2>7. /\ g.at # "post" /\ g.at # "sync" /\ g.at # "rename" /\ (g.at = "done" => Mode # "html")
        /\ (g.at = "read" => Mode = "html") /\ html' = html /\ received' = received
    BY <2>1, <2>4
  <2> QED BY <1>l, <2>2, <2>3, <2>4, <2>5, <2>6, <2>7, ReplacingKeeps DEF Inv, Types, SerialBuilds
<1>4. CASE Read(h)
  <2> DEFINE g == [[h EXCEPT !.at = "rename"] EXCEPT !.view = Written]
  <2>1. /\ h.at = "read" /\ handlers' = (handlers \ {h}) \cup {g}
        /\ UNCHANGED <<file, synced, html, received, status, attempts, up, crashes>>
    BY <1>0, <1>4, <1>l DEF Read, disk, Handled
  <2>2. /\ g \in Handled /\ g.proc = h.proc /\ g.event = h.event /\ g.live = h.live
        /\ g.at = "rename" /\ g.view = Written
    BY <1>0, <1>l DEF Handled, Places
  <2> HIDE DEF g
  <2>3. Replaces(h, g)
    BY <2>1, <2>2 DEF Replaces
  <2>4. Mode = "html" /\ (h.event # NoEvent => h.event \in Kept)
    BY <2>1 DEF Inv, Courses, Saved
  <2>5. Kept' = Kept /\ Lines(Len(file))' = Lines(Len(file))
    BY <2>1 DEF Kept, Lines
  <2>6. Completed \subseteq Kept
    BY <2>4 DEF Inv, Saved
  <2> QED BY <1>l, <2>1, <2>2, <2>3, <2>4, <2>5, <2>6, ReplacingKeeps DEF Inv, Types
<1>5. CASE Rename(h)
  <2>1. /\ h.at = "rename" /\ html' = h.view /\ Step(h, "done")
        /\ UNCHANGED <<file, synced, received, status, attempts, up, crashes>>
    BY <1>5 DEF Rename
  <2>2. PICK g : Replaces(h, g) /\ g.at = "done" /\ g.view = h.view
    BY <2>1, StepReplaces DEF Inv, Places
  <2>3. g.event = h.event
    BY <2>2 DEF Replaces
  <2>4. Mode = "html" /\ (h.event # NoEvent => h.event \in Kept)
    BY <2>1 DEF Inv, Courses, Saved
  <2>5. Kept' = Kept /\ Lines(Len(file))' = Lines(Len(file)) /\ html' \subseteq Events
    BY <1>0, <2>1 DEF Kept, Lines, Handled
  <2>6. SerialBuilds => Completed \subseteq html' /\ {h.event} \ {NoEvent} \subseteq html'
    BY <2>1 DEF Inv, Serial
  <2>7. /\ file' \in Seq(WholeLine) /\ synced' \in 0..Len(file') /\ received' = received
        /\ html' = html \/ (SerialBuilds => Completed \subseteq html')
    BY <2>1, <2>6 DEF Inv, Types
  <2> QED BY <2>2, <2>3, <2>4, <2>5, <2>6, <2>7, ReplacingKeeps
<1>6. CASE Done(h)
  <2>1. h.at = "done" /\ HandlerReturns(h, "completed") /\ UNCHANGED <<file, synced, html, received>>
    BY <1>6 DEF Done, disk
  <2>2. Mode # "api"
    BY <2>1 DEF Inv, Courses
  <2> QED BY <2>1, <2>2, ReturningKeeps DEF Inv, Types
<1>7. CASE Post(h)
  <2>1. PICK answer \in {"accepted", "error", "busy", "refused"} :
          /\ HandlerReturns(h, Outcome(answer))
          /\ received' \in
               CASE answer = "accepted" -> {received \cup {h.event}}
                 [] answer = "error" -> {received, received \cup {h.event}}
                 [] OTHER -> {received}
    BY <1>7 DEF Post
  <2>2. h.at = "post" /\ UNCHANGED <<file, synced, html>>
    BY <1>7 DEF Post, disk
  <2>3. Mode = "api" /\ h.event \in Events
    BY <1>0, <2>2 DEF Inv, Courses, Handled
  <2>4. Outcome(answer) \in {"ready", "completed", "failed"}
        /\ (Outcome(answer) = "completed" => answer = "accepted")
    BY DEF Outcome
  <2>5. received' \in {received, received \cup {h.event}}
        /\ (answer = "accepted" => h.event \in received')
    BY <2>1
  <2>6. received \subseteq received' /\ received' \subseteq Events
    BY <2>3, <2>5 DEF Inv, Types
  <2> QED BY <2>1, <2>2, <2>3, <2>4, <2>5, <2>6, ReturningKeeps
<1> QED BY <1>1, <1>2, <1>3, <1>4, <1>5, <1>6, <1>7 DEF Deliver

-----------------------------------------------------------------------------
(* The other steps                                                         *)

\* Where the page is built serially, a task is claimed only when no handler executes.
LEMMA ClaimsAlone ==
  ASSUME SinkAssumption, Inv, SerialBuilds, NEW p \in up, NEW e \in Events, MayClaim(e)
  PROVE  handlers = {}
<1> SUFFICES ASSUME NEW h \in handlers PROVE FALSE
  OBVIOUS
<1>1. h \in Handled /\ h.live /\ h.proc = p
  BY DEF Inv, Types, Serial, SerialBuilds, Handled
<1>2. h.event \in Events /\ status[h.event] = "running"
  BY <1>1 DEF Inv, Serial, Handled
<1>3. h.event # e
  BY <1>1, <1>2 DEF MayClaim, Executing
<1> DEFINE R == {x \in Events \ {e} : status[x] = "running"}
<1>4. h.event \in R
  BY <1>2, <1>3
<1>5. IsFiniteSet(R) /\ Cardinality(R) < 1
  <2>1. R \in SUBSET Events
    OBVIOUS
  <2>2. IsFiniteSet(R)
    BY <2>1, FS_Subset DEF SinkAssumption
  <2> QED BY <2>2 DEF MayClaim, SerialBuilds
<1>6. Cardinality(R) \in Nat /\ (Cardinality(R) = 0 <=> R = {})
  <2> HIDE DEF R
  <2> QED BY <1>5, FS_CardinalityType, FS_EmptySet
<1> QED BY <1>4, <1>5, <1>6

LEMMA ClaimKeeps ==
  ASSUME SinkAssumption, Inv, NEW p \in Procs, NEW e \in Events, Claim(p, e)
  PROVE  Inv'
<1>0. p \in up /\ MayClaim(e) /\ UNCHANGED <<file, synced, html, received, up, crashes>>
  BY DEF Claim, disk
<1>1. Kept' = Kept /\ Lines(Len(file))' = Lines(Len(file))
  BY <1>0 DEF Kept, Lines
<1>2. CASE attempts[e] < MaxAttempts
  <2> DEFINE h == Handler(p, e, IF Mode = "api" THEN "post" ELSE "append")
  <2>1. /\ status' = [status EXCEPT ![e] = "running"] /\ handlers' = handlers \cup {h}
        /\ attempts' = [attempts EXCEPT ![e] = attempts[e] + 1]
    BY <1>2 DEF Claim
  <2>2. /\ h \in Handled /\ h.event = e /\ h.proc = p /\ h.live
        /\ h.at = IF Mode = "api" THEN "post" ELSE "append"
    BY <1>0 DEF Handler, Handled, Places
  <2> HIDE DEF h
  <2>3. attempts' \in [Events -> 0..MaxAttempts]
    BY <1>2, <2>1 DEF Inv, Types, SinkAssumption
  <2>4. Types'
    BY <1>0, <2>1, <2>2, <2>3 DEF Inv, Types
  <2>5. Completed' \subseteq Completed
    BY <2>1 DEF Inv, Types, Completed
  <2>6. Courses'
    BY <2>1, <2>2 DEF Inv, Courses, SinkAssumption
  <2>7. Saved'
    BY <1>0, <1>1, <2>1, <2>2, <2>5 DEF Inv, Saved
  <2>8. ASSUME SerialBuilds PROVE Serial'
    <3>1. handlers' = {h}
      BY <1>0, <2>1, <2>8, ClaimsAlone
    <3>2. status'[e] = "running" /\ e # NoEvent
      BY <2>1 DEF Inv, Types, SinkAssumption
    <3>3. h.at = "append"
      BY <2>2, <2>8 DEF SerialBuilds
    <3> QED BY <1>0, <2>2, <2>5, <2>8, <3>1, <3>2, <3>3 DEF Inv, Serial
  <2> QED BY <2>4, <2>6, <2>7, <2>8 DEF Inv, SerialBuilds
<1>3. CASE ~(attempts[e] < MaxAttempts)
  <2>1. status' = [status EXCEPT ![e] = "failed"] /\ UNCHANGED <<attempts, handlers>>
    BY <1>3 DEF Claim
  <2>2. Types'
    BY <1>0, <2>1 DEF Inv, Types
  <2>3. Completed' \subseteq Completed
    BY <2>1 DEF Inv, Types, Completed
  <2>4. Courses' /\ Saved'
    BY <1>0, <1>1, <2>1, <2>3 DEF Inv, Courses, Saved
  <2>5. ASSUME SerialBuilds PROVE Serial'
    <3>1. handlers' = {}
      BY <1>0, <2>1, <2>5, ClaimsAlone
    <3> QED BY <1>0, <2>3, <2>5, <3>1 DEF Inv, Serial
  <2> QED BY <2>2, <2>4, <2>5 DEF Inv, SerialBuilds
<1> QED BY <1>2, <1>3

LEMMA AbandonKeeps ==
  ASSUME SinkAssumption, Inv, NEW h \in handlers, Abandon(h)
  PROVE  Inv'
<1> DEFINE g == [h EXCEPT !.live = FALSE]
<1>1. /\ Stalls /\ h.event # NoEvent /\ handlers' = (handlers \ {h}) \cup {g}
      /\ status' = [status EXCEPT ![h.event] = "failed"]
      /\ UNCHANGED <<file, synced, html, received, attempts, up, crashes>>
  BY DEF Abandon, disk
<1>2. h \in Handled
  BY DEF Inv, Types
<1>3. g \in Handled /\ g.event = h.event /\ g.at = h.at
  BY <1>2 DEF Handled
<1> HIDE DEF g
<1>4. h.event \in Events
  BY <1>1, <1>2 DEF Handled
<1>5. Kept' = Kept /\ Lines(Len(file))' = Lines(Len(file))
  BY <1>1 DEF Kept, Lines
<1>6. Types'
  BY <1>1, <1>3, <1>4 DEF Inv, Types
<1>7. Completed' \subseteq Completed
  BY <1>1, <1>4 DEF Inv, Types, Completed
<1>8. Courses' /\ Saved'
  BY <1>1, <1>3, <1>5, <1>7 DEF Inv, Courses, Saved
<1> QED BY <1>1, <1>6, <1>8 DEF Inv, SerialBuilds

LEMMA StartKeeps ==
  ASSUME SinkAssumption, Inv, NEW p \in Procs, StartProcess(p)
  PROVE  Inv'
<1>0. /\ p \notin up /\ \A h \in handlers : h.proc = p => h.event # NoEvent
      /\ UNCHANGED <<file, synced, html, received, status, attempts, crashes>>
  BY DEF StartProcess, disk
<1>1. /\ Kept' = Kept /\ Lines(Len(file))' = Lines(Len(file)) /\ Completed' = Completed
  BY <1>0 DEF Kept, Lines, Completed
<1>2. CASE Mode = "html"
  <2> DEFINE h == Handler(p, NoEvent, "read")
  <2>1. handlers' = handlers \cup {h} /\ up' = up
    BY <1>2 DEF StartProcess
  <2>2. h \in Handled /\ h.event = NoEvent /\ h.proc = p /\ h.live /\ h.at = "read"
    BY DEF Handler, Handled, Places
  <2> HIDE DEF h
  <2>3. Types' /\ Courses' /\ Saved'
    BY <1>0, <1>1, <1>2, <2>1, <2>2 DEF Inv, Types, Courses, Saved
  <2>4. ASSUME SerialBuilds PROVE Serial'
    <3>1. \A g \in handlers : g \in Handled /\ g.proc = p
      BY <2>4 DEF Inv, Types, SerialBuilds, Handled
    <3>2. handlers' = {h}
      BY <1>0, <2>1, <2>4, <3>1 DEF Inv, Serial
    <3> QED BY <1>0, <1>1, <2>1, <2>2, <2>4, <3>2 DEF Inv, Serial
  <2> QED BY <2>3, <2>4 DEF Inv, SerialBuilds
<1>3. CASE Mode # "html"
  <2>1. handlers' = handlers /\ up' = up \cup {p}
    BY <1>3 DEF StartProcess
  <2>2. Types' /\ Courses' /\ Saved'
    BY <1>0, <1>1, <2>1 DEF Inv, Types, Courses, Saved
  <2> QED BY <1>3, <2>2 DEF Inv, SerialBuilds
<1> QED BY <1>2, <1>3

LEMMA CrashKeeps ==
  ASSUME SinkAssumption, ~Tears, Inv, (\E p \in Procs : CrashProcess(p)) \/ CrashMachine
  PROVE  Inv'
<1>1. ASSUME NEW p \in Procs, CrashProcess(p) PROVE Inv'
  <2>1. /\ up' = up \ {p} /\ handlers' = {h \in handlers : h.proc # p}
        /\ UNCHANGED <<file, synced, html, received, status, attempts>>
    BY <1>1 DEF CrashProcess
  <2>2. /\ Kept' = Kept /\ Lines(Len(file))' = Lines(Len(file)) /\ Completed' = Completed
    BY <2>1 DEF Kept, Lines, Completed
  <2>3. Types' /\ Courses' /\ Saved'
    BY <2>1, <2>2 DEF Inv, Types, Courses, Saved
  <2>4. ASSUME SerialBuilds PROVE Serial'
    <3>1. handlers' = {} /\ up' = {}
      BY <2>1, <2>4 DEF Inv, Types, SerialBuilds, Handled
    <3> QED BY <3>1 DEF Serial
  <2> QED BY <2>3, <2>4 DEF Inv, SerialBuilds
<1>2. CASE CrashMachine
  <2>1. /\ up' = {} /\ handlers' = {} /\ html' = {} /\ synced' = Len(file')
        /\ UNCHANGED <<received, status, attempts>>
    BY <1>2 DEF CrashMachine
  <2>2. PICK k \in synced..Len(file) : file' = SubSeq(file, 1, k)
    BY <1>2 DEF CrashMachine
  <2>3. synced \in 0..Len(file) /\ Len(file) \in Nat /\ file \in Seq(WholeLine)
    BY DEF Inv, Types
  <2>4. k \in 0..Len(file) /\ synced <= k
    BY <2>2, <2>3
  <2>5. file' \in Seq(WholeLine) /\ Len(file') = k /\ \A i \in 1..k : file'[i] = file[i]
    BY <2>2, <2>3, <2>4
  <2>6. Kept \subseteq Kept'
    BY <2>1, <2>3, <2>4, <2>5 DEF Kept, Lines
  <2>7. Types'
    BY <2>1, <2>4, <2>5 DEF Inv, Types
  <2>8. Completed' = Completed
    BY <2>1 DEF Completed
  <2> QED BY <2>1, <2>6, <2>7, <2>8 DEF Inv, Courses, Saved, Serial
<1> QED BY <1>1, <1>2

LEMMA InitInv ==
  ASSUME SinkAssumption, SinkInit
  PROVE  Inv
<1>1. Completed = {}
  BY DEF SinkInit, Completed
<1>2. Types
  BY DEF SinkInit, Types, SinkAssumption
<1> QED BY <1>1, <1>2 DEF SinkInit, Inv, Courses, Saved, Serial

LEMMA NextInv ==
  ASSUME SinkAssumption, ~Tears, Inv, [SinkNext]_sinkVars
  PROVE  Inv'
<1>1. CASE UNCHANGED sinkVars
  <2>1. UNCHANGED <<file, synced, html, received, status, attempts, handlers, up, crashes>>
    BY <1>1 DEF sinkVars, disk
  <2> QED BY <2>1
      DEF Inv, Types, Courses, Saved, Serial, SerialBuilds, Kept, Lines, Completed
<1> QED BY <1>1, DeliverKeeps, ClaimKeeps, AbandonKeeps, StartKeeps, CrashKeeps DEF SinkNext

-----------------------------------------------------------------------------
(* The theorems                                                            *)

\* The disk, the tasks and the handlers keep their types.
THEOREM TypeCorrect ==
  ASSUME SinkAssumption, ~Tears
  PROVE  SinkSpec => []SinkTypeOK
<1>1. SinkInit => Inv
  BY InitInv
<1>2. Inv /\ [SinkNext]_sinkVars => Inv'
  BY NextInv
<1>3. Inv => SinkTypeOK
  BY DEF Inv, Types, SinkTypeOK, Handled
<1> QED BY <1>1, <1>2, <1>3, PTL DEF SinkSpec

\* A completed event can be read back from the file, or was accepted by the API, whatever
\* crashes, stalls or fails then, with any number of processes (cmd/report/sink.go:53).
THEOREM DeliveryLasts ==
  ASSUME SinkAssumption, ~Tears
  PROVE  SinkSpec => []CompletedIsDelivered
<1>1. SinkInit => Inv
  BY InitInv
<1>2. Inv /\ [SinkNext]_sinkVars => Inv'
  BY NextInv
<1>3. Inv => CompletedIsDelivered
  BY WholeLinesAreWritten DEF Inv, Saved, CompletedIsDelivered
<1> QED BY <1>1, <1>2, <1>3, PTL DEF SinkSpec

\* Where one process builds the page and takes one message at a time (main.go:25), a
\* process that takes messages shows every completed event, whatever has crashed.
THEOREM PagesAreCurrent ==
  ASSUME SinkAssumption, ~Tears, Mode = "html" => SerialBuilds
  PROVE  SinkSpec => []CompletedCanBeRead
<1>1. SinkInit => Inv
  BY InitInv
<1>2. Inv /\ [SinkNext]_sinkVars => Inv'
  BY NextInv
<1>3. Inv => CompletedCanBeRead
  BY WholeLinesAreWritten
  DEF Inv, Saved, Serial, CompletedIsDelivered, HtmlShowsCompleted, CompletedCanBeRead
<1> QED BY <1>1, <1>2, <1>3, PTL DEF SinkSpec
=============================================================================
