------------------------ MODULE BrowserCaptureProofs -------------------------
(***************************************************************************)
(* What holds of BrowserCapture for any pages and profiles, however often  *)
(* and whenever the browser navigates.                                     *)
(***************************************************************************)
EXTENDS BrowserCapture, TLAPS

-----------------------------------------------------------------------------
(* The inductive invariant                                                 *)

Page   == [loader : Nat, url : Urls \cup {Blank}, entry : Nat, loaded : BOOLEAN]
Nav    == [loader : Nat, url : Urls, responded : BOOLEAN]
Events == [type : {"request", "response", "load", "within"}, loader : Nat,
           url : Urls \cup {Blank}]
Hops   == [url : Urls \cup {Blank}, loader : Nat, final : BOOLEAN]
Notice == [loader : Nat, loaded : BOOLEAN, requests : Nat, version : Nat, hops : Seq(Hops),
           err : BOOLEAN]

Messages == Events \cup [type : {"reply"}, page : Page]

Is(i, type) == feed[i].type = type
Emitted     == 1..Len(feed)

\* The fields of what Run returns.
Shape ==
  out = [version |-> out.version, before |-> out.before, after |-> out.after,
         image |-> out.image, hops |-> out.hops]

Typed ==
  /\ page \in Page /\ navs \subseteq Nav /\ loaders \in Nat /\ sent \in Nat
  /\ feed \in Seq(Messages)
  /\ n \in Notice /\ token \in BOOLEAN /\ cfg \in Configs
  /\ timer \in {"running", "fired", "spent"}
  /\ Shape /\ out.version \in Nat /\ out.image \in Nat /\ out.hops \in Seq(Hops)

\* Loaders are handed out in order.
Counted ==
  /\ page.loader <= loaders /\ n.loader <= loaders
  /\ \A v \in navs : 0 < v.loader /\ v.loader <= loaders
  /\ \A i \in Emitted : ~Is(i, "reply") => feed[i].loader <= loaders

\* Among the first k of the feed no request is waiting to be heard.
Quietly(k) == \A i \in 1..k : ~Is(i, "request")
Unasked    == Quietly(Len(feed))

\* The last request is that of loader l.
Newest(l) ==
  \/ Unasked /\ n.loader = l
  \/ \E i \in Emitted : /\ Is(i, "request") /\ feed[i].loader = l
                        /\ \A j \in i + 1..Len(feed) : ~Is(j, "request")

\* The load of l is heard or to be heard; its response is the last hop or to become it.
Loaded(l) ==
  \/ Unasked /\ n.loaded /\ n.loader = l
  \/ \E i \in Emitted : Is(i, "load") /\ feed[i].loader = l

EndsWith(hops, l) == hops # <<>> /\ hops[Len(hops)].loader = l /\ hops[Len(hops)].final

Responded(l) ==
  \/ Unasked /\ EndsWith(n.hops, l)
  \/ \E i \in Emitted : /\ Is(i, "response") /\ feed[i].loader = l
                        /\ \A j \in i + 1..Len(feed) : ~Is(j, "request")

\* The newest navigation is the only one that waits for a response; once it has replaced
\* the document no other is in flight, and only a blank document can follow it.
Chained(l) ==
  /\ Newest(l)
  /\ \A v \in navs : /\ v.loader <= l
                     /\ IF v.responded THEN v.loader = l => Responded(l) ELSE v.loader = l
  /\ page.loader = l /\ page.url \in Urls => Responded(l)
  /\ page.loader = l \/ Loaded(l) => navs = {} /\ (page.loader = l \/ page.url = Blank)

\* What is in flight has not loaded, and what has loaded is not answered again.
Apart ==
  /\ \A v, w \in navs : v.loader = w.loader => v = w
  /\ \A v \in navs : /\ v.loader # page.loader
                     /\ n.loaded => v.loader # n.loader
                     /\ \A i \in Emitted : Is(i, "load") => feed[i].loader # v.loader
  /\ \A i \in Emitted : Is(i, "response") =>
       /\ n.loaded => feed[i].loader # n.loader
       /\ \A j \in 1..i : Is(j, "load") => feed[j].loader # feed[i].loader

\* A reply is on its way when Run waits for one.
Waiting == {"paused", "looking", "shooting", "comparing"}

Answered ==
  /\ \A i, j \in Emitted : Is(i, "reply") /\ Is(j, "reply") => i = j
  /\ pc \notin Waiting \cup {"done", "failed"} => \A i \in Emitted : ~Is(i, "reply")

Before == {"start", "navigate", "navigating"}
Marked == {"look", "looking", "shoot", "shooting", "again", "comparing", "check"}
Taken  == {"again", "comparing", "check", "return"}

\* The document of an image has a loader.
Loaders ==
  /\ pc \notin Before \cup {"done", "failed"} => page.loader > 0
  /\ pc = "shooting" => \A i \in Emitted : Is(i, "reply") => feed[i].page.loader > 0
  /\ pc \in Taken \cup {"done"} => out.image > 0

Limited ==
  /\ n.requests > cfg.limit + 1 => n.err
  /\ pc = "done" => ~n.err

Unchanged == n.version = out.version

\* The document is the newest, or has been replaced by a blank one.
Gone == page.url = Blank

\* What the image and the last look at the document say as long as listen has noted
\* nothing since the document was marked.
Still ==
  /\ pc \in Marked => out.version <= n.version /\ (Unchanged => n.loaded)
  /\ pc = "shooting" /\ Unchanged /\ Unasked =>
       \A i \in Emitted : Is(i, "reply") /\ feed[i].page.loader # n.loader => Gone
  /\ pc = "again" /\ Unchanged /\ Unasked /\ out.image # n.loader => Gone
  /\ pc = "comparing" /\ Unchanged =>
       \A i \in Emitted : Is(i, "reply") /\ Quietly(i) /\ feed[i].page.url \in Urls =>
         out.image = n.loader /\ EndsWith(n.hops, n.loader)
  /\ pc = "check" /\ Unchanged /\ out.after[1] \in Urls =>
       out.image = n.loader /\ EndsWith(n.hops, n.loader)
  /\ pc \in {"return", "done"} /\ out.after[1] \in Urls => EndsWith(out.hops, out.image)

Inv ==
  /\ Typed /\ Counted /\ (\E l \in Nat : l <= loaders /\ Chained(l)) /\ Apart
  /\ Answered /\ Loaders /\ Limited /\ Still

-----------------------------------------------------------------------------
(* The feed                                                                *)

LEMMA Appending ==
  ASSUME NEW M, NEW s \in Seq(M), NEW e
  PROVE  /\ Len(Append(s, e)) = Len(s) + 1
         /\ \A i \in 1..Len(s) : Append(s, e)[i] = s[i]
         /\ Append(s, e)[Len(s) + 1] = e
         /\ e \in M => Append(s, e) \in Seq(M)
OBVIOUS

LEMMA Popping ==
  ASSUME NEW M, NEW s \in Seq(M), s # <<>>
  PROVE  /\ Len(s) \in Nat \ {0} /\ Head(s) = s[1] /\ s[1] \in M
         /\ Len(Tail(s)) = Len(s) - 1
         /\ \A i \in 1..Len(s) - 1 : Tail(s)[i] = s[i + 1]
OBVIOUS

-----------------------------------------------------------------------------
(* Types                                                                   *)

LEMMA InitInv ==
  ASSUME CaptureAssumption, Init
  PROVE  Inv
<1> USE DEF Init, CaptureAssumption
<1>1. Typed
  <2>1. <<>> \in Seq(Messages) /\ <<>> \in Seq(Hops)
    OBVIOUS
  <2>2. n \in Notice
    BY <2>1 DEF Notice
  <2>3. page \in Page
    BY DEF Page
  <2> QED BY <2>1, <2>2, <2>3 DEF Typed, Shape
<1>2. Counted /\ Apart /\ Answered
  BY DEF Counted, Apart, Answered, Emitted
<1>3. Loaders /\ Limited /\ Still
  BY DEF Loaders, Limited, Still, Before, Marked, Taken
<1>4. Chained(0)
  BY DEF Chained, Newest, Loaded, Unasked, Quietly, Emitted
<1> QED BY <1>1, <1>2, <1>3, <1>4 DEF Inv

Steady == UNCHANGED <<n, token, cfg, timer, out>>

LEMMA OpenTyped ==
  ASSUME Typed, NEW u \in Urls, Open(u)
  PROVE  page' = page /\ navs' \subseteq Nav /\ loaders' \in Nat /\ sent' \in Nat
         /\ feed' \in Seq(Messages)
<1>1. Event("request", loaders', Blank) \in Messages
  BY DEF Typed, Open, Event, Events, Messages
<1>2. [loader |-> loaders', url |-> u, responded |-> FALSE] \in Nav /\ navs \subseteq Nav
  BY DEF Typed, Open, Nav
<1>3. feed' \in Seq(Messages)
  BY <1>1, Appending DEF Typed, Open, Emit
<1>4. page' = page /\ loaders' \in Nat /\ sent' \in Nat /\ navs' \subseteq Nav
  <2>1. navs' \subseteq Nav
    BY <1>2 DEF Open
  <2> QED BY <2>1 DEF Typed, Open
<1> QED BY <1>3, <1>4

LEMMA BrowserTyped ==
  ASSUME CaptureAssumption, Typed, Browser
  PROVE  Typed'
<1> USE DEF Program
<1>1. CASE BrowserOpens
  BY <1>1, OpenTyped DEF BrowserOpens, Typed, Shape
<1>2. CASE BrowserRedirects
  <2>1. PICK v \in navs, u \in Urls :
          /\ navs' = (navs \ {v}) \cup {[v EXCEPT !.url = u]}
          /\ feed' = Append(feed, Event("request", v.loader, v.url))
    BY <1>2 DEF BrowserRedirects, Emit
  <2>2. Event("request", v.loader, v.url) \in Messages /\ [v EXCEPT !.url = u] \in Nav
    BY DEF Typed, Event, Events, Messages, Nav
  <2>3. sent' \in Nat
    BY <1>2 DEF BrowserRedirects, Typed
  <2> QED BY <1>2, <2>1, <2>2, <2>3, Appending DEF BrowserRedirects, Typed, Shape
<1>3. CASE BrowserResponds
  <2>1. PICK v \in navs :
          /\ navs' = (navs \ {v}) \cup {[v EXCEPT !.responded = TRUE]}
          /\ feed' = Append(feed, Event("response", v.loader, v.url))
    BY <1>3 DEF BrowserResponds, Emit
  <2>2. Event("response", v.loader, v.url) \in Messages /\ [v EXCEPT !.responded = TRUE] \in Nav
    BY DEF Typed, Event, Events, Messages, Nav
  <2> QED BY <1>3, <2>1, <2>2, Appending DEF BrowserResponds, Typed, Shape
<1>4. CASE BrowserCommits
  <2>1. PICK v \in navs : page' = [loader |-> v.loader, url |-> IF v.responded THEN v.url ELSE Blank,
                                   entry |-> 0, loaded |-> FALSE]
                          /\ navs' = {w \in navs : w.loader > v.loader}
    BY <1>4 DEF BrowserCommits
  <2>2. page' \in Page /\ navs' \subseteq Nav
    BY <2>1 DEF Typed, Page, Nav
  <2> QED BY <1>4, <2>2 DEF BrowserCommits, Typed, Shape
<1>5. CASE BrowserDrops
  BY <1>5 DEF BrowserDrops, Typed, Shape
<1>6. CASE BrowserBlanks
  BY <1>6 DEF BrowserBlanks, Typed, Page, Shape
<1>7. CASE BrowserLoads
  <2>1. Event("load", page.loader, Blank) \in Messages
    BY DEF Typed, Event, Events, Messages, Page
  <2>2. page' \in Page
    BY <1>7 DEF BrowserLoads, Typed, Page
  <2> QED BY <1>7, <2>1, <2>2, Appending DEF BrowserLoads, Emit, Typed, Shape
<1>8. CASE BrowserRewrites
  <2>1. Event("within", page.loader, Blank) \in Messages
    BY DEF Typed, Event, Events, Messages, Page
  <2>2. page' \in Page
    BY <1>8 DEF BrowserRewrites, Typed, Page
  <2> QED BY <1>8, <2>1, <2>2, Appending DEF BrowserRewrites, Emit, Typed, Shape
<1> QED BY <1>1, <1>2, <1>3, <1>4, <1>5, <1>6, <1>7, <1>8 DEF Browser

\* What listen makes of an event it notes.
LEMMA NoteTyped ==
  ASSUME Typed, NEW e \in Events, Notes(e)
  PROVE  /\ Note(e) \in Notice
         /\ e.type = "request" =>
              /\ Note(e).requests = n.requests + 1 /\ Note(e).version = n.version + 1
              /\ Note(e).loader = e.loader /\ ~Note(e).loaded
              /\ n.err \/ n.requests + 1 > cfg.limit + 1 => Note(e).err
         /\ e.type = "response" =>
              /\ Note(e) = [n EXCEPT !.hops = Append(@, Hop(e, TRUE)), !.version = @ + 1]
              /\ e.loader = n.loader /\ EndsWith(Note(e).hops, e.loader)
         /\ e.type = "load" => e.loader = n.loader /\ Note(e) = [n EXCEPT !.loaded = TRUE]
         /\ e.type = "within" => Note(e) = [n EXCEPT !.version = @ + 1]
<1>1. /\ e.type \in {"request", "response", "load", "within"} /\ e.loader \in Nat
      /\ e.url \in Urls \cup {Blank}
  BY DEF Events
<1>2. /\ n \in Notice /\ n.hops \in Seq(Hops) /\ n.version \in Nat /\ n.requests \in Nat
  BY DEF Typed, Notice
<1>3. /\ Append(n.hops, Hop(e, TRUE)) \in Seq(Hops) /\ Append(n.hops, Hop(e, FALSE)) \in Seq(Hops)
      /\ EndsWith(Append(n.hops, Hop(e, TRUE)), e.loader)
  <2>1. Hop(e, TRUE) \in Hops /\ Hop(e, FALSE) \in Hops /\ Hop(e, TRUE).loader = e.loader
        /\ Hop(e, TRUE).final
    BY <1>1 DEF Hop, Hops
  <2>2. /\ Append(n.hops, Hop(e, TRUE)) # <<>>
        /\ Append(n.hops, Hop(e, TRUE))[Len(Append(n.hops, Hop(e, TRUE)))] = Hop(e, TRUE)
    <3> DEFINE h == Hop(e, TRUE)
    <3>1. Append(n.hops, h) # <<>> /\ Len(Append(n.hops, h)) = Len(n.hops) + 1
          /\ Append(n.hops, h)[Len(n.hops) + 1] = h
      <4> HIDE DEF h
      <4> QED BY <1>2
    <3> QED BY <3>1
  <2>3. Append(n.hops, Hop(e, TRUE)) \in Seq(Hops) /\ Append(n.hops, Hop(e, FALSE)) \in Seq(Hops)
    BY <1>2, <2>1, Appending
  <2> QED BY <2>1, <2>2, <2>3 DEF EndsWith
<1>4. CASE e.type = "request"
  <2> DEFINE k == n.version + 1
             r == n.requests + 1
             hops == IF e.url \in Urls THEN Append(n.hops, Hop(e, FALSE)) ELSE n.hops
             err  == n.err \/ r > cfg.limit + 1
  <2>1. hops \in Seq(Hops)
    BY <1>2, <1>3, Zenon
  <2>n. k \in Nat /\ r \in Nat
    BY <1>2
  <2>e. err \in BOOLEAN
    OBVIOUS
  <2>2. Note(e) = [n EXCEPT !.hops = hops, !.requests = r, !.version = k,
                            !.loader = e.loader, !.loaded = FALSE, !.err = err]
    BY <1>4 DEF Note
  <2> HIDE DEF hops, err, k, r
  <2>3. /\ Note(e).requests = r /\ Note(e).version = k /\ Note(e).loader = e.loader
        /\ Note(e).loaded = FALSE /\ Note(e).err = err /\ Note(e) \in Notice
    BY <1>1, <1>2, <2>1, <2>n, <2>e, <2>2 DEF Notice
  <2> QED BY <1>4, <2>3 DEF err, k, r
<1>5. CASE e.type = "response"
  <2>1. Note(e) = [n EXCEPT !.hops = Append(@, Hop(e, TRUE)), !.version = @ + 1]
    BY <1>5 DEF Note
  <2>2. e.loader = n.loader
    BY <1>5 DEF Notes
  <2>3. Note(e).hops = Append(n.hops, Hop(e, TRUE)) /\ Note(e) \in Notice
    <3> DEFINE hops == Append(n.hops, Hop(e, TRUE))
               k == n.version + 1
    <3>1. Note(e) = [n EXCEPT !.hops = hops, !.version = k]
      BY <2>1
    <3>3. hops \in Seq(Hops)
      BY <1>3
    <3>4. k \in Nat
      BY <1>2
    <3> HIDE DEF hops, k
    <3>2. Note(e).hops = hops /\ Note(e) \in Notice
      BY <1>2, <3>1, <3>3, <3>4 DEF Notice
    <3> QED BY <3>2 DEF hops
  <2> QED BY <1>3, <1>5, <2>1, <2>2, <2>3
<1>6. CASE e.type = "load"
  BY <1>1, <1>2, <1>6 DEF Note, Notes, Notice
<1>7. CASE e.type = "within"
  BY <1>1, <1>2, <1>7 DEF Note, Notice
<1> QED BY <1>1, <1>4, <1>5, <1>6, <1>7

LEMMA ReturnTyped ==
  ASSUME Typed, NEW err \in BOOLEAN, Return(out, err)
  PROVE  /\ Shape' /\ out'.version = out.version /\ out'.after = out.after
         /\ out'.image \in Nat /\ out'.hops \in Seq(Hops)
         /\ IF err \/ n.err THEN pc' = "failed"
            ELSE pc' = "done" /\ out'.image = out.image /\ out'.hops = out.hops
BY DEF Typed, Shape, Notice, Return

\* A step of Run or of settle that leaves browser, feed and listen alone.
Inward == \/ Changed \/ TimerFires \/ Quiet
          \/ Start \/ Navigated \/ Mark \/ Check \/ Finish \/ Fail

LEMMA InwardTyped ==
  ASSUME Typed, Inward
  PROVE  Typed' /\ UNCHANGED <<browser, feed, n, cfg>>
<1>1. CASE Changed \/ TimerFires \/ Quiet
  BY <1>1 DEF Changed, TimerFires, Quiet, browser, Typed, Shape
<1>2. CASE Start
  BY <1>2, ReturnTyped DEF Start, browser, Typed, Shape
<1>3. CASE Navigated
  BY <1>3 DEF Navigated, browser, Typed, Shape
<1>4. CASE Mark
  <2>1. n.version \in Nat
    BY DEF Typed, Notice
  <2>2. out' = [out EXCEPT !.version = n.version] \/ Return(out, TRUE)
    BY <1>4 DEF Mark
  <2>3. Shape' /\ out'.version \in Nat /\ out'.image \in Nat /\ out'.hops \in Seq(Hops)
    BY <2>1, <2>2, ReturnTyped DEF Typed, Shape
  <2> QED BY <1>4, <2>3 DEF Mark, browser, Typed
<1>5. CASE Check
  <2>1. n.hops \in Seq(Hops)
    BY DEF Typed, Notice
  <2>2. Shape' /\ out'.version \in Nat /\ out'.image \in Nat /\ out'.hops \in Seq(Hops)
    BY <1>5, <2>1 DEF Check, Typed, Shape
  <2> QED BY <1>5, <2>2 DEF Check, browser, Typed
<1>6. CASE Finish \/ Fail
  <2>1. Shape' /\ out'.version \in Nat /\ out'.image \in Nat /\ out'.hops \in Seq(Hops)
    BY <1>6, ReturnTyped DEF Finish, Fail, Typed
  <2> QED BY <1>6, <2>1 DEF Finish, Fail, browser, Typed
<1> QED BY <1>1, <1>2, <1>3, <1>4, <1>5, <1>6 DEF Inward

Commands == Pause \/ LookOnce \/ Shoot \/ LookBack
Replies  == Paused \/ Looked \/ Shot \/ Looking

LEMMA CommandTyped ==
  ASSUME Typed, Commands
  PROVE  /\ Typed' /\ UNCHANGED <<page, navs, loaders, n, cfg, out>>
         /\ feed' = Append(feed, [type |-> "reply", page |-> page])
         /\ [type |-> "reply", page |-> page] \in Messages
<1>1. [type |-> "reply", page |-> page] \in Messages
  BY DEF Typed, Messages
<1>2. /\ feed' = Append(feed, [type |-> "reply", page |-> page])
      /\ UNCHANGED <<page, navs, loaders, sent, n, token, cfg, timer, out>>
  BY DEF Commands, Pause, LookOnce, Shoot, LookBack, Command, Emit
<1> QED BY <1>1, <1>2, Appending DEF Typed, Shape

LEMMA ReplyTyped ==
  ASSUME Typed, Replies
  PROVE  /\ Typed' /\ UNCHANGED <<browser, n, cfg>>
         /\ feed # <<>> /\ feed' = Tail(feed)
         /\ feed[1] \in [type : {"reply"}, page : Page] /\ Seen = feed[1].page
<1>1. /\ feed # <<>> /\ feed' = Tail(feed) /\ feed[1].type = "reply" /\ Seen = feed[1].page
      /\ UNCHANGED <<browser, n, token, cfg, timer>>
  BY Popping DEF Typed, Replies, Paused, Looked, Shot, Looking, Reply, Seen
<1>2. feed[1] \in [type : {"reply"}, page : Page]
  BY <1>1, Popping DEF Typed, Messages, Events
<1>3. Shape' /\ out'.version \in Nat /\ out'.image \in Nat /\ out'.hops \in Seq(Hops)
  <2>1. Seen.loader \in Nat
    BY <1>1, <1>2 DEF Page
  <2> QED BY <2>1 DEF Typed, Shape, Replies, Paused, Looked, Shot, Looking, Reply
<1>4. feed' \in Seq(Messages)
  BY <1>1 DEF Typed
<1> QED BY <1>1, <1>2, <1>3, <1>4 DEF Typed, browser

LEMMA ListenTyped ==
  ASSUME Typed, Listen
  PROVE  /\ Typed' /\ UNCHANGED <<browser, cfg, pc, out>> /\ ~Ended
         /\ feed # <<>> /\ feed' = Tail(feed)
         /\ feed[1] \in Events
         /\ n' = IF Notes(feed[1]) THEN Note(feed[1]) ELSE n
<1>1. /\ feed # <<>> /\ feed' = Tail(feed) /\ feed[1] \in Messages /\ feed[1].type # "reply"
      /\ n' = IF Notes(feed[1]) THEN Note(feed[1]) ELSE n
  BY Popping DEF Typed, Listen
<1>2. feed[1] \in Events
  BY <1>1 DEF Messages
<1>3. n' \in Notice
  BY <1>1, <1>2, NoteTyped DEF Typed
<1>4. feed' \in Seq(Messages)
  BY <1>1 DEF Typed
<1>5. token' \in BOOLEAN
  <2>1. CASE Notes(Head(feed))
    BY <2>1, Zenon DEF Listen, Wakes
  <2>2. CASE ~Notes(Head(feed))
    BY <2>2, Zenon DEF Listen, Typed
  <2> QED BY <2>1, <2>2
<1>6. UNCHANGED <<browser, cfg, pc, timer, out>> /\ ~Ended
  BY DEF Listen
<1>7. Typed'
  BY <1>3, <1>4, <1>5, <1>6 DEF Typed, Shape, browser
<1> QED BY <1>1, <1>2, <1>6, <1>7

-----------------------------------------------------------------------------
(* What the feed says when it grows and when it is heard                   *)

LEMMA Growing ==
  ASSUME Typed, NEW e, feed' = Append(feed, e)
  PROVE  /\ Len(feed) \in Nat /\ Len(feed') = Len(feed) + 1
         /\ \A i \in Emitted : i \in Emitted' /\ feed'[i] = feed[i]
         /\ feed'[Len(feed')] = e /\ Len(feed') \in Emitted'
         /\ \A i \in Emitted' : i \in Emitted \/ i = Len(feed')
         /\ \A k \in 0..Len(feed) : Quietly(k)' <=> Quietly(k)
         /\ Unasked' <=> Unasked /\ e.type # "request"
<1>1. /\ Len(feed) \in Nat /\ Len(feed') = Len(feed) + 1
      /\ \A i \in 1..Len(feed) : feed'[i] = feed[i]
      /\ feed'[Len(feed) + 1] = e
  BY Appending DEF Typed
<1>2. \A k \in 0..Len(feed) : \A i \in 1..k : i \in 1..Len(feed)
  BY <1>1
<1> QED BY <1>1, <1>2 DEF Emitted, Quietly, Unasked, Is

LEMMA GrownChain ==
  ASSUME Typed, NEW e, feed' = Append(feed, e), n' = n, NEW l
  PROVE  /\ e.type = "request" /\ e.loader = l => Newest(l)'
         /\ e.type # "request" /\ Newest(l) => Newest(l)'
         /\ Loaded(l)' => Loaded(l) \/ (e.type = "load" /\ e.loader = l)
         /\ e.type # "request" /\ Responded(l) => Responded(l)'
         /\ e.type = "response" /\ e.loader = l => Responded(l)'
<1>1. /\ Len(feed) \in Nat /\ Len(feed') = Len(feed) + 1
      /\ \A i \in 1..Len(feed) : feed'[i] = feed[i]
      /\ feed'[Len(feed) + 1] = e
      /\ Unasked' <=> Unasked /\ e.type # "request"
  BY Growing DEF Emitted
<1> QED BY <1>1 DEF Newest, Loaded, Responded, Emitted, Is, EndsWith

LEMMA Hearing ==
  ASSUME Typed, feed # <<>>, feed' = Tail(feed)
  PROVE  /\ Len(feed) \in Nat \ {0} /\ Len(feed') = Len(feed) - 1
         /\ 1 \in Emitted
         /\ \A i \in Emitted' : i + 1 \in Emitted /\ feed'[i] = feed[i + 1]
         /\ \A i \in Emitted : i # 1 => i - 1 \in Emitted' /\ feed'[i - 1] = feed[i]
         /\ Unasked <=> Unasked' /\ ~Is(1, "request")
         /\ \A k \in Emitted' : ~Is(1, "request") /\ Quietly(k)' => Quietly(k + 1)
<1>1. /\ Len(feed) \in Nat \ {0} /\ Len(feed') = Len(feed) - 1
      /\ \A i \in 1..Len(feed) - 1 : feed'[i] = feed[i + 1]
  BY Popping DEF Typed
<1>2. \A i \in 1..Len(feed) : i # 1 => i - 1 \in 1..Len(feed') /\ feed'[i - 1] = feed[i]
  <2> TAKE i \in 1..Len(feed)
  <2>1. i # 1 => i - 1 \in 1..Len(feed) - 1 /\ (i - 1) + 1 = i
    BY <1>1
  <2> QED BY <1>1, <2>1
<1>3. Unasked <=> Unasked' /\ ~Is(1, "request")
  <2>1. ASSUME Unasked PROVE Unasked' /\ ~Is(1, "request")
    <3>1. \A i \in 1..Len(feed') : i + 1 \in 1..Len(feed) /\ feed'[i] = feed[i + 1]
      BY <1>1
    <3> QED BY <1>1, <2>1, <3>1 DEF Quietly, Unasked, Is
  <2>2. ASSUME Unasked', ~Is(1, "request") PROVE Unasked
    <3> SUFFICES ASSUME NEW i \in 1..Len(feed) PROVE ~Is(i, "request")
      BY DEF Quietly, Unasked
    <3>1. i # 1 => i - 1 \in 1..Len(feed') /\ feed'[i - 1] = feed[i]
      BY <1>2
    <3> QED BY <2>2, <3>1 DEF Quietly, Unasked, Is
  <2> QED BY <2>1, <2>2
<1>4. \A k \in 1..Len(feed') : ~Is(1, "request") /\ Quietly(k)' => Quietly(k + 1)
  <2> SUFFICES ASSUME NEW k \in 1..Len(feed'), ~Is(1, "request"), Quietly(k)',
                      NEW i \in 1..k + 1
               PROVE  ~Is(i, "request")
    BY DEF Quietly
  <2>1. CASE i = 1
    BY <2>1
  <2>2. CASE i # 1
    <3>1. i - 1 \in 1..k /\ feed'[i - 1] = feed[i]
      BY <1>1, <1>2, <2>2
    <3> QED BY <3>1 DEF Quietly, Is
  <2> QED BY <2>1, <2>2
<1> QED BY <1>1, <1>2, <1>3, <1>4 DEF Emitted

-----------------------------------------------------------------------------
(* The browser                                                             *)

Chain == \E l \in Nat : l <= loaders /\ Chained(l)
World == Counted /\ Chain /\ Apart

\* What the browser does leaves the document blank, once it is blank for good, and never
\* takes it away.
Persists ==
  /\ Unasked /\ n.loaded /\ Gone => Gone'
  /\ page.loader > 0 => page'.loader > 0

LEMMA OpenKeeps ==
  ASSUME Typed, World, NEW u \in Urls, Open(u), n' = n
  PROVE  World' /\ Persists
<1>1. PICK k \in Nat : k = loaders + 1
  BY DEF Typed
<1> DEFINE e == Event("request", k, Blank)
           new == [loader |-> k, url |-> u, responded |-> FALSE]
<1>2. /\ loaders' = k /\ loaders \in Nat /\ navs' = {v \in navs : v.responded} \cup {new}
      /\ feed' = Append(feed, e) /\ page' = page
  BY <1>1 DEF Open, Emit, Typed
<1>3. e.type = "request" /\ e.loader = k /\ new.loader = k /\ ~new.responded
  BY <1>1 DEF Event
<1> HIDE DEF e, new
<1>4. /\ page.loader < k /\ n.loader < k
      /\ \A v \in navs : v.loader \in Nat /\ 0 < v.loader /\ v.loader < k
      /\ \A i \in Emitted : ~Is(i, "reply") => feed[i].loader \in Nat /\ feed[i].loader < k
  <2>1. \A i \in Emitted : ~Is(i, "reply") => feed[i].loader \in Nat
    BY DEF Typed, Emitted, Messages, Events, Is
  <2> QED BY <1>1, <1>2, <2>1 DEF World, Counted, Typed, Page, Notice, Nav
<1>5. /\ \A i \in Emitted : i \in Emitted' /\ feed'[i] = feed[i]
      /\ \A i \in Emitted' : i \in Emitted \/ feed'[i] = e
      /\ ~Unasked'
  BY <1>2, <1>3, Growing
<1>6. Counted'
  <2>1. \A v \in navs' : 0 < v.loader /\ v.loader <= k
    BY <1>1, <1>2, <1>3, <1>4
  <2>2. \A i \in Emitted' : ~Is(i, "reply")' => feed'[i].loader <= k
    <3>1. \A i \in Emitted : ~Is(i, "reply") => feed[i].loader <= k
      BY <1>1, <1>4
    <3> QED BY <1>3, <1>5, <3>1 DEF Is
  <2>3. page'.loader <= k /\ n'.loader <= k
    BY <1>1, <1>2 DEF World, Counted, Typed, Page, Notice
  <2> QED BY <1>2, <2>1, <2>2, <2>3 DEF Counted
<1>7. Chained(k)'
  <2>1. Newest(k)'
    BY <1>2, <1>3, GrownChain
  <2>2. ~Loaded(k)'
    <3>1. ~Loaded(k)
      BY <1>4 DEF Loaded, Is, Typed, Notice
    <3> QED BY <1>2, <1>3, <3>1, GrownChain
  <2>3. page'.loader # k
    BY <1>2, <1>4 DEF Typed, Page
  <2>4. \A v \in navs' : /\ v.loader <= k
                         /\ v.responded => v.loader # k
                         /\ ~v.responded => v.loader = k
    BY <1>2, <1>3, <1>4
  <2> QED BY <2>1, <2>2, <2>3, <2>4 DEF Chained
<1>8. Apart'
  <2>1. \A v, w \in navs' : v.loader = w.loader => v = w
    BY <1>2, <1>3, <1>4 DEF World, Apart
  <2>2. ASSUME NEW v \in navs'
        PROVE  /\ v.loader # page'.loader /\ (n'.loaded => v.loader # n'.loader)
               /\ \A i \in Emitted' : Is(i, "load")' => feed'[i].loader # v.loader
    <3>1. CASE v = new
      <4>1. page.loader # k /\ n.loader # k
        BY <1>4 DEF Typed, Page, Notice
      <4>2. \A i \in Emitted : Is(i, "load") => feed[i].loader # k
        BY <1>1, <1>4 DEF Is
      <4> QED BY <1>2, <1>3, <1>5, <3>1, <4>1, <4>2 DEF Is
    <3>2. CASE v \in navs
      BY <1>2, <1>3, <1>5, <3>2 DEF World, Apart, Is
    <3> QED BY <1>2, <3>1, <3>2
  <2>3. ASSUME NEW i \in Emitted', Is(i, "response")'
        PROVE  /\ n'.loaded => feed'[i].loader # n'.loader
               /\ \A j \in 1..i : Is(j, "load")' => feed'[j].loader # feed'[i].loader
    <3>1. i \in Emitted /\ feed'[i] = feed[i] /\ Is(i, "response")
      BY <1>3, <1>5, <2>3 DEF Is
    <3>2. \A j \in 1..i : feed'[j] = feed[j]
      BY <1>5, <3>1 DEF Emitted, Typed
    <3> QED BY <3>1, <3>2 DEF World, Apart, Is
  <2> QED BY <2>1, <2>2, <2>3 DEF Apart
<1>9. Chain'
  BY <1>1, <1>2, <1>7 DEF Chain
<1> QED BY <1>2, <1>6, <1>8, <1>9 DEF World, Persists, Gone

\* An event of a navigation that waits for its response.
LEMMA RedirectKeeps ==
  ASSUME Typed, World, BrowserRedirects
  PROVE  World' /\ Persists
<1>1. PICK v \in navs, u \in Urls :
        /\ ~v.responded
        /\ navs' = (navs \ {v}) \cup {[v EXCEPT !.url = u]}
        /\ feed' = Append(feed, Event("request", v.loader, v.url))
  BY DEF BrowserRedirects, Emit
<1> DEFINE e == Event("request", v.loader, v.url)
           new == [v EXCEPT !.url = u]
<1>2. e.type = "request" /\ e.loader = v.loader /\ new.loader = v.loader /\ ~new.responded
  BY <1>1 DEF Event, Typed, Nav
<1>3. /\ feed' = Append(feed, e) /\ navs' = (navs \ {v}) \cup {new}
      /\ page' = page /\ loaders' = loaders /\ n' = n
  BY <1>1 DEF BrowserRedirects, Program
<1> HIDE DEF e, new
<1>4. /\ \A i \in Emitted : i \in Emitted' /\ feed'[i] = feed[i]
      /\ \A i \in Emitted' : i \in Emitted \/ feed'[i] = e
      /\ ~Unasked'
  BY <1>2, <1>3, Growing
<1>5. PICK l \in Nat : l <= loaders /\ Chained(l)
  BY DEF World, Chain
<1>6. v.loader = l
  BY <1>1, <1>5 DEF Chained
<1>7. Counted'
  BY <1>2, <1>3, <1>4 DEF World, Counted, Is
<1>8. Chained(l)'
  <2>1. Newest(l)'
    BY <1>2, <1>3, <1>6, GrownChain
  <2>2. ~Loaded(l)' /\ page'.loader # l
    <3>1. ~Loaded(l) /\ page.loader # l
      BY <1>1, <1>5 DEF Chained
    <3> QED BY <1>2, <1>3, <3>1, GrownChain
  <2>3. \A w \in navs' : w.loader <= l /\ IF w.responded THEN w.loader # l ELSE w.loader = l
    <3>1. \A w \in navs : w # v => w.loader # l
      BY <1>1, <1>6 DEF World, Apart
    <3>2. v.loader <= l
      BY <1>5 DEF Chained
    <3> QED BY <1>2, <1>3, <1>5, <1>6, <3>1, <3>2 DEF Chained
  <2> QED BY <2>1, <2>2, <2>3 DEF Chained
<1>9. Apart'
  <2>1. \A x, w \in navs' : x.loader = w.loader => x = w
    BY <1>1, <1>2, <1>3 DEF World, Apart
  <2>2. ASSUME NEW w \in navs'
        PROVE  /\ w.loader # page'.loader /\ (n'.loaded => w.loader # n'.loader)
               /\ \A i \in Emitted' : Is(i, "load")' => feed'[i].loader # w.loader
    <3>1. PICK x \in navs : x.loader = w.loader
      BY <1>1, <1>2, <1>3
    <3>2. w.loader # page.loader /\ (n.loaded => w.loader # n.loader)
      BY <3>1 DEF World, Apart
    <3>3. \A i \in Emitted : Is(i, "load") => feed[i].loader # w.loader
      BY <3>1 DEF World, Apart
    <3>4. \A i \in Emitted' : Is(i, "load")' => i \in Emitted /\ feed'[i] = feed[i] /\ Is(i, "load")
      BY <1>2, <1>4 DEF Is
    <3> QED BY <1>3, <3>2, <3>3, <3>4
  <2>3. ASSUME NEW i \in Emitted', Is(i, "response")'
        PROVE  /\ n'.loaded => feed'[i].loader # n'.loader
               /\ \A j \in 1..i : Is(j, "load")' => feed'[j].loader # feed'[i].loader
    <3>1. i \in Emitted /\ feed'[i] = feed[i] /\ Is(i, "response")
      BY <1>2, <1>4, <2>3 DEF Is
    <3>2. \A j \in 1..i : feed'[j] = feed[j]
      BY <1>4, <3>1 DEF Emitted, Typed
    <3> QED BY <1>3, <3>1, <3>2 DEF World, Apart, Is
  <2> QED BY <2>1, <2>2, <2>3 DEF Apart
<1> QED BY <1>3, <1>5, <1>7, <1>8, <1>9 DEF World, Chain, Persists, Gone

LEMMA RespondKeeps ==
  ASSUME Typed, World, BrowserResponds
  PROVE  World' /\ Persists
<1>1. PICK v \in navs :
        /\ ~v.responded
        /\ navs' = (navs \ {v}) \cup {[v EXCEPT !.responded = TRUE]}
        /\ feed' = Append(feed, Event("response", v.loader, v.url))
  BY DEF BrowserResponds, Emit
<1> DEFINE e == Event("response", v.loader, v.url)
           new == [v EXCEPT !.responded = TRUE]
<1>2. e.type = "response" /\ e.loader = v.loader /\ new.loader = v.loader /\ new.responded
  BY <1>1 DEF Event, Typed, Nav
<1>3. /\ feed' = Append(feed, e) /\ navs' = (navs \ {v}) \cup {new}
      /\ page' = page /\ loaders' = loaders /\ n' = n
  BY <1>1 DEF BrowserResponds, Program
<1> HIDE DEF e, new
<1>4. /\ \A i \in Emitted : i \in Emitted' /\ feed'[i] = feed[i]
      /\ \A i \in Emitted' : i \in Emitted \/ feed'[i] = e
      /\ Unasked' <=> Unasked
  BY <1>2, <1>3, Growing
<1>5. PICK l \in Nat : l <= loaders /\ Chained(l)
  BY DEF World, Chain
<1>6. v.loader = l
  BY <1>1, <1>5 DEF Chained
<1>7. Counted'
  BY <1>2, <1>3, <1>4 DEF World, Counted, Is
<1>8. Chained(l)'
  <2>1. Newest(l)' /\ Responded(l)'
    BY <1>2, <1>3, <1>5, <1>6, GrownChain DEF Chained
  <2>2. ~Loaded(l)' /\ page'.loader # l
    <3>1. ~Loaded(l) /\ page.loader # l
      BY <1>1, <1>5 DEF Chained
    <3> QED BY <1>2, <1>3, <3>1, GrownChain
  <2>3. \A w \in navs' : w.loader <= l /\ (~w.responded => w.loader = l)
    <3>1. v.loader <= l
      BY <1>5 DEF Chained
    <3> QED BY <1>2, <1>3, <1>5, <3>1 DEF Chained
  <2> QED BY <2>1, <2>2, <2>3 DEF Chained
<1>9. Apart'
  <2>1. \A x, w \in navs' : x.loader = w.loader => x = w
    BY <1>1, <1>2, <1>3 DEF World, Apart
  <2>2. ASSUME NEW w \in navs'
        PROVE  /\ w.loader # page'.loader /\ (n'.loaded => w.loader # n'.loader)
               /\ \A i \in Emitted' : Is(i, "load")' => feed'[i].loader # w.loader
    <3>1. PICK x \in navs : x.loader = w.loader
      BY <1>1, <1>2, <1>3
    <3>2. w.loader # page.loader /\ (n.loaded => w.loader # n.loader)
      BY <3>1 DEF World, Apart
    <3>3. \A i \in Emitted : Is(i, "load") => feed[i].loader # w.loader
      BY <3>1 DEF World, Apart
    <3>4. \A i \in Emitted' : Is(i, "load")' => i \in Emitted /\ feed'[i] = feed[i] /\ Is(i, "load")
      BY <1>2, <1>4 DEF Is
    <3> QED BY <1>3, <3>2, <3>3, <3>4
  <2>3. ASSUME NEW i \in Emitted', Is(i, "response")'
        PROVE  /\ n'.loaded => feed'[i].loader # n'.loader
               /\ \A j \in 1..i : Is(j, "load")' => feed'[j].loader # feed'[i].loader
    <3>1. CASE i \in Emitted
      <4>1. \A j \in 1..i : feed'[j] = feed[j]
        BY <1>4, <3>1 DEF Emitted, Typed
      <4>2. feed'[i] = feed[i] /\ Is(i, "response")
        BY <1>4, <2>3, <3>1 DEF Is
      <4> QED BY <1>3, <3>1, <4>1, <4>2 DEF World, Apart, Is
    <3>2. CASE feed'[i] = e
      <4>1. \A j \in 1..i : j \in Emitted'
        BY <1>3, Growing DEF Emitted
      <4>2. \A j \in Emitted : Is(j, "load") => feed[j].loader # v.loader
        BY <1>1 DEF World, Apart
      <4>3. n.loaded => v.loader # n.loader
        BY <1>1 DEF World, Apart
      <4>4. \A j \in Emitted' : Is(j, "load")' => j \in Emitted /\ feed'[j] = feed[j] /\ Is(j, "load")
        BY <1>2, <1>4 DEF Is
      <4> QED BY <1>2, <1>3, <3>2, <4>1, <4>2, <4>3, <4>4
    <3> QED BY <1>4, <3>1, <3>2
  <2> QED BY <2>1, <2>2, <2>3 DEF Apart
<1> QED BY <1>3, <1>5, <1>7, <1>8, <1>9 DEF World, Chain, Persists, Gone

LEMMA CommitKeeps ==
  ASSUME CaptureAssumption, Typed, World, BrowserCommits
  PROVE  World' /\ Persists
<1>1. PICK v \in navs :
        /\ page' = [loader |-> v.loader, url |-> IF v.responded THEN v.url ELSE Blank,
                    entry |-> 0, loaded |-> FALSE]
        /\ navs' = {w \in navs : w.loader > v.loader}
  BY DEF BrowserCommits
<1>2. /\ feed' = feed /\ n' = n /\ loaders' = loaders /\ page'.loader = v.loader
      /\ page'.url \in Urls => v.responded
  BY <1>1 DEF BrowserCommits, Program, CaptureAssumption
<1>3. PICK l \in Nat : l <= loaders /\ Chained(l)
  BY DEF World, Chain
<1>4. page.loader # l /\ ~Loaded(l)
  BY <1>1, <1>3 DEF Chained
<1>5. \A k \in Nat : (Newest(k)' <=> Newest(k)) /\ (Loaded(k)' <=> Loaded(k))
                     /\ (Responded(k)' <=> Responded(k))
  BY <1>2 DEF Newest, Loaded, Responded, Unasked, Quietly, Emitted, Is
<1>6. Counted'
  BY <1>1, <1>2 DEF World, Counted, Emitted, Is
<1>7. Chained(l)'
  <2>1. \A w \in navs' : /\ w.loader <= l
                         /\ IF w.responded THEN w.loader = l => Responded(l)' ELSE w.loader = l
    BY <1>1, <1>3, <1>5 DEF Chained
  <2>2. page'.loader = l => navs' = {}
    BY <1>1, <1>2, <1>3 DEF Chained, Typed, Nav
  <2>3. page'.loader = l /\ page'.url \in Urls => Responded(l)'
    BY <1>1, <1>2, <1>3, <1>5 DEF Chained
  <2> QED BY <1>3, <1>4, <1>5, <2>1, <2>2, <2>3 DEF Chained
<1>8. Apart'
  <2>1. \A w \in navs' : w.loader # v.loader
    BY <1>1 DEF Typed, Nav
  <2> QED BY <1>1, <1>2, <2>1 DEF World, Apart, Emitted, Is
<1>9. ~(Unasked /\ n.loaded)
  BY <1>3, <1>4 DEF Chained, Newest, Loaded, Unasked, Quietly, Emitted
<1>10. page'.loader > 0
  BY <1>2 DEF World, Counted, Typed, Nav
<1> QED BY <1>2, <1>3, <1>6, <1>7, <1>8, <1>9, <1>10 DEF World, Chain, Persists

LEMMA DropKeeps ==
  ASSUME Typed, World, BrowserDrops
  PROVE  World' /\ Persists
<1>1. /\ navs' \subseteq navs
      /\ feed' = feed /\ n' = n /\ loaders' = loaders /\ page' = page
  BY DEF BrowserDrops, Program
<1>2. PICK l \in Nat : l <= loaders /\ Chained(l)
  BY DEF World, Chain
<1>3. \A k \in Nat : (Newest(k)' <=> Newest(k)) /\ (Loaded(k)' <=> Loaded(k))
                     /\ (Responded(k)' <=> Responded(k))
  BY <1>1 DEF Newest, Loaded, Responded, Unasked, Quietly, Emitted, Is
<1>4. Chained(l)'
  BY <1>1, <1>2, <1>3 DEF Chained
<1>5. Counted' /\ Apart'
  BY <1>1 DEF World, Counted, Apart, Emitted, Is
<1> QED BY <1>1, <1>2, <1>4, <1>5 DEF World, Chain, Persists, Gone

LEMMA BlankKeeps ==
  ASSUME CaptureAssumption, Typed, World, BrowserBlanks
  PROVE  World' /\ Persists
<1>1. PICK k \in Nat : k = loaders + 1
  BY DEF Typed
<1>2. /\ feed' = feed /\ n' = n /\ loaders' = k /\ navs' = navs
      /\ page'.loader = k /\ page'.url = Blank
  BY <1>1 DEF BrowserBlanks, Program
<1>3. PICK l \in Nat : l <= loaders /\ Chained(l)
  BY DEF World, Chain
<1>4. \A j \in Nat : (Newest(j)' <=> Newest(j)) /\ (Loaded(j)' <=> Loaded(j))
                     /\ (Responded(j)' <=> Responded(j))
  BY <1>2 DEF Newest, Loaded, Responded, Unasked, Quietly, Emitted, Is
<1>5. Counted'
  <2>1. \A i \in Emitted : ~Is(i, "reply") => feed[i].loader \in Nat
    BY DEF Typed, Emitted, Messages, Events, Is
  <2>2. \A i \in Emitted' : ~Is(i, "reply")' => feed'[i].loader <= k
    BY <1>1, <1>2, <2>1 DEF World, Counted, Typed, Emitted, Is
  <2>3. \A v \in navs' : 0 < v.loader /\ v.loader <= k
    BY <1>1, <1>2 DEF World, Counted, Typed, Nav
  <2>4. page'.loader <= k /\ n'.loader <= k
    BY <1>1, <1>2 DEF World, Counted, Typed, Notice
  <2> QED BY <1>2, <2>2, <2>3, <2>4 DEF Counted
<1>6. Chained(l)'
  <2>1. page'.loader # l /\ page'.url \notin Urls
    BY <1>1, <1>2, <1>3 DEF Typed, CaptureAssumption
  <2>2. Loaded(l)' => navs' = {} /\ page'.url = Blank
    BY <1>2, <1>3, <1>4 DEF Chained
  <2> QED BY <1>2, <1>3, <1>4, <2>1, <2>2 DEF Chained
<1>7. Apart'
  <2>1. \A v \in navs : v.loader # k
    BY <1>1 DEF World, Counted, Typed, Nav
  <2> QED BY <1>2, <2>1 DEF World, Apart, Emitted, Is
<1>8. l <= loaders' /\ page'.loader > 0
  BY <1>1, <1>2, <1>3 DEF Typed
<1> QED BY <1>2, <1>3, <1>5, <1>6, <1>7, <1>8 DEF World, Chain, Persists, Gone

\* The document loads, or a script changes its address.
LEMMA ShowKeeps ==
  ASSUME Typed, World, BrowserLoads \/ BrowserRewrites
  PROVE  World' /\ Persists
<1>1. PICK e \in {Event("load", page.loader, Blank), Event("within", page.loader, Blank)} :
        feed' = Append(feed, e)
  BY DEF BrowserLoads, BrowserRewrites, Emit
<1>2. e.type \in {"load", "within"} /\ e.loader = page.loader
  BY DEF Event
<1>3. /\ n' = n /\ loaders' = loaders /\ navs' = navs
      /\ page'.loader = page.loader /\ page'.url = page.url
  BY DEF BrowserLoads, BrowserRewrites, Program, Typed, Page
<1>4. /\ \A i \in Emitted : i \in Emitted' /\ feed'[i] = feed[i]
      /\ \A i \in Emitted' : i \in Emitted \/ feed'[i] = e
      /\ Unasked' <=> Unasked
  BY <1>1, <1>2, Growing
<1>5. PICK l \in Nat : l <= loaders /\ Chained(l)
  BY DEF World, Chain
<1>6. Counted'
  BY <1>2, <1>3, <1>4 DEF World, Counted, Is
<1>7. Chained(l)'
  <2>1. Newest(l)' /\ (Responded(l) => Responded(l)') /\ (Loaded(l)' => Loaded(l) \/ page.loader = l)
    BY <1>1, <1>2, <1>3, <1>5, GrownChain DEF Chained
  <2> QED BY <1>3, <1>5, <2>1 DEF Chained
<1>8. Apart'
  <2>1. ASSUME NEW w \in navs'
        PROVE  /\ w.loader # page'.loader /\ (n'.loaded => w.loader # n'.loader)
               /\ \A i \in Emitted' : Is(i, "load")' => feed'[i].loader # w.loader
    <3>1. w \in navs /\ w.loader # page.loader /\ (n.loaded => w.loader # n.loader)
      BY <1>3 DEF World, Apart
    <3>2. \A i \in Emitted : Is(i, "load") => feed[i].loader # w.loader
      BY <1>3 DEF World, Apart
    <3> QED BY <1>2, <1>3, <1>4, <3>1, <3>2 DEF Is
  <2>2. ASSUME NEW i \in Emitted', Is(i, "response")'
        PROVE  /\ n'.loaded => feed'[i].loader # n'.loader
               /\ \A j \in 1..i : Is(j, "load")' => feed'[j].loader # feed'[i].loader
    <3>1. i \in Emitted /\ feed'[i] = feed[i] /\ Is(i, "response")
      BY <1>2, <1>4, <2>2 DEF Is
    <3>2. \A j \in 1..i : feed'[j] = feed[j]
      BY <1>4, <3>1 DEF Emitted, Typed
    <3>3. /\ n.loaded => feed[i].loader # n.loader
          /\ \A j \in 1..i : Is(j, "load") => feed[j].loader # feed[i].loader
      BY <3>1 DEF World, Apart
    <3> QED BY <1>3, <3>1, <3>2, <3>3 DEF Is
  <2>3. \A v, w \in navs' : v.loader = w.loader => v = w
    BY <1>3 DEF World, Apart
  <2> QED BY <2>1, <2>2, <2>3 DEF Apart
<1> QED BY <1>3, <1>5, <1>6, <1>7, <1>8 DEF World, Chain, Persists, Gone

\* Run and listen go on as they were while the browser does something.
Held == Answered /\ Loaders /\ Limited /\ Still

LEMMA BrowserKeepsHeld ==
  ASSUME Typed, Held, Persists, UNCHANGED <<n, cfg, out>>,
         feed' = feed \/ \E e : e.type # "reply" /\ feed' = Append(feed, e),
         pc' = pc \/ (pc = "navigate" /\ pc' = "navigating")
  PROVE  Held'
<1>1. /\ \A i \in Emitted' : Is(i, "reply")' => i \in Emitted /\ feed'[i] = feed[i] /\ Is(i, "reply")
      /\ Unasked' => Unasked
      /\ \A i \in Emitted : Quietly(i)' => Quietly(i)
  <2>1. CASE feed' = feed
    BY <2>1 DEF Emitted, Unasked, Quietly, Is
  <2>2. ASSUME NEW e, e.type # "reply", feed' = Append(feed, e)
        PROVE  /\ \A i \in Emitted' : Is(i, "reply")' =>
                    i \in Emitted /\ feed'[i] = feed[i] /\ Is(i, "reply")
               /\ Unasked' => Unasked
               /\ \A i \in Emitted : Quietly(i)' => Quietly(i)
    <3>1. /\ Len(feed) \in Nat
          /\ \A i \in Emitted : feed'[i] = feed[i]
          /\ \A i \in Emitted' : i \in Emitted \/ feed'[i] = e
          /\ \A k \in 0..Len(feed) : Quietly(k)' <=> Quietly(k)
          /\ Unasked' => Unasked
      BY <2>2, Growing
    <3> QED BY <2>2, <3>1 DEF Is, Emitted
  <2> QED BY <2>1, <2>2
<1>2. Answered'
  BY <1>1 DEF Held, Answered, Waiting
<1>3. Loaders'
  <2>1. pc' \notin Before \cup {"done", "failed"} => page'.loader > 0
    BY DEF Held, Loaders, Before, Persists
  <2>2. pc' = "shooting" => \A i \in Emitted' : Is(i, "reply")' => feed'[i].page.loader > 0
    BY <1>1 DEF Held, Loaders
  <2>3. pc' \in Taken \cup {"done"} => out'.image > 0
    BY DEF Held, Loaders, Taken
  <2> QED BY <2>1, <2>2, <2>3 DEF Loaders, Before, Taken
<1>4. Limited'
  BY DEF Held, Limited
<1>5. Still'
  <2>1. pc' \in Marked => out'.version <= n'.version /\ (Unchanged' => n'.loaded)
    BY DEF Held, Still, Marked, Unchanged
  <2>2. pc' = "shooting" /\ Unchanged' /\ Unasked' =>
          \A i \in Emitted' : Is(i, "reply")' /\ feed'[i].page.loader # n'.loader => Gone'
    BY <1>1 DEF Held, Still, Marked, Unchanged, Persists
  <2>3. pc' = "again" /\ Unchanged' /\ Unasked' /\ out'.image # n'.loader => Gone'
    BY <1>1 DEF Held, Still, Marked, Unchanged, Persists
  <2>4. pc' = "comparing" /\ Unchanged' =>
          \A i \in Emitted' : Is(i, "reply")' /\ Quietly(i)' /\ feed'[i].page.url \in Urls =>
            out'.image = n'.loader /\ EndsWith(n'.hops, n'.loader)
    BY <1>1 DEF Held, Still, Unchanged
  <2>5. /\ pc' = "check" /\ Unchanged' /\ out'.after[1] \in Urls =>
             out'.image = n'.loader /\ EndsWith(n'.hops, n'.loader)
        /\ pc' \in {"return", "done"} /\ out'.after[1] \in Urls => EndsWith(out'.hops, out'.image)
    BY DEF Held, Still, Unchanged
  <2> QED BY <2>1, <2>2, <2>3, <2>4, <2>5 DEF Still, Marked
<1> QED BY <1>2, <1>3, <1>4, <1>5 DEF Held

LEMMA BrowserKeeps ==
  ASSUME CaptureAssumption, Inv, Browser
  PROVE  Inv'
<1>1. Typed /\ World /\ Held
  BY DEF Inv, World, Chain, Held
<1>2. Typed'
  BY <1>1, BrowserTyped
<1>3. World' /\ Persists
  <2>1. ASSUME BrowserOpens PROVE World' /\ Persists
    BY <1>1, <2>1, OpenKeeps DEF BrowserOpens, Program
  <2> QED BY <1>1, <2>1, RedirectKeeps, RespondKeeps, CommitKeeps, DropKeeps, BlankKeeps,
             ShowKeeps DEF Browser
<1>4. UNCHANGED <<n, cfg, out, pc>>
  BY DEF Browser, BrowserOpens, BrowserRedirects, BrowserResponds, BrowserCommits, BrowserDrops,
         BrowserBlanks, BrowserLoads, BrowserRewrites, Program
<1>5. feed' = feed \/ \E e : e.type # "reply" /\ feed' = Append(feed, e)
  <2>1. feed' = feed \/ \E type \in {"request", "response", "load", "within"} : \E l, u :
                          feed' = Append(feed, Event(type, l, u))
    BY DEF Browser, BrowserOpens, BrowserRedirects, BrowserResponds, BrowserCommits, BrowserDrops,
           BrowserBlanks, BrowserLoads, BrowserRewrites, Open, Emit
  <2>2. \A type, l, u : Event(type, l, u).type = type
    BY DEF Event
  <2> QED BY <2>1, <2>2
<1>6. Held'
  BY <1>1, <1>3, <1>4, <1>5, BrowserKeepsHeld
<1> QED BY <1>2, <1>3, <1>6 DEF Inv, World, Chain, Held

-----------------------------------------------------------------------------
(* listen                                                                  *)

\* The head of the feed is delivered: to listen, or a reply to Run.
Delivered ==
  /\ feed # <<>> /\ feed' = Tail(feed) /\ UNCHANGED browser
  /\ IF Is(1, "request") THEN n'.loader = feed[1].loader /\ ~n'.loaded
     ELSE /\ n'.loader = n.loader
          /\ n'.loaded => n.loaded \/ (Is(1, "load") /\ feed[1].loader = n.loader)
          /\ EndsWith(n.hops, n.loader) => EndsWith(n'.hops, n.loader)
  /\ Is(1, "response") /\ feed[1].loader = n.loader => EndsWith(n'.hops, n.loader)

LEMMA DeliveredKeeps ==
  ASSUME Typed, World, Delivered
  PROVE  World'
<1>1. /\ Len(feed) \in Nat \ {0} /\ Len(feed') = Len(feed) - 1 /\ 1 \in Emitted
      /\ \A i \in Emitted' : i + 1 \in Emitted /\ feed'[i] = feed[i + 1]
      /\ \A i \in Emitted : i # 1 => i - 1 \in Emitted' /\ feed'[i - 1] = feed[i]
      /\ Unasked <=> Unasked' /\ ~Is(1, "request")
  BY Hearing DEF Delivered
<1>2. PICK l \in Nat : l <= loaders /\ Chained(l)
  BY DEF World, Chain
<1>3. UNCHANGED <<page, navs, loaders>>
  BY DEF Delivered, browser
<1>4. Counted'
  <2>1. n'.loader <= loaders
    <3>1. CASE Is(1, "request")
      BY <1>1, <3>1 DEF Delivered, World, Counted, Is
    <3>2. CASE ~Is(1, "request")
      BY <3>2 DEF Delivered, World, Counted
    <3> QED BY <3>1, <3>2
  <2>2. \A i \in Emitted' : ~Is(i, "reply")' => feed'[i].loader <= loaders
    BY <1>1 DEF World, Counted, Is
  <2> QED BY <1>3, <2>1, <2>2 DEF World, Counted
<1>5. Newest(l)'
  <2>1. CASE Unasked /\ n.loader = l
    BY <1>1, <2>1 DEF Delivered, Newest
  <2>2. ASSUME NEW i \in Emitted, Is(i, "request"), feed[i].loader = l,
               \A j \in i + 1..Len(feed) : ~Is(j, "request")
        PROVE  Newest(l)'
    <3>1. CASE i = 1
      <4>1. Unasked'
        <5>1. \A j \in 1..Len(feed') : j + 1 \in i + 1..Len(feed) /\ feed'[j] = feed[j + 1]
          BY <1>1, <3>1 DEF Emitted
        <5> QED BY <2>2, <5>1 DEF Unasked, Quietly, Is
      <4> QED BY <2>2, <3>1, <4>1 DEF Newest, Delivered
    <3>2. CASE i # 1
      <4>1. i - 1 \in Emitted' /\ feed'[i - 1] = feed[i]
        BY <1>1, <3>2
      <4>2. \A j \in (i - 1) + 1..Len(feed') : j + 1 \in i + 1..Len(feed) /\ feed'[j] = feed[j + 1]
        BY <1>1, <3>2 DEF Emitted
      <4> QED BY <2>2, <4>1, <4>2 DEF Newest, Is
    <3> QED BY <3>1, <3>2
  <2> QED BY <1>2, <2>1, <2>2 DEF Chained, Newest
<1>6. Loaded(l)' => Loaded(l)
  <2>1. CASE Unasked' /\ n'.loaded /\ n'.loader = l
    BY <1>1, <2>1 DEF Delivered, Loaded
  <2>2. ASSUME NEW i \in Emitted', Is(i, "load")', feed'[i].loader = l PROVE Loaded(l)
    BY <1>1, <2>2 DEF Loaded, Is
  <2> QED BY <2>1, <2>2 DEF Loaded
<1>7. Responded(l) => Responded(l)'
  <2>u. Unasked => n.loader = l
    BY <1>2 DEF Chained, Newest, Unasked, Quietly, Emitted
  <2>1. CASE Unasked /\ EndsWith(n.hops, l)
    BY <1>1, <2>u, <2>1 DEF Delivered, Responded
  <2>2. ASSUME NEW i \in Emitted, Is(i, "response"), feed[i].loader = l,
               \A j \in i + 1..Len(feed) : ~Is(j, "request")
        PROVE  Responded(l)'
    <3>1. CASE i = 1
      <4>1. Unasked
        <5>1. \A j \in 1..Len(feed) : j # 1 => j \in i + 1..Len(feed)
          BY <1>1, <3>1
        <5>2. ~Is(1, "request")
          BY <2>2, <3>1 DEF Is
        <5> QED BY <2>2, <5>1, <5>2 DEF Unasked, Quietly
      <4> QED BY <1>1, <2>u, <2>2, <3>1, <4>1 DEF Responded, Delivered
    <3>2. CASE i # 1
      <4>1. i - 1 \in Emitted' /\ feed'[i - 1] = feed[i]
        BY <1>1, <3>2
      <4>2. \A j \in (i - 1) + 1..Len(feed') : j + 1 \in i + 1..Len(feed) /\ feed'[j] = feed[j + 1]
        BY <1>1, <3>2 DEF Emitted
      <4> QED BY <2>2, <4>1, <4>2 DEF Responded, Is
    <3> QED BY <3>1, <3>2
  <2> QED BY <2>1, <2>2 DEF Responded
<1>8. Chained(l)'
  BY <1>2, <1>3, <1>5, <1>6, <1>7 DEF Chained
<1>9. Apart'
  <2>1. \A v, w \in navs' : v.loader = w.loader => v = w
    BY <1>3 DEF World, Apart
  <2>2. n'.loaded => /\ n'.loader = n.loader
                     /\ n.loaded \/ (Is(1, "load") /\ feed[1].loader = n.loader)
    BY DEF Delivered
  <2>3. ASSUME NEW v \in navs'
        PROVE  /\ v.loader # page'.loader /\ (n'.loaded => v.loader # n'.loader)
               /\ \A i \in Emitted' : Is(i, "load")' => feed'[i].loader # v.loader
    <3>1. v \in navs /\ v.loader # page.loader /\ (n.loaded => v.loader # n.loader)
          /\ \A i \in Emitted : Is(i, "load") => feed[i].loader # v.loader
      BY <1>3 DEF World, Apart
    <3> QED BY <1>1, <1>3, <2>2, <3>1 DEF Is
  <2>4. ASSUME NEW i \in Emitted', Is(i, "response")'
        PROVE  /\ n'.loaded => feed'[i].loader # n'.loader
               /\ \A j \in 1..i : Is(j, "load")' => feed'[j].loader # feed'[i].loader
    <3>1. i + 1 \in Emitted /\ feed'[i] = feed[i + 1] /\ Is(i + 1, "response")
      BY <1>1, <2>4 DEF Is
    <3>2. /\ n.loaded => feed[i + 1].loader # n.loader
          /\ \A j \in 1..i + 1 : Is(j, "load") => feed[j].loader # feed[i + 1].loader
      BY <3>1 DEF World, Apart
    <3>3. \A j \in 1..i : j + 1 \in 1..i + 1 /\ feed'[j] = feed[j + 1]
      BY <1>1 DEF Emitted
    <3>4. 1 \in 1..i + 1
      BY <3>1 DEF Emitted
    <3> QED BY <2>2, <3>1, <3>2, <3>3, <3>4 DEF Is
  <2> QED BY <2>1, <2>3, <2>4 DEF Apart
<1> QED BY <1>2, <1>3, <1>4, <1>8, <1>9 DEF World, Chain

LEMMA ListenKeeps ==
  ASSUME Inv, Listen
  PROVE  Inv'
<1>1. Typed /\ World /\ Held
  BY DEF Inv, World, Chain, Held
<1>2. /\ Typed' /\ UNCHANGED <<browser, cfg, pc, out>> /\ ~Ended
      /\ feed # <<>> /\ feed' = Tail(feed) /\ feed[1] \in Events
      /\ n' = IF Notes(feed[1]) THEN Note(feed[1]) ELSE n
  BY <1>1, ListenTyped
<1> DEFINE e == feed[1]
<1>3. /\ n \in Notice /\ n.version \in Nat /\ n.requests \in Nat
      /\ e.type \in {"request", "response", "load", "within"}
  BY <1>1, <1>2 DEF Typed, Notice, Events
<1>4. \/ /\ e.type = "request" /\ n'.loader = e.loader /\ ~n'.loaded
         /\ n'.version = n.version + 1 /\ n'.requests = n.requests + 1
         /\ n.err \/ n'.requests > cfg.limit + 1 => n'.err
      \/ /\ e.type = "response" /\ e.loader = n.loader /\ EndsWith(n'.hops, e.loader)
         /\ n'.version = n.version + 1
         /\ n'.loader = n.loader /\ n'.loaded = n.loaded /\ n'.requests = n.requests
         /\ n'.err = n.err
      \/ /\ e.type = "load" /\ e.loader = n.loader /\ n'.loaded
         /\ n'.version = n.version /\ n'.hops = n.hops
         /\ n'.loader = n.loader /\ n'.requests = n.requests /\ n'.err = n.err
      \/ /\ e.type = "within" /\ n'.version = n.version + 1 /\ n'.hops = n.hops
         /\ n'.loader = n.loader /\ n'.loaded = n.loaded /\ n'.requests = n.requests
         /\ n'.err = n.err
      \/ /\ e.type \in {"response", "load"} /\ e.loader # n.loader /\ n' = n
  <2>1. CASE ~Notes(e)
    BY <1>2, <1>3, <2>1 DEF Notes
  <2>2. CASE Notes(e)
    <3> DEFINE hops == Append(n.hops, Hop(e, TRUE))
    <3>1. n' = Note(e) /\ e \in Events
      BY <1>2, <2>2
    <3>2. CASE e.type = "request"
      BY <1>1, <2>2, <3>1, <3>2, NoteTyped
    <3>3. CASE e.type = "response"
      <4>1. /\ n' = [n EXCEPT !.hops = hops, !.version = @ + 1]
            /\ e.loader = n.loader /\ EndsWith(n'.hops, e.loader)
        BY <1>1, <2>2, <3>1, <3>3, NoteTyped
      <4> HIDE DEF hops
      <4> QED BY <1>3, <3>3, <4>1 DEF Notice
    <3>4. CASE e.type = "load"
      <4>1. n' = [n EXCEPT !.loaded = TRUE] /\ e.loader = n.loader
        BY <1>1, <2>2, <3>1, <3>4, NoteTyped
      <4> QED BY <1>3, <3>4, <4>1 DEF Notice
    <3>5. CASE e.type = "within"
      <4>1. n' = [n EXCEPT !.version = @ + 1]
        BY <1>1, <2>2, <3>1, <3>5, NoteTyped
      <4> QED BY <1>3, <3>5, <4>1 DEF Notice
    <3> QED BY <1>3, <3>2, <3>3, <3>4, <3>5
  <2> QED BY <2>1, <2>2
<1>5. World'
  <2>1. Delivered
    BY <1>2, <1>4 DEF Delivered, Is
  <2> QED BY <1>1, <2>1, DeliveredKeeps
<1>6. /\ \A i \in Emitted' : i + 1 \in Emitted /\ feed'[i] = feed[i + 1]
      /\ Unasked' /\ ~Is(1, "request") => Unasked
      /\ \A k \in Emitted' : ~Is(1, "request") /\ Quietly(k)' => Quietly(k + 1)
      /\ Emitted \subseteq Nat /\ Emitted' \subseteq Nat
  BY <1>1, <1>2, Hearing DEF Emitted
<1>7. pc \in Marked => out.version <= n'.version /\ (Unchanged' =>
        Unchanged /\ n'.loader = n.loader /\ n'.hops = n.hops /\ n'.loaded /\ ~Is(1, "request"))
  <2>1. pc \in Marked => out.version <= n.version /\ (Unchanged => n.loaded)
    BY <1>1 DEF Held, Still
  <2> QED BY <1>1, <1>2, <1>3, <1>4, <2>1 DEF Unchanged, Is, Typed
<1>8. Answered' /\ Loaders' /\ Limited'
  <2>1. Answered'
    <3>1. ASSUME NEW i \in Emitted', NEW j \in Emitted', Is(i, "reply")', Is(j, "reply")'
          PROVE  i = j
      <4>1. i + 1 = j + 1
        BY <1>1, <1>6, <3>1 DEF Held, Answered, Is
      <4> QED BY <1>6, <4>1
    <3>2. pc' \notin Waiting \cup {"done", "failed"} => \A i \in Emitted' : ~Is(i, "reply")'
      BY <1>1, <1>2, <1>6 DEF Held, Answered, Is
    <3> QED BY <3>1, <3>2 DEF Answered
  <2>2. Loaders'
    BY <1>1, <1>2, <1>6 DEF Held, Loaders, Is, browser
  <2>3. Limited'
    BY <1>1, <1>2, <1>3, <1>4 DEF Held, Limited, Ended
  <2> QED BY <2>1, <2>2, <2>3
<1>9. Still'
  <2>1. pc' \in Marked => out'.version <= n'.version /\ (Unchanged' => n'.loaded)
    BY <1>2, <1>7
  <2>2. pc' = "shooting" /\ Unchanged' /\ Unasked' =>
          \A i \in Emitted' : Is(i, "reply")' /\ feed'[i].page.loader # n'.loader => Gone'
    BY <1>1, <1>2, <1>6, <1>7 DEF Held, Still, Marked, Is, Gone, browser
  <2>3. pc' = "again" /\ Unchanged' /\ Unasked' /\ out'.image # n'.loader => Gone'
    BY <1>1, <1>2, <1>6, <1>7 DEF Held, Still, Marked, Gone, browser
  <2>4. pc' = "comparing" /\ Unchanged' =>
          \A i \in Emitted' : Is(i, "reply")' /\ Quietly(i)' /\ feed'[i].page.url \in Urls =>
            out'.image = n'.loader /\ EndsWith(n'.hops, n'.loader)
    BY <1>1, <1>2, <1>6, <1>7 DEF Held, Still, Marked, Is
  <2>5. pc' = "check" /\ Unchanged' /\ out'.after[1] \in Urls =>
          out'.image = n'.loader /\ EndsWith(n'.hops, n'.loader)
    BY <1>1, <1>2, <1>7 DEF Held, Still, Marked
  <2>6. pc' \in {"return", "done"} /\ out'.after[1] \in Urls => EndsWith(out'.hops, out'.image)
    BY <1>1, <1>2 DEF Held, Still
  <2> QED BY <2>1, <2>2, <2>3, <2>4, <2>5, <2>6 DEF Still, Marked
<1> QED BY <1>2, <1>5, <1>8, <1>9 DEF Inv, World, Chain

-----------------------------------------------------------------------------
(* Run and settle                                                          *)

LEMMA InwardKeeps ==
  ASSUME Inv, Inward
  PROVE  Inv'
<1>1. Typed /\ World /\ Held
  BY DEF Inv, World, Chain, Held
<1>2. Typed' /\ UNCHANGED <<page, navs, loaders, sent, scripts, feed, n, cfg>>
  BY <1>1, InwardTyped DEF browser
<1>3. World'
  BY <1>1, <1>2 DEF World, Counted, Chain, Chained, Newest, Loaded, Responded, Unasked, Quietly,
                    Apart, Emitted, Is
<1>4. /\ Emitted' = Emitted /\ (Unasked' <=> Unasked) /\ (Gone' <=> Gone)
      /\ \A i \in Emitted : (Quietly(i)' <=> Quietly(i))
      /\ \A i \in Emitted, type \in {"reply", "request"} : Is(i, type)' <=> Is(i, type)
  BY <1>2 DEF Emitted, Unasked, Quietly, Gone, Is
<1>5. CASE Changed \/ TimerFires \/ Quiet
  <2>1. out' = out /\ pc = "settle" /\ pc' \in {"settle", "pause"}
    BY <1>5 DEF Changed, TimerFires, Quiet
  <2> QED BY <1>1, <1>2, <1>3, <1>4, <2>1
          DEF Inv, World, Chain, Held, Answered, Loaders, Limited, Still, Waiting, Before, Marked, Taken
<1>6. CASE Start \/ Fail
  <2>1. \/ pc = "start" /\ pc' = "navigate" /\ out' = out
        \/ pc' = "failed"
    BY <1>1, <1>6, ReturnTyped DEF Start, Fail
  <2> QED BY <1>1, <1>2, <1>3, <1>4, <2>1
          DEF Inv, World, Chain, Held, Answered, Loaders, Limited, Still, Waiting, Before, Marked, Taken
<1>7. CASE Navigated
  <2>1. out' = out /\ pc = "navigating" /\ pc' = "settle" /\ page.loader > 0
    BY <1>7 DEF Navigated
  <2> QED BY <1>1, <1>2, <1>3, <1>4, <2>1
          DEF Inv, World, Chain, Held, Answered, Loaders, Limited, Still, Waiting, Before, Marked, Taken
<1>8. CASE Mark
  <2>1. /\ pc = "mark"
        /\ \/ n.loaded /\ pc' = "look" /\ out'.version = n.version
           \/ pc' = "failed"
    BY <1>1, <1>8, ReturnTyped DEF Mark, Typed, Shape
  <2>2. n.version <= n.version
    BY <1>1 DEF Typed, Notice
  <2> QED BY <1>1, <1>2, <1>3, <1>4, <2>1, <2>2
          DEF Inv, World, Chain, Held, Answered, Loaders, Limited, Still, Waiting, Before, Marked, Taken
<1>9. CASE Check
  <2>1. /\ pc = "check" /\ pc' \in {"return", "reject"} /\ (pc' = "return" => Unchanged)
        /\ out'.hops = n.hops /\ out'.after = out.after /\ out'.image = out.image
    BY <1>1, <1>9 DEF Check, Stable, Unchanged, Typed, Shape
  <2>2. pc' = "return" /\ out'.after[1] \in Urls => EndsWith(out'.hops, out'.image)
    BY <1>1, <2>1 DEF Held, Still, EndsWith
  <2> QED BY <1>1, <1>2, <1>3, <1>4, <2>1, <2>2
          DEF Inv, World, Chain, Held, Answered, Loaders, Limited, Still, Waiting, Before, Marked, Taken
<1>10. CASE Finish
  <2>1. \/ /\ pc = "return" /\ pc' = "done" /\ ~n.err
           /\ out'.hops = out.hops /\ out'.after = out.after /\ out'.image = out.image
        \/ pc' = "failed"
    <3>1. (pc = "reject") \in BOOLEAN /\ Return(out, pc = "reject") /\ pc \in {"return", "reject"}
      BY <1>10 DEF Finish
    <3> QED BY <1>1, <3>1, ReturnTyped
  <2> QED BY <1>1, <1>2, <1>3, <1>4, <2>1
          DEF Inv, World, Chain, Held, Answered, Loaders, Limited, Still, Waiting, Before, Marked, Taken
<1> QED BY <1>5, <1>6, <1>7, <1>8, <1>9, <1>10 DEF Inward

LEMMA NavigateKeeps ==
  ASSUME CaptureAssumption, Inv, Navigate
  PROVE  Inv'
<1>1. Typed /\ World /\ Held
  BY DEF Inv, World, Chain, Held
<1>2. /\ Open(cfg.url) /\ cfg.url \in Urls
      /\ UNCHANGED <<n, token, cfg, timer, out>> /\ pc = "navigate" /\ pc' = "navigating"
  BY <1>1 DEF Navigate, CaptureAssumption, Typed
<1>3. Typed'
  BY <1>1, <1>2, OpenTyped DEF Typed, Shape
<1>4. World' /\ Persists
  BY <1>1, <1>2, OpenKeeps
<1>5. \E e : e.type # "reply" /\ feed' = Append(feed, e)
  <2>1. Event("request", loaders', Blank).type # "reply"
    BY DEF Event
  <2> QED BY <1>2, <2>1 DEF Open, Emit
<1>6. Held'
  BY <1>1, <1>2, <1>4, <1>5, BrowserKeepsHeld
<1> QED BY <1>3, <1>4, <1>6 DEF Inv, World, Chain, Held

\* The browser executes a command: what the reply says is so at this moment.
LEMMA CommandKeeps ==
  ASSUME CaptureAssumption, Inv, Commands
  PROVE  Inv'
<1> DEFINE e == [type |-> "reply", page |-> page]
<1>1. Typed /\ World /\ Held
  BY DEF Inv, World, Chain, Held
<1>2. /\ Typed' /\ UNCHANGED <<page, navs, loaders, n, cfg, out>>
      /\ feed' = Append(feed, e) /\ e.type = "reply" /\ e.page = page
  BY <1>1, CommandTyped
<1>3. \/ pc = "pause" /\ pc' = "paused"
      \/ pc = "look" /\ pc' = "looking"
      \/ pc = "shoot" /\ pc' = "shooting"
      \/ pc = "again" /\ pc' = "comparing"
  BY DEF Commands, Pause, LookOnce, Shoot, LookBack, Command
<1> HIDE DEF e
<1>k. PICK k \in Nat : k = Len(feed) + 1
  BY <1>1 DEF Typed
<1>4. /\ \A i \in Emitted : i \in Emitted' /\ feed'[i] = feed[i]
      /\ \A i \in Emitted' : i \in Emitted \/ (i = k /\ feed'[i] = e)
      /\ Unasked' <=> Unasked
      /\ Quietly(k)' => Unasked
  <2>1. /\ Len(feed) \in Nat /\ Len(feed') = Len(feed) + 1
        /\ \A i \in Emitted : i \in Emitted' /\ feed'[i] = feed[i]
        /\ feed'[Len(feed')] = e /\ Len(feed') \in Emitted'
        /\ \A i \in Emitted' : i \in Emitted \/ i = Len(feed')
        /\ Unasked' <=> Unasked /\ e.type # "request"
    BY <1>1, <1>2, Growing
  <2>2. Quietly(k)' => Unasked'
    BY <1>k, <2>1 DEF Unasked, Quietly
  <2> QED BY <1>2, <1>k, <2>1, <2>2
<1>5. PICK l \in Nat : l <= loaders /\ Chained(l)
  BY <1>1 DEF World, Chain
<1>6. World'
  <2>1. Counted'
    BY <1>1, <1>2, <1>4 DEF World, Counted, Is
  <2>2. Chained(l)'
    <3>1. Newest(l)' /\ (Responded(l) => Responded(l)') /\ (Loaded(l)' => Loaded(l))
      BY <1>1, <1>2, <1>5, GrownChain DEF Chained
    <3> QED BY <1>2, <1>5, <3>1 DEF Chained
  <2>3. Apart'
    <3>1. \A v, w \in navs' : v.loader = w.loader => v = w
      BY <1>1, <1>2 DEF World, Apart
    <3>2. ASSUME NEW v \in navs'
          PROVE  /\ v.loader # page'.loader /\ (n'.loaded => v.loader # n'.loader)
                 /\ \A i \in Emitted' : Is(i, "load")' => feed'[i].loader # v.loader
      <4>1. v \in navs /\ v.loader # page.loader /\ (n.loaded => v.loader # n.loader)
            /\ \A i \in Emitted : Is(i, "load") => feed[i].loader # v.loader
        BY <1>1, <1>2 DEF World, Apart
      <4> QED BY <1>2, <1>4, <4>1 DEF Is
    <3>3. ASSUME NEW i \in Emitted', Is(i, "response")'
          PROVE  /\ n'.loaded => feed'[i].loader # n'.loader
                 /\ \A j \in 1..i : Is(j, "load")' => feed'[j].loader # feed'[i].loader
      <4>1. i \in Emitted /\ feed'[i] = feed[i] /\ Is(i, "response")
        BY <1>2, <1>4, <3>3 DEF Is
      <4>2. \A j \in 1..i : feed'[j] = feed[j]
        BY <1>1, <1>4, <4>1 DEF Emitted, Typed
      <4>3. /\ n.loaded => feed[i].loader # n.loader
            /\ \A j \in 1..i : Is(j, "load") => feed[j].loader # feed[i].loader
        BY <1>1, <4>1 DEF World, Apart
      <4> QED BY <1>2, <4>1, <4>2, <4>3 DEF Is
    <3> QED BY <3>1, <3>2, <3>3 DEF Apart
  <2> QED BY <1>2, <1>5, <2>1, <2>2, <2>3 DEF World, Chain
<1>7. \A i \in Emitted' : Is(i, "reply")' => i = k /\ feed'[i].page = page
  <2>1. \A i \in Emitted : ~Is(i, "reply")
    BY <1>1, <1>3 DEF Held, Answered, Waiting
  <2> QED BY <1>2, <1>4, <2>1 DEF Is
<1>8. Answered'
  BY <1>3, <1>7 DEF Answered, Waiting
<1>9. Loaders'
  BY <1>1, <1>2, <1>3, <1>7 DEF Held, Loaders, Before, Taken
<1>10. Limited'
  BY <1>1, <1>2, <1>3 DEF Held, Limited
<1>11. Unchanged /\ pc \in Marked => n.loaded
  BY <1>1 DEF Held, Still
<1>12. Unasked /\ n.loaded =>
         /\ page.loader # n.loader => Gone
         /\ page.loader = n.loader /\ page.url \in Urls => EndsWith(n.hops, n.loader)
  <2> SUFFICES ASSUME Unasked, n.loaded
               PROVE  /\ page.loader # n.loader => Gone
                      /\ page.loader = n.loader /\ page.url \in Urls => EndsWith(n.hops, n.loader)
    OBVIOUS
  <2>1. n.loader = l
    BY <1>5 DEF Chained, Newest, Unasked, Quietly, Emitted
  <2>2. Loaded(l)
    BY <2>1 DEF Loaded
  <2>3. page.loader # l => Gone
    BY <1>5, <2>2 DEF Chained, Gone
  <2>4. ASSUME page.loader = l, page.url \in Urls PROVE EndsWith(n.hops, l)
    <3>1. Responded(l)
      BY <1>5, <2>4 DEF Chained
    <3>2. \A i \in Emitted : Is(i, "response") => feed[i].loader # l
      BY <1>1, <2>1 DEF World, Apart
    <3> QED BY <3>1, <3>2 DEF Responded
  <2> QED BY <2>1, <2>3, <2>4
<1>13. Still'
  <2>1. pc' \in Marked => out'.version <= n'.version /\ (Unchanged' => n'.loaded)
    BY <1>1, <1>2, <1>3 DEF Held, Still, Marked, Unchanged
  <2>2. pc' = "shooting" /\ Unchanged' /\ Unasked' =>
          \A i \in Emitted' : Is(i, "reply")' /\ feed'[i].page.loader # n'.loader => Gone'
    BY <1>2, <1>3, <1>4, <1>7, <1>11, <1>12 DEF Marked, Unchanged, Gone
  <2>3. pc' = "comparing" /\ Unchanged' =>
          \A i \in Emitted' : Is(i, "reply")' /\ Quietly(i)' /\ feed'[i].page.url \in Urls =>
            out'.image = n'.loader /\ EndsWith(n'.hops, n'.loader)
    <3> SUFFICES ASSUME pc' = "comparing", Unchanged', NEW i \in Emitted', Is(i, "reply")',
                        Quietly(i)', feed'[i].page.url \in Urls
                 PROVE  out.image = n.loader /\ EndsWith(n.hops, n.loader)
      BY <1>2
    <3>1. pc = "again" /\ Unchanged /\ Unasked /\ page.url \in Urls /\ ~Gone
      <4>1. i = k /\ feed'[i].page = page
        BY <1>7
      <4>2. Unasked
        BY <1>4, <4>1
      <4>3. pc = "again" /\ Unchanged
        BY <1>2, <1>3 DEF Unchanged
      <4> QED BY <4>1, <4>2, <4>3 DEF Gone, CaptureAssumption
    <3>2. out.image = n.loader
      BY <1>1, <3>1 DEF Held, Still
    <3>3. n.loaded
      BY <1>11, <3>1 DEF Marked
    <3> QED BY <1>12, <3>1, <3>2, <3>3
  <2> QED BY <1>3, <2>1, <2>2, <2>3 DEF Still, Marked
<1> QED BY <1>2, <1>6, <1>8, <1>9, <1>10, <1>13 DEF Inv, World, Chain

LEMMA ReplyKeeps ==
  ASSUME Inv, Replies
  PROVE  Inv'
<1>1. Typed /\ World /\ Held
  BY DEF Inv, World, Chain, Held
<1>2. /\ Typed' /\ UNCHANGED <<browser, n, cfg>> /\ feed # <<>> /\ feed' = Tail(feed)
      /\ Is(1, "reply") /\ ~Is(1, "request") /\ feed[1].type = "reply"
      /\ Seen = feed[1].page /\ Seen \in Page
  BY <1>1, ReplyTyped DEF Is
<1>3. World'
  <2>1. Delivered
    BY <1>2 DEF Delivered, Is
  <2> QED BY <1>1, <2>1, DeliveredKeeps
<1>4. /\ 1 \in Emitted /\ \A i \in Emitted' : ~Is(i, "reply")'
      /\ Unasked' => Unasked
      /\ Quietly(1)
  <2>1. /\ Len(feed) \in Nat \ {0} /\ 1 \in Emitted
        /\ \A i \in Emitted' : i + 1 \in Emitted /\ feed'[i] = feed[i + 1] /\ i + 1 # 1
        /\ Unasked' => Unasked
    <3>1. \A i \in Emitted' : i + 1 # 1
      BY DEF Emitted
    <3> QED BY <1>1, <1>2, <3>1, Hearing
  <2>2. \A i \in Emitted' : ~Is(i, "reply")'
    BY <1>1, <1>2, <2>1 DEF Held, Answered, Is
  <2> QED BY <1>2, <2>1, <2>2 DEF Quietly
<1>5. page' = page
  BY <1>2 DEF browser
<1>6. \/ pc = "paused" /\ pc' = "mark" /\ out' = out
      \/ /\ pc = "looking" /\ pc' = "shoot"
         /\ out'.version = out.version /\ out'.image = out.image
      \/ /\ pc = "shooting" /\ pc' = "again"
         /\ out'.version = out.version /\ out'.image = Seen.loader
      \/ /\ pc = "comparing" /\ pc' = "check" /\ out'.version = out.version
         /\ out'.image = out.image /\ out'.after[1] = Seen.url
  BY <1>1 DEF Typed, Shape, Replies, Paused, Looked, Shot, Looking, Reply, Address
<1>7. Answered' /\ Limited'
  BY <1>1, <1>2, <1>4, <1>6 DEF Held, Answered, Limited
<1>8. Loaders'
  BY <1>1, <1>2, <1>4, <1>5, <1>6 DEF Held, Loaders, Before, Taken
<1>9. Still'
  <2>1. pc' \in Marked => out'.version <= n'.version /\ (Unchanged' => n'.loaded)
    BY <1>1, <1>2, <1>6 DEF Held, Still, Marked, Unchanged
  <2>2. pc' = "again" /\ Unchanged' /\ Unasked' /\ out'.image # n'.loader => Gone'
    BY <1>1, <1>2, <1>4, <1>5, <1>6 DEF Held, Still, Unchanged, Gone
  <2>3. pc' = "check" /\ Unchanged' /\ out'.after[1] \in Urls =>
          out'.image = n'.loader /\ EndsWith(n'.hops, n'.loader)
    BY <1>1, <1>2, <1>4, <1>6 DEF Held, Still, Unchanged
  <2> QED BY <1>6, <2>1, <2>2, <2>3 DEF Still, Marked
<1> QED BY <1>2, <1>3, <1>7, <1>8, <1>9 DEF Inv, World, Chain, Held

-----------------------------------------------------------------------------
(* The theorem                                                             *)

LEMMA NextInv ==
  ASSUME CaptureAssumption, Inv, [Next]_vars
  PROVE  Inv'
<1>1. CASE Browser
  BY <1>1, BrowserKeeps
<1>2. CASE Listen
  BY <1>2, ListenKeeps
<1>3. CASE Inward
  BY <1>3, InwardKeeps
<1>4. CASE Navigate
  BY <1>4, NavigateKeeps
<1>5. CASE Commands
  BY <1>5, CommandKeeps
<1>6. CASE Replies
  BY <1>6, ReplyKeeps
<1>7. CASE UNCHANGED vars
  <2>1. UNCHANGED <<page, navs, loaders, sent, feed, n, token, cfg, pc, timer, out>>
    BY <1>7 DEF vars, browser
  <2>2. Typed' /\ Counted' /\ Apart'
    BY <2>1 DEF Inv, Typed, Shape, Counted, Apart, Emitted, Is
  <2>3. PICK l \in Nat : l <= loaders /\ Chained(l)
    BY DEF Inv
  <2>4. Chained(l)'
    BY <2>1, <2>3 DEF Chained, Newest, Loaded, Responded, Unasked, Quietly, Emitted, Is
  <2>5. Answered' /\ Loaders' /\ Limited'
    BY <2>1 DEF Inv, Answered, Loaders, Limited, Emitted, Is
  <2>6. Still'
    BY <2>1 DEF Inv, Still, Unchanged, Gone, Unasked, Quietly, Emitted, Is
  <2> QED BY <2>1, <2>2, <2>3, <2>4, <2>5, <2>6 DEF Inv
<1> QED BY <1>1, <1>2, <1>3, <1>4, <1>5, <1>6, <1>7
        DEF Next, Run, Inward, Commands, Replies

LEMMA InvImages ==
  ASSUME CaptureAssumption, Inv
  PROVE  ImageIsOfTheChain
<1>1. Typed /\ Loaders /\ Limited /\ Still
  BY DEF Inv
<1>2. ImageShowsLastHop
  <2>1. Published => EndsWith(out.hops, out.image)
    BY <1>1 DEF Published, Verified, Still
  <2> QED BY <2>1 DEF ImageShowsLastHop, EndsWith
<1>3. NoImagePastTheLimit
  <2>1. n.requests \in Nat /\ cfg.limit + 1 \in Nat /\ out.image \in Nat
    BY <1>1 DEF Typed, Notice, CaptureAssumption
  <2>2. pc = "done" => out.image > 0 /\ ~(n.requests > cfg.limit + 1)
    BY <1>1 DEF Loaders, Limited, Taken
  <2> QED BY <2>1, <2>2 DEF NoImagePastTheLimit
<1> QED BY <1>2, <1>3 DEF ImageIsOfTheChain

\* However often and whenever the browser navigates, redirects, or replaces the document
\* while Run looks at it, and whatever the limit: an image that is published shows the
\* document of the last hop listen recorded, that hop is its response, and no session that
\* went past its redirects has an image (capture.go:268, 319, browser.go:92).
THEOREM ImagesAreOfTheChain ==
  ASSUME CaptureAssumption
  PROVE  Spec => []ImageIsOfTheChain
<1>1. Init => Inv
  BY InitInv
<1>2. Inv /\ [Next]_vars => Inv'
  BY NextInv
<1>3. Inv => ImageIsOfTheChain
  BY InvImages
<1> QED BY <1>1, <1>2, <1>3, PTL DEF Spec
=============================================================================
