--------------------------- MODULE BrowserCapture ----------------------------
(***************************************************************************)
(* browsercapture.Run: one browser session navigates, waits for the main   *)
(* document to load and to be quiet, and takes an image between two looks  *)
(* at the document.  The browser is external: it navigates when it wants,  *)
(* emits events and executes commands; events and replies arrive in the    *)
(* order in which it emits them.  A navigation has a loader; an image      *)
(* shows the document that is committed when the command is executed.      *)
(***************************************************************************)
EXTENDS Naturals, Sequences, FiniteSets

CONSTANTS
  Urls, Authority, \* network documents, and the scheme and host of each
  Blank,           \* a document without authority: about:blank, an error page
  Configs,         \* profile and endpoint of the task
  MaxLoaders,      \* bound on the navigations of the session
  MaxRequests,     \* bound on its requests for the main document
  MaxHistory       \* bound on its same-document navigations

CaptureAssumption ==
  /\ Blank \notin Urls /\ MaxLoaders \in Nat /\ MaxRequests \in Nat
  /\ \A c \in Configs : c.limit \in Nat /\ c.url \in Urls

VARIABLES
  page,    \* the committed document: loader, url, history entry, loaded
  navs,    \* navigations in flight: loader, url, responded
  loaders, \* loaders handed out
  sent,    \* requests for the main document
  scripts, \* scripts may run
  feed,    \* events and replies emitted and not delivered
  n,       \* type navigation: what listen has seen
  token,   \* the channel changed, capacity 1
  cfg, pc, timer, \* Run and settle
  out      \* Run: what it has read, and its result

browser == <<page, navs, loaders, sent, scripts>>
vars == <<browser, feed, n, token, cfg, pc, timer, out>>

Ended == pc \in {"done", "failed"}
AuthorityOf(u) == IF u \in Urls THEN Authority[u] ELSE Blank
Address(p) == <<p.url, p.entry>>

-----------------------------------------------------------------------------
(* The browser                                                             *)

Emit(e) == feed' = Append(feed, e)
Program == UNCHANGED <<n, token, cfg, pc, timer, out>>

Event(type, loader, url) == [type |-> type, loader |-> loader, url |-> url]

\* A new navigation of the main frame: a link, a refresh, a script, a reload.  It
\* cancels one that waits for its response; one that has it may still commit.
Open(u) ==
  /\ loaders' = loaders + 1 /\ sent' = sent + 1
  /\ navs' = {v \in navs : v.responded} \cup
             {[loader |-> loaders', url |-> u, responded |-> FALSE]}
  /\ Emit(Event("request", loaders', Blank))
  /\ UNCHANGED <<page, scripts>>

BrowserOpens ==
  /\ pc \notin {"start", "navigate", "done", "failed"}
  /\ loaders < MaxLoaders /\ sent < MaxRequests
  /\ \E u \in Urls : Open(u)
  /\ Program

\* The server redirects; the request for the new location reports the response.
BrowserRedirects ==
  /\ sent < MaxRequests
  /\ \E v \in navs, u \in Urls :
       /\ ~v.responded
       /\ navs' = (navs \ {v}) \cup {[v EXCEPT !.url = u]}
       /\ Emit(Event("request", v.loader, v.url))
  /\ sent' = sent + 1
  /\ UNCHANGED <<page, loaders, scripts>> /\ Program

BrowserResponds ==
  /\ \E v \in navs :
       /\ ~v.responded
       /\ navs' = (navs \ {v}) \cup {[v EXCEPT !.responded = TRUE]}
       /\ Emit(Event("response", v.loader, v.url))
  /\ UNCHANGED <<page, loaders, sent, scripts>> /\ Program

\* A navigation replaces the document, by what it received or by an error page,
\* and cancels the earlier ones.
BrowserCommits ==
  /\ \E v \in navs :
       /\ page' = [loader |-> v.loader, url |-> IF v.responded THEN v.url ELSE Blank,
                   entry |-> 0, loaded |-> FALSE]
       /\ navs' = {w \in navs : w.loader > v.loader}
  /\ UNCHANGED <<loaders, sent, scripts, feed>> /\ Program

\* A navigation ends without a document: no content, a download, cancelled.
BrowserDrops ==
  /\ \E v \in navs : navs' = navs \ {v}
  /\ UNCHANGED <<page, loaders, sent, scripts, feed>> /\ Program

\* The document is replaced without a request.
BrowserBlanks ==
  /\ page.loader > 0 /\ loaders < MaxLoaders
  /\ loaders' = loaders + 1
  /\ page' = [loader |-> loaders', url |-> Blank, entry |-> 0, loaded |-> FALSE]
  /\ UNCHANGED <<navs, sent, scripts, feed>> /\ Program

BrowserLoads ==
  /\ page.loader > 0 /\ ~page.loaded
  /\ page' = [page EXCEPT !.loaded = TRUE]
  /\ Emit(Event("load", page.loader, Blank))
  /\ UNCHANGED <<navs, loaders, sent, scripts>> /\ Program

\* A script changes the address without replacing the document.
BrowserRewrites ==
  /\ scripts /\ page.url \in Urls /\ page.entry < MaxHistory
  /\ page' = [page EXCEPT !.entry = @ + 1]
  /\ Emit(Event("within", page.loader, Blank))
  /\ UNCHANGED <<navs, loaders, sent, scripts>> /\ Program

Browser ==
  /\ ~Ended
  /\ \/ BrowserOpens \/ BrowserRedirects \/ BrowserResponds \/ BrowserCommits
     \/ BrowserDrops \/ BrowserBlanks \/ BrowserLoads \/ BrowserRewrites

-----------------------------------------------------------------------------
(* listen                                                                  *)

Hop(e, final) == [url |-> e.url, loader |-> e.loader, final |-> final]

\* Is the event one listen takes note of?
Notes(e) ==
  \/ e.type \in {"request", "within"}
  \/ e.type \in {"response", "load"} /\ e.loader = n.loader

\* What listen makes of an event.
Note(e) ==
  CASE e.type = "request" ->
         [n EXCEPT !.hops = IF e.url \in Urls THEN Append(@, Hop(e, FALSE)) ELSE @,
                   !.requests = @ + 1, !.version = @ + 1,
                   !.loader = e.loader, !.loaded = FALSE,
                   !.err = @ \/ n.requests + 1 > cfg.limit + 1]
    [] e.type = "response" -> [n EXCEPT !.hops = Append(@, Hop(e, TRUE)), !.version = @ + 1]
    [] e.type = "load" -> [n EXCEPT !.loaded = TRUE]
    [] e.type = "within" -> [n EXCEPT !.version = @ + 1]

\* Variant of Wakes: a load does not wake the settling goroutine.
WakesNotOnLoad(e) == e.type # "load"

\* Every event noted signals the channel, without blocking.
Wakes(e) == TRUE

Listen ==
  /\ ~Ended /\ feed # <<>> /\ Head(feed).type # "reply"
  /\ feed' = Tail(feed)
  /\ IF Notes(Head(feed))
     THEN n' = Note(Head(feed)) /\ token' = (token \/ Wakes(Head(feed)))
     ELSE UNCHANGED <<n, token>>
  /\ UNCHANGED <<browser, cfg, pc, timer, out>>

-----------------------------------------------------------------------------
(* settle                                                                  *)

\* A change starts the quiet period again, whatever has become of the timer.
Changed ==
  /\ pc = "settle" /\ token
  /\ token' = FALSE /\ timer' = "running"
  /\ UNCHANGED <<browser, feed, n, cfg, pc, out>>

TimerFires ==
  /\ pc = "settle" /\ timer = "running"
  /\ timer' = "fired"
  /\ UNCHANGED <<browser, feed, n, token, cfg, pc, out>>

\* The quiet period has passed: it counts if the document has loaded.
Quiet ==
  /\ pc = "settle" /\ timer = "fired"
  /\ timer' = "spent"
  /\ pc' = IF n.loaded THEN "pause" ELSE pc
  /\ UNCHANGED <<browser, feed, n, token, cfg, out>>

-----------------------------------------------------------------------------
(* Run                                                                     *)

\* Config.durations and the choice of the binding arguments.
Usable(c) ==
  /\ c.timeout > 0 /\ c.idle < c.timeout
  /\ c.named => c.boundArgs

\* The deferred function of Run: an error drops the image and keeps the hops,
\* and the redirect limit is an error at any time before it.
Return(result, err) ==
  LET bad == err \/ n.err
  IN /\ pc' = IF bad THEN "failed" ELSE "done"
     /\ out' = [result EXCEPT !.hops = IF err THEN n.hops ELSE @,
                              !.image = IF bad THEN 0 ELSE @]

\* Run reads its configuration and starts the browser.
Start ==
  /\ pc = "start"
  /\ IF Usable(cfg) THEN pc' = "navigate" /\ out' = out ELSE Return(out, TRUE)
  /\ UNCHANGED <<browser, feed, n, token, cfg, timer>>

Navigate ==
  /\ pc = "navigate"
  /\ Open(cfg.url)
  /\ pc' = "navigating"
  /\ UNCHANGED <<n, token, cfg, timer, out>>

\* chromedp returns from the navigation once a document has been committed.
Navigated ==
  /\ pc = "navigating" /\ page.loader > 0
  /\ pc' = "settle" /\ timer' = "running"
  /\ UNCHANGED <<browser, feed, n, token, cfg, out>>

\* A command: the browser executes it, Run waits for the reply.
Command(at, next) ==
  /\ pc = at /\ pc' = next
  /\ Emit([type |-> "reply", page |-> page])
  /\ UNCHANGED <<page, navs, loaders, sent, n, token, cfg, timer, out>>

\* The title, and no script from here on.
Pause    == Command("pause", "paused")    /\ scripts' = FALSE
LookOnce == Command("look", "looking")    /\ UNCHANGED scripts
Shoot    == Command("shoot", "shooting")  /\ UNCHANGED scripts
LookBack == Command("again", "comparing") /\ UNCHANGED scripts

Reply(at, next) ==
  /\ pc = at /\ pc' = next
  /\ feed # <<>> /\ Head(feed).type = "reply"
  /\ feed' = Tail(feed)
  /\ UNCHANGED <<browser, n, token, cfg, timer>>

Seen == Head(feed).page

Paused  == Reply("paused", "mark")    /\ out' = out
Looked  == Reply("looking", "shoot")  /\ out' = [out EXCEPT !.before = Address(Seen)]
Shot    == Reply("shooting", "again") /\ out' = [out EXCEPT !.image = Seen.loader]
Looking == Reply("comparing", "check") /\ out' = [out EXCEPT !.after = Address(Seen)]

\* The document the image is to show.
Mark ==
  /\ pc = "mark"
  /\ IF n.loaded
     THEN pc' = "look" /\ out' = [out EXCEPT !.version = n.version]
     ELSE Return(out, TRUE)
  /\ UNCHANGED <<browser, feed, n, token, cfg, timer>>

\* Variant of Stable: only the address is compared.
StableAddress == out.before = out.after

\* Nothing moved while the image was taken.
Stable == out.version = n.version /\ n.loaded /\ out.before = out.after

\* The hops are those of the moment of the comparison.
Check ==
  /\ pc = "check"
  /\ out' = [out EXCEPT !.hops = n.hops]
  /\ pc' = IF Stable THEN "return" ELSE "reject"
  /\ UNCHANGED <<browser, feed, n, token, cfg, timer>>

Finish ==
  /\ pc \in {"return", "reject"}
  /\ Return(out, pc = "reject")
  /\ UNCHANGED <<browser, feed, n, token, cfg, timer>>

\* The timeout, the abort of listen, or an error of the browser.
Fail ==
  /\ pc \notin {"start", "mark", "check", "return", "reject", "done", "failed"}
  /\ Return(out, TRUE)
  /\ UNCHANGED <<browser, feed, n, token, cfg, timer>>

Run ==
  \/ Start \/ Navigate \/ Navigated \/ Pause \/ LookOnce \/ Shoot \/ LookBack
  \/ Paused \/ Looked \/ Shot \/ Looking \/ Mark \/ Check \/ Finish \/ Fail

-----------------------------------------------------------------------------
Init ==
  /\ page = [loader |-> 0, url |-> Blank, entry |-> 0, loaded |-> TRUE]
  /\ navs = {} /\ loaders = 0 /\ sent = 0 /\ scripts = TRUE /\ feed = <<>>
  /\ n = [loader |-> 0, loaded |-> FALSE, requests |-> 0, version |-> 0, hops |-> <<>>,
          err |-> FALSE]
  /\ token = FALSE /\ timer = "spent" /\ pc = "start"
  /\ cfg \in Configs
  /\ out = [version |-> 0, before |-> <<>>, after |-> <<>>, image |-> 0, hops |-> <<>>]

Next == Browser \/ Listen \/ Changed \/ TimerFires \/ Quiet \/ Run

\* The reader of the browser's socket, the timer and the settling goroutine run.
Fairness == WF_vars(Listen) /\ WF_vars(Changed) /\ WF_vars(TimerFires) /\ WF_vars(Quiet)

Spec == Init /\ [][Next]_vars /\ Fairness

-----------------------------------------------------------------------------
(* Properties                                                              *)

\* browserEvents: the address of the image has the authority of the last hop.
Verified(o) ==
  /\ o.hops # <<>>
  /\ o.after[1] \in Urls
  /\ AuthorityOf(o.after[1]) = AuthorityOf(o.hops[Len(o.hops)].url)

Published == pc = "done" /\ Verified(out)

\* The state of the browser, of listen and of Run has its type.
TypeOK ==
  /\ page.loader \in 0..loaders /\ page.url \in Urls \cup {Blank}
  /\ \A v \in navs : v.loader \in 1..loaders /\ v.url \in Urls
  /\ n.requests \in 0..sent /\ n.loader \in 0..loaders
  /\ token \in BOOLEAN /\ timer \in {"running", "fired", "spent"}
  /\ cfg \in Configs

\* An image that is published shows the document of the last recorded hop, and
\* that hop is its response: not the document of another navigation, however the
\* browser navigated while the image was taken (capture.go:319, browser.go:92).
ImageShowsLastHop ==
  Published => /\ out.image = out.hops[Len(out.hops)].loader
               /\ out.hops[Len(out.hops)].final

\* A session that went past its redirects yields no image, even when the request
\* too many arrives after the last look at the document (capture.go:127, 268).
NoImagePastTheLimit ==
  pc = "done" => n.requests <= cfg.limit + 1 /\ out.image # 0

\* An image is kept of what the recorded chain of responses led to, or none is.
ImageIsOfTheChain == ImageShowsLastHop /\ NoImagePastTheLimit

Waits == pc = "settle" /\ n.loaded

\* Once the document has loaded for good the quiet period ends: settle does not
\* wait for the timeout with a spent timer and nothing to start it (capture.go:182).
QuietPageIsTaken == []<>~Waits
=============================================================================
