------------------------------ MODULE Redirects ------------------------------
(***************************************************************************)
(* The httpx worker: scan and browserEvents.  A URL task is one browser    *)
(* session; the documents that answered on the way become URL events, and  *)
(* so tasks.  The depth an event carries is what a chain has used up of    *)
(* the profile's redirects.  Servers are external: each answers from any   *)
(* of its addresses and redirects along any of its links.  So is the page: *)
(* it may leave any URL of its own origin in the address bar, which then   *)
(* stands for the endpoint that answered (fragments, history.pushState).   *)
(***************************************************************************)
EXTENDS Naturals, Sequences, FiniteSets

CONSTANTS
  Urls, IPs,
  Backends,   \* the addresses from which each URL may be answered, Unbound if unknown
  Links,      \* the redirects a server may answer with: pairs of Urls
  Literal,    \* the address a URL names instead of a hostname, or Unbound
  Unbound,    \* no address
  Origin,     \* the scheme and authority of a URL
  Document,   \* a URL without its fragment, which is not sent to a server
  Blank,      \* an address bar without authority
  MaxRedirects, \* the profile's browser.max_redirects
  Seeds,      \* URL events that others may have published
  Overrun     \* bound on the responses listen notes after it has aborted

Response == [url : Urls, ip : IPs \cup {Unbound}]
Event    == [url : Urls, ip : IPs \cup {Unbound}, depth : Nat, far : Nat]
Session  == [at : {"work"}, in : Event, hops : Seq(Response), limit : 0..MaxRedirects]

\* The depth of what others have published is what its chain has used up.
RedirectAssumption ==
  /\ MaxRedirects \in Nat /\ Overrun \in Nat
  /\ \A u \in Urls : Backends[u] \subseteq IPs \cup {Unbound}
  /\ \A u, v \in Urls : Origin[u] = Origin[v] => Literal[u] = Literal[v]
  /\ Seeds \subseteq Event /\ \A e \in Seeds : e.far = e.depth

VARIABLES
  boundArgs, \* the profile has arguments to bind a name to an address
  events,   \* URL events: url, ip, depth; far: the redirects it took to find it
  tasks,    \* finished tasks: url, ip, ok, start (the first response), image
  session,  \* the task at work and the responses of its browser, or Idle
  shots,    \* screenshot events that hold an image: url, ip, response (its URL)
  served,   \* history: the responses of all sessions: url and ip
  observed  \* history: the responses of finished sessions, with their far

vars == <<boundArgs, events, tasks, session, shots, served, observed>>

Idle == [at |-> "idle"]
NoResponse == [url |-> Blank, ip |-> Unbound]
Key(x) == [url |-> x.url, ip |-> x.ip]

-----------------------------------------------------------------------------
\* hopTarget: a response identifies an endpoint by its peer, unless the URL names
\* another.
HopTarget(h) == h.ip # Unbound /\ Literal[h.url] \in {Unbound, h.ip}

\* sameURL.
SameURL(u, v) == Document[u] = Document[v]

\* The first response is that of the endpoint asked for.
Establishes(in, h) == SameURL(in.url, h.url) /\ in.ip \in {Unbound, h.ip}

\* Variant of Depth: every task starts a budget of its own.
DepthAnew(in, i) == i

\* The depth of the i-th redirect of a task.
Depth(in, i) == in.depth + i

\* Variant of Found: only a session with an image yields events.
FoundWithImage(in, hops, image) ==
  IF ~image THEN {} ELSE
  {[url |-> hops[i + 1].url, ip |-> hops[i + 1].ip, depth |-> Depth(in, i), far |-> in.far + i] :
     i \in {i \in 1..Len(hops) - 1 : HopTarget(hops[i + 1]) /\ Depth(in, i) <= MaxRedirects}}

\* browserEvents: the endpoints that answered a redirect within the budget, each
\* at the first redirect that reached it, but not the endpoint of the task itself.
Found(in, hops, image) ==
  {[url |-> hops[i + 1].url, ip |-> hops[i + 1].ip, depth |-> Depth(in, i), far |-> in.far + i] :
     i \in {i \in 1..Len(hops) - 1 :
              /\ HopTarget(hops[i + 1]) /\ Depth(in, i) <= MaxRedirects
              /\ ~(SameURL(in.url, hops[i + 1].url) /\ in.ip = hops[i + 1].ip)
              /\ \A j \in 1..i - 1 : hops[j + 1] # hops[i + 1]}}

\* browserEvents: what fails a task although its session may have an image.
Problem(in, hops) ==
  \/ hops = <<>>
  \/ ~Establishes(in, hops[1])
  \/ \E i \in 1..Len(hops) : ~HopTarget(hops[i]) \/ Depth(in, i - 1) > MaxRedirects

\* Variant of Kept: whatever the address bar shows.
KeptAnyway(image, last, address) == image /\ address # Blank /\ HopTarget(last)

\* browserEvents: the image is kept when the address bar is of the last response.
Kept(image, last, address) ==
  image /\ address # Blank /\ HopTarget(last) /\ Origin[address] = Origin[last.url]

\* The endpoint of an image: the address bar, at the address of the last response.
ShotTarget(last, address) == [url |-> address, ip |-> last.ip]

\* With the image, the event of the last response is of the address bar.
Renamed(found, last, address) ==
  {IF Key(e) = Key(last) THEN [e EXCEPT !.url = address] ELSE e : e \in found}

\* An event whose key is taken is a duplicate, also of an earlier one of its batch.
Fresh(found) ==
  {e \in found : /\ \A f \in events : Key(f) # Key(e)
                 /\ \A f \in found : Key(f) = Key(e) => e.depth <= f.depth}

-----------------------------------------------------------------------------
Pending(e) == e \in events /\ \A t \in tasks : Key(t) # Key(e)

\* A task whose depth is past the limit, or that no argument can bind, fails
\* before its session.
Refused(e) ==
  \/ e.depth > MaxRedirects
  \/ e.ip # Unbound /\ Literal[e.url] # e.ip /\ ~boundArgs

Task(in, ok, hops, image) ==
  [url |-> in.url, ip |-> in.ip, ok |-> ok, image |-> image,
   start |-> IF hops = <<>> THEN NoResponse ELSE hops[1]]

Refuse ==
  /\ session = Idle
  /\ \E e \in events :
       /\ Pending(e) /\ Refused(e)
       /\ tasks' = tasks \cup {Task(e, FALSE, <<>>, FALSE)}
  /\ UNCHANGED <<events, session, shots, served, observed>>

\* scan starts the browser with what the chain has left of its redirects.
Begin ==
  /\ session = Idle
  /\ \E e \in events :
       /\ Pending(e) /\ ~Refused(e)
       /\ session' = [at |-> "work", in |-> e, hops |-> <<>>, limit |-> MaxRedirects - e.depth]
  /\ UNCHANGED <<events, tasks, shots, served, observed>>

\* A server answers: the first document, or the one it has redirected to.
Respond ==
  /\ session # Idle
  /\ Len(session.hops) <= session.limit + Overrun
  /\ \E u \in Urls : \E ip \in Backends[u] :
       /\ IF session.hops = <<>> THEN u = Document[session.in.url]
          ELSE \E v \in Urls : /\ <<session.hops[Len(session.hops)].url, v>> \in Links
                               /\ u = Document[v]
       /\ session' = [session EXCEPT !.hops = Append(@, [url |-> u, ip |-> ip])]
       /\ served' = IF ip = Unbound THEN served ELSE served \cup {[url |-> u, ip |-> ip]}
  /\ UNCHANGED <<events, tasks, shots, observed>>

\* The session ends, with an image unless it went past its limit or failed, and
\* with the address bar it shows; the probe of the tool may have failed as well.
End ==
  /\ session # Idle
  /\ LET in == session.in
         hops == session.hops
         last == hops[Len(hops)]
     IN \E image, probed \in BOOLEAN, address \in Urls \cup {Blank} :
          /\ image => hops # <<>> /\ Len(hops) <= session.limit + 1
          /\ ~image => address = Blank
          /\ LET shown == Kept(image, last, address)
                 found == Found(in, hops, image)
                 shot  == ShotTarget(last, address)
             IN /\ events' = events \cup Fresh(IF shown THEN Renamed(found, last, address) ELSE found)
                /\ shots' = IF ~shown THEN shots
                            ELSE shots \cup {[url |-> shot.url, ip |-> shot.ip, response |-> last.url]}
                /\ tasks' = tasks \cup {Task(in, probed /\ shown /\ ~Problem(in, hops), hops, image)}
          /\ observed' = observed \cup
               {[url |-> hops[i].url, ip |-> hops[i].ip, far |-> in.far + i - 1] :
                  i \in {i \in 2..Len(hops) : HopTarget(hops[i])}}
  /\ session' = Idle
  /\ UNCHANGED served

-----------------------------------------------------------------------------
Init ==
  /\ boundArgs \in BOOLEAN
  /\ events \in SUBSET Seeds
  /\ tasks = {} /\ session = Idle /\ shots = {} /\ served = {} /\ observed = {}

Next == (Refuse \/ Begin \/ Respond \/ End) /\ UNCHANGED boundArgs

Spec == Init /\ [][Next]_vars

-----------------------------------------------------------------------------
(* Properties                                                              *)

\* Events, tasks and the session are about known URLs and addresses.
TypeOK ==
  /\ events \subseteq Event
  /\ \A t \in tasks : t.ok \in BOOLEAN /\ (t.ok => t.image)
  /\ session \in {Idle} \cup Session

\* A chain of redirects has one budget, however many tasks it passes through: no
\* URL is discovered by more redirects than the profile allows, however long the
\* servers go on redirecting (WORKFLOW.md:112, browser.go:52).
ChainHasOneBudget == \A e \in events \ Seeds : e.far <= MaxRedirects

\* An image is of a document that its address served, and what it is attributed to has
\* the origin of that document.  An event is of an endpoint that answered for its URL, or
\* of an image: no URL of another server, and no address of the task or of another hop
\* (cmd/httpx/browser.go:92).
EndpointsAnswered ==
  /\ \A s \in shots : /\ [url |-> s.response, ip |-> s.ip] \in served
                      /\ Origin[s.url] = Origin[s.response] /\ Literal[s.url] \in {Unbound, s.ip}
  /\ \A e \in events \ Seeds : /\ Literal[e.url] \in {Unbound, e.ip}
                               /\ Key(e) \in served \cup {Key(s) : s \in shots}

\* A completed task has an image, and its first response came from the endpoint it
\* was to probe: a wrong backend never completes a task (WORKFLOW.md:110).
CompletedReachedItsEndpoint ==
  \A t \in tasks : t.ok => t.image /\ Establishes(t, t.start)

\* A task that fails keeps what it saw: of every endpoint that answered within the
\* budget of a finished session there is an event, or of the image of its response
\* (WORKFLOW.md:110, cmd/httpx/browser.go:96).
ResponsesSurviveFailure ==
  \A o \in observed : o.far <= MaxRedirects =>
    \E e \in events :
      /\ e.ip = o.ip
      /\ SameURL(e.url, o.url) \/ \E s \in shots : Key(s) = Key(e) /\ s.response = o.url

\* What a task came to is what it saw: completed at its endpoint, or failed with all
\* that answered.
OutcomeIsWhatWasSeen == CompletedReachedItsEndpoint /\ ResponsesSurviveFailure
=============================================================================
