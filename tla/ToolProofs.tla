----------------------------- MODULE ToolProofs ------------------------------
(***************************************************************************)
(* What holds of Redirects for any URLs, addresses, links and events of    *)
(* others, whatever the profile allows and however the servers redirect;   *)
(* of Nuclei for any inputs, profiles, scanners and servers, whatever the  *)
(* templates request and however the scan ends; and of DnsPin for any      *)
(* number of queries, whenever the task is cancelled or a server breaks.   *)
(***************************************************************************)
EXTENDS Redirects, Nuclei, DnsPin, WellFoundedInduction, TLAPS

-----------------------------------------------------------------------------
(* Redirects: the inductive invariant                                      *)

\* The depth of an event is the number of redirects its chain has taken.
Counted == \A e \in events : e.far = e.depth

\* The session works on an event, with what its chain has left of its redirects, and
\* what it has seen was served.
Working ==
  session # Idle =>
    /\ session \in Session /\ session.in \in events
    /\ session.limit = MaxRedirects - session.in.depth
    /\ \A i \in 1..Len(session.hops) : session.hops[i].ip # Unbound => session.hops[i] \in served

Inv ==
  /\ TypeOK /\ Counted /\ Working /\ ChainHasOneBudget /\ EndpointsAnswered
  /\ OutcomeIsWhatWasSeen

\* A set of numbers that is not empty has a least one.
LEMMA LeastOf ==
  ASSUME NEW T \in SUBSET Nat, T # {}
  PROVE  \E x \in T : \A y \in T : x <= y
<1> DEFINE R == {p \in Nat \X Nat : p[1] < p[2]}
<1>1. IsWellFoundedOn(R, Nat)
  BY NatLessThanWellFounded, SMT DEF OpToRel, IsWellFoundedOn
<1>2. \A y, x \in Nat : y < x => <<y, x>> \in R
  OBVIOUS
<1>3. PICK x \in T : \A y \in T : ~ (<<y, x>> \in R)
  <2> HIDE DEF R
  <2> QED BY <1>1, WFMin
<1> HIDE DEF R
<1>4. \A y \in T : ~(y < x)
  BY <1>2, <1>3
<1> QED BY <1>4

LEMMA ResponseIsItsKey ==
  ASSUME NEW h \in Response
  PROVE  Key(h) = h
BY DEF Response, Key

-----------------------------------------------------------------------------
(* What browserEvents publishes                                            *)

\* Every endpoint it publishes answered a redirect within the budget of the chain.
LEMMA FoundAnswered ==
  ASSUME RedirectAssumption, Inv, session # Idle, NEW image \in BOOLEAN,
         NEW e \in Found(session.in, session.hops, image)
  PROVE  /\ e \in Event /\ e.far = e.depth /\ e.far <= MaxRedirects
         /\ Key(e) \in served /\ Literal[e.url] \in {Unbound, e.ip}
<1> DEFINE asked == session.in
           hops == session.hops
<1>1. asked \in Event /\ hops \in Seq(Response) /\ asked.far = asked.depth /\ asked \in events
  BY DEF Inv, Working, Session, Counted
<1>2. PICK i \in 1..Len(hops) - 1 :
        /\ HopTarget(hops[i + 1]) /\ Depth(asked, i) <= MaxRedirects
        /\ e = [url |-> hops[i + 1].url, ip |-> hops[i + 1].ip, depth |-> Depth(asked, i),
                far |-> asked.far + i]
  BY DEF Found
<1> DEFINE h == hops[i + 1]
<1>3. i \in Nat /\ i + 1 \in 1..Len(hops) /\ h \in Response
  BY <1>1
<1>4. asked.depth \in Nat /\ asked.far \in Nat
  BY <1>1 DEF Event
<1>5. h.ip # Unbound /\ Literal[h.url] \in {Unbound, h.ip}
  BY <1>2 DEF HopTarget
<1>6. h \in served /\ Key(h) = h
  BY <1>3, <1>5, ResponseIsItsKey DEF Inv, Working
<1> HIDE DEF asked, hops, h
<1>7. e.url = h.url /\ e.ip = h.ip /\ e.depth = asked.depth + i /\ e.far = asked.far + i
  BY <1>2 DEF Depth, h
<1>8. e \in Event
  BY <1>2, <1>3, <1>4 DEF Depth, Event, Response, h
<1>9. Key(e) = Key(h)
  BY <1>7 DEF Key
<1> QED BY <1>1, <1>2, <1>5, <1>6, <1>7, <1>8, <1>9 DEF Depth

\* It has an event of every endpoint that answered within the budget, at the first
\* redirect that reached it, but of that of the task.
LEMMA FoundAll ==
  ASSUME RedirectAssumption, Inv, session # Idle, NEW image \in BOOLEAN,
         NEW i \in 2..Len(session.hops), HopTarget(session.hops[i]),
         session.in.far + i - 1 <= MaxRedirects
  PROVE  \/ \E e \in Found(session.in, session.hops, image) : Key(e) = Key(session.hops[i])
         \/ SameURL(session.in.url, session.hops[i].url) /\ session.in.ip = session.hops[i].ip
<1> DEFINE asked == session.in
           hops == session.hops
           S == {j \in 1..i - 1 : hops[j + 1] = hops[i]}
<1>1. hops \in Seq(Response) /\ asked.far = asked.depth /\ asked.depth \in Nat /\ asked.far \in Nat
  BY DEF Inv, Working, Session, Counted, Event
<1>2. i - 1 \in S
  BY <1>1
<1>3. PICK j \in S : \A k \in S : j <= k
  <2>1. S \in SUBSET Nat
    BY <1>1
  <2>2. S # {}
    BY <1>2
  <2> HIDE DEF S
  <2> QED BY <2>1, <2>2, LeastOf
<1>4. j \in 1..Len(hops) - 1 /\ j <= i - 1 /\ hops[j + 1] = hops[i]
  BY <1>1
<1>5. \A k \in 1..j - 1 : hops[k + 1] # hops[j + 1]
  <2> SUFFICES ASSUME NEW k \in 1..j - 1, hops[k + 1] = hops[j + 1] PROVE FALSE
    OBVIOUS
  <2>1. k \in S
    BY <1>4
  <2> QED BY <1>3, <2>1
<1>6. Depth(asked, j) <= MaxRedirects
  BY <1>1, <1>4 DEF Depth, RedirectAssumption
<1> SUFFICES ASSUME ~(SameURL(asked.url, hops[i].url) /\ asked.ip = hops[i].ip)
             PROVE  \E e \in Found(asked, hops, image) : Key(e) = Key(hops[i])
  OBVIOUS
<1> DEFINE e == [url |-> hops[j + 1].url, ip |-> hops[j + 1].ip, depth |-> Depth(asked, j),
                 far |-> asked.far + j]
<1>7. e \in Found(asked, hops, image)
  BY <1>4, <1>5, <1>6 DEF Found
<1>8. Key(e) = Key(hops[i])
  BY <1>4 DEF Key
<1> QED BY <1>7, <1>8

\* A duplicate has an event of its key, which is there or comes first in the batch.
LEMMA FreshHasAll ==
  ASSUME NEW found, \A e \in found : e.depth \in Nat, NEW e \in found
  PROVE  \E f \in events \cup Fresh(found) : Key(f) = Key(e)
<1> DEFINE S == {f.depth : f \in {f \in found : Key(f) = Key(e)}}
<1>1. S \in SUBSET Nat /\ S # {}
  OBVIOUS
<1>2. PICK d \in S : \A y \in S : d <= y
  <2> HIDE DEF S
  <2> QED BY <1>1, LeastOf
<1>3. PICK f \in found : Key(f) = Key(e) /\ f.depth = d
  OBVIOUS
<1>4. \A g \in found : Key(g) = Key(f) => f.depth <= g.depth
  BY <1>2, <1>3
<1>5. CASE \E g \in events : Key(g) = Key(f)
  BY <1>3, <1>5
<1>6. CASE \A g \in events : Key(g) # Key(f)
  BY <1>3, <1>4, <1>6 DEF Fresh
<1> QED BY <1>5, <1>6

-----------------------------------------------------------------------------
(* Every step keeps the invariant                                          *)

LEMMA InitInv ==
  ASSUME RedirectAssumption, Init
  PROVE  Inv
BY DEF RedirectAssumption, Init, Inv, TypeOK, Counted, Working, ChainHasOneBudget,
       EndpointsAnswered, OutcomeIsWhatWasSeen, CompletedReachedItsEndpoint,
       ResponsesSurviveFailure

LEMMA RefuseKeeps ==
  ASSUME RedirectAssumption, Inv, Refuse
  PROVE  Inv'
<1>1. PICK e \in events : tasks' = tasks \cup {Task(e, FALSE, <<>>, FALSE)}
  BY DEF Refuse
<1>2. UNCHANGED <<events, session, shots, served, observed>>
  BY DEF Refuse
<1>3. Task(e, FALSE, <<>>, FALSE).ok = FALSE
  BY DEF Task
<1>4. TypeOK' /\ CompletedReachedItsEndpoint'
  BY <1>1, <1>2, <1>3 DEF Inv, TypeOK, OutcomeIsWhatWasSeen, CompletedReachedItsEndpoint, Establishes
<1>5. Counted' /\ Working' /\ ChainHasOneBudget' /\ EndpointsAnswered' /\ ResponsesSurviveFailure'
  BY <1>2 DEF Inv, Counted, Working, ChainHasOneBudget, EndpointsAnswered, Key, SameURL,
              OutcomeIsWhatWasSeen, ResponsesSurviveFailure
<1> QED BY <1>4, <1>5 DEF Inv, OutcomeIsWhatWasSeen

LEMMA BeginKeeps ==
  ASSUME RedirectAssumption, Inv, Begin
  PROVE  Inv'
<1>1. PICK e \in events :
        /\ ~Refused(e)
        /\ session' = [at |-> "work", in |-> e, hops |-> <<>>, limit |-> MaxRedirects - e.depth]
  BY DEF Begin
<1>2. UNCHANGED <<events, tasks, shots, served, observed>>
  BY DEF Begin
<1>3. e \in Event /\ e.depth \in Nat /\ MaxRedirects - e.depth \in 0..MaxRedirects
  BY <1>1 DEF Refused, Inv, TypeOK, Event, RedirectAssumption
<1>4. session' \in Session
  BY <1>1, <1>3 DEF Session
<1>5. Working'
  BY <1>1, <1>2, <1>4 DEF Working
<1> QED BY <1>2, <1>4, <1>5
    DEF Inv, TypeOK, Counted, ChainHasOneBudget, EndpointsAnswered,
        OutcomeIsWhatWasSeen, CompletedReachedItsEndpoint, ResponsesSurviveFailure

LEMMA RespondKeeps ==
  ASSUME RedirectAssumption, Inv, Respond
  PROVE  Inv'
<1>1. PICK u, ip :
        /\ u \in Urls /\ ip \in Backends[u]
        /\ session' = [session EXCEPT !.hops = Append(session.hops, [url |-> u, ip |-> ip])]
        /\ served' = IF ip = Unbound THEN served ELSE served \cup {[url |-> u, ip |-> ip]}
  BY DEF Respond
<1>2. UNCHANGED <<events, tasks, shots, observed>> /\ session # Idle
  BY DEF Respond
<1> DEFINE h == [url |-> u, ip |-> ip]
<1>3. h \in Response /\ h.ip = ip
  BY <1>1 DEF Response, RedirectAssumption
<1> HIDE DEF h
<1>4. session \in Session /\ session.hops \in Seq(Response)
  BY <1>2 DEF Inv, Working, Session
<1>5. /\ session' \in Session /\ session'.in = session.in /\ session'.limit = session.limit
      /\ session'.hops = Append(session.hops, h)
  <2>1. Append(session.hops, h) \in Seq(Response)
    BY <1>3, <1>4
  <2>2. session' = [session EXCEPT !.hops = Append(session.hops, h)]
    BY <1>1 DEF h
  <2> QED BY <1>4, <2>1, <2>2 DEF Session
<1>6. served \subseteq served' /\ (h.ip # Unbound => h \in served')
  BY <1>1, <1>3 DEF h
<1>7. \A i \in 1..Len(session'.hops) : session'.hops[i].ip # Unbound => session'.hops[i] \in served'
  <2> SUFFICES ASSUME NEW i \in 1..Len(session'.hops), session'.hops[i].ip # Unbound
               PROVE  session'.hops[i] \in served'
    OBVIOUS
  <2>1. CASE i = Len(session.hops) + 1
    BY <1>3, <1>4, <1>5, <1>6, <2>1
  <2>2. CASE i \in 1..Len(session.hops)
    BY <1>2, <1>3, <1>4, <1>5, <1>6, <2>2 DEF Inv, Working
  <2> QED BY <1>3, <1>4, <1>5, <2>1, <2>2
<1>8. Working'
  BY <1>2, <1>5, <1>7 DEF Inv, Working
<1>9. EndpointsAnswered'
  BY <1>2, <1>6 DEF Inv, EndpointsAnswered
<1> QED BY <1>2, <1>5, <1>8, <1>9
    DEF Inv, TypeOK, Counted, ChainHasOneBudget,
        OutcomeIsWhatWasSeen, CompletedReachedItsEndpoint, ResponsesSurviveFailure

LEMMA EndKeeps ==
  ASSUME RedirectAssumption, Inv, End
  PROVE  Inv'
<1> DEFINE asked == session.in
           hops == session.hops
           last == hops[Len(hops)]
           found(image) == Found(asked, hops, image)
           shot(address) == [url |-> address, ip |-> last.ip, response |-> last.url]
<1>0. /\ session # Idle /\ session' = Idle /\ served' = served
      /\ asked \in Event /\ hops \in Seq(Response) /\ asked \in events /\ asked.far = asked.depth
  BY DEF End, Inv, Working, Session, Counted
<1>1. PICK image \in BOOLEAN, probed \in BOOLEAN, shown \in BOOLEAN, address \in Urls \cup {Blank} :
        /\ shown => /\ image /\ hops # <<>> /\ HopTarget(last)
                    /\ address # Blank /\ Origin[address] = Origin[last.url]
        /\ events' = events \cup
             Fresh(IF shown THEN Renamed(found(image), last, address) ELSE found(image))
        /\ shots' = IF ~shown THEN shots ELSE shots \cup {shot(address)}
        /\ tasks' = tasks \cup {Task(asked, probed /\ shown /\ ~Problem(asked, hops), hops, image)}
        /\ observed' = observed \cup
             {[url |-> hops[i].url, ip |-> hops[i].ip, far |-> asked.far + i - 1] :
                i \in {i \in 2..Len(hops) : HopTarget(hops[i])}}
  <2>1. PICK image \in BOOLEAN, probed \in BOOLEAN, address \in Urls \cup {Blank} :
          /\ image => hops # <<>>
          /\ LET shown == Kept(image, last, address)
             IN /\ events' = events \cup
                     Fresh(IF shown THEN Renamed(found(image), last, address) ELSE found(image))
                /\ shots' = IF ~shown THEN shots
                            ELSE shots \cup {[url |-> ShotTarget(last, address).url,
                                              ip |-> ShotTarget(last, address).ip,
                                              response |-> last.url]}
                /\ tasks' = tasks \cup {Task(asked, probed /\ shown /\ ~Problem(asked, hops), hops, image)}
          /\ observed' = observed \cup
               {[url |-> hops[i].url, ip |-> hops[i].ip, far |-> asked.far + i - 1] :
                  i \in {i \in 2..Len(hops) : HopTarget(hops[i])}}
    BY DEF End
  <2>2. ShotTarget(last, address).url = address /\ ShotTarget(last, address).ip = last.ip
    BY DEF ShotTarget
  <2>3. /\ Kept(image, last, address) \in BOOLEAN
        /\ Kept(image, last, address) => /\ image /\ hops # <<>> /\ HopTarget(last)
                                         /\ address # Blank /\ Origin[address] = Origin[last.url]
    BY <2>1 DEF Kept
  <2> HIDE DEF found
  <2> QED BY <2>1, <2>2, <2>3
<1> DEFINE published == IF shown THEN Renamed(found(image), last, address) ELSE found(image)
<1>2. events' = events \cup Fresh(published) /\ Fresh(published) \subseteq published
  BY <1>1 DEF Fresh
<1>3. ASSUME shown
      PROVE  /\ shot(address) \in shots' /\ [url |-> last.url, ip |-> last.ip] \in served
             /\ Origin[address] = Origin[last.url] /\ address \in Urls
             /\ Literal[address] \in {Unbound, last.ip}
  <2>1. last \in Response /\ Len(hops) \in 1..Len(hops)
    BY <1>0, <1>1, <1>3
  <2>2. last.ip # Unbound /\ Literal[last.url] \in {Unbound, last.ip}
    BY <1>1, <1>3 DEF HopTarget
  <2>3. last \in served /\ [url |-> last.url, ip |-> last.ip] = last
    BY <1>0, <2>1, <2>2 DEF Inv, Working, Response
  <2>4. address \in Urls /\ last.url \in Urls /\ Origin[address] = Origin[last.url]
    BY <1>1, <1>3, <2>1 DEF Response
  <2>5. Literal[address] = Literal[last.url]
    BY <2>4 DEF RedirectAssumption
  <2> QED BY <1>1, <1>3, <2>2, <2>3, <2>4, <2>5
\* What is published has the redirects of what was found, and its key or the image's.
<1>4. ASSUME NEW e \in published
      PROVE  /\ e \in Event /\ e.far = e.depth /\ e.far <= MaxRedirects
             /\ Literal[e.url] \in {Unbound, e.ip}
             /\ Key(e) \in served \/ (shown /\ Key(e) = Key(shot(address)))
  <2>1. CASE e \in found(image)
    <3> HIDE DEF published, shot
    <3> QED BY <1>0, <2>1, FoundAnswered
  <2>2. CASE e \notin found(image)
    <3>1. shown /\ \E f \in found(image) : Key(f) = Key(last) /\ e = [f EXCEPT !.url = address]
      BY <2>2 DEF Renamed
    <3>2. PICK f \in found(image) : Key(f) = Key(last) /\ e = [f EXCEPT !.url = address]
      BY <3>1
    <3>3. f \in Event /\ f.far = f.depth /\ f.far <= MaxRedirects
      BY <1>0, FoundAnswered
    <3>4. f.ip = last.ip
      BY <3>2 DEF Key
    <3> HIDE DEF found
    <3>5. e = [url |-> address, ip |-> last.ip, depth |-> f.depth, far |-> f.far]
      BY <3>2, <3>3, <3>4 DEF Event
    <3> QED BY <1>3, <3>1, <3>3, <3>4, <3>5 DEF Event, Key
  <2> QED BY <2>1, <2>2
<1>5. \A e \in published : \E f \in events' : Key(f) = Key(e)
  <2>1. \A e \in published : e.depth \in Nat
    BY <1>4 DEF Event
  <2> HIDE DEF published
  <2> QED BY <1>2, <2>1, FreshHasAll
<1>6. /\ events \subseteq events' /\ shots \subseteq shots'
      /\ \A e \in events' \ events : e \in published
  <2> HIDE DEF published, shot
  <2> QED BY <1>1, <1>2
<1> DEFINE t == Task(asked, probed /\ shown /\ ~Problem(asked, hops), hops, image)
<1>7. /\ t.ok \in BOOLEAN /\ t.url = asked.url /\ t.ip = asked.ip /\ t.image = image
      /\ t.ok => shown /\ ~Problem(asked, hops)
      /\ hops # <<>> => t.start = hops[1]
  BY <1>1 DEF Task
<1>8. tasks' = tasks \cup {t}
  BY <1>1
<1> HIDE DEF t, published, found, shot
<1>9. t.ok => t.image /\ Establishes(t, t.start)
  BY <1>1, <1>7 DEF Problem, Establishes
<1>10. TypeOK' /\ Counted' /\ Working'
  BY <1>0, <1>4, <1>6, <1>7, <1>8, <1>9 DEF Inv, TypeOK, Counted, Working
<1>11. ChainHasOneBudget'
  BY <1>4, <1>6 DEF Inv, ChainHasOneBudget
<1>12. EndpointsAnswered'
  <2>1. ASSUME NEW s \in shots'
        PROVE  /\ [url |-> s.response, ip |-> s.ip] \in served
               /\ Origin[s.url] = Origin[s.response] /\ Literal[s.url] \in {Unbound, s.ip}
    <3>1. CASE s \in shots
      BY <3>1 DEF Inv, EndpointsAnswered
    <3>2. CASE shown /\ s = shot(address)
      BY <1>3, <3>2 DEF shot
    <3> QED BY <1>1, <3>1, <3>2
  <2>2. ASSUME NEW e \in events' \ Seeds
        PROVE  /\ Literal[e.url] \in {Unbound, e.ip}
               /\ Key(e) \in served \cup {Key(s) : s \in shots'}
    <3>1. CASE e \in events
      BY <1>6, <3>1 DEF Inv, EndpointsAnswered
    <3>2. CASE e \notin events
      BY <1>3, <1>4, <1>6, <3>2
    <3> QED BY <3>1, <3>2
  <2> QED BY <1>0, <2>1, <2>2 DEF EndpointsAnswered
<1>13. CompletedReachedItsEndpoint'
  BY <1>8, <1>9 DEF Inv, OutcomeIsWhatWasSeen, CompletedReachedItsEndpoint, Establishes
<1>14. ResponsesSurviveFailure'
  <2> DEFINE Keeps(o) == \E e \in events' :
               /\ e.ip = o.ip
               /\ SameURL(e.url, o.url) \/ \E s \in shots' : Key(s) = Key(e) /\ s.response = o.url
  <2> SUFFICES ASSUME NEW o \in observed', o.far <= MaxRedirects
               PROVE  Keeps(o)
    BY DEF ResponsesSurviveFailure, SameURL
  <2>1. CASE o \in observed
    BY <1>6, <2>1 DEF Inv, OutcomeIsWhatWasSeen, ResponsesSurviveFailure
  <2>2. ASSUME NEW i \in 2..Len(hops), HopTarget(hops[i]),
               o = [url |-> hops[i].url, ip |-> hops[i].ip, far |-> asked.far + i - 1]
        PROVE  Keeps(o)
    <3>1. asked.far + i - 1 <= MaxRedirects /\ o.url = hops[i].url /\ o.ip = hops[i].ip
      BY <2>2
    <3>2. \/ \E e \in found(image) : Key(e) = Key(hops[i])
          \/ SameURL(asked.url, hops[i].url) /\ asked.ip = hops[i].ip
      BY <1>0, <2>2, <3>1, FoundAll DEF found
    <3>3. CASE SameURL(asked.url, hops[i].url) /\ asked.ip = hops[i].ip
      BY <1>0, <1>6, <3>1, <3>3
    <3>4. ASSUME NEW e \in found(image), Key(e) = Key(hops[i]) PROVE Keeps(o)
      <4>1. e.url = o.url /\ e.ip = o.ip
        BY <3>1, <3>4 DEF Key
      <4>2. CASE e \in published
        <5>1. PICK f \in events' : Key(f) = Key(e)
          BY <1>5, <4>2
        <5> QED BY <4>1, <5>1 DEF Key, SameURL
      <4>3. CASE e \notin published
        <5>1. shown /\ Key(e) = Key(last) /\ [e EXCEPT !.url = address] \in published
          BY <4>3 DEF published, Renamed
        <5>2. e \in Event /\ e.ip = last.ip /\ e.url = last.url
          BY <1>0, <5>1, FoundAnswered DEF found, Key
        <5> DEFINE r == [e EXCEPT !.url = address]
        <5>3. r.url = address /\ r.ip = last.ip
          BY <5>2 DEF Event
        <5>4. PICK f \in events' : Key(f) = Key(r)
          BY <1>5, <5>1
        <5>5. f.ip = o.ip /\ Key(shot(address)) = Key(f) /\ shot(address).response = o.url
          BY <4>1, <5>2, <5>3, <5>4 DEF Key, shot
        <5> QED BY <1>3, <5>1, <5>5
      <4> QED BY <4>2, <4>3
    <3> QED BY <3>2, <3>3, <3>4
  <2> QED BY <1>1, <2>1, <2>2
<1> QED BY <1>10, <1>11, <1>12, <1>13, <1>14 DEF Inv, OutcomeIsWhatWasSeen

LEMMA NextInv ==
  ASSUME RedirectAssumption, Inv, [Next]_vars
  PROVE  Inv'
<1>1. CASE UNCHANGED vars
  BY <1>1
  DEF vars, Inv, TypeOK, Counted, Working, ChainHasOneBudget, EndpointsAnswered,
      OutcomeIsWhatWasSeen, CompletedReachedItsEndpoint, ResponsesSurviveFailure
<1> QED BY <1>1, RefuseKeeps, BeginKeeps, RespondKeeps, EndKeeps DEF Next

-----------------------------------------------------------------------------
(* The theorems                                                            *)

\* Events, tasks and the session keep their types.
THEOREM TypeCorrect ==
  ASSUME RedirectAssumption
  PROVE  Spec => []TypeOK
<1>1. Init => Inv
  BY InitInv
<1>2. Inv /\ [Next]_vars => Inv'
  BY NextInv
<1>3. Inv => TypeOK
  BY DEF Inv
<1> QED BY <1>1, <1>2, <1>3, PTL DEF Spec

\* A chain of redirects has one budget, through however many tasks it goes and however
\* long the servers go on (cmd/httpx/browser.go:52).
THEOREM OneBudget ==
  ASSUME RedirectAssumption
  PROVE  Spec => []ChainHasOneBudget
<1>1. Init => Inv
  BY InitInv
<1>2. Inv /\ [Next]_vars => Inv'
  BY NextInv
<1>3. Inv => ChainHasOneBudget
  BY DEF Inv
<1> QED BY <1>1, <1>2, <1>3, PTL DEF Spec

\* An image is attributed to the address that served its document and to a URL of its
\* origin, and an event to a URL that was itself answered or to an image, whatever the
\* pages leave in the address bar (cmd/httpx/browser.go:92).
THEOREM AnsweredEndpoints ==
  ASSUME RedirectAssumption
  PROVE  Spec => []EndpointsAnswered
<1>1. Init => Inv
  BY InitInv
<1>2. Inv /\ [Next]_vars => Inv'
  BY NextInv
<1>3. Inv => EndpointsAnswered
  BY DEF Inv
<1> QED BY <1>1, <1>2, <1>3, PTL DEF Spec

\* A completed task reached the endpoint it was given, and of what a session saw within
\* its budget nothing is lost when its task fails: every endpoint has an event, its own or
\* that of the image of its response (cmd/httpx/browser.go:75).
THEOREM NothingSeenIsLost ==
  ASSUME RedirectAssumption
  PROVE  Spec => []OutcomeIsWhatWasSeen
<1>1. Init => Inv
  BY InitInv
<1>2. Inv /\ [Next]_vars => Inv'
  BY NextInv
<1>3. Inv => OutcomeIsWhatWasSeen
  BY DEF Inv
<1> QED BY <1>1, <1>2, <1>3, PTL DEF Spec

-----------------------------------------------------------------------------
(* Nuclei: what the log and the findings say of the requests               *)

\* The entry of a request in the log; an SSL request may be logged elsewhere.
Logs(l, r) == l.type = r.type /\ l.ok = r.ok /\ (l.at = <<r.to, r.port>> \/ r.type = "ssl")

\* A line of stdout about what answered a request.
Reports(h, r) ==
  /\ h.type = r.type /\ r.ok /\ h.ip \in {r.ip, None}
  /\ r.type # "dns" =>
       /\ h.at \in {<<r.to, r.port>>, None}
       /\ h.fields \in {NoPlace, <<r.to, r.port>>, <<Authority, in.port>>}

Settings ==
  /\ in \in Inputs /\ scanner \in Scanners
  /\ log = [at |-> log.at, torn |-> log.torn, there |-> log.there]
  /\ hits = [at |-> hits.at, bad |-> hits.bad]
  /\ pc \in {"start", "scanning"} => exit = "none"
  /\ pc # "done" => out = NoResult

\* Where the scanner may have gone: a bound name it resolves by itself, if it can.
Pinned ==
  \A r \in requests :
    /\ r.type \in profile.templates
    /\ r.type # "dns" /\ r.to \in Addresses => r.ip = r.to
    /\ r.type # "dns" /\ Bound /\ scanner.binds /\ r.to = in.name => r.ip = in.host

\* The log has nothing but requests, and all of them unless the scan has failed.
Traced ==
  /\ \A l \in log.at : \E r \in requests : Logs(l, r)
  /\ scanner.traces /\ exit \in {"none", "ok"} => \A r \in requests : \E l \in log.at : Logs(l, r)
  /\ log.there => scanner.traces
  /\ exit = "ok" /\ scanner.traces => log.there

Answered == \A h \in hits.at : \E r \in requests : Reports(h, r)

ScanInv ==
  /\ Settings /\ Pinned /\ Traced /\ Answered
  /\ used => Bound /\ scanner.binds
  /\ exit = "startup" => ~scanner.starts
  /\ CompletedWasScanned /\ FindingsAreKept /\ OnlySharedFaultsPause

\* Nothing was requested, logged or found.
LEMMA ScanInitInv ==
  ASSUME NucleiAssumption, ScanInit
  PROVE  ScanInv
<1>1. /\ Settings /\ Pinned /\ Traced /\ Answered
      /\ used => Bound /\ scanner.binds
      /\ exit = "startup" => ~scanner.starts
  BY DEF ScanInit, Settings, Pinned, Traced, Answered
<1>2. pc # "done" /\ exit = "none" /\ out = NoResult
  BY DEF ScanInit
<1>3. CompletedWasScanned /\ FindingsAreKept /\ OnlySharedFaultsPause
  BY <1>2 DEF CompletedWasScanned, Completed, FindingsAreKept, FindingsNameWhatAnswered,
              FindingsSurviveFailure, OnlySharedFaultsPause, NoResult
<1> QED BY <1>1, <1>3 DEF ScanInv

\* While nothing is published the properties hold.
LEMMA NotDone ==
  ASSUME pc # "done", out = NoResult
  PROVE  CompletedWasScanned /\ FindingsAreKept /\ OnlySharedFaultsPause
BY DEF CompletedWasScanned, Completed, FindingsAreKept, FindingsNameWhatAnswered,
       FindingsSurviveFailure, OnlySharedFaultsPause, NoResult

\* What the profile cannot do ends without a request; only a fault of the profile pauses.
LEMMA RejectInv ==
  ASSUME NucleiAssumption, ScanInv, Reject
  PROVE  ScanInv'
<1>0. \/ RefuseInput("input", FALSE) \/ RefuseInput("resolver", FALSE)
      \/ RefuseInput("profile", TRUE) /\ (~profile.traceArgs \/ ~profile.boundArgs)
  BY DEF Reject
<1>1. \E error : \E pause \in BOOLEAN :
         RefuseInput(error, pause) /\ (pause => ~profile.traceArgs \/ ~profile.boundArgs)
  BY <1>0
<1> PICK error : \E pause \in BOOLEAN :
           RefuseInput(error, pause) /\ (pause => ~profile.traceArgs \/ ~profile.boundArgs)
  BY <1>1
<1>5. PICK pause \in BOOLEAN :
         RefuseInput(error, pause) /\ (pause => ~profile.traceArgs \/ ~profile.boundArgs)
  OBVIOUS
<1>2. /\ pc' = "done" /\ out' = [events |-> {}, errors |-> {error}, pause |-> pause]
      /\ UNCHANGED <<task, ctx, requests, used, log, hits, exit>> /\ exit = "none"
  BY <1>5 DEF RefuseInput, NoResult, ScanInv, Settings, Reject
<1>3. Settings' /\ Pinned' /\ Traced' /\ Answered' /\ (used => Bound /\ scanner.binds)'
  BY <1>2 DEF ScanInv, Settings, Pinned, Traced, Answered, Logs, Reports, Authority, task, Bound, BindingName
<1>4. CompletedWasScanned' /\ FindingsAreKept' /\ OnlySharedFaultsPause'
  BY <1>5, <1>2 DEF CompletedWasScanned, Completed, FindingsAreKept, FindingsNameWhatAnswered,
       FindingsSurviveFailure, OnlySharedFaultsPause, task
<1> QED BY <1>2, <1>3, <1>4 DEF ScanInv

\* The steps that publish nothing: what is left to show is about the scanner.
LEMMA ScanningInv ==
  ASSUME ScanInv, pc' # "done", UNCHANGED <<task, out>>, pc # "done",
         Settings', Pinned', Traced', Answered', used' => Bound /\ scanner.binds,
         exit' = "startup" => ~scanner.starts
  PROVE  ScanInv'
<1>1. out' = NoResult
  BY DEF ScanInv, Settings
<1>2. (CompletedWasScanned /\ FindingsAreKept /\ OnlySharedFaultsPause)'
  BY <1>1 DEF CompletedWasScanned, Completed, FindingsAreKept, FindingsNameWhatAnswered,
              FindingsSurviveFailure, OnlySharedFaultsPause, NoResult
<1> QED BY <1>2 DEF ScanInv, task, Bound, BindingName

\* Launching requests nothing.
LEMMA LaunchInv ==
  ASSUME ScanInv, Launch
  PROVE  ScanInv'
<1>1. /\ pc = "start" /\ UNCHANGED <<task, ctx, requests, used, log, hits, out>>
      /\ \/ pc' = "scanning" /\ exit' = exit
         \/ pc' = "exited" /\ exit' = "startup" /\ ~scanner.starts
  BY DEF Launch
<1>2. Settings' /\ Pinned' /\ Traced' /\ Answered'
  BY <1>1 DEF ScanInv, Settings, Pinned, Traced, Answered, Logs, Reports, Authority, task, Bound, BindingName
<1> QED BY <1>1, <1>2, ScanningInv DEF ScanInv

\* A cancelled task has its requests and its log still.
LEMMA CancelInv ==
  ASSUME ScanInv, Cancel
  PROVE  ScanInv'
<1>1. pc # "done" /\ UNCHANGED <<task, pc, requests, used, log, hits, exit, out>>
  BY DEF Cancel
<1>2. Settings' /\ Pinned' /\ Traced' /\ Answered'
  BY <1>1 DEF ScanInv, Settings, Pinned, Traced, Answered, Logs, Reports, Authority, task, Bound, BindingName
<1> QED BY <1>1, <1>2, ScanningInv DEF ScanInv

\* However it ends, what it wrote is of its requests, and a log is complete if it ended well.
LEMMA ExitInv ==
  ASSUME NucleiAssumption, ScanInv, Exit
  PROVE  ScanInv'
<1>1. pc = "scanning" /\ pc' = "exited" /\ UNCHANGED <<task, ctx, requests, used, out>> /\ exit = "none"
  BY DEF Exit, ScanInv, Settings
<1>2. CASE exit' = "ok" /\ log' = [log EXCEPT !.there = scanner.traces]
           /\ \E bad \in BOOLEAN : hits' = [hits EXCEPT !.bad = bad]
  <2>1. log'.at = log.at /\ log'.there = scanner.traces /\ hits'.at = hits.at
        /\ log' = [at |-> log'.at, torn |-> log'.torn, there |-> log'.there]
        /\ hits' = [at |-> hits'.at, bad |-> hits'.bad]
    BY <1>2 DEF ScanInv, Settings
  <2>2. Settings' /\ Pinned' /\ Traced' /\ Answered'
    BY <1>1, <1>2, <2>1 DEF ScanInv, Settings, Pinned, Traced, Answered, Logs, Reports, Authority, task, Bound, BindingName
  <2> QED BY <1>1, <1>2, <2>2, ScanningInv DEF ScanInv
<1>3. CASE /\ exit' = "failed"
           /\ \E at \in SUBSET log.at, torn \in BOOLEAN, there \in {log.there, scanner.traces} :
                log' = [at |-> at, torn |-> torn /\ there, there |-> there]
           /\ \E at \in SUBSET hits.at, bad \in BOOLEAN : hits' = [at |-> at, bad |-> bad]
  <2>1. /\ log'.at \subseteq log.at /\ (log'.there => log.there \/ scanner.traces) /\ hits'.at \subseteq hits.at
        /\ log' = [at |-> log'.at, torn |-> log'.torn, there |-> log'.there]
        /\ hits' = [at |-> hits'.at, bad |-> hits'.bad]
    BY <1>3
  <2>2. Settings' /\ Pinned' /\ Traced' /\ Answered'
    BY <1>1, <1>3, <2>1 DEF ScanInv, Settings, Pinned, Traced, Answered, Logs, Reports, Authority, task, Bound, BindingName
  <2> QED BY <1>1, <1>3, <2>2, ScanningInv DEF ScanInv
<1> QED BY <1>2, <1>3 DEF Exit

\* A request, whatever it is, is logged and reported as it was made.
LEMMA RequestedInv ==
  ASSUME NucleiAssumption, ScanInv, pc = "scanning", UNCHANGED <<task, ctx, pc, exit, out>>,
         NEW r, requests' = requests \cup {r}, r.type \in profile.templates,
         r.type # "dns" /\ r.to \in Addresses => r.ip = r.to,
         r.type # "dns" /\ Bound /\ scanner.binds /\ r.to = in.name => r.ip = in.host,
         used' => Bound /\ scanner.binds,
         NEW l, Logs(l, r),
         log' = IF scanner.traces THEN [log EXCEPT !.at = @ \cup {l}, !.there = TRUE] ELSE log,
         NEW h, \/ hits' = hits
                \/ Reports(h, r) /\ hits' = [hits EXCEPT !.at = @ \cup {h}]
  PROVE  ScanInv'
<1>1. exit = "none"
  BY DEF ScanInv, Settings
<1>2. /\ log' = [at |-> log'.at, torn |-> log'.torn, there |-> log'.there]
      /\ IF scanner.traces THEN log'.at = log.at \cup {l} /\ log'.there = TRUE ELSE log' = log
  BY DEF ScanInv, Settings
<1>3. /\ hits' = [at |-> hits'.at, bad |-> hits'.bad]
      /\ hits'.at = hits.at \/ (Reports(h, r) /\ hits'.at = hits.at \cup {h})
  <2>1. hits = [at |-> hits.at, bad |-> hits.bad]
    BY DEF ScanInv, Settings
  <2>2. CASE hits' = hits
    <3>1. hits'.at = hits.at /\ hits'.bad = hits.bad
      BY <2>2
    <3> QED BY <2>1, <2>2, <3>1
  <2>3. CASE Reports(h, r) /\ hits' = [hits EXCEPT !.at = @ \cup {h}]
    <3> HIDE DEF Reports
    <3> QED BY <2>1, <2>3
  <2> QED BY <2>2, <2>3
<1>4. Settings'
  BY <1>1, <1>2, <1>3 DEF ScanInv, Settings, task
<1>5. Pinned'
  BY DEF ScanInv, Pinned, task, Bound, BindingName
<1> HIDE DEF Logs, Reports
<1>6. \A m \in log'.at : \E q \in requests' : Logs(m, q)
  BY <1>2 DEF ScanInv, Traced
<1>7. scanner.traces => \A q \in requests' : \E m \in log'.at : Logs(m, q)
  BY <1>1, <1>2 DEF ScanInv, Traced
<1>8. Traced'
  BY <1>1, <1>2, <1>6, <1>7 DEF ScanInv, Traced, task, Logs
<1>9. Answered'
  <2>1. \A k \in hits'.at : \E q \in requests' : Reports(k, q)
    BY <1>3 DEF ScanInv, Answered
  <2> QED BY <2>1 DEF Answered, Reports, Authority, task
<1> QED BY <1>1, <1>4, <1>5, <1>8, <1>9, ScanningInv DEF ScanInv

\* A bound name that the scanner resolves by itself is at the address of the task.
LEMMA RequestInv ==
  ASSUME NucleiAssumption, ScanInv, NEW type \in profile.templates, Request(type)
  PROVE  ScanInv'
<1>1. PICK to \in {Authority} \cup (IF type = "http" THEN DOMAIN Resolves ELSE {}),
           port \in Ports \cup {in.port}, ok \in BOOLEAN :
        /\ port = in.port \/ type # "http"
        /\ LET pinned == Bound /\ scanner.binds /\ to = BindingName
           IN \E ip \in IF pinned THEN {in.host} ELSE IF to \in Addresses THEN {to} ELSE Resolves[to],
                 at \in {<<to, port>>} \cup (IF type = "ssl" THEN {<<Authority, in.port>>} ELSE {}) :
                /\ requests' = requests \cup
                     {[type |-> type, to |-> to, ip |-> ip, port |-> port, ok |-> ok]}
                /\ used' = (used \/ pinned)
                /\ log' = IF ~scanner.traces THEN log
                          ELSE [log EXCEPT !.at = @ \cup {[type |-> type, at |-> at, ok |-> ok]},
                                           !.there = TRUE]
                /\ \/ hits' = hits
                   \/ /\ ok /\ Cardinality(hits.at) < MaxHits
                      /\ \E known \in {ip, None}, p \in Places(type, to, port) :
                           hits' = [hits EXCEPT !.at =
                                      @ \cup {[type |-> type, at |-> p.at, fields |-> p.fields, ip |-> known]}]
  BY DEF Request
<1> DEFINE pinned == Bound /\ scanner.binds /\ to = BindingName
<1>2. PICK ip, at :
        /\ ip \in IF pinned THEN {in.host} ELSE IF to \in Addresses THEN {to} ELSE Resolves[to]
        /\ at = <<to, port>> \/ type = "ssl"
        /\ requests' = requests \cup
             {[type |-> type, to |-> to, ip |-> ip, port |-> port, ok |-> ok]}
        /\ used' = (used \/ pinned)
        /\ log' = IF ~scanner.traces THEN log
                  ELSE [log EXCEPT !.at = @ \cup {[type |-> type, at |-> at, ok |-> ok]},
                                   !.there = TRUE]
        /\ \/ hits' = hits
           \/ /\ ok /\ Cardinality(hits.at) < MaxHits
              /\ \E known \in {ip, None}, p \in Places(type, to, port) :
                   hits' = [hits EXCEPT !.at =
                              @ \cup {[type |-> type, at |-> p.at, fields |-> p.fields, ip |-> known]}]
  BY <1>1
<1>3. pc = "scanning" /\ UNCHANGED <<task, ctx, pc, exit, out>>
  BY DEF Request
<1> DEFINE r == [type |-> type, to |-> to, ip |-> ip, port |-> port, ok |-> ok]
           l == [type |-> type, at |-> at, ok |-> ok]
<1>4. \E known \in {ip, None}, p \in Places(type, to, port) :
        LET h == [type |-> type, at |-> p.at, fields |-> p.fields, ip |-> known]
        IN \/ hits' = hits
           \/ ok /\ hits' = [hits EXCEPT !.at = @ \cup {h}]
  <2>1. [at |-> <<to, port>>, fields |-> NoPlace] \in Places(type, to, port)
    BY DEF Places
  <2> QED BY <1>2, <2>1
<1>5. PICK known \in {ip, None}, p \in Places(type, to, port) :
        LET h == [type |-> type, at |-> p.at, fields |-> p.fields, ip |-> known]
        IN \/ hits' = hits
           \/ ok /\ hits' = [hits EXCEPT !.at = @ \cup {h}]
  BY <1>4
<1> DEFINE h == [type |-> type, at |-> p.at, fields |-> p.fields, ip |-> known]
<1>6. in.name \notin Addresses
  BY DEF NucleiAssumption, ScanInv, Settings
<1>7. /\ r.type \in profile.templates
      /\ r.type # "dns" /\ r.to \in Addresses => r.ip = r.to
      /\ r.type # "dns" /\ Bound /\ scanner.binds /\ r.to = in.name => r.ip = in.host
      /\ used' => Bound /\ scanner.binds
  BY <1>2, <1>6 DEF BindingName, ScanInv
<1>8. Logs(l, r) /\ (ok => Reports(h, r))
  <2>1. p.at \in {<<to, port>>, None} /\ p.fields \in {NoPlace, <<to, port>>, <<Authority, in.port>>}
    BY DEF Places
  <2> QED BY <1>2, <2>1 DEF Logs, Reports
<1>9. /\ requests' = requests \cup {r}
      /\ log' = IF scanner.traces THEN [log EXCEPT !.at = @ \cup {l}, !.there = TRUE] ELSE log
  BY <1>2
<1>10. hits' = hits \/ (Reports(h, r) /\ hits' = [hits EXCEPT !.at = @ \cup {h}])
  BY <1>5, <1>8
<1> HIDE DEF r, l, h
<1> QED BY <1>3, <1>7, <1>8, <1>9, <1>10, RequestedInv

\* A DNS template is logged as one, and its profile has it.
LEMMA RequestDnsInv ==
  ASSUME NucleiAssumption, ScanInv, "dns" \in profile.templates, RequestDns
  PROVE  ScanInv'
<1>1. PICK ok \in BOOLEAN, hit \in BOOLEAN :
        LET l == [type |-> "dns", at |-> <<Authority, 0>>, ok |-> ok]
        IN /\ requests' = requests \cup
                {[type |-> "dns", to |-> Authority, ip |-> None, port |-> 0, ok |-> ok]}
           /\ log' = IF scanner.traces THEN [log EXCEPT !.at = @ \cup {l}, !.there = TRUE] ELSE log
           /\ hits' = IF ~(ok /\ hit) THEN hits
                      ELSE [hits EXCEPT !.at =
                              @ \cup {[type |-> "dns", at |-> l.at, fields |-> NoPlace, ip |-> None]}]
  <2>1. PICK ok \in BOOLEAN, hit \in BOOLEAN :
          LET l == [type |-> "dns", at |-> <<Authority, 0>>, ok |-> ok]
              said == ok /\ hit /\ Cardinality(hits.at) < MaxHits
          IN /\ requests' = requests \cup
                  {[type |-> "dns", to |-> Authority, ip |-> None, port |-> 0, ok |-> ok]}
             /\ log' = IF scanner.traces THEN [log EXCEPT !.at = @ \cup {l}, !.there = TRUE] ELSE log
             /\ hits' = IF ~said THEN hits
                        ELSE [hits EXCEPT !.at =
                                @ \cup {[type |-> "dns", at |-> l.at, fields |-> NoPlace, ip |-> None]}]
    BY DEF RequestDns
  <2> DEFINE said == ok /\ hit /\ Cardinality(hits.at) < MaxHits
  <2>2. said \in BOOLEAN /\ (said => ok)
    OBVIOUS
  <2> QED BY <2>1, <2>2
<1>2. pc = "scanning" /\ UNCHANGED <<task, ctx, pc, exit, out>> /\ (used' => Bound /\ scanner.binds)
  BY DEF RequestDns, ScanInv
<1> DEFINE r == [type |-> "dns", to |-> Authority, ip |-> None, port |-> 0, ok |-> ok]
           l == [type |-> "dns", at |-> <<Authority, 0>>, ok |-> ok]
           h == [type |-> "dns", at |-> <<Authority, 0>>, fields |-> NoPlace, ip |-> None]
<1>3. Logs(l, r) /\ (ok => Reports(h, r)) /\ r.type \in profile.templates /\ r.type = "dns"
  BY DEF Logs, Reports
<1>4. /\ requests' = requests \cup {r}
      /\ log' = IF scanner.traces THEN [log EXCEPT !.at = @ \cup {l}, !.there = TRUE] ELSE log
  BY <1>1
<1>5. hits' = hits \/ (Reports(h, r) /\ hits' = [hits EXCEPT !.at = @ \cup {h}])
  BY <1>1, <1>3
<1> HIDE DEF r, l, h
<1> QED BY <1>2, <1>3, <1>4, <1>5, RequestedInv

\* scan judges what the log tells of the requests, and publishes what it was told.
LEMMA FinishInv ==
  ASSUME NucleiAssumption, ScanInv, Finish
  PROVE  ScanInv'
<1> DEFINE dns == Bound /\ (\E r \in log.at : r.type = "dns" \/ \E f \in Findings : f.type = "dns")
           published == Published(Findings)
           noTrace == IF log.there THEN TraceErrors ELSE {"log"}
           unbound == IF Unused THEN {"binding"} ELSE {}
           byDns   == IF dns THEN {"dns"} ELSE {}
           off     == IF \E f \in published : Mismatch(f) THEN {"mismatch"} ELSE {}
<1>1. /\ pc = "exited" /\ pc' = "done" /\ UNCHANGED <<task, ctx, requests, used, log, hits, exit>>
      /\ out' = [events |-> published,
                 errors |-> UNION {RunErrors, HitErrors, noTrace, unbound, byDns, off},
                 pause  |-> NoTraceFile \/ dns \/ (ctx /\ exit = "startup")]
  BY DEF Finish
<1>2. Settings' /\ Pinned' /\ Traced' /\ Answered'
  BY <1>1 DEF ScanInv, Settings, Pinned, Traced, Answered, Logs, Reports, Authority, task, Bound, BindingName
<1>3. /\ (used => Bound /\ scanner.binds)' /\ (exit = "startup" => ~scanner.starts)'
  BY <1>1 DEF ScanInv, task, Bound, BindingName
<1>4. out'.events = published /\ out'.errors = UNION {RunErrors, HitErrors, noTrace, unbound, byDns, off}
      /\ out'.pause = (NoTraceFile \/ dns \/ (ctx /\ exit = "startup"))
  BY <1>1
<1> HIDE DEF published, noTrace, unbound, byDns, off
<1>5. CompletedWasScanned'
  <2> SUFFICES ASSUME out'.errors = {}
               PROVE  /\ requests # {} /\ \A r \in requests : r.ok
                      /\ Bound => \A r \in requests : r.to = in.name => r.ip = in.host
                      /\ in.kind = "service" =>
                           \A r \in requests : /\ in.proto = "tcp" /\ r.type \in {"tcp", "ssl"}
                                                /\ r.type = "tcp" => r.port = in.port
    BY <1>1 DEF CompletedWasScanned, Completed, task, Bound, BindingName
  <2>1. RunErrors = {} /\ noTrace = {} /\ unbound = {} /\ byDns = {}
    BY <1>4
  <2>2. ctx /\ exit = "ok"
    BY <2>1 DEF RunErrors
  <2>3. log.there /\ TraceErrors = {}
    BY <2>1 DEF noTrace
  <2>4. /\ log.at # {} /\ \A l \in log.at : l.ok
        /\ in.kind = "service" => \A l \in log.at : OnEndpoint(l)
    <3>1. ~log.torn /\ log.at # {}
      BY <2>3 DEF TraceErrors
    <3>2. \A l \in log.at : l.ok
      <4>1. "requests failed" \notin TraceErrors
        BY <2>3
      <4> QED BY <3>1, <4>1 DEF TraceErrors
    <3>3. in.kind = "service" => \A l \in log.at : l.ok => OnEndpoint(l)
      <4>1. "off endpoint" \notin TraceErrors
        BY <2>3
      <4> QED BY <3>1, <4>1 DEF TraceErrors
    <3> QED BY <3>1, <3>2, <3>3
  <2>5. ~dns /\ ~Unused
    BY <2>1 DEF unbound, byDns
  <2>6. \A r \in requests : \E l \in log.at : Logs(l, r)
    BY <2>2, <2>3 DEF ScanInv, Traced
  <2>7. requests # {}
    BY <2>4 DEF ScanInv, Traced
  <2>8. \A r \in requests : r.ok
    BY <2>4, <2>6 DEF Logs
  <2>9. ASSUME Bound, NEW r \in requests, r.to = in.name PROVE r.ip = in.host
    <3>1. used /\ scanner.binds
      BY <2>5, <2>9 DEF Unused, ScanInv
    <3>2. r.type # "dns"
      BY <2>5, <2>6, <2>9 DEF Logs
    <3> QED BY <2>9, <3>1, <3>2 DEF ScanInv, Pinned
  <2>10. ASSUME in.kind = "service", NEW r \in requests
         PROVE  in.proto = "tcp" /\ r.type \in {"tcp", "ssl"} /\ (r.type = "tcp" => r.port = in.port)
    <3>1. PICK l \in log.at : Logs(l, r)
      BY <2>6
    <3>2. OnEndpoint(l)
      BY <2>4, <2>10
    <3>3. r.type = "tcp" => <<Authority, in.port>> = <<r.to, r.port>>
      BY <3>1, <3>2 DEF Logs, OnEndpoint
    <3> QED BY <3>1, <3>2, <3>3 DEF Logs, OnEndpoint
  <2> QED BY <2>7, <2>8, <2>9, <2>10
<1>6. FindingsAreKept'
  <2>1. \A f \in published : \E h \in hits.at : f = FindingTarget(h)
    BY DEF published, Published, Findings
  <2>2. ASSUME NEW h \in hits.at
        PROVE  \E r \in requests :
                 /\ r.ok /\ FindingTarget(h).type = r.type
                 /\ NamesIt(FindingTarget(h), r) \/ (NamesTheTask(FindingTarget(h), r) /\ h.at = None)
    <3>1. PICK r \in requests : Reports(h, r)
      BY <2>2 DEF ScanInv, Answered
    <3>2. None \notin Addresses /\ in.name \notin Addresses /\ in.host \in Addresses \cup {None}
      BY DEF NucleiAssumption, ScanInv, Settings
    <3> DEFINE f == FindingTarget(h)
               to == Place(h)[1]
    <3>3. /\ f.name = IF to \in Addresses THEN None ELSE to
          /\ f.host = IF h.ip # None THEN h.ip ELSE IF to \in Addresses THEN to ELSE None
          /\ f.port = Place(h)[2] /\ f.type = h.type
      BY DEF FindingTarget
    <3>4. r.ok /\ f.type = r.type /\ h.ip \in {r.ip, None}
      BY <3>1, <3>3 DEF Reports
    <3> HIDE DEF f, to
    <3> SUFFICES NamesIt(f, r) \/ (NamesTheTask(f, r) /\ h.at = None)
      BY <3>4 DEF f
    <3>5. \/ Place(h) = NoPlace
          \/ Place(h) = <<r.to, r.port>> /\ r.type # "dns"
          \/ Place(h) = <<Authority, in.port>> /\ h.at = None
      <4>1. CASE h.type \in {"http", "ssl", "tcp"}
        <5>1. /\ r.type # "dns" /\ h.at \in {<<r.to, r.port>>, None}
              /\ h.fields \in {NoPlace, <<r.to, r.port>>, <<Authority, in.port>>}
          BY <3>1, <4>1 DEF Reports
        <5>2. CASE h.at # None
          BY <4>1, <5>1, <5>2 DEF Place
        <5>3. CASE h.at = None /\ h.type = "http"
          BY <5>3 DEF Place
        <5>4. CASE h.at = None /\ h.type \in {"ssl", "tcp"}
          BY <5>1, <5>4 DEF Place
        <5> QED BY <4>1, <5>2, <5>3, <5>4
      <4>2. CASE h.type \notin {"http", "ssl", "tcp"}
        BY <4>2 DEF Place
      <4> QED BY <4>1, <4>2
    <3>6. CASE Place(h) = NoPlace
      <4>1. to = None /\ f.port = 0
        BY <3>3, <3>6 DEF NoPlace, to
      <4>2. NamesIt(f, r)
        BY <3>2, <3>3, <3>4, <4>1 DEF NamesIt
      <4> QED BY <4>2
    <3>7. CASE Place(h) = <<r.to, r.port>> /\ r.type # "dns"
      <4>1. to = r.to /\ f.port = r.port
        BY <3>3, <3>7 DEF to
      <4>2. r.to \in Addresses => r.ip = r.to
        BY <3>7 DEF ScanInv, Pinned
      <4>3. NamesIt(f, r)
        BY <3>3, <3>4, <4>1, <4>2 DEF NamesIt
      <4> QED BY <4>3
    <3>8. CASE Place(h) = <<Authority, in.port>> /\ h.at = None
      <4>1. to = Authority /\ f.port = in.port
        BY <3>3, <3>8 DEF to
      <4>2. CASE in.name # None
        <5>1. to = in.name /\ to \notin Addresses
          BY <3>2, <4>1, <4>2 DEF Authority
        <5>2. f.name = BindingName /\ f.host \in {r.ip, None}
          BY <3>3, <3>4, <5>1 DEF BindingName
        <5>3. NamesTheTask(f, r)
          BY <4>1, <4>2, <5>2 DEF NamesTheTask, BindingName
        <5> QED BY <3>8, <5>3
      <4>3. CASE in.name = None
        <5>1. to = in.host
          BY <4>1, <4>3 DEF Authority
        <5>2. f.name = None /\ f.host \in {r.ip, in.host}
          BY <3>2, <3>3, <3>4, <5>1
        <5>3. NamesTheTask(f, r)
          BY <4>1, <4>3, <5>2 DEF NamesTheTask, BindingName
        <5> QED BY <3>8, <5>3
      <4> QED BY <4>2, <4>3
    <3> QED BY <3>5, <3>6, <3>7, <3>8
  <2>3. FindingsNameWhatAnswered'
    <3> SUFFICES ASSUME NEW f \in published
                 PROVE  \E r \in requests :
                          /\ r.ok /\ f.type = r.type
                          /\ \/ NamesIt(f, r)
                             \/ NamesTheTask(f, r) /\ \E h \in hits.at : h.type = f.type /\ h.at = None
      BY <1>1, <1>4 DEF FindingsNameWhatAnswered, NamesIt, NamesTheTask, BindingName, task
    <3>1. PICK h \in hits.at : f = FindingTarget(h)
      BY <2>1
    <3>2. f.type = h.type
      BY <3>1 DEF FindingTarget
    <3> QED BY <2>2, <3>1, <3>2
  <2>4. ASSUME NEW h \in hits.at PROVE FindingTarget(h) \in published <=> ~(h.type = "dns" /\ Bound)
    <3>1. FindingTarget(h).type = h.type /\ FindingTarget(h) \in Findings
      BY <2>4 DEF FindingTarget, Findings
    <3> QED BY <3>1 DEF published, Published
  <2>5. FindingsSurviveFailure'
    <3>1. \A h \in hits'.at : FindingTarget(h)' = FindingTarget(h)
      BY <1>1 DEF FindingTarget, Place, ProtoOf, Authority, task
    <3> QED BY <1>1, <1>4, <2>4, <3>1 DEF FindingsSurviveFailure, task, Bound, BindingName
  <2> QED BY <2>3, <2>5 DEF FindingsAreKept
<1>7. OnlySharedFaultsPause'
  <2> SUFFICES ASSUME NoTraceFile \/ dns \/ (ctx /\ exit = "startup")
               PROVE  ~profile.traceArgs \/ ~profile.boundArgs \/ "dns" \in profile.templates
                      \/ ~scanner.starts \/ ~scanner.traces
    BY <1>1, <1>4 DEF OnlySharedFaultsPause, task
  <2>1. CASE NoTraceFile
    BY <2>1 DEF NoTraceFile, RunErrors, ScanInv, Traced
  <2>2. CASE dns
    <3>1. CASE \E l \in log.at : l.type = "dns"
      BY <3>1 DEF ScanInv, Traced, Logs, Pinned
    <3>2. CASE \E f \in Findings : f.type = "dns"
      <4>1. PICK h \in hits.at : h.type = "dns"
        BY <3>2 DEF Findings, FindingTarget
      <4> QED BY <4>1 DEF ScanInv, Answered, Reports, Pinned
    <3> QED BY <2>2, <3>1, <3>2
  <2>3. CASE ctx /\ exit = "startup"
    BY <2>3 DEF ScanInv
  <2> QED BY <2>1, <2>2, <2>3
<1> QED BY <1>2, <1>3, <1>5, <1>6, <1>7 DEF ScanInv

\* Every step keeps the invariant.
LEMMA ScanNextInv ==
  ASSUME NucleiAssumption, ScanInv, [ScanNext]_scanVars
  PROVE  ScanInv'
<1>1. CASE \E type \in profile.templates : IF type = "dns" THEN RequestDns ELSE Request(type)
  BY <1>1, RequestInv, RequestDnsInv
<1>2. CASE UNCHANGED scanVars
  BY <1>2 DEF scanVars, ScanInv, Settings, Pinned, Traced, Answered, Logs, Reports, Authority, Bound, BindingName, Place, ProtoOf, NamesIt, NamesTheTask,
              CompletedWasScanned, Completed, FindingsAreKept, FindingsNameWhatAnswered,
              FindingsSurviveFailure, FindingTarget, OnlySharedFaultsPause
<1> QED BY <1>1, <1>2, RejectInv, LaunchInv, ExitInv, CancelInv, FinishInv DEF ScanNext

\* The invariant holds of every behaviour.
LEMMA ScanInvHolds ==
  ASSUME NucleiAssumption
  PROVE  ScanSpec => []ScanInv
<1>1. ScanInit => ScanInv
  BY ScanInitInv
<1>2. ScanInv /\ [ScanNext]_scanVars => ScanInv'
  BY ScanNextInv
<1> QED BY <1>1, <1>2, PTL DEF ScanSpec

\* A completed task has scanned its endpoint, whatever the scanner supports, requests, logs
\* and reports, and whenever it is killed (cmd/nuclei/scan.go:76).
THEOREM CompletedScans ==
  ASSUME NucleiAssumption
  PROVE  ScanSpec => []CompletedWasScanned
<1>1. ScanInv => CompletedWasScanned
  BY DEF ScanInv
<1> QED BY <1>1, ScanInvHolds, PTL

\* Findings name what answered or, where a hit lacks the place of its match, the place of
\* the task without the address a name is bound to, and are published however the scan ends
\* (cmd/nuclei/parse.go:101, cmd/nuclei/scan.go:79).
THEOREM KeptFindings ==
  ASSUME NucleiAssumption
  PROVE  ScanSpec => []FindingsAreKept
<1>1. ScanInv => FindingsAreKept
  BY DEF ScanInv
<1> QED BY <1>1, ScanInvHolds, PTL

\* A tool is paused only for what is wrong with its profile or its installation, and so for
\* every replica (cmd/nuclei/scan.go:71).
THEOREM SharedFaultsPause ==
  ASSUME NucleiAssumption
  PROVE  ScanSpec => []OnlySharedFaultsPause
<1>1. ScanInv => OnlySharedFaultsPause
  BY DEF ScanInv
<1> QED BY <1>1, ScanInvHolds, PTL

-----------------------------------------------------------------------------
(* DnsPin: what Start has seen, and what Close has yet to shut             *)

\* A server that has been seen to serve, whatever has become of it.
Served(s) == server[s] \in {"serving", "ending", "failed"}

DnsTyped ==
  /\ caller \in {"listen", "udp", "tcp", "using", "undo", "closing", "done"}
  /\ socket \in [Transport -> {"none", "open", "closed"}]
  /\ server \in [Transport -> {"none", "launched", "activated", "serving", "ending", "failed"}]
  /\ started \in [Transport -> BOOLEAN]
  /\ close \in {"no", "udp", "udp wait", "tcp", "tcp wait", "done"}

\* Nothing is closed before Start has ended, which waits for one server after the other.
Launching ==
  /\ caller = "listen" => \A s \in Transport : socket[s] = "none" /\ server[s] = "none"
  /\ caller \in {"listen", "udp", "tcp"} => close = "no" /\ watcher = "none"
  /\ caller \in {"tcp", "using", "closing"} => Served("udp")
  /\ caller \in {"using", "closing"} => Served("tcp")
  /\ close = "no" => \A s \in Transport : server[s] = "activated" \/ Served(s) => started[s]

\* Servers that have both been seen to serve are found started by the Close that shuts
\* them, and their sockets are closed one after the other.
Shutting ==
  caller \in {"using", "closing"} =>
    /\ close \in {"no", "udp"} => started["udp"]
    /\ close \in {"no", "udp", "udp wait", "tcp"} => started["tcp"]
    /\ close \in {"tcp", "tcp wait", "done"} => socket["udp"] = "closed"
    /\ close \in {"tcp wait", "done"} => socket["tcp"] = "closed"

DnsInv == DnsTyped /\ Launching /\ Shutting /\ NothingStaysOpen

\* Nothing is open at the start.
LEMMA DnsInitInv ==
  ASSUME DnsInit
  PROVE  DnsInv
BY DEF DnsInit, DnsInv, DnsTyped, Launching, Shutting, NothingStaysOpen, Served, Transport

\* The steps of the worker.
LEMMA CallerKeepsDns ==
  ASSUME DnsInv, StartResolver \/ ToolEnds \/ Closed
  PROVE  DnsInv'
<1> USE DEF DnsInv, DnsTyped, Launching, Shutting, NothingStaysOpen, Served, Transport
<1>1. CASE OpenSockets
  <2>1. /\ caller = "listen" /\ close' = "no" /\ watcher' = "none" /\ started' = started
        /\ caller' \in {"udp", "done"}
    BY <1>1 DEF OpenSockets
  <2>2. CASE caller' = "udp"
    BY <1>1, <2>1, <2>2 DEF OpenSockets
  <2>3. CASE caller' = "done"
    BY <1>1, <2>1, <2>3 DEF OpenSockets
  <2> QED BY <2>1, <2>2, <2>3
<1>2. CASE Ready
  BY <1>2 DEF Ready
<1>3. CASE GiveUp
  BY <1>3 DEF GiveUp
<1>4. CASE Undo
  BY <1>4 DEF Undo
<1>5. CASE ToolEnds
  BY <1>5 DEF ToolEnds
<1>6. CASE Closed
  BY <1>6 DEF Closed
<1> QED BY <1>1, <1>2, <1>3, <1>4, <1>5, <1>6 DEF StartResolver

\* The steps of Close, of the watcher and of whoever cancels the task.
LEMMA CloseKeepsDns ==
  ASSUME DnsInv, Close \/ Watch \/ CancelTask
  PROVE  DnsInv'
<1> USE DEF DnsInv, DnsTyped, Launching, Shutting, NothingStaysOpen, Served, Transport
<1>1. CASE Shutdown
  BY <1>1 DEF Shutdown
<1>2. CASE NotStarted
  BY <1>2 DEF NotStarted
<1>3. CASE ShutdownEnds
  BY <1>3 DEF ShutdownEnds
<1>4. CASE Watch
  BY <1>4 DEF Watch
<1>5. CASE CancelTask
  BY <1>5 DEF CancelTask
<1> QED BY <1>1, <1>2, <1>3, <1>4, <1>5 DEF Close

\* The steps of a server.
LEMMA ServerKeepsDns ==
  ASSUME DnsInv, NEW s \in Transport, Serve(s) \/ Forward(s) \/ Answer(s) \/ Breaks(s)
  PROVE  DnsInv'
<1> USE DEF DnsInv, DnsTyped, Launching, Shutting, NothingStaysOpen, Served, Transport
<1>1. CASE Activate(s)
  BY <1>1 DEF Activate
<1>2. CASE Notify(s)
  BY <1>2 DEF Notify
<1>3. CASE LoopEnds(s)
  BY <1>3 DEF LoopEnds
<1>4. CASE Returns(s)
  BY <1>4 DEF Returns
<1>5. CASE Forward(s)
  BY <1>5 DEF Forward
<1>6. CASE Answer(s)
  BY <1>6 DEF Answer
<1>7. CASE Breaks(s)
  BY <1>7 DEF Breaks
<1> QED BY <1>1, <1>2, <1>3, <1>4, <1>5, <1>6, <1>7 DEF Serve

\* The tool of a task starts when both its servers have been seen to serve, and when the
\* task is over no socket of it is open, whenever it is cancelled, whatever breaks and
\* whoever closes first (dnspin.go:104, dnspin.go:132).
THEOREM ResolverServesItsTask ==
  DnsSpec => []ServesItsTask
<1>1. DnsInit => DnsInv
  BY DnsInitInv
<1>2. DnsInv /\ [DnsNext]_dnsVars => DnsInv'
  <2> SUFFICES ASSUME DnsInv, [DnsNext]_dnsVars PROVE DnsInv'
    OBVIOUS
  <2>1. CASE UNCHANGED dnsVars
    BY <2>1 DEF dnsVars, DnsInv, DnsTyped, Launching, Shutting, NothingStaysOpen, Served
  <2> QED BY <2>1, CallerKeepsDns, CloseKeepsDns, ServerKeepsDns DEF DnsNext
<1>3. DnsInv => ServesItsTask
  BY DEF DnsInv, DnsTyped, Launching, Served, Transport, ServesItsTask, ReadyWhenReturned
<1> QED BY <1>1, <1>2, <1>3, PTL DEF DnsSpec
=============================================================================
