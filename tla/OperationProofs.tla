-------------------------- MODULE OperationProofs ----------------------------
(***************************************************************************)
(* What holds of Registry for any names, contracts and limits, any number  *)
(* of replicas and of provisioning runs, overlapping or not; of ToolPause  *)
(* for any number of replicas, tasks, attempts and faults, whatever the    *)
(* operator does and when; and of Watch for any number of replicas, tasks, *)
(* attempts and crashes, however late a note arrives.                      *)
(***************************************************************************)
EXTENDS Registry, ToolPause, Watch, TLAPS

-----------------------------------------------------------------------------
(* Registry: the inductive invariant                                       *)

Elems(s) == {s[i] : i \in DOMAIN s}
Names    == Elems(Services)

Running    == {"setup", "bind", "compare", "listening"}
Working(p) == pc[p] \in Registering \cup {"set"}

\* Who registers has a job; a replica never replaces, and a run is at its next service.
Jobs ==
  /\ \A a \in Actor : pc[a] \in Registering \cup Running \cup {"set"} => job[a] \in Assignment
  /\ \A r \in Replica : /\ pc[r] \in Registering \cup Running \cup {"down"}
                        /\ job[r] # None => ~job[r].replace /\ job[r].limits \in Limits
  /\ \A p \in Provisioning :
       /\ pc[p] \in Registering \cup {"idle", "set", "done", "failed"}
       /\ pc[p] \in Registering =>
            /\ left[p] # <<>> /\ job[p].worker = Head(left[p])
            /\ job[p].contract = built[p][Head(left[p])]
       /\ pc[p] = "set" => left[p] = <<>>

\* A revision names one entry: what was read is current or outdated.
Reads ==
  \A a \in Actor :
    /\ pc[a] \in {"get", "update"} => registry[job[a].worker] # None
    /\ pc[a] = "update" =>
         /\ job[a].replace /\ found[a] \in Entry
         /\ found[a].revision <= registry[job[a].worker].revision
         /\ found[a].revision = registry[job[a].worker].revision =>
              found[a] = registry[job[a].worker]

\* While a run replaces, no replica is up.
ReplacesAlone ==
  \A p \in Provisioning : Working(p) /\ job[p].replace => \A r \in Replica : pc[r] = "down"

\* Every name is registered or still to come.
Progress ==
  \A p \in Provisioning : Working(p) =>
    \A w \in Names : registry[w] # None \/ w \in Elems(left[p])

\* Runs in turn: one is at work, the inventory says so, and what it has registered is
\* the contract of its images.
InTurn ==
  \A p \in Provisioning : Working(p) =>
    /\ \A q \in Provisioning : Working(q) => q = p
    /\ inventory # None /\ ~inventory.ready
    /\ \A w \in Names : \/ registry[w] # None /\ registry[w].contract = built[p][w]
                        \/ w \in Elems(left[p])

Named == inventory # None /\ inventory.ready => inventory.names = Names

Inv ==
  /\ TypeOK /\ Jobs /\ Reads /\ ReplacesAlone /\ Progress /\ Named
  /\ ListensAsRegistered /\ ReadyNamesAreRegistered
  /\ ~overlapped => InTurn /\ ReadyDescribesADeployment

LEMMA TailElems ==
  ASSUME NEW S, NEW s \in Seq(S), s # <<>>
  PROVE  /\ Head(s) \in S /\ Tail(s) \in Seq(S)
         /\ Elems(s) \subseteq {Head(s)} \cup Elems(Tail(s))
<1>1. Head(s) \in S /\ Tail(s) \in Seq(S)
  OBVIOUS
<1>2. ASSUME NEW i \in DOMAIN s, i # 1 PROVE i - 1 \in DOMAIN Tail(s) /\ Tail(s)[i - 1] = s[i]
  BY <1>2
<1>3. ASSUME NEW i \in DOMAIN s PROVE s[i] = Head(s) \/ s[i] \in Elems(Tail(s))
  <2>1. CASE i = 1
    BY <2>1
  <2>2. CASE i # 1
    <3>1. i - 1 \in DOMAIN Tail(s) /\ Tail(s)[i - 1] = s[i]
      BY <1>2, <2>2
    <3> QED BY <3>1, Zenon DEF Elems
  <2> QED BY <2>1, <2>2
<1> QED BY <1>1, <1>3 DEF Elems

LEMMA NoElems == Elems(<<>>) = {}
BY DEF Elems

LEMMA NamesAreWorkers ==
  ASSUME RegistryAssumption
  PROVE  Names \subseteq Worker /\ Services[1] = Head(Services) /\ Head(Services) \in Worker
BY DEF RegistryAssumption, Names, Elems

-----------------------------------------------------------------------------
(* What a registration comes to                                            *)

\* Only a may change where it stands and what it is to do.
Others(a) ==
  /\ \A b \in Actor \ {a} : pc'[b] = pc[b] /\ job'[b] = job[b]
  /\ \A p \in Provisioning \ {a} : left'[p] = left[p]

\* a is through with the worker w: a replica goes on, a run to its next service.
Through(a) ==
  \/ a \in Replica /\ pc'[a] = "setup" /\ job'[a] = job[a] /\ left' = left
  \/ /\ a \in Provisioning /\ left'[a] = Tail(left[a]) /\ job'[a] \in Assignment
     /\ job'[a].replace = job[a].replace
     /\ \/ left'[a] = <<>> /\ pc'[a] = "set"
        \/ /\ left'[a] # <<>> /\ pc'[a] = "create"
           /\ job'[a].worker = Head(left'[a]) /\ job'[a].contract = built[a][Head(left'[a])]

LEMMA RegisteredIsThrough ==
  ASSUME TypeOK, Jobs, NEW a \in Actor, pc[a] \in Registering, Registered(a)
  PROVE  Through(a) /\ Others(a)
<1>0. job[a] \in Assignment
  BY DEF Jobs
<1>1. CASE a \in Replica
  BY <1>1 DEF Registered, Through, Others, TypeOK, Actor
<1>2. CASE a \notin Replica
  <2>0. a \in Provisioning /\ left[a] \in Seq(Worker) /\ left[a] # <<>>
    BY <1>2 DEF Actor, TypeOK, Jobs
  <2>1. Tail(left[a]) \in Seq(Worker) /\ left' = [left EXCEPT ![a] = Tail(left[a])]
    BY <1>2, <2>0, TailElems DEF Registered
  <2>2. CASE Tail(left[a]) = <<>>
    BY <1>0, <1>2, <2>0, <2>1, <2>2 DEF Registered, Through, Others, TypeOK
  <2>3. CASE Tail(left[a]) # <<>>
    <3> DEFINE rest == Tail(left[a])
               mid  == [job[a] EXCEPT !.worker = Head(rest)]
               next == [mid EXCEPT !.contract = built[a][Head(rest)]]
    <3>1. Head(rest) \in Worker /\ built[a][Head(rest)] \in Contract
      BY <2>0, <2>1, <2>3, TailElems DEF TypeOK
    <3>2. job' = [job EXCEPT ![a] = next] /\ pc' = [pc EXCEPT ![a] = "create"]
      BY <1>0, <1>2, <2>3 DEF Registered, TypeOK, Assignment
    <3>3. /\ next \in Assignment /\ next.worker = Head(rest)
          /\ next.contract = built[a][Head(rest)] /\ next.replace = job[a].replace
      BY <1>0, <3>1 DEF Assignment
    <3> HIDE DEF rest, next
    <3> QED BY <1>2, <2>0, <2>1, <2>3, <3>2, <3>3 DEF Through, Others, TypeOK, rest
  <2> QED BY <2>2, <2>3
<1> QED BY <1>1, <1>2

Stops(a) == job'[a] = job[a] /\ left' = left /\ pc'[a] = IF a \in Replica THEN "down" ELSE "failed"

LEMMA RefusedStops ==
  ASSUME TypeOK, NEW a \in Actor, Refused(a)
  PROVE  Stops(a) /\ Others(a)
BY DEF TypeOK, Refused, Stops, Others

Registers(a) == Create(a) \/ Get(a) \/ Update(a)

\* The entry e is written for the worker of a: its first, or the next revision of the
\* one that a, replacing, has read.
Writes(a, e) ==
  /\ e \in Entry /\ e.contract = job[a].contract
  /\ registry' = [registry EXCEPT ![job[a].worker] = e]
  /\ \/ registry[job[a].worker] = None
     \/ /\ pc[a] = "update" /\ job[a].replace /\ registry[job[a].worker] = found[a]
        /\ e.revision = found[a].revision + 1

\* What a's Get returned is what is there; nobody else's read changes.
Recalls(a) ==
  /\ found'[a] \in {found[a], registry[job[a].worker]}
  /\ \A b \in Actor \ {a} : found'[b] = found[b]

LEMMA RegisterOutcome ==
  ASSUME RegistryAssumption, Inv, NEW a \in Actor, Registers(a)
  PROVE  /\ pc[a] \in Registering /\ job[a] \in Assignment
         /\ UNCHANGED <<inventory, durable, built>> /\ Others(a) /\ Recalls(a)
         /\ \/ /\ Through(a)
               /\ registry' = registry \/ (\E e : Writes(a, e))
               /\ registry'[job[a].worker] # None
               /\ registry'[job[a].worker].contract = job[a].contract
            \/ Stops(a) /\ registry' = registry
            \/ /\ pc'[a] = "get" /\ job'[a] = job[a] /\ left' = left
               /\ registry' = registry /\ registry[job[a].worker] # None
            \/ /\ pc'[a] = "update" /\ job'[a] = job[a] /\ left' = left
               /\ job[a].replace /\ registry' = registry
               /\ registry[job[a].worker] # None /\ found'[a] = registry[job[a].worker]
<1> DEFINE w == job[a].worker
<1>0. pc[a] \in Registering /\ job[a] \in Assignment /\ w \in Worker /\ job[a].contract \in Contract
  BY DEF Registers, Create, Get, Update, Registering, Inv, Jobs, Assignment
<1>t. registry \in [Worker -> Entry \cup {None}] /\ None \notin Entry
  BY DEF Inv, TypeOK, RegistryAssumption
<1>r. ASSUME Registered(a) PROVE Through(a) /\ Others(a)
  BY <1>0, <1>r, RegisteredIsThrough DEF Inv
<1>s. ASSUME Refused(a) PROVE Stops(a) /\ Others(a)
  BY <1>s, RefusedStops DEF Inv
<1>1. CASE Create(a)
  <2>0. UNCHANGED <<inventory, durable, built>> /\ Recalls(a)
    BY <1>1 DEF Create, Recalls
  <2>1. CASE registry[w] = None
    <3> DEFINE e == [contract |-> job[a].contract, revision |-> 1]
    <3>1. Registered(a) /\ registry' = [registry EXCEPT ![w] = e]
      BY <1>1, <2>1 DEF Create
    <3>2. e \in Entry /\ e.contract = job[a].contract
      BY <1>0 DEF Entry
    <3> HIDE DEF e
    <3>3. Writes(a, e)
      BY <2>1, <3>1, <3>2 DEF Writes
    <3>4. registry'[w] = e
      BY <1>0, <1>t, <3>1
    <3> QED BY <1>0, <1>r, <1>t, <2>0, <3>1, <3>2, <3>3, <3>4
  <2>2. CASE registry[w] # None
    BY <1>0, <1>1, <2>0, <2>2 DEF Create, Others, Inv, TypeOK
  <2> QED BY <2>1, <2>2
<1>2. CASE Get(a)
  <2>0. registry[w] # None /\ registry' = registry /\ UNCHANGED <<inventory, durable, built>>
        /\ found'[a] = registry[w] /\ Recalls(a)
    BY <1>2 DEF Get, Inv, TypeOK, Reads, Recalls
  <2>1. CASE Registered(a) /\ Accepts(a, registry[w])
    BY <1>0, <1>r, <2>0, <2>1 DEF Accepts
  <2>2. CASE Refused(a)
    BY <1>0, <1>s, <2>0, <2>2
  <2>3. CASE pc' = [pc EXCEPT ![a] = "update"] /\ UNCHANGED <<job, left>> /\ job[a].replace
    BY <1>0, <2>0, <2>3 DEF Others, Inv, TypeOK
  <2> QED BY <1>2, <2>1, <2>2, <2>3 DEF Get
<1>3. CASE Update(a)
  <2>0. /\ pc[a] = "update" /\ UNCHANGED <<inventory, durable, built>> /\ Recalls(a)
        /\ registry[w] # None /\ job[a].replace /\ found[a] \in Entry
    BY <1>3 DEF Update, Recalls, Inv, Reads
  <2>1. CASE Current(a)
    <3> DEFINE e == [contract |-> job[a].contract, revision |-> registry[w].revision + 1]
    <3>1. registry[w] = found[a] /\ registry[w] \in Entry
      BY <1>0, <1>t, <2>0, <2>1 DEF Current, Inv, Reads
    <3>2. Registered(a) /\ registry' = [registry EXCEPT ![w] = e]
      BY <1>3, <2>1 DEF Update
    <3>3. e \in Entry /\ e.contract = job[a].contract /\ e.revision = found[a].revision + 1
      BY <1>0, <3>1 DEF Entry
    <3> HIDE DEF e
    <3>4. Writes(a, e)
      BY <2>0, <3>1, <3>2, <3>3 DEF Writes
    <3>5. registry'[w] = e
      BY <1>0, <1>t, <3>2
    <3> QED BY <1>0, <1>r, <1>t, <2>0, <3>2, <3>3, <3>4, <3>5
  <2>2. CASE ~Current(a)
    BY <1>0, <1>3, <1>s, <2>0, <2>2 DEF Update
  <2> QED BY <2>1, <2>2
<1> QED BY <1>1, <1>2, <1>3 DEF Registers

-----------------------------------------------------------------------------
(* Types                                                                   *)

Places == Registering \cup
            {"idle", "done", "failed", "down", "set", "setup", "bind", "compare", "listening"}

LEMMA RegisteredTyped ==
  ASSUME TypeOK, Jobs, NEW a \in Actor, pc[a] \in Registering, Registered(a)
  PROVE  /\ pc' \in [Actor -> Places] /\ job' \in [Actor -> Assignment \cup {None}]
         /\ left' \in [Provisioning -> Seq(Worker)]
<1>1. CASE a \in Replica
  BY <1>1 DEF Registered, TypeOK, Places
<1>2. CASE a \notin Replica
  <2>0. a \in Provisioning /\ left[a] \in Seq(Worker) /\ left[a] # <<>>
    BY <1>2 DEF Actor, TypeOK, Jobs
  <2>1. Tail(left[a]) \in Seq(Worker) /\ left' = [left EXCEPT ![a] = Tail(left[a])]
    BY <1>2, <2>0, TailElems DEF Registered
  <2>2. left' \in [Provisioning -> Seq(Worker)]
    BY <2>1 DEF TypeOK
  <2>3. pc' \in [Actor -> Places]
    BY <1>2 DEF Registered, TypeOK, Places, Registering
  <2>4. job' \in [Actor -> Assignment \cup {None}]
    <3>1. Through(a) /\ Others(a)
      BY RegisteredIsThrough
    <3>2. job' = [job EXCEPT ![a] = job'[a]]
      <4>1. CASE job' = job
        BY <4>1 DEF TypeOK
      <4>2. CASE job' # job
        BY <1>2, <4>2 DEF Registered, TypeOK
      <4> QED BY <4>1, <4>2
    <3>3. job'[a] \in Assignment
      BY <1>2, <3>1 DEF Through
    <3> QED BY <3>2, <3>3 DEF TypeOK
  <2> QED BY <2>2, <2>3, <2>4
<1> QED BY <1>1, <1>2

LEMMA RegistersTyped ==
  ASSUME RegistryAssumption, Inv, overlapped' \in BOOLEAN, NEW a \in Actor, Registers(a)
  PROVE  TypeOK'
<1>0. /\ pc[a] \in Registering /\ job[a] \in Assignment /\ UNCHANGED <<inventory, durable, built>>
      /\ registry' = registry \/ (\E e : Writes(a, e))
  BY RegisterOutcome
<1>1. registry' \in [Worker -> Entry \cup {None}]
  BY <1>0 DEF Writes, Inv, TypeOK
<1>2. found' \in [Actor -> Entry \cup {None}]
  <2>1. registry[job[a].worker] \in Entry \cup {None}
    BY <1>0 DEF Inv, TypeOK, Assignment
  <2> QED BY <2>1 DEF Registers, Create, Get, Update, Inv, TypeOK
<1>3. /\ pc' \in [Actor -> Places] /\ job' \in [Actor -> Assignment \cup {None}]
      /\ left' \in [Provisioning -> Seq(Worker)]
  <2>1. CASE Registered(a)
    BY <1>0, <2>1, RegisteredTyped DEF Inv
  <2>2. CASE Refused(a)
    BY <2>2 DEF Refused, Inv, TypeOK, Places
  <2>3. CASE pc' \in {[pc EXCEPT ![a] = "get"], [pc EXCEPT ![a] = "update"]} /\ UNCHANGED <<job, left>>
    BY <2>3 DEF Inv, TypeOK, Places, Registering
  <2> QED BY <2>1, <2>2, <2>3 DEF Registers, Create, Get, Update
<1> QED BY <1>0, <1>1, <1>2, <1>3 DEF Inv, TypeOK, Places

\* The steps of an actor that registers nothing, and of the operator.
Proceeds ==
  \/ \E p \in Provisioning : (\E replace \in BOOLEAN : Begin(p, replace)) \/ Declare(p) \/ Abort(p)
  \/ \E r \in Replica :
       \/ \E w \in Worker, c \in Contract, l \in Limits : Start(r, w, c, l)
       \/ Prepare(r) \/ Bind(r) \/ Compare(r) \/ Stop(r)
  \/ \E w \in Worker : Migrate(w)

LEMMA FirstJob ==
  ASSUME RegistryAssumption, TypeOK, NEW p \in Provisioning, NEW replace \in BOOLEAN
  PROVE  Job(Services[1], built[p][Services[1]], None, replace) \in Assignment
BY NamesAreWorkers DEF TypeOK, Job, Assignment

LEMMA ProceedsTyped ==
  ASSUME RegistryAssumption, Inv, overlapped' \in BOOLEAN, ~overlapped' => ~overlapped,
         Proceeds
  PROVE  TypeOK'
<1> USE DEF Inv, TypeOK, Actor, PutInventory
<1>1. ASSUME NEW p \in Provisioning, NEW replace \in BOOLEAN, Begin(p, replace) PROVE TypeOK'
  <2>1. inventory' \in Inventory
    BY <1>1 DEF Begin, Inventory
  <2>2. left' \in [Provisioning -> Seq(Worker)]
    BY <1>1 DEF Begin, RegistryAssumption
  <2>3. job' \in [Actor -> Assignment \cup {None}]
    BY <1>1, FirstJob DEF Begin
  <2>4. pc' \in [Actor -> Places]
    BY <1>1 DEF Begin, Registering, Places
  <2> QED BY <1>1, <2>1, <2>2, <2>3, <2>4 DEF Begin, Places
<1>2. ASSUME NEW p \in Provisioning, Declare(p) PROVE TypeOK'
  <2>1. inventory' \in Inventory
    BY <1>2, NamesAreWorkers DEF Declare, Inventory, Names, Elems
  <2> QED BY <1>2, <2>1 DEF Declare
<1>3. ASSUME NEW p \in Provisioning, Abort(p) PROVE TypeOK'
  BY <1>3 DEF Abort
<1>4. ASSUME NEW r \in Replica, NEW w \in Worker, NEW c \in Contract, NEW l \in Limits,
             Start(r, w, c, l)
      PROVE  TypeOK'
  BY <1>4 DEF Start, Job, Assignment, Registering
<1>5. ASSUME NEW r \in Replica, Prepare(r) PROVE TypeOK'
  BY <1>5 DEF Prepare
<1>6. ASSUME NEW r \in Replica, Bind(r) PROVE TypeOK'
  <2>1. job[r] \in Assignment /\ job[r] # None /\ job[r].limits \in Limits
    BY <1>6 DEF Bind, Jobs, Running, RegistryAssumption
  <2>2. Wanted(r) \in Settings
    BY <2>1 DEF Wanted, Settings, Assignment
  <2> QED BY <1>6, <2>1, <2>2 DEF Bind, Assignment
<1>7. ASSUME NEW r \in Replica, Compare(r) PROVE TypeOK'
  BY <1>7 DEF Compare
<1>8. ASSUME NEW r \in Replica, Stop(r) PROVE TypeOK'
  BY <1>8 DEF Stop
<1>9. ASSUME NEW w \in Worker, Migrate(w) PROVE TypeOK'
  BY <1>9 DEF Migrate
<1> QED BY <1>1, <1>2, <1>3, <1>4, <1>5, <1>6, <1>7, <1>8, <1>9 DEF Proceeds

-----------------------------------------------------------------------------
(* Registering keeps the invariant                                         *)

LEMMA RegistersKeep ==
  ASSUME RegistryAssumption, Inv, overlapped' \in BOOLEAN, ~overlapped' => ~overlapped,
         NEW a \in Actor, Registers(a)
  PROVE  Inv'
<1> DEFINE w == job[a].worker
<1>0. /\ pc[a] \in Registering /\ job[a] \in Assignment /\ w \in Worker
      /\ UNCHANGED <<inventory, durable, built>> /\ Others(a) /\ Recalls(a)
  BY RegisterOutcome DEF Assignment
<1>1. \/ /\ Through(a)
         /\ registry' = registry \/ (\E e : Writes(a, e))
         /\ registry'[w] # None /\ registry'[w].contract = job[a].contract
      \/ Stops(a) /\ registry' = registry
      \/ /\ pc'[a] = "get" /\ job'[a] = job[a] /\ left' = left
         /\ registry' = registry /\ registry[w] # None
      \/ /\ pc'[a] = "update" /\ job'[a] = job[a] /\ left' = left
         /\ job[a].replace /\ registry' = registry
         /\ registry[w] # None /\ found'[a] = registry[w]
  BY RegisterOutcome
<1>t. TypeOK'
  BY RegistersTyped
<1>d. /\ \A p \in Provisioning : p \in Actor /\ p \notin Replica
      /\ \A r \in Replica : r \in Actor /\ r \notin Provisioning
      /\ None \notin Entry
      /\ registry \in [Worker -> Entry \cup {None}] /\ registry' \in [Worker -> Entry \cup {None}]
  BY <1>t DEF RegistryAssumption, Actor, Inv, TypeOK
\* The entry of w may only become another one of the job's contract.
<1>g. /\ \A x \in Worker \ {w} : registry'[x] = registry[x]
      /\ registry[w] # None => registry'[w] # None
      /\ registry'[w] # registry[w] =>
           /\ registry'[w] \in Entry /\ registry'[w].contract = job[a].contract
           /\ \/ registry[w] = None
              \/ /\ pc[a] = "update" /\ job[a].replace /\ registry[w] = found[a]
                 /\ registry'[w].revision = registry[w].revision + 1
  BY <1>0, <1>1, <1>d DEF Writes
<1>m. \A x \in Worker : registry[x] # None => registry'[x] # None
  BY <1>g
<1>2. Jobs'
  <2>1. job'[a] \in Assignment /\ job'[a].replace = job[a].replace
    BY <1>0, <1>1, <1>d DEF Through, Stops
  <2>2. ASSUME a \in Replica PROVE /\ pc'[a] \in Registering \cup Running \cup {"down"}
                                   /\ ~job'[a].replace /\ job'[a].limits \in Limits
    <3>1. job[a] # None
      BY <1>0 DEF RegistryAssumption
    <3> QED BY <1>0, <1>1, <1>d, <2>2, <3>1 DEF Through, Stops, Registering, Running, Inv, Jobs
  <2>3. ASSUME a \in Provisioning
        PROVE  /\ pc'[a] \in Registering \cup {"idle", "set", "done", "failed"}
               /\ pc'[a] \in Registering =>
                    /\ left'[a] # <<>> /\ job'[a].worker = Head(left'[a])
                    /\ job'[a].contract = built[a][Head(left'[a])]
               /\ pc'[a] = "set" => left'[a] = <<>>
    BY <1>0, <1>1, <1>d, <2>3 DEF Through, Stops, Registering, Inv, Jobs
  <2>4. ASSUME NEW b \in Actor, b # a
        PROVE  /\ pc'[b] = pc[b] /\ job'[b] = job[b]
               /\ b \in Provisioning => left'[b] = left[b]
    BY <1>0, <2>4 DEF Others
  <2> QED BY <1>0, <1>d, <2>1, <2>2, <2>3, <2>4 DEF Inv, Jobs
<1>c. ASSUME NEW x \in Worker, registry'[x] # registry[x], registry[x] # None
      PROVE  /\ x = w /\ registry'[x].revision = registry[x].revision + 1
             /\ a \in Provisioning /\ job[a].replace /\ \A r \in Replica : pc[r] = "down"
  <2>1. x = w /\ registry'[x].revision = registry[x].revision + 1 /\ job[a].replace
    BY <1>c, <1>g
  <2>2. a \in Provisioning
    BY <1>0, <1>d, <2>1 DEF Inv, Jobs, RegistryAssumption, Actor
  <2> QED BY <1>0, <2>1, <2>2 DEF Inv, ReplacesAlone, Working
<1>3. Reads'
  <2>1. ASSUME NEW b \in Actor, b # a, pc'[b] \in {"get", "update"}
        PROVE  /\ registry'[job'[b].worker] # None
               /\ pc'[b] = "update" =>
                    /\ job'[b].replace /\ found'[b] \in Entry
                    /\ found'[b].revision <= registry'[job'[b].worker].revision
                    /\ found'[b].revision = registry'[job'[b].worker].revision =>
                         found'[b] = registry'[job'[b].worker]
    <3> DEFINE x == job[b].worker
    <3>1. pc'[b] = pc[b] /\ job'[b] = job[b] /\ found'[b] = found[b]
      BY <1>0, <2>1 DEF Others, Recalls
    <3>2. x \in Worker /\ registry[x] # None
      BY <2>1, <3>1 DEF Inv, Jobs, Reads, Registering, Assignment
    <3>3. CASE registry'[x] = registry[x]
      BY <2>1, <3>1, <3>2, <3>3 DEF Inv, Reads
    <3>4. CASE registry'[x] # registry[x]
      <4>1. registry'[x].revision = registry[x].revision + 1
        BY <1>c, <3>2, <3>4
      <4>2. registry[x].revision \in Nat
        BY <1>d, <3>2 DEF Entry
      <4>3. pc[b] = "update" => /\ job[b].replace /\ found[b] \in Entry
                                /\ found[b].revision <= registry[x].revision
        BY DEF Inv, Reads
      <4>4. pc[b] = "update" => found[b].revision \in Nat
        BY <4>3 DEF Entry
      <4> QED BY <1>m, <3>1, <3>2, <4>1, <4>2, <4>3, <4>4
    <3> QED BY <3>3, <3>4
  <2>2. ASSUME pc'[a] \in {"get", "update"}
        PROVE  /\ registry'[job'[a].worker] # None
               /\ pc'[a] = "update" =>
                    /\ job'[a].replace /\ found'[a] \in Entry
                    /\ found'[a].revision <= registry'[job'[a].worker].revision
                    /\ found'[a] = registry'[job'[a].worker]
    <3>1. job'[a] = job[a] /\ registry' = registry /\ registry[w] # None
      BY <1>1, <2>2 DEF Through, Stops
    <3>2. registry[w] \in Entry /\ registry[w].revision <= registry[w].revision
      BY <1>0, <1>d, <3>1 DEF Entry
    <3>3. pc'[a] = "update" => job[a].replace /\ found'[a] = registry[w]
      BY <1>1 DEF Through, Stops
    <3> QED BY <3>1, <3>2, <3>3
  <2> QED BY <2>1, <2>2 DEF Reads
<1>w. \A p \in Provisioning : Working(p)' => Working(p) /\ job'[p].replace = job[p].replace
  BY <1>0, <1>1, <1>d DEF Working, Others, Through, Stops
<1>4. ReplacesAlone'
  <2>1. ASSUME NEW p \in Provisioning, Working(p)', job'[p].replace, NEW r \in Replica
        PROVE  pc'[r] = "down"
    <3>1. pc[r] = "down"
      BY <1>w, <2>1 DEF Inv, ReplacesAlone
    <3> QED BY <1>0, <1>d, <3>1 DEF Others, Registering
  <2> QED BY <2>1 DEF ReplacesAlone
\* What is left of a run: its next service leaves the list when it is registered.
<1>l. ASSUME NEW p \in Provisioning, Working(p)', NEW x \in Elems(left[p])
      PROVE  \/ x \in Elems(left'[p])
             \/ p = a /\ x = w /\ registry'[x] # None /\ registry'[x].contract = built[p][x]
  <2>1. CASE p # a
    BY <1>0, <1>l, <2>1 DEF Others
  <2>2. CASE p = a
    <3>1. /\ left[a] \in Seq(Worker) /\ left[a] # <<>> /\ w = Head(left[a])
          /\ job[a].contract = built[a][w]
      BY <1>0, <2>2 DEF Inv, TypeOK, Jobs
    <3>2. CASE left' = left
      BY <1>l, <3>2
    <3>3. CASE /\ Through(a) /\ left'[a] = Tail(left[a])
               /\ registry'[w] # None /\ registry'[w].contract = job[a].contract
      BY <1>l, <2>2, <3>1, <3>3, TailElems
    <3>4. left' = left \/ (Through(a) /\ left'[a] = Tail(left[a])
               /\ registry'[w] # None /\ registry'[w].contract = job[a].contract)
      BY <1>1 DEF Through, Stops
    <3> QED BY <3>2, <3>3, <3>4
  <2> QED BY <2>1, <2>2
<1>n. Names \subseteq Worker
  BY NamesAreWorkers
<1>5. Progress'
  <2>1. ASSUME NEW p \in Provisioning, Working(p)', NEW x \in Names
        PROVE  registry'[x] # None \/ x \in Elems(left'[p])
    <3>1. registry[x] # None \/ x \in Elems(left[p])
      BY <1>w, <2>1 DEF Inv, Progress
    <3> QED BY <1>l, <1>m, <1>n, <2>1, <3>1
  <2> QED BY <2>1 DEF Progress
<1>6. Named'
  BY <1>0 DEF Inv, Named
<1>7. ReadyNamesAreRegistered'
  BY <1>0, <1>m, <1>n DEF Inv, Named, ReadyNamesAreRegistered
<1>8. ListensAsRegistered'
  <2>1. ASSUME NEW r \in Replica, r # a, pc'[r] \in Running
        PROVE  /\ pc'[r] = pc[r] /\ job'[r] = job[r] /\ job[r].worker \in Worker
               /\ registry[job[r].worker] # None
               /\ registry'[job[r].worker] = registry[job[r].worker]
    <3>1. pc'[r] = pc[r] /\ job'[r] = job[r]
      BY <1>0, <1>d, <2>1 DEF Others
    <3>2. job[r].worker \in Worker
      BY <1>d, <2>1, <3>1 DEF Inv, Jobs, Assignment
    <3>3. registry[job[r].worker] # None
      BY <2>1, <3>1 DEF Running, Inv, ListensAsRegistered, RunningContractIsRegistered
    <3> QED BY <1>c, <2>1, <3>1, <3>2, <3>3 DEF Running
  <2>2. ASSUME a \in Replica, pc'[a] \in Running
        PROVE  /\ pc'[a] = "setup" /\ job'[a] = job[a]
               /\ registry'[w] # None /\ registry'[w].contract = job[a].contract
    BY <1>1, <1>d, <2>2 DEF Through, Stops, Running
  <2>3. RunningContractIsRegistered'
    BY <2>1, <2>2 DEF Inv, ListensAsRegistered, RunningContractIsRegistered, Running
  <2>4. DurableFeedsTheContract'
    BY <1>0, <2>1, <2>2 DEF Inv, ListensAsRegistered, DurableFeedsTheContract, Running
  <2> QED BY <2>3, <2>4 DEF ListensAsRegistered
<1>9. ASSUME ~overlapped' PROVE InTurn' /\ ReadyDescribesADeployment'
  <2>1. ASSUME NEW p \in Provisioning, Working(p)', NEW x \in Names
        PROVE  \/ registry'[x] # None /\ registry'[x].contract = built[p][x]
               \/ x \in Elems(left'[p])
    <3>1. Working(p)
      BY <1>w, <2>1
    <3>2. CASE x \in Elems(left[p])
      BY <1>l, <2>1, <3>2
    <3>3. CASE registry[x] # None /\ registry[x].contract = built[p][x]
      <4>1. CASE registry'[x] = registry[x]
        BY <3>3, <4>1
      <4>2. CASE registry'[x] # registry[x]
        <5>1. x = w /\ a \in Provisioning /\ Working(a)
          BY <1>0, <1>c, <1>n, <3>3, <4>2 DEF Working
        <5>2. p = a
          BY <1>9, <3>1, <5>1 DEF Inv, InTurn
        <5>3. job[a].contract = built[a][w]
          BY <1>0, <5>1 DEF Inv, Jobs
        <5> QED BY <1>g, <1>d, <4>2, <5>1, <5>2, <5>3
      <4> QED BY <4>1, <4>2
    <3> QED BY <1>9, <3>1, <3>2, <3>3 DEF Inv, InTurn
  <2>2. InTurn'
    BY <1>0, <1>9, <1>w, <2>1 DEF Inv, InTurn
  <2>3. ReadyDescribesADeployment'
    <3> SUFFICES ASSUME inventory # None, inventory.ready PROVE ReadyDescribesADeployment'
      BY <1>0 DEF ReadyDescribesADeployment
    <3>1. a \notin Provisioning
      BY <1>0, <1>9 DEF Inv, InTurn, Working
    <3>2. \A x \in inventory.names : registry'[x] = registry[x]
      BY <1>c, <1>n, <3>1 DEF Inv, Named, ReadyNamesAreRegistered
    <3>3. \A p \in Provisioning : pc'[p] = pc[p]
      BY <1>0, <1>d, <3>1 DEF Others
    <3> QED BY <1>0, <1>9, <3>2, <3>3 DEF Inv, ReadyDescribesADeployment
  <2> QED BY <2>2, <2>3
<1> QED BY <1>t, <1>2, <1>3, <1>4, <1>5, <1>6, <1>7, <1>8, <1>9 DEF Inv

-----------------------------------------------------------------------------
(* Everything else keeps the invariant                                     *)

LEMMA BeginKeeps ==
  ASSUME RegistryAssumption, Inv, overlapped' \in BOOLEAN, ~overlapped' => ~overlapped,
         NEW p \in Provisioning, NEW replace \in BOOLEAN,
         Begin(p, replace)
  PROVE  Inv'
<1>0. /\ pc[p] = "idle" /\ UNCHANGED <<registry, durable, found, built>>
      /\ inventory' = [ready |-> FALSE, names |-> {}]
      /\ replace => \A r \in Replica : pc[r] = "down"
      /\ ~overlapped' => ~overlapped /\ \A q \in Provisioning : ~Working(q)
  BY DEF Begin, PutInventory, Up, Idle, Working, Registering
<1>1. /\ pc'[p] = "create" /\ left'[p] = Services /\ job'[p] \in Assignment
      /\ job'[p].worker = Head(Services) /\ job'[p].contract = built[p][Head(Services)]
      /\ job'[p].replace = replace
  <2>1. job'[p] = Job(Services[1], built[p][Services[1]], None, replace)
    BY DEF Begin, Inv, TypeOK, Actor
  <2>2. job'[p] \in Assignment
    BY <2>1, FirstJob DEF Inv
  <2> QED BY <2>1, <2>2, NamesAreWorkers DEF Begin, Inv, TypeOK, Actor, Job
<1>2. /\ \A b \in Actor \ {p} : pc'[b] = pc[b] /\ job'[b] = job[b]
      /\ \A q \in Provisioning \ {p} : left'[q] = left[q]
  BY DEF Begin, Inv, TypeOK
<1>d. /\ \A q \in Provisioning : q \in Actor /\ q \notin Replica
      /\ \A r \in Replica : r \in Actor /\ r # p
      /\ Services # <<>> /\ inventory' # None
  <2>1. inventory' \in Inventory
    BY <1>0 DEF Inventory
  <2> QED BY <2>1 DEF RegistryAssumption, Actor
<1>t. TypeOK'
  BY ProceedsTyped DEF Proceeds
<1>3. Jobs'
  BY <1>0, <1>1, <1>2, <1>d DEF Inv, Jobs, Registering
<1>4. Reads'
  BY <1>0, <1>1, <1>2 DEF Inv, Reads
<1>5. ReplacesAlone'
  BY <1>0, <1>1, <1>2, <1>d DEF Inv, ReplacesAlone, Working
<1>6. Progress'
  BY <1>0, <1>1, <1>2, <1>d DEF Inv, Progress, Working, Names
<1>7. Named' /\ ReadyNamesAreRegistered'
  BY <1>0 DEF Named, ReadyNamesAreRegistered
<1>8. ListensAsRegistered'
  BY <1>0, <1>2, <1>d
  DEF Inv, ListensAsRegistered, RunningContractIsRegistered, DurableFeedsTheContract
<1>9. ASSUME ~overlapped' PROVE InTurn' /\ ReadyDescribesADeployment'
  <2>1. \A q \in Provisioning : Working(q)' => q = p
    BY <1>0, <1>2, <1>9, <1>d DEF Working
  <2> QED BY <1>0, <1>1, <1>9, <1>d, <2>1 DEF InTurn, ReadyDescribesADeployment, Names
<1> QED BY <1>t, <1>3, <1>4, <1>5, <1>6, <1>7, <1>8, <1>9 DEF Inv

LEMMA DeclareKeeps ==
  ASSUME RegistryAssumption, Inv, overlapped' \in BOOLEAN, ~overlapped' => ~overlapped,
         NEW p \in Provisioning, Declare(p)
  PROVE  Inv'
<1>0. /\ pc[p] = "set" /\ pc'[p] = "done" /\ left[p] = <<>>
      /\ UNCHANGED <<registry, durable, job, found, left, built>>
      /\ inventory' = [ready |-> TRUE, names |-> Names]
      /\ \A b \in Actor \ {p} : pc'[b] = pc[b]
  BY DEF Declare, PutInventory, Inv, TypeOK, Jobs, Names, Elems, Actor
<1>d. /\ \A q \in Provisioning : q \in Actor /\ q \notin Replica
      /\ \A r \in Replica : r \in Actor /\ r # p
      /\ inventory' # None
  <2>1. inventory' \in Inventory
    BY <1>0, NamesAreWorkers DEF Inventory
  <2> QED BY <2>1 DEF RegistryAssumption, Actor
<1>t. TypeOK'
  BY ProceedsTyped DEF Proceeds
<1>w. \A q \in Provisioning : Working(q)' => Working(q) /\ q # p
  BY <1>0, <1>d DEF Working, Registering
<1>3. Jobs'
  BY <1>0, <1>d DEF Inv, Jobs, Registering
<1>4. Reads' /\ ReplacesAlone' /\ Progress'
  BY <1>0, <1>d, <1>w DEF Inv, Reads, ReplacesAlone, Progress
<1>5. Named'
  BY <1>0 DEF Named
<1>6. ReadyNamesAreRegistered'
  BY <1>0, NoElems DEF Inv, Progress, Working, ReadyNamesAreRegistered
<1>7. ListensAsRegistered'
  BY <1>0, <1>d
  DEF Inv, ListensAsRegistered, RunningContractIsRegistered, DurableFeedsTheContract
<1>8. ASSUME ~overlapped' PROVE InTurn' /\ ReadyDescribesADeployment'
  <2>0. Working(p)
    BY <1>0 DEF Working
  <2>1. \A q \in Provisioning : ~Working(q)'
    BY <1>8, <1>w, <2>0 DEF Inv, InTurn
  <2>2. \A x \in Names : registry[x] # None /\ registry[x].contract = built[p][x]
    BY <1>0, <1>8, <2>0, NoElems DEF Inv, InTurn
  <2> QED BY <1>0, <2>1, <2>2 DEF InTurn, ReadyDescribesADeployment
<1> QED BY <1>t, <1>3, <1>4, <1>5, <1>6, <1>7, <1>8 DEF Inv

\* A run that fails, and a replica that stops or prepares, changes nothing but its place.
LEMMA AbortKeeps ==
  ASSUME RegistryAssumption, Inv, overlapped' \in BOOLEAN, ~overlapped' => ~overlapped,
         NEW p \in Provisioning, Abort(p)
  PROVE  Inv'
<1>0. /\ Working(p) /\ pc'[p] = "failed"
      /\ UNCHANGED <<registry, inventory, durable, job, found, left, built>>
      /\ \A b \in Actor \ {p} : pc'[b] = pc[b]
  BY DEF Abort, Inv, TypeOK, Actor, Working
<1>d. /\ \A q \in Provisioning : q \in Actor /\ q \notin Replica
      /\ \A r \in Replica : r \in Actor /\ r # p
  BY DEF RegistryAssumption, Actor
<1>t. TypeOK'
  BY ProceedsTyped DEF Proceeds
<1>w. \A q \in Provisioning : Working(q)' => Working(q) /\ q # p
  BY <1>0, <1>d DEF Working, Registering
<1>3. Jobs'
  BY <1>0, <1>d DEF Inv, Jobs, Registering, Running
<1>4. Reads' /\ ReplacesAlone' /\ Progress'
  BY <1>0, <1>d, <1>w DEF Inv, Reads, ReplacesAlone, Progress
<1>5. Named' /\ ReadyNamesAreRegistered'
  BY <1>0 DEF Inv, Named, ReadyNamesAreRegistered
<1>6. ListensAsRegistered'
  BY <1>0, <1>d
  DEF Inv, ListensAsRegistered, RunningContractIsRegistered, DurableFeedsTheContract
<1>7. ASSUME ~overlapped' PROVE InTurn' /\ ReadyDescribesADeployment'
  <2>1. \A q \in Provisioning : ~Working(q)'
    BY <1>0, <1>7, <1>w DEF Inv, InTurn
  <2>2. inventory # None /\ ~inventory.ready
    BY <1>0, <1>7 DEF Inv, InTurn
  <2> QED BY <1>0, <2>1, <2>2 DEF InTurn, ReadyDescribesADeployment
<1> QED BY <1>t, <1>3, <1>4, <1>5, <1>6, <1>7 DEF Inv

\* What a replica or the operator does to anything but the registry and the runs.
LEMMA BesidesKeeps ==
  ASSUME RegistryAssumption, Inv, overlapped' \in BOOLEAN, ~overlapped' => ~overlapped,
         TypeOK',
         UNCHANGED <<registry, inventory, found, left, built>>,
         \A p \in Provisioning : pc'[p] = pc[p] /\ job'[p] = job[p],
         \A r \in Replica :
           /\ pc'[r] \in {pc[r], "create"} \cup Running \cup {"down"}
           /\ pc'[r] \in Registering \cup Running => job'[r] \in Assignment
           /\ job'[r] # None => ~job'[r].replace /\ job'[r].limits \in Limits
           /\ pc'[r] \in {"get", "update"} => pc'[r] = pc[r] /\ job'[r] = job[r]
           /\ pc'[r] # "down" => pc[r] # "down" \/
                                 \A p \in Provisioning : ~(Working(p) /\ job[p].replace),
         ListensAsRegistered'
  PROVE  Inv'
<1>d. /\ \A q \in Provisioning : q \in Actor /\ q \notin Replica
      /\ \A r \in Replica : r \in Actor /\ r \notin Provisioning
      /\ \A b \in Actor : b \in Replica \/ b \in Provisioning
  BY DEF RegistryAssumption, Actor
<1>w. \A p \in Provisioning : Working(p)' <=> Working(p)
  BY DEF Working
<1>1. Jobs'
  <2>1. \A r \in Replica : pc'[r] \in Registering \cup Running \cup {"down"}
    BY DEF Inv, Jobs, Registering
  <2> QED BY <1>d, <2>1 DEF Inv, Jobs, Registering, Running
<1>2. Reads'
  <2>1. \A r \in Replica : pc'[r] \in {"get", "update"} => pc'[r] = pc[r] /\ job'[r] = job[r]
    OBVIOUS
  <2> QED BY <1>d, <2>1 DEF Inv, Reads
<1>3. ReplacesAlone'
  BY <1>w DEF Inv, ReplacesAlone
<1>4. Progress' /\ Named' /\ ReadyNamesAreRegistered'
  BY <1>w DEF Inv, Progress, Named, ReadyNamesAreRegistered
<1>5. ASSUME ~overlapped' PROVE InTurn' /\ ReadyDescribesADeployment'
  BY <1>5, <1>w DEF Inv, InTurn, ReadyDescribesADeployment
<1> QED BY <1>1, <1>2, <1>3, <1>4, <1>5 DEF Inv

LEMMA ProceedsKeep ==
  ASSUME RegistryAssumption, Inv, overlapped' \in BOOLEAN, ~overlapped' => ~overlapped,
         Proceeds
  PROVE  Inv'
<1>t. TypeOK'
  BY ProceedsTyped
<1>d. /\ \A q \in Provisioning : q \in Actor /\ q \notin Replica
      /\ \A r \in Replica : r \in Actor /\ r \notin Provisioning
  BY DEF RegistryAssumption, Actor
<1>j. \A r \in Replica :
        /\ pc[r] \in Registering \cup Running \cup {"down"}
        /\ pc[r] \in Registering \cup Running => job[r] \in Assignment
        /\ job[r] # None => ~job[r].replace /\ job[r].limits \in Limits
  BY <1>d DEF Inv, Jobs
<1>1. ASSUME NEW p \in Provisioning, (\E replace \in BOOLEAN : Begin(p, replace)) \/ Declare(p) \/ Abort(p)
      PROVE  Inv'
  BY <1>1, BeginKeeps, DeclareKeeps, AbortKeeps
<1>2. ASSUME NEW r \in Replica, NEW w \in Worker, NEW c \in Contract, NEW l \in Limits,
             Start(r, w, c, l)
      PROVE  Inv'
  <2>1. /\ pc[r] = "down" /\ pc'[r] = "create" /\ job'[r] = Job(w, c, l, FALSE)
        /\ UNCHANGED <<registry, inventory, durable, found, left, built>>
        /\ \A b \in Actor \ {r} : pc'[b] = pc[b] /\ job'[b] = job[b]
        /\ \A p \in Provisioning : ~(Working(p) /\ job[p].replace)
    BY <1>2, <1>d DEF Start, Inv, TypeOK, Working, Idle, Registering
  <2>2. job'[r] \in Assignment /\ ~job'[r].replace /\ job'[r].limits = l
    BY <2>1 DEF Job, Assignment
  <2>3. ListensAsRegistered'
    BY <1>d, <2>1
    DEF Inv, ListensAsRegistered, RunningContractIsRegistered, DurableFeedsTheContract
  <2> QED BY <1>d, <1>j, <1>t, <2>1, <2>2, <2>3, BesidesKeeps
<1>3. ASSUME NEW r \in Replica, Prepare(r) PROVE Inv'
  <2>1. /\ pc[r] = "setup" /\ pc'[r] = "bind"
        /\ UNCHANGED <<registry, inventory, durable, job, found, left, built>>
        /\ \A b \in Actor \ {r} : pc'[b] = pc[b]
    BY <1>3, <1>d DEF Prepare, Inv, TypeOK
  <2>3. ListensAsRegistered'
    BY <1>d, <2>1
    DEF Inv, ListensAsRegistered, RunningContractIsRegistered, DurableFeedsTheContract
  <2> QED BY <1>d, <1>j, <1>t, <2>1, <2>3, BesidesKeeps DEF Running
<1>4. ASSUME NEW r \in Replica, Bind(r) PROVE Inv'
  <2>1. /\ pc[r] = "bind" /\ pc'[r] = "compare"
        /\ UNCHANGED <<registry, inventory, job, found, left, built>>
        /\ \A b \in Actor \ {r} : pc'[b] = pc[b]
        /\ \A x \in Worker : durable[x] # None => durable'[x] = durable[x]
    BY <1>4, <1>d DEF Bind, Inv, TypeOK
  <2>2. \A q \in Replica : pc'[q] = "listening" =>
          pc[q] = "listening" /\ job[q].worker \in Worker
    BY <1>d, <1>j, <2>1 DEF Running, Assignment
  <2>3. ListensAsRegistered'
    BY <1>d, <2>1, <2>2
    DEF Inv, ListensAsRegistered, RunningContractIsRegistered, DurableFeedsTheContract
  <2> QED BY <1>d, <1>j, <1>t, <2>1, <2>3, BesidesKeeps DEF Running
<1>5. ASSUME NEW r \in Replica, Compare(r) PROVE Inv'
  <2>1. /\ pc[r] = "compare"
        /\ pc'[r] = IF durable[job[r].worker] = Wanted(r) THEN "listening" ELSE "down"
        /\ UNCHANGED <<registry, inventory, durable, job, found, left, built>>
        /\ \A b \in Actor \ {r} : pc'[b] = pc[b]
    BY <1>5, <1>d DEF Compare, Suits, Inv, TypeOK
  <2>2. Wanted(r) # None
    <3>1. job[r] \in Assignment /\ job[r].limits \in Limits
      BY <1>j, <2>1 DEF Running, RegistryAssumption
    <3> QED BY <3>1 DEF Wanted, Settings, Assignment, RegistryAssumption
  <2>3. ListensAsRegistered'
    BY <1>d, <2>1, <2>2
    DEF Inv, ListensAsRegistered, RunningContractIsRegistered, DurableFeedsTheContract, Wanted
  <2> QED BY <1>d, <1>j, <1>t, <2>1, <2>3, BesidesKeeps DEF Running
<1>6. ASSUME NEW r \in Replica, Stop(r) PROVE Inv'
  <2>1. /\ pc'[r] = "down"
        /\ UNCHANGED <<registry, inventory, durable, job, found, left, built>>
        /\ \A b \in Actor \ {r} : pc'[b] = pc[b]
    BY <1>6, <1>d DEF Stop, Inv, TypeOK
  <2>3. ListensAsRegistered'
    BY <1>d, <2>1
    DEF Inv, ListensAsRegistered, RunningContractIsRegistered, DurableFeedsTheContract
  <2> QED BY <1>d, <1>j, <1>t, <2>1, <2>3, BesidesKeeps DEF Running, Registering
<1>7. ASSUME NEW w \in Worker, Migrate(w) PROVE Inv'
  <2>1. /\ UNCHANGED <<registry, inventory, pc, job, found, left, built>>
        /\ \A x \in Worker \ {w} : durable'[x] = durable[x]
        /\ \A r \in Replica : pc[r] # "down" => job[r].worker # w
    BY <1>7 DEF Migrate, Up, Inv, TypeOK
  <2>2. \A q \in Replica : pc[q] = "listening" => job[q].worker \in Worker \ {w}
    BY <1>j, <2>1 DEF Running, Assignment
  <2>3. ListensAsRegistered'
    BY <2>1, <2>2
    DEF Inv, ListensAsRegistered, RunningContractIsRegistered, DurableFeedsTheContract
  <2> QED BY <1>j, <1>t, <2>1, <2>3, BesidesKeeps
<1> QED BY <1>1, <1>2, <1>3, <1>4, <1>5, <1>6, <1>7 DEF Proceeds

-----------------------------------------------------------------------------
(* The theorems                                                            *)

LEMMA InitInv ==
  ASSUME RegistryAssumption, Init
  PROVE  Inv
<1>1. TypeOK
  <2>1. [contract : Contract, revision : {1}] \subseteq Entry
    BY DEF Entry
  <2>2. registry \in [Worker -> Entry \cup {None}]
    BY <2>1 DEF Init
  <2>3. left \in [Provisioning -> Seq(Worker)]
    BY DEF Init
  <2> QED BY <2>2, <2>3 DEF Init, TypeOK, Registering
<1>2. \A a \in Actor : pc[a] \in {"down", "idle"} /\ job[a] = None /\ (pc[a] = "down" <=> a \in Replica)
  BY DEF Init
<1>3. \A r \in Replica : r \in Actor /\ pc[r] = "down" /\ job[r] = None
  BY <1>2 DEF Actor
<1>4. \A p \in Provisioning : p \in Actor /\ pc[p] = "idle" /\ ~Working(p)
  BY <1>2 DEF Actor, RegistryAssumption, Working, Registering
<1>5. Jobs
  BY <1>2, <1>3, <1>4 DEF Jobs, Registering, Running
<1>6. Reads
  BY <1>2 DEF Reads
<1>7. ListensAsRegistered
  BY <1>3 DEF ListensAsRegistered, RunningContractIsRegistered, DurableFeedsTheContract
<1> QED BY <1>1, <1>4, <1>5, <1>6, <1>7
    DEF Inv, Init, ReplacesAlone, Progress, Named, InTurn, ReadyNamesAreRegistered,
        ReadyDescribesADeployment

LEMMA NextInv ==
  ASSUME RegistryAssumption, Inv, [Next]_vars
  PROVE  Inv'
<1>0. overlapped' \in BOOLEAN /\ (~overlapped' => ~overlapped)
  <2>1. overlapped \in BOOLEAN
    BY DEF Inv, TypeOK
  <2>2. CASE overlapped' = overlapped
    BY <2>1, <2>2
  <2>3. CASE \E p \in Provisioning, replace \in BOOLEAN : Begin(p, replace)
    <3>1. overlapped' = (overlapped \/ \E q \in Provisioning : ~Idle(q))
      BY <2>3 DEF Begin
    <3> QED BY <3>1, Zenon
  <2> QED BY <2>2, <2>3 DEF Next, vars
<1>1. CASE \E a \in Actor : Registers(a)
  BY <1>0, <1>1, RegistersKeep
<1>2. CASE Proceeds
  BY <1>0, <1>2, ProceedsKeep
<1>3. CASE UNCHANGED vars
  BY <1>3
  DEF vars, Inv, TypeOK, Jobs, Reads, ReplacesAlone, Progress, Named, InTurn, Working,
      ListensAsRegistered, RunningContractIsRegistered, DurableFeedsTheContract,
      ReadyNamesAreRegistered, ReadyDescribesADeployment
<1> QED BY <1>1, <1>2, <1>3 DEF Next, Registers, Proceeds

\* Names, contracts, revisions and jobs keep their kinds through every order of
\* registrations, replacements, aborts and restarts.
THEOREM TypeCorrect ==
  ASSUME RegistryAssumption
  PROVE  Spec => []TypeOK
<1>1. Init => Inv
  BY InitInv
<1>2. Inv /\ [Next]_vars => Inv'
  BY NextInv
<1>3. Inv => TypeOK
  BY DEF Inv
<1> QED BY <1>1, <1>2, <1>3, PTL DEF Spec

\* A listening replica works to the registered contract, on a durable that delivers
\* what the contract promises, though runs replace contracts and operators migrate
\* durables (registry.go:127, sdk.go:270).
THEOREM RegisteredWorkersListen ==
  ASSUME RegistryAssumption
  PROVE  Spec => []ListensAsRegistered
<1>1. Init => Inv
  BY InitInv
<1>2. Inv /\ [Next]_vars => Inv'
  BY NextInv
<1>3. Inv => ListensAsRegistered
  BY DEF Inv
<1> QED BY <1>1, <1>2, <1>3, PTL DEF Spec

\* A ready inventory names registered workers; of runs in turn it is the work of a
\* complete one that none has followed (registry.go:195, register-workers.py:33).
THEOREM InventoryTells ==
  ASSUME RegistryAssumption
  PROVE  Spec => []InventoryIsTrue
<1>1. Init => Inv
  BY InitInv
<1>2. Inv /\ [Next]_vars => Inv'
  BY NextInv
<1>3. Inv => InventoryIsTrue
  BY DEF Inv, InTurn, Working, InventoryIsTrue, UnfinishedIsVisible
<1> QED BY <1>1, <1>2, <1>3, PTL DEF Spec

LEMMA OnlyReadersReplace ==
  ASSUME RegistryAssumption, Inv, [Next]_vars
  PROVE  ReplacesItsRead
<1>1. CASE registry' = registry
  BY <1>1 DEF ReplacesItsRead
<1>2. CASE registry' # registry
  <2>1. PICK a \in Actor : Registers(a)
    BY <1>2
    DEF Next, Registers, Begin, Declare, Abort, Start, Prepare, Bind, Compare, Stop, Migrate, vars
  <2>2. PICK e : Writes(a, e)
    BY <1>2, <2>1, RegisterOutcome
  <2>3. job[a] \in Assignment /\ pc[a] \in Registering
    BY <2>1, RegisterOutcome
  <2>4. ASSUME NEW w \in Worker, registry[w] # None, registry'[w] # registry[w]
        PROVE  /\ a \in Provisioning /\ pc[a] = "update" /\ job[a].replace
               /\ job[a].worker = w /\ found[a] = registry[w]
    <3>1. job[a].worker = w /\ pc[a] = "update" /\ job[a].replace /\ found[a] = registry[w]
      BY <2>2, <2>4 DEF Writes, Inv, TypeOK
    <3>2. job[a] # None
      BY <2>3 DEF RegistryAssumption
    <3>3. a \notin Replica
      BY <3>1, <3>2 DEF Inv, Jobs
    <3> QED BY <3>1, <3>3 DEF Actor
  <2> QED BY <2>4 DEF ReplacesItsRead
<1> QED BY <1>1, <1>2

\* A contract is replaced only by a run that was told to, and that read the very
\* contract it replaces, however many runs overlap (registry.go:127).
THEOREM ReplacementsAreRead ==
  ASSUME RegistryAssumption
  PROVE  Spec => ReplacesWhatItRead
<1>1. Init => Inv
  BY InitInv
<1>2. Inv /\ [Next]_vars => Inv'
  BY NextInv
<1>3. Inv /\ [Next]_vars => [ReplacesItsRead]_vars
  BY OnlyReadersReplace
<1> QED BY <1>1, <1>2, <1>3, PTL DEF Spec, ReplacesWhatItRead

-----------------------------------------------------------------------------
(* ToolPause                                                               *)

\* A replica between its pull and the end of its task holds a message.
Holding == {"check", "execute", "outcome", "record"}

Placed ==
  /\ place \in [Replicas -> {"loop", "next"} \cup Holding]
  /\ held \in [Replicas -> Tasks \cup {NoTask}]
  /\ \A r \in Replicas : held[r] # NoTask <=> place[r] \in Holding
  /\ \A q, r \in Replicas : held[q] = held[r] /\ held[r] # NoTask => q = r

Counters ==
  /\ attempts \in [Tasks -> 0..MaxAttempts]
  /\ since \in [Replicas -> Nat]

\* While the tool is paused, who is about to execute was past its check when the
\* pause was stored, and has not executed since.
Stopping ==
  paused => \A r \in Replicas : place[r] = "execute" => r \in past /\ since[r] = 0

PauseInv == PauseTypeOK /\ Placed /\ Counters /\ Stopping /\ PauseStopsReplicas

LEMMA PauseInitInv ==
  ASSUME PauseAssumption, PauseInit
  PROVE  PauseInv
BY DEF PauseAssumption, PauseInit, PauseInv, PauseTypeOK, Placed, Counters, Stopping, PauseStopsReplicas, Holding

\* A task ends, or is given back, by the replica that holds it.
LEMMA EndKeepsPlaces ==
  ASSUME PauseAssumption, PauseTypeOK, Placed, NEW r \in Replicas, place[r] \in Holding,
         NEW outcome \in {"ready", "completed", "failed"}, End(r, outcome),
         attempts' = attempts, past' \subseteq Replicas
  PROVE  PauseTypeOK' /\ Placed'
<1>1. held[r] \in Tasks /\ held[r] # NoTask
  BY DEF Placed, PauseAssumption
<1>2. /\ place' = [place EXCEPT ![r] = "loop"] /\ held' = [held EXCEPT ![r] = NoTask]
      /\ status' = [status EXCEPT ![held[r]] = outcome]
  BY DEF End, Goto, Hold
<1>3. Placed'
  BY <1>1, <1>2 DEF Placed, Holding
<1>4. \A t \in Tasks : status'[t] = "taken" <=> \E q \in Replicas : held'[q] = t
  <2> SUFFICES ASSUME NEW t \in Tasks
               PROVE  status'[t] = "taken" <=> \E q \in Replicas : held'[q] = t
    OBVIOUS
  <2>1. CASE t = held[r]
    <3>1. status'[t] # "taken"
      BY <1>1, <1>2, <2>1 DEF PauseTypeOK
    <3>2. \A q \in Replicas : held'[q] # t
      BY <1>1, <1>2, <2>1 DEF Placed
    <3> QED BY <3>1, <3>2
  <2>2. CASE t # held[r]
    <3>1. status'[t] = status[t] /\ t # NoTask
      BY <1>2, <2>2 DEF PauseTypeOK, PauseAssumption
    <3>2. \A q \in Replicas : held'[q] = t <=> held[q] = t
      BY <1>2, <2>2, <3>1 DEF Placed
    <3> QED BY <3>1, <3>2 DEF PauseTypeOK
  <2> QED BY <2>1, <2>2
<1> QED BY <1>2, <1>3, <1>4 DEF PauseTypeOK

LEMMA PauseNextInv ==
  ASSUME PauseAssumption, PauseInv, [PauseNext]_pauseVars
  PROVE  PauseInv'
<1> USE DEF PauseInv, Counters, Stopping, PauseStopsReplicas, tool, Goto, Hold
<1>1. ASSUME NEW r \in Replicas, Loop(r) PROVE PauseInv'
  BY <1>1 DEF Loop, PauseTypeOK, Placed, Holding
<1>2. ASSUME NEW r \in Replicas, Pull(r) PROVE PauseInv'
  <2>1. PICK t \in Tasks :
          /\ status[t] = "ready" /\ status' = [status EXCEPT ![t] = "taken"]
          /\ held' = [held EXCEPT ![r] = t]
    BY <1>2 DEF Pull
  <2>2. /\ place[r] = "next" /\ place' = [place EXCEPT ![r] = "check"]
        /\ UNCHANGED <<broken, paused, past, attempts, faults, since>>
    BY <1>2 DEF Pull
  <2>3. t # NoTask /\ \A q \in Replicas : held[q] # t
    BY <2>1 DEF PauseTypeOK, PauseAssumption
  <2>4. held[r] = NoTask
    BY <2>2 DEF Placed, Holding
  <2>5. Placed'
    BY <2>1, <2>2, <2>3 DEF Placed, Holding
  <2>6. \A u \in Tasks : status'[u] = "taken" <=> \E q \in Replicas : held'[q] = u
    <3> SUFFICES ASSUME NEW u \in Tasks
                 PROVE  status'[u] = "taken" <=> \E q \in Replicas : held'[q] = u
      OBVIOUS
    <3>1. CASE u = t
      BY <2>1, <3>1 DEF PauseTypeOK, Placed
    <3>2. CASE u # t
      <4>1. status'[u] = status[u] /\ u # NoTask
        BY <2>1, <3>2 DEF PauseTypeOK, PauseAssumption
      <4>2. \A q \in Replicas : held'[q] = u <=> held[q] = u
        BY <2>1, <2>4, <3>2, <4>1 DEF Placed
      <4> QED BY <4>1, <4>2 DEF PauseTypeOK
    <3> QED BY <3>1, <3>2
  <2>7. PauseTypeOK'
    BY <2>1, <2>2, <2>6 DEF PauseTypeOK
  <2> QED BY <2>2, <2>5, <2>7 DEF Placed
<1>3. ASSUME NEW r \in Replicas, Check(r) PROVE PauseInv'
  <2>1. CASE paused
    <3>1. End(r, "ready") /\ place[r] = "check" /\ UNCHANGED <<broken, paused, past, attempts, faults, since>>
      BY <1>3, <2>1 DEF Check
    <3>2. PauseTypeOK' /\ Placed'
      BY <3>1, EndKeepsPlaces DEF Holding, PauseTypeOK
    <3> QED BY <3>1, <3>2 DEF End, Placed
  <2>2. CASE ~paused
    BY <1>3, <2>2 DEF Check, PauseTypeOK, Placed, Holding
  <2> QED BY <2>1, <2>2
<1>4. ASSUME NEW r \in Replicas, Execute(r) PROVE PauseInv'
  <2>0. place[r] = "execute" /\ held[r] \in Tasks /\ UNCHANGED <<broken, paused, past, faults>>
    BY <1>4 DEF Execute, Placed, Holding, PauseAssumption
  <2>1. CASE attempts[held[r]] < MaxAttempts
    <3>1. /\ attempts' = [attempts EXCEPT ![held[r]] = attempts[held[r]] + 1]
          /\ since' = [since EXCEPT ![r] = IF paused THEN since[r] + 1 ELSE since[r]]
          /\ place' = [place EXCEPT ![r] = "outcome"] /\ UNCHANGED <<held, status>>
      BY <1>4, <2>1 DEF Execute
    <3>2. Counters'
      BY <2>0, <2>1, <3>1 DEF PauseAssumption
    <3>3. PauseTypeOK' /\ Placed'
      BY <2>0, <3>1, <3>2 DEF PauseTypeOK, Placed, Holding
    <3>4. Stopping' /\ PauseStopsReplicas'
      BY <2>0, <3>1 DEF Placed
    <3> QED BY <3>2, <3>3, <3>4
  <2>2. CASE ~(attempts[held[r]] < MaxAttempts)
    <3>1. End(r, "failed") /\ UNCHANGED <<attempts, since>>
      BY <1>4, <2>2 DEF Execute
    <3>2. PauseTypeOK' /\ Placed'
      BY <2>0, <3>1, EndKeepsPlaces DEF Holding, PauseTypeOK
    <3> QED BY <2>0, <3>1, <3>2 DEF End, Placed
  <2> QED BY <2>1, <2>2
<1>5. ASSUME NEW r \in Replicas, NEW outcome \in {"ready", "completed", "failed"},
             place[r] \in Holding, End(r, outcome), UNCHANGED <<tool, attempts, since>>
      PROVE  PauseInv'
  <2>1. PauseTypeOK' /\ Placed'
    BY <1>5, EndKeepsPlaces DEF PauseTypeOK
  <2> QED BY <1>5, <2>1 DEF End, Placed
<1>6. ASSUME NEW r \in Replicas, Pause(r) PROVE PauseInv'
  <2>1. PauseTypeOK' /\ Placed'
    BY <1>6 DEF Pause, PauseTypeOK, Placed, Holding
  <2>2. CASE paused
    BY <1>6, <2>1, <2>2 DEF Pause, Placed
  <2>3. CASE ~paused
    BY <1>6, <2>1, <2>3 DEF Pause, Placed
  <2> QED BY <2>2, <2>3
<1>7. CASE Break \/ Repair \/ Resume
  BY <1>7 DEF Break, Repair, Resume, PauseTypeOK, Placed
<1>8. CASE UNCHANGED pauseVars
  BY <1>8 DEF pauseVars, PauseTypeOK, Placed
<1>9. ASSUME NEW r \in Replicas, Succeed(r) \/ Record(r) \/ Interrupt(r) PROVE PauseInv'
  BY <1>5, <1>9 DEF Succeed, Record, Interrupt, Holding
<1> QED BY <1>1, <1>2, <1>3, <1>4, <1>6, <1>7, <1>8, <1>9 DEF PauseNext, Work

\* A message is held by one replica, and taken as long as it is held.
THEOREM PausesTyped ==
  ASSUME PauseAssumption
  PROVE  PauseSpec => []PauseTypeOK
<1>1. PauseInit => PauseInv
  BY PauseInitInv
<1>2. PauseInv /\ [PauseNext]_pauseVars => PauseInv'
  BY PauseNextInv
<1>3. PauseInv => PauseTypeOK
  BY DEF PauseInv
<1> QED BY <1>1, <1>2, <1>3, PTL DEF PauseSpec

\* Once a pause is stored a replica begins no execution, but for one each of those that
\* had passed their check by then, however often the tool breaks and is resumed
\* (health.go:16, work.go:440).
THEOREM PausesStop ==
  ASSUME PauseAssumption
  PROVE  PauseSpec => []PauseStopsReplicas
<1>1. PauseInit => PauseInv
  BY PauseInitInv
<1>2. PauseInv /\ [PauseNext]_pauseVars => PauseInv'
  BY PauseNextInv
<1>3. PauseInv => PauseStopsReplicas
  BY DEF PauseInv
<1> QED BY <1>1, <1>2, <1>3, PTL DEF PauseSpec

-----------------------------------------------------------------------------
(* Watch: notes on their way                                               *)

\* The rows of two tasks are two rows.
RowsDiffer == \A t, u \in Targets : Key(t) = Key(u) => t = u

Outcomes == {"done", "error"}
Notes    == [action : {"start", "skip"} \cup Outcomes, key : {Key(t) : t \in Targets}]

WatchTyped ==
  /\ task \in [Targets -> [status : {"new", "running", "saved", "deferred", "waiting", "completed", "failed"},
                           attempts : Nat]]
  /\ at \in [Instances -> {"idle", "working", "publishing"} \cup Outcomes]
  /\ holds \in [Instances -> Targets \cup {NoTarget}]
  /\ \A r \in Instances : holds[r] = NoTarget <=> at[r] = "idle"
  /\ wire \in [Instances -> Seq(Notes)]
  /\ crashes \in Nat

\* A task has one replica, and nothing is told of the end of one that was never claimed.
Exclusive ==
  /\ \A q, r \in Instances : holds[q] = holds[r] /\ holds[r] # NoTarget => q = r
  /\ \A t \in Targets : task[t].status = "new" =>
       \A r \in Instances : /\ holds[r] # t
                            /\ \A i \in DOMAIN wire[r] : wire[r][i].key = Key(t) => wire[r][i].action \notin Outcomes

\* Of a task that is executed no end is on its way, and its start is or has arrived.
Announced ==
  \A r \in Instances : at[r] = "working" =>
    /\ \A q \in Instances : \A i \in DOMAIN wire[q] :
         wire[q][i].key = Key(holds[r]) => wire[q][i].action \notin Outcomes
    /\ \/ Key(holds[r]) \in running
       \/ \E i \in DOMAIN wire[r] : wire[r][i].action = "start" /\ wire[r][i].key = Key(holds[r])

\* A start that is on its way is that of the task at hand, or its end follows it.
Followed ==
  crashes = 0 =>
    \A r \in Instances : \A i \in DOMAIN wire[r] : wire[r][i].action = "start" =>
      \/ holds[r] # NoTarget /\ Key(holds[r]) = wire[r][i].key
      \/ \E j \in DOMAIN wire[r] :
           i < j /\ wire[r][j].key = wire[r][i].key /\ wire[r][j].action \in Outcomes

WatchInv == WatchTyped /\ Exclusive /\ Announced /\ Followed /\ ShownIsWorking

\* A note is sent behind those that are on their way.
LEMMA NoteIsLast ==
  ASSUME WatchTyped, NEW r \in Instances, NEW t \in Targets, NEW a \in {"start", "skip"} \cup Outcomes,
         Note(r, a, t)
  PROVE  /\ wire' \in [Instances -> Seq(Notes)]
         /\ \A q \in Instances \ {r} : wire'[q] = wire[q]
         /\ DOMAIN wire'[r] = DOMAIN wire[r] \cup {Len(wire[r]) + 1}
         /\ \A i \in DOMAIN wire[r] : wire'[r][i] = wire[r][i] /\ i < Len(wire[r]) + 1
         /\ wire'[r][Len(wire[r]) + 1] = [action |-> a, key |-> Key(t)]
<1> DEFINE n == [action |-> a, key |-> Key(t)]
<1>1. wire' = [wire EXCEPT ![r] = Append(wire[r], n)]
  BY DEF Note, NoteOf
<1>2. n \in Notes /\ wire[r] \in Seq(Notes)
  BY DEF Notes, WatchTyped
<1> HIDE DEF n
<1>3. /\ Append(wire[r], n) \in Seq(Notes) /\ Len(wire[r]) \in Nat
      /\ DOMAIN wire[r] = 1..Len(wire[r])
      /\ DOMAIN Append(wire[r], n) = 1..(Len(wire[r]) + 1)
      /\ \A i \in 1..Len(wire[r]) : Append(wire[r], n)[i] = wire[r][i]
      /\ Append(wire[r], n)[Len(wire[r]) + 1] = n
  BY <1>2
<1>4. wire'[r] = Append(wire[r], n) /\ \A q \in Instances \ {r} : wire'[q] = wire[q]
  BY <1>1 DEF WatchTyped
<1>5. wire' \in [Instances -> Seq(Notes)]
  BY <1>1, <1>3 DEF WatchTyped
<1> QED BY <1>3, <1>4, <1>5 DEF n

\* The first note arrives, and the others move up.
LEMMA NotesMoveUp ==
  ASSUME WatchTyped, NEW r \in Instances, wire[r] # <<>>, wire' = [wire EXCEPT ![r] = Tail(@)]
  PROVE  /\ wire' \in [Instances -> Seq(Notes)] /\ Head(wire[r]) = wire[r][1] /\ 1 \in DOMAIN wire[r]
         /\ \A q \in Instances \ {r} : wire'[q] = wire[q]
         /\ \A i \in DOMAIN wire'[r] : i \in Nat /\ i + 1 \in DOMAIN wire[r] /\ wire'[r][i] = wire[r][i + 1]
         /\ \A i \in DOMAIN wire[r] : i \in Nat /\ (i # 1 => i - 1 \in DOMAIN wire'[r] /\ wire'[r][i - 1] = wire[r][i])
<1>1. wire[r] \in Seq(Notes) /\ wire'[r] = Tail(wire[r]) /\ \A q \in Instances \ {r} : wire'[q] = wire[q]
  BY DEF WatchTyped
<1>2. /\ Tail(wire[r]) \in Seq(Notes) /\ Len(wire[r]) \in Nat /\ Len(wire[r]) > 0
      /\ DOMAIN wire[r] = 1..Len(wire[r]) /\ DOMAIN Tail(wire[r]) = 1..(Len(wire[r]) - 1)
      /\ \A i \in 1..(Len(wire[r]) - 1) : Tail(wire[r])[i] = wire[r][i + 1]
      /\ Head(wire[r]) = wire[r][1]
  BY <1>1
<1>3. wire' \in [Instances -> Seq(Notes)]
  BY <1>2 DEF WatchTyped
<1>4. ASSUME NEW i \in 1..Len(wire[r]), i # 1
      PROVE  i - 1 \in 1..(Len(wire[r]) - 1) /\ Tail(wire[r])[i - 1] = wire[r][i]
  <2>1. i - 1 \in 1..(Len(wire[r]) - 1) /\ (i - 1) + 1 = i
    BY <1>2, <1>4
  <2> QED BY <1>2, <2>1
<1> QED BY <1>1, <1>2, <1>3, <1>4

\* A connection that breaks loses the last of its notes.
LEMMA NotesAreCut ==
  ASSUME WatchTyped, NEW r \in Instances, NEW n \in 0..Len(wire[r]),
         wire' = [wire EXCEPT ![r] = SubSeq(@, 1, n)]
  PROVE  /\ wire' \in [Instances -> Seq(Notes)]
         /\ \A q \in Instances \ {r} : wire'[q] = wire[q]
         /\ \A i \in DOMAIN wire'[r] : i \in DOMAIN wire[r] /\ wire'[r][i] = wire[r][i]
<1>1. /\ wire[r] \in Seq(Notes) /\ wire'[r] = SubSeq(wire[r], 1, n)
      /\ \A q \in Instances \ {r} : wire'[q] = wire[q]
  BY DEF WatchTyped
<1>2. /\ SubSeq(wire[r], 1, n) \in Seq(Notes) /\ Len(wire[r]) \in Nat
      /\ DOMAIN wire[r] = 1..Len(wire[r]) /\ DOMAIN SubSeq(wire[r], 1, n) = 1..n
      /\ \A i \in 1..n : SubSeq(wire[r], 1, n)[i] = wire[r][i]
  BY <1>1
<1>3. wire' \in [Instances -> Seq(Notes)]
  BY <1>2 DEF WatchTyped
<1> QED BY <1>1, <1>2, <1>3

-----------------------------------------------------------------------------
(* Watch: every step keeps the invariant                                   *)

LEMMA WatchInitInv ==
  ASSUME WatchAssumption, WatchInit
  PROVE  WatchInv
<1>1. /\ \A r \in Instances : at[r] = "idle" /\ holds[r] = NoTarget /\ wire[r] = <<>>
      /\ DOMAIN <<>> = {} /\ <<>> \in Seq(Notes)
      /\ running = {} /\ crashes = 0
  BY DEF WatchInit
<1>2. WatchTyped
  BY <1>1 DEF WatchInit, WatchTyped
<1>3. Exclusive
  BY <1>1 DEF Exclusive, WatchAssumption
<1>4. Announced /\ Followed
  BY <1>1 DEF Announced, Followed
<1>5. ShownIsWorking
  BY <1>1 DEF ShownIsWorking
<1> QED BY <1>2, <1>3, <1>4, <1>5 DEF WatchInv

\* A replica takes up a task without a note, of which none is on its way.
LEMMA TakenUpKeepsRows ==
  ASSUME WatchAssumption, WatchInv, NEW r \in Instances, NEW t \in Targets,
         Republish(r, t) \/ GiveUp(r, t)
  PROVE  WatchInv'
<1>1. /\ at[r] = "idle" /\ holds[r] = NoTarget /\ Silent(t) /\ t # NoTarget
      /\ holds' = [holds EXCEPT ![r] = t] /\ UNCHANGED <<wire, running, crashes>>
  BY DEF Republish, GiveUp, WatchInv, WatchTyped, WatchAssumption
<1>2. PICK p \in {"publishing", "error"} : at' = [at EXCEPT ![r] = p]
  BY DEF Republish, GiveUp, Move
<1>3. /\ task' \in [Targets -> [status : {"new", "running", "saved", "deferred", "waiting", "completed", "failed"},
                                attempts : Nat]]
      /\ \A u \in Targets : task'[u].status = "new" => task[u].status = "new" /\ u # t
  <2>1. PICK x \in {"saved", "failed"} : task' = [task EXCEPT ![t].status = x]
    BY DEF Republish, GiveUp, Status
  <2>2. task \in [Targets -> [status : {"new", "running", "saved", "deferred", "waiting", "completed", "failed"},
                              attempts : Nat]]
    BY DEF WatchInv, WatchTyped
  <2> QED BY <2>1, <2>2
<1>4. WatchTyped'
  BY <1>1, <1>2, <1>3 DEF WatchInv, WatchTyped, Outcomes
<1>5. Exclusive'
  BY <1>1, <1>3 DEF WatchInv, WatchTyped, Exclusive, Silent
<1>6. Announced'
  BY <1>1, <1>2 DEF WatchInv, WatchTyped, Announced
<1>7. Followed'
  BY <1>1 DEF WatchInv, WatchTyped, Followed
<1>8. ShownIsWorking'
  BY <1>1 DEF WatchInv, WatchTyped, ShownIsWorking
<1> QED BY <1>4, <1>5, <1>6, <1>7, <1>8 DEF WatchInv

\* A replica goes on with its task.
LEMMA GoingOnKeepsRows ==
  ASSUME WatchAssumption, WatchInv, NEW r \in Instances, Save(r) \/ Store(r)
  PROVE  WatchInv'
<1>1. at[r] # "idle" /\ holds[r] \in Targets /\ UNCHANGED <<holds, wire, running, crashes>>
  BY DEF Save, Store, WatchInv, WatchTyped
<1>2. PICK p \in {"publishing"} \cup Outcomes : at' = [at EXCEPT ![r] = p]
  BY DEF Save, Store, Move, Outcomes
<1>3. PICK x \in {"saved", "deferred", "waiting", "completed", "failed"} :
        task' = [task EXCEPT ![holds[r]].status = x]
  BY DEF Save, Store, Status
<1>4. WatchTyped'
  BY <1>1, <1>2, <1>3 DEF WatchInv, WatchTyped, Outcomes
<1>5. Exclusive'
  BY <1>1, <1>3 DEF WatchInv, WatchTyped, Exclusive
<1>6. Announced'
  BY <1>1, <1>2 DEF WatchInv, WatchTyped, Announced, Outcomes
<1>7. Followed' /\ ShownIsWorking'
  BY <1>1 DEF WatchInv, Followed, ShownIsWorking
<1> QED BY <1>4, <1>5, <1>6, <1>7 DEF WatchInv

\* An execution is noted when it begins.
LEMMA ClaimKeepsRows ==
  ASSUME WatchAssumption, RowsDiffer, WatchInv, NEW r \in Instances, NEW t \in Targets, Claim(r, t)
  PROVE  WatchInv'
<1>1. /\ at[r] = "idle" /\ holds[r] = NoTarget /\ t # NoTarget
      /\ holds' = [holds EXCEPT ![r] = t] /\ at' = [at EXCEPT ![r] = "working"]
      /\ task' = [task EXCEPT ![t] = [status |-> "running", attempts |-> @.attempts + 1]]
      /\ UNCHANGED <<running, crashes>>
  BY DEF Claim, Move, WatchInv, WatchTyped, WatchAssumption
<1>2. \A q \in Instances : /\ holds[q] # t
                           /\ \A i \in DOMAIN wire[q] : wire[q][i].key = Key(t) => wire[q][i].action \notin Outcomes
  BY DEF Claim, Silent, WatchInv, Exclusive
<1> DEFINE last == Len(wire[r]) + 1
<1>3. /\ wire' \in [Instances -> Seq(Notes)]
      /\ \A q \in Instances \ {r} : wire'[q] = wire[q]
      /\ DOMAIN wire'[r] = DOMAIN wire[r] \cup {last}
      /\ \A i \in DOMAIN wire[r] : wire'[r][i] = wire[r][i] /\ i < last
      /\ wire'[r][last] = [action |-> "start", key |-> Key(t)]
  BY NoteIsLast DEF Claim, WatchInv
<1> HIDE DEF last
<1>4. WatchTyped'
  <2>1. task[t].attempts + 1 \in Nat
    BY DEF WatchInv, WatchTyped
  <2>2. task' \in [Targets -> [status : {"new", "running", "saved", "deferred", "waiting", "completed", "failed"},
                               attempts : Nat]]
    BY <1>1, <2>1 DEF WatchInv, WatchTyped
  <2>3. /\ at' \in [Instances -> {"idle", "working", "publishing"} \cup Outcomes]
        /\ holds' \in [Instances -> Targets \cup {NoTarget}]
        /\ \A q \in Instances : holds'[q] = NoTarget <=> at'[q] = "idle"
    BY <1>1 DEF WatchInv, WatchTyped
  <2> QED BY <1>1, <1>3, <2>2, <2>3 DEF WatchInv, WatchTyped
<1>5. \A q \in Instances : \A i \in DOMAIN wire'[q] : wire'[q][i].action \in Outcomes =>
        i \in DOMAIN wire[q] /\ wire'[q][i] = wire[q][i]
  BY <1>3 DEF Outcomes
<1>6. \A u \in Targets : task'[u].status = "new" => task[u].status = "new" /\ u # t
  BY <1>1 DEF WatchInv, WatchTyped
<1>7. Exclusive'
  <2>1. \A p, q \in Instances : holds'[p] = holds'[q] /\ holds'[p] # NoTarget => p = q
    BY <1>1, <1>2 DEF WatchInv, WatchTyped, Exclusive
  <2>2. ASSUME NEW u \in Targets, task'[u].status = "new", NEW q \in Instances
        PROVE  /\ holds'[q] # u
               /\ \A i \in DOMAIN wire'[q] : wire'[q][i].key = Key(u) => wire'[q][i].action \notin Outcomes
    BY <1>1, <1>5, <1>6, <2>2 DEF WatchInv, WatchTyped, Exclusive
  <2> QED BY <2>1, <2>2 DEF Exclusive
<1>8. Announced'
  <2>1. ASSUME NEW p \in Instances, at'[p] = "working", p # r
        PROVE  /\ at[p] = "working" /\ holds'[p] = holds[p] /\ wire'[p] = wire[p]
    BY <1>1, <1>3, <2>1 DEF WatchInv, WatchTyped
  <2>2. holds'[r] = t
    BY <1>1 DEF WatchInv, WatchTyped
  <2>3. ASSUME NEW p \in Instances, at'[p] = "working", NEW q \in Instances, NEW i \in DOMAIN wire'[q],
               wire'[q][i].key = Key(holds'[p]), wire'[q][i].action \in Outcomes
        PROVE  FALSE
    <3>1. i \in DOMAIN wire[q] /\ wire'[q][i] = wire[q][i]
      BY <1>5, <2>3
    <3>2. CASE p = r
      BY <1>2, <2>2, <2>3, <3>1, <3>2
    <3>3. CASE p # r
      BY <2>1, <2>3, <3>1, <3>3 DEF WatchInv, Announced
    <3> QED BY <3>2, <3>3
  <2>4. ASSUME NEW p \in Instances, at'[p] = "working"
        PROVE  \/ Key(holds'[p]) \in running'
               \/ \E i \in DOMAIN wire'[p] : wire'[p][i].action = "start" /\ wire'[p][i].key = Key(holds'[p])
    <3>1. CASE p = r
      BY <1>3, <2>2, <3>1
    <3>2. CASE p # r
      BY <1>1, <2>1, <2>4, <3>2 DEF WatchInv, Announced
    <3> QED BY <3>1, <3>2
  <2> QED BY <2>3, <2>4 DEF Announced
<1>9. ASSUME NEW q \in Instances, holds[q] # NoTarget PROVE holds'[q] = holds[q]
  BY <1>1, <1>9 DEF WatchInv, WatchTyped
<1>10. Followed'
  <2> SUFFICES ASSUME crashes = 0, NEW q \in Instances, NEW i \in DOMAIN wire'[q], wire'[q][i].action = "start"
               PROVE  \/ holds'[q] # NoTarget /\ Key(holds'[q]) = wire'[q][i].key
                      \/ \E j \in DOMAIN wire'[q] :
                           i < j /\ wire'[q][j].key = wire'[q][i].key /\ wire'[q][j].action \in Outcomes
    BY <1>1 DEF Followed
  <2>1. CASE q = r /\ i = last
    BY <1>1, <1>3, <2>1 DEF WatchInv, WatchTyped
  <2>2. CASE ~(q = r /\ i = last)
    <3>1. i \in DOMAIN wire[q] /\ wire'[q][i] = wire[q][i]
      BY <1>3, <2>2
    <3>2. /\ DOMAIN wire[q] \subseteq DOMAIN wire'[q]
          /\ \A j \in DOMAIN wire[q] : wire'[q][j] = wire[q][j]
      BY <1>3
    <3> QED BY <1>9, <3>1, <3>2 DEF WatchInv, Followed
  <2> QED BY <2>1, <2>2
<1>11. ShownIsWorking'
  <2>1. \A q \in Instances : /\ DOMAIN wire[q] \subseteq DOMAIN wire'[q]
                             /\ \A j \in DOMAIN wire[q] : wire'[q][j] = wire[q][j]
    BY <1>3
  <2> QED BY <1>1, <1>9, <2>1 DEF WatchInv, ShownIsWorking
<1> QED BY <1>4, <1>7, <1>8, <1>10, <1>11 DEF WatchInv

\* An outcome is noted when the task is let go.
LEMMA SettleKeepsRows ==
  ASSUME WatchAssumption, RowsDiffer, WatchInv, NEW r \in Instances, Settle(r)
  PROVE  WatchInv'
<1>1. /\ at[r] \in Outcomes /\ holds[r] \in Targets
      /\ holds' = [holds EXCEPT ![r] = NoTarget] /\ at' = [at EXCEPT ![r] = "idle"]
      /\ UNCHANGED <<task, running, crashes>>
  BY DEF Settle, Move, Release, WatchInv, WatchTyped, Outcomes
<1> DEFINE last == Len(wire[r]) + 1
<1>2. /\ wire' \in [Instances -> Seq(Notes)]
      /\ \A q \in Instances \ {r} : wire'[q] = wire[q]
      /\ DOMAIN wire'[r] = DOMAIN wire[r] \cup {last}
      /\ \A i \in DOMAIN wire[r] : wire'[r][i] = wire[r][i] /\ i < last
      /\ wire'[r][last] = [action |-> at[r], key |-> Key(holds[r])]
  BY <1>1, NoteIsLast DEF Settle, WatchInv
<1> HIDE DEF last
<1>3. WatchTyped'
  BY <1>1, <1>2 DEF WatchInv, WatchTyped
<1>4. ASSUME NEW q \in Instances, NEW i \in DOMAIN wire'[q], wire'[q][i].action \in Outcomes
      PROVE  \/ i \in DOMAIN wire[q] /\ wire'[q][i] = wire[q][i]
             \/ wire'[q][i].key = Key(holds[r])
  BY <1>2, <1>4
<1>5. ASSUME NEW q \in Instances, q # r
      PROVE  holds'[q] = holds[q] /\ at'[q] = at[q] /\ (holds[q] # NoTarget => holds[q] # holds[r])
  BY <1>1, <1>5 DEF WatchInv, WatchTyped, Exclusive
<1>6. holds'[r] = NoTarget /\ at'[r] = "idle"
  BY <1>1 DEF WatchInv, WatchTyped
<1>7. Exclusive'
  <2>1. \A p, q \in Instances : holds'[p] = holds'[q] /\ holds'[p] # NoTarget => p = q
    BY <1>5, <1>6 DEF WatchInv, Exclusive
  <2>2. ASSUME NEW u \in Targets, task'[u].status = "new", NEW q \in Instances
        PROVE  /\ holds'[q] # u
               /\ \A i \in DOMAIN wire'[q] : wire'[q][i].key = Key(u) => wire'[q][i].action \notin Outcomes
    <3>1. task[u].status = "new" /\ u # holds[r]
      BY <1>1, <2>2 DEF WatchInv, Exclusive
    <3>2. Key(u) # Key(holds[r])
      BY <1>1, <3>1 DEF RowsDiffer
    <3>3. holds'[q] # u
      BY <1>5, <1>6, <3>1 DEF WatchInv, Exclusive, WatchAssumption
    <3> QED BY <1>4, <3>1, <3>2, <3>3 DEF WatchInv, Exclusive
  <2> QED BY <2>1, <2>2 DEF Exclusive
<1>8. Announced'
  <2> SUFFICES ASSUME NEW p \in Instances, at'[p] = "working"
               PROVE  /\ \A q \in Instances : \A i \in DOMAIN wire'[q] :
                           wire'[q][i].key = Key(holds'[p]) => wire'[q][i].action \notin Outcomes
                      /\ \/ Key(holds'[p]) \in running'
                         \/ \E i \in DOMAIN wire'[p] : wire'[p][i].action = "start" /\ wire'[p][i].key = Key(holds'[p])
    BY DEF Announced
  <2>1. p # r /\ at[p] = "working" /\ holds'[p] = holds[p] /\ wire'[p] = wire[p]
    BY <1>2, <1>5, <1>6
  <2>2. holds[p] \in Targets /\ Key(holds[p]) # Key(holds[r])
    BY <1>1, <1>5, <2>1 DEF WatchInv, WatchTyped, RowsDiffer
  <2> QED BY <1>1, <1>4, <2>1, <2>2 DEF WatchInv, Announced
<1>9. \A q \in Instances : /\ DOMAIN wire[q] \subseteq DOMAIN wire'[q]
                           /\ \A j \in DOMAIN wire[q] : wire'[q][j] = wire[q][j]
  BY <1>2
<1>10. Followed'
  <2> SUFFICES ASSUME crashes = 0, NEW q \in Instances, NEW i \in DOMAIN wire'[q], wire'[q][i].action = "start"
               PROVE  \/ holds'[q] # NoTarget /\ Key(holds'[q]) = wire'[q][i].key
                      \/ \E j \in DOMAIN wire'[q] :
                           i < j /\ wire'[q][j].key = wire'[q][i].key /\ wire'[q][j].action \in Outcomes
    BY <1>1 DEF Followed
  <2>1. i \in DOMAIN wire[q] /\ wire'[q][i] = wire[q][i]
    BY <1>1, <1>2 DEF Outcomes
  <2>2. CASE \E j \in DOMAIN wire[q] :
               i < j /\ wire[q][j].key = wire[q][i].key /\ wire[q][j].action \in Outcomes
    BY <1>9, <2>1, <2>2
  <2>3. CASE holds[q] # NoTarget /\ Key(holds[q]) = wire[q][i].key
    BY <1>1, <1>2, <1>5, <2>1, <2>3
  <2> QED BY <2>1, <2>2, <2>3 DEF WatchInv, Followed
<1>11. ShownIsWorking'
  <2> SUFFICES ASSUME crashes = 0, NEW k \in running
               PROVE  \E q \in Instances :
                        \/ holds'[q] # NoTarget /\ Key(holds'[q]) = k
                        \/ \E i \in DOMAIN wire'[q] : wire'[q][i].key = k /\ wire'[q][i].action \in {"done", "error"}
    BY <1>1 DEF ShownIsWorking
  <2>1. PICK q \in Instances :
          \/ holds[q] # NoTarget /\ Key(holds[q]) = k
          \/ \E i \in DOMAIN wire[q] : wire[q][i].key = k /\ wire[q][i].action \in {"done", "error"}
    BY DEF WatchInv, ShownIsWorking
  <2>2. CASE \E i \in DOMAIN wire[q] : wire[q][i].key = k /\ wire[q][i].action \in {"done", "error"}
    BY <1>9, <2>2
  <2>3. CASE holds[q] # NoTarget /\ Key(holds[q]) = k
    BY <1>1, <1>2, <1>5, <2>3 DEF Outcomes
  <2> QED BY <2>1, <2>2, <2>3
<1> QED BY <1>3, <1>7, <1>8, <1>10, <1>11 DEF WatchInv

\* What is skipped is noted and makes no difference.
LEMMA SkipKeepsRows ==
  ASSUME WatchAssumption, WatchInv, NEW r \in Instances, NEW t \in Targets, Skip(r, t)
  PROVE  WatchInv'
<1> DEFINE last == Len(wire[r]) + 1
<1>1. /\ wire' \in [Instances -> Seq(Notes)]
      /\ \A q \in Instances \ {r} : wire'[q] = wire[q]
      /\ DOMAIN wire'[r] = DOMAIN wire[r] \cup {last}
      /\ \A i \in DOMAIN wire[r] : wire'[r][i] = wire[r][i] /\ i < last
      /\ wire'[r][last] = [action |-> "skip", key |-> Key(t)]
  BY NoteIsLast DEF Skip, WatchInv
<1> HIDE DEF last
<1>2. UNCHANGED <<task, at, holds, running, crashes>>
  BY DEF Skip
<1>3. \A q \in Instances : /\ DOMAIN wire[q] \subseteq DOMAIN wire'[q]
                           /\ \A j \in DOMAIN wire[q] : wire'[q][j] = wire[q][j]
  BY <1>1
<1>4. \A q \in Instances : \A i \in DOMAIN wire'[q] : wire'[q][i].action # "skip" =>
        i \in DOMAIN wire[q] /\ wire'[q][i] = wire[q][i]
  BY <1>1
<1>5. WatchTyped'
  BY <1>1, <1>2 DEF WatchInv, WatchTyped
<1>6. Exclusive'
  BY <1>2, <1>4 DEF WatchInv, Exclusive, Outcomes
<1>7. Announced'
  <2>1. \A p \in Instances : at'[p] = "working" =>
          \A q \in Instances : \A i \in DOMAIN wire'[q] :
            wire'[q][i].key = Key(holds'[p]) => wire'[q][i].action \notin Outcomes
    BY <1>2, <1>4 DEF WatchInv, Announced, Outcomes
  <2>2. \A p \in Instances : at'[p] = "working" =>
          \/ Key(holds'[p]) \in running'
          \/ \E i \in DOMAIN wire'[p] : wire'[p][i].action = "start" /\ wire'[p][i].key = Key(holds'[p])
    BY <1>2, <1>3 DEF WatchInv, Announced
  <2> QED BY <2>1, <2>2 DEF Announced
<1>8. Followed'
  <2> SUFFICES ASSUME crashes = 0, NEW q \in Instances, NEW i \in DOMAIN wire'[q], wire'[q][i].action = "start"
               PROVE  \/ holds'[q] # NoTarget /\ Key(holds'[q]) = wire'[q][i].key
                      \/ \E j \in DOMAIN wire'[q] :
                           i < j /\ wire'[q][j].key = wire'[q][i].key /\ wire'[q][j].action \in Outcomes
    BY <1>2 DEF Followed
  <2>1. i \in DOMAIN wire[q] /\ wire'[q][i] = wire[q][i]
    BY <1>4
  <2> QED BY <1>2, <1>3, <2>1 DEF WatchInv, Followed
<1>9. ShownIsWorking'
  BY <1>2, <1>3 DEF WatchInv, ShownIsWorking
<1> QED BY <1>5, <1>6, <1>7, <1>8, <1>9 DEF WatchInv

\* A note that arrives: the row it takes away is of a task that nobody executes.
LEMMA ArriveKeepsRows ==
  ASSUME WatchAssumption, WatchInv, NEW r \in Instances, Arrive(r)
  PROVE  WatchInv'
<1>1. /\ wire[r] # <<>> /\ Apply(Head(wire[r])) /\ wire' = [wire EXCEPT ![r] = Tail(@)]
      /\ UNCHANGED <<task, at, holds, crashes>>
  BY DEF Arrive
<1> DEFINE n == wire[r][1]
<1>2. /\ wire' \in [Instances -> Seq(Notes)] /\ Head(wire[r]) = n /\ 1 \in DOMAIN wire[r]
      /\ \A q \in Instances \ {r} : wire'[q] = wire[q]
      /\ \A i \in DOMAIN wire'[r] : i \in Nat /\ i + 1 \in DOMAIN wire[r] /\ wire'[r][i] = wire[r][i + 1]
      /\ \A i \in DOMAIN wire[r] : i \in Nat /\ (i # 1 => i - 1 \in DOMAIN wire'[r] /\ wire'[r][i - 1] = wire[r][i])
  BY <1>1, NotesMoveUp DEF WatchInv
<1> HIDE DEF n
<1>3. running' = CASE n.action = "start" -> running \cup {n.key}
                   [] n.action \in Outcomes -> running \ {n.key}
                   [] OTHER -> running
  BY <1>1, <1>2 DEF Apply, Outcomes
<1>4. ASSUME NEW q \in Instances, NEW i \in DOMAIN wire'[q]
      PROVE  \E j \in DOMAIN wire[q] : wire[q][j] = wire'[q][i]
  BY <1>2
<1>5. ASSUME NEW q \in Instances, NEW i \in DOMAIN wire[q], wire[q][i] # n
      PROVE  \E j \in DOMAIN wire'[q] : wire'[q][j] = wire[q][i]
  BY <1>2, <1>5 DEF n
<1>6. WatchTyped'
  BY <1>1, <1>2 DEF WatchInv, WatchTyped
<1>7. Exclusive'
  BY <1>1, <1>4 DEF WatchInv, Exclusive
<1>8. Announced'
  <2> SUFFICES ASSUME NEW p \in Instances, at[p] = "working"
               PROVE  /\ \A q \in Instances : \A i \in DOMAIN wire'[q] :
                           wire'[q][i].key = Key(holds[p]) => wire'[q][i].action \notin Outcomes
                      /\ \/ Key(holds[p]) \in running'
                         \/ \E i \in DOMAIN wire'[p] : wire'[p][i].action = "start" /\ wire'[p][i].key = Key(holds[p])
    BY <1>1 DEF Announced
  <2>1. \A q \in Instances : \A i \in DOMAIN wire'[q] :
          wire'[q][i].key = Key(holds[p]) => wire'[q][i].action \notin Outcomes
    BY <1>4 DEF WatchInv, Announced
  <2>2. n.key = Key(holds[p]) => n.action \notin Outcomes
    BY <1>2 DEF WatchInv, Announced, n
  <2>3. CASE Key(holds[p]) \in running
    BY <1>3, <2>1, <2>2, <2>3
  <2>4. CASE Key(holds[p]) \notin running
    <3>1. PICK i \in DOMAIN wire[p] : wire[p][i].action = "start" /\ wire[p][i].key = Key(holds[p])
      BY <2>4 DEF WatchInv, Announced
    <3>2. CASE wire[p][i] = n
      BY <1>3, <2>1, <3>1, <3>2 DEF Outcomes
    <3>3. CASE wire[p][i] # n
      BY <1>5, <2>1, <3>1, <3>3
    <3> QED BY <3>2, <3>3
  <2> QED BY <2>3, <2>4
<1>9. Followed'
  <2> SUFFICES ASSUME crashes = 0, NEW q \in Instances, NEW i \in DOMAIN wire'[q], wire'[q][i].action = "start"
               PROVE  \/ holds[q] # NoTarget /\ Key(holds[q]) = wire'[q][i].key
                      \/ \E j \in DOMAIN wire'[q] :
                           i < j /\ wire'[q][j].key = wire'[q][i].key /\ wire'[q][j].action \in Outcomes
    BY <1>1 DEF Followed
  <2>1. CASE q # r
    <3>1. wire'[q] = wire[q]
      BY <1>2, <2>1
    <3> QED BY <3>1 DEF WatchInv, Followed
  <2>2. CASE q = r
    <3>1. i \in Nat /\ i + 1 \in DOMAIN wire[r] /\ wire'[r][i] = wire[r][i + 1]
      BY <1>2, <2>2
    <3>2. CASE holds[r] # NoTarget /\ Key(holds[r]) = wire[r][i + 1].key
      BY <2>2, <3>1, <3>2
    <3>3. CASE \E j \in DOMAIN wire[r] :
                 i + 1 < j /\ wire[r][j].key = wire[r][i + 1].key /\ wire[r][j].action \in Outcomes
      <4>1. PICK j \in DOMAIN wire[r] :
              i + 1 < j /\ wire[r][j].key = wire[r][i + 1].key /\ wire[r][j].action \in Outcomes
        BY <3>3
      <4>2. j \in Nat /\ j # 1 /\ j - 1 \in DOMAIN wire'[r] /\ wire'[r][j - 1] = wire[r][j] /\ i < j - 1
        BY <1>2, <3>1, <4>1
      <4> QED BY <2>2, <3>1, <4>1, <4>2
    <3> QED BY <2>2, <3>1, <3>2, <3>3 DEF WatchInv, Followed
  <2> QED BY <2>1, <2>2
<1>10. ShownIsWorking'
  <2> SUFFICES ASSUME crashes = 0, NEW k \in running'
               PROVE  \E q \in Instances :
                        \/ holds[q] # NoTarget /\ Key(holds[q]) = k
                        \/ \E i \in DOMAIN wire'[q] : wire'[q][i].key = k /\ wire'[q][i].action \in {"done", "error"}
    BY <1>1 DEF ShownIsWorking
  <2>1. CASE n.action = "start" /\ n.key = k
    <3>1. CASE holds[r] # NoTarget /\ Key(holds[r]) = k
      BY <3>1
    <3>2. CASE \E j \in DOMAIN wire[r] : 1 < j /\ wire[r][j].key = k /\ wire[r][j].action \in Outcomes
      <4>1. PICK j \in DOMAIN wire[r] : 1 < j /\ wire[r][j].key = k /\ wire[r][j].action \in Outcomes
        BY <3>2
      <4>2. j # 1
        BY <1>2, <4>1
      <4> QED BY <1>2, <4>1, <4>2 DEF Outcomes
    <3> QED BY <1>2, <2>1, <3>1, <3>2 DEF WatchInv, Followed, n
  <2>2. CASE ~(n.action = "start" /\ n.key = k)
    <3>1. k \in running /\ ~(n.action \in Outcomes /\ n.key = k)
      BY <1>3, <2>2 DEF Outcomes
    <3>2. PICK q \in Instances :
            \/ holds[q] # NoTarget /\ Key(holds[q]) = k
            \/ \E i \in DOMAIN wire[q] : wire[q][i].key = k /\ wire[q][i].action \in {"done", "error"}
      BY <3>1 DEF WatchInv, ShownIsWorking
    <3>3. CASE holds[q] # NoTarget /\ Key(holds[q]) = k
      BY <3>3
    <3>4. CASE \E i \in DOMAIN wire[q] : wire[q][i].key = k /\ wire[q][i].action \in {"done", "error"}
      <4>1. PICK i \in DOMAIN wire[q] : wire[q][i].key = k /\ wire[q][i].action \in {"done", "error"}
        BY <3>4
      <4>2. wire[q][i] # n
        BY <3>1, <4>1 DEF Outcomes
      <4> QED BY <1>5, <4>1, <4>2
    <3> QED BY <3>2, <3>3, <3>4
  <2> QED BY <2>1, <2>2
<1> QED BY <1>6, <1>7, <1>8, <1>9, <1>10 DEF WatchInv

\* A crash takes the task and the notes that were not sent.
LEMMA CrashKeepsRows ==
  ASSUME WatchAssumption, WatchInv, NEW r \in Instances, Crash(r)
  PROVE  WatchInv'
<1>1. /\ holds' = [holds EXCEPT ![r] = NoTarget] /\ at' = [at EXCEPT ![r] = "idle"]
      /\ crashes' = crashes + 1 /\ crashes' # 0 /\ crashes' \in Nat /\ UNCHANGED <<task, running>>
  BY DEF Crash, Move, Release, WatchInv, WatchTyped
<1>2. /\ wire' \in [Instances -> Seq(Notes)]
      /\ \A q \in Instances \ {r} : wire'[q] = wire[q]
      /\ \A i \in DOMAIN wire'[r] : i \in DOMAIN wire[r] /\ wire'[r][i] = wire[r][i]
  BY NotesAreCut DEF Crash, WatchInv
<1>3. WatchTyped'
  BY <1>1, <1>2 DEF WatchInv, WatchTyped
<1>4. \A q \in Instances : \A i \in DOMAIN wire'[q] : i \in DOMAIN wire[q] /\ wire'[q][i] = wire[q][i]
  BY <1>2
<1>5. \A q \in Instances : /\ q # r => holds'[q] = holds[q] /\ at'[q] = at[q]
                           /\ q = r => holds'[q] = NoTarget /\ at'[q] = "idle"
  BY <1>1 DEF WatchInv, WatchTyped
<1>6. Exclusive'
  <2>1. \A p, q \in Instances : holds'[p] = holds'[q] /\ holds'[p] # NoTarget => p = q
    BY <1>5 DEF WatchInv, Exclusive
  <2>2. \A t \in Targets : t # NoTarget
    BY DEF WatchAssumption
  <2> QED BY <1>1, <1>4, <1>5, <2>1, <2>2 DEF WatchInv, Exclusive
<1>7. Announced'
  <2> SUFFICES ASSUME NEW p \in Instances, at'[p] = "working"
               PROVE  /\ \A q \in Instances : \A i \in DOMAIN wire'[q] :
                           wire'[q][i].key = Key(holds'[p]) => wire'[q][i].action \notin Outcomes
                      /\ \/ Key(holds'[p]) \in running'
                         \/ \E i \in DOMAIN wire'[p] : wire'[p][i].action = "start" /\ wire'[p][i].key = Key(holds'[p])
    BY DEF Announced
  <2>1. p # r /\ at[p] = "working" /\ holds'[p] = holds[p] /\ wire'[p] = wire[p]
    BY <1>2, <1>5
  <2> QED BY <1>1, <1>4, <2>1 DEF WatchInv, Announced
<1>8. Followed' /\ ShownIsWorking'
  BY <1>1 DEF Followed, ShownIsWorking
<1> QED BY <1>3, <1>6, <1>7, <1>8 DEF WatchInv

LEMMA WatchNextInv ==
  ASSUME WatchAssumption, RowsDiffer, WatchInv, [WatchNext]_watchVars
  PROVE  WatchInv'
<1>1. CASE UNCHANGED watchVars
  BY <1>1 DEF watchVars, WatchInv, WatchTyped, Exclusive, Announced, Followed, ShownIsWorking
<1>2. ASSUME NEW r \in Instances, Perform(r) PROVE WatchInv'
  BY <1>2, ClaimKeepsRows, TakenUpKeepsRows, GoingOnKeepsRows, SettleKeepsRows DEF Perform
<1>3. ASSUME NEW r \in Instances, Arrive(r) \/ Crash(r) \/ \E t \in Targets : Skip(r, t) PROVE WatchInv'
  BY <1>3, ArriveKeepsRows, CrashKeepsRows, SkipKeepsRows
<1> QED BY <1>1, <1>2, <1>3 DEF WatchNext

\* Whoever executes a task and has been heard of has a row, whatever crashes and is taken
\* over; and until something crashes no row is left over.  The tasks have rows of their
\* own: those of a name at two addresses do not (event/activity.go:31).
THEOREM RowsTellTheTruth ==
  ASSUME WatchAssumption, RowsDiffer
  PROVE  WatchSpec => []RowsAreTrue
<1>1. WatchInit => WatchInv
  BY WatchInitInv
<1>2. WatchInv /\ [WatchNext]_watchVars => WatchInv'
  BY WatchNextInv
<1>3. WatchInv => RowsAreTrue
  <2> SUFFICES ASSUME WatchInv PROVE RowsAreTrue
    OBVIOUS
  <2>1. DOMAIN <<>> = {}
    OBVIOUS
  <2>2. WorkingIsShown
    BY <2>1 DEF WatchInv, Announced, WorkingIsShown
  <2> QED BY <2>2 DEF WatchInv, RowsAreTrue
<1> QED BY <1>1, <1>2, <1>3, PTL DEF WatchSpec
=============================================================================
