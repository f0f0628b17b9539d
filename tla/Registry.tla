------------------------------ MODULE Registry -------------------------------
(***************************************************************************)
(* Who may work under a worker's name (src/sdk/registry.go, the start of   *)
(* Run and consumer in src/sdk/sdk.go, src/scripts/register-workers.py).   *)
(* Replicas and provisioning runs register contracts; a run, which may     *)
(* replace them, brackets its registrations with an inventory that is not  *)
(* ready and one that is.  A replica that has registered binds the durable *)
(* consumer of its name, which it must find as it would have made it.      *)
(***************************************************************************)
EXTENDS Naturals, Sequences, FiniteSets

CONSTANTS
  Worker,      \* names, each of one service
  Services,    \* the services in the script's order, a sequence of names
  Contract,    \* execution contracts (Fingerprint); they differ in their kinds
  Limits,      \* AckWait and MaxPending of a worker's settings
  Replica, Provisioning,
  None

Entry      == [contract : Contract, revision : Nat]
Settings   == [kinds : Contract, limits : Limits]
Inventory  == [ready : BOOLEAN, names : SUBSET Worker]
Assignment == [worker : Worker, contract : Contract, limits : Limits \cup {None},
               replace : BOOLEAN]

RegistryAssumption ==
  /\ Services \in Seq(Worker) /\ Services # <<>>
  /\ Replica \cap Provisioning = {}
  /\ None \notin Entry /\ None \notin Settings /\ None \notin Inventory
  /\ None \notin Assignment

Actor == Replica \cup Provisioning

VARIABLES
  registry,   \* ADAMA_REGISTRY: per worker the contract and its revision, or None
  inventory,  \* ADAMA_REGISTRY: None, or whether ready, and the names
  durable,    \* per worker: what its consumer filters by and its limits, or None
  pc,         \* per actor
  job,        \* per actor: the worker it registers, its contract, limits, replace
  found,      \* per actor: the entry its Get returned
  left,       \* per provisioning run: the services still to register
  built,      \* per provisioning run: the contracts of its images
  overlapped  \* history: a run began while another was at work

vars == <<registry, inventory, durable, pc, job, found, left, built, overlapped>>

Registering == {"create", "get", "update"}
Job(w, c, l, replace) == [worker |-> w, contract |-> c, limits |-> l, replace |-> replace]

Idle(p) == pc[p] \in {"idle", "done", "failed"}
Up(r) == pc[r] # "down"

Init ==
  /\ registry \in [Worker -> {None} \cup [contract : Contract, revision : {1}]]
  /\ inventory = None
  /\ durable = [w \in Worker |-> None]
  /\ pc = [a \in Actor |-> IF a \in Replica THEN "down" ELSE "idle"]
  /\ job = [a \in Actor |-> None] /\ found = [a \in Actor |-> None]
  /\ left = [p \in Provisioning |-> <<>>] /\ overlapped = FALSE
  /\ built \in [Provisioning -> [Worker -> Contract]]

-----------------------------------------------------------------------------
(* Register                                                                *)

\* What follows a registration: a replica goes on to its prerequisites, a
\* provisioning run to its next service, or to the inventory after the last.
Registered(a) ==
  IF a \in Replica
  THEN pc' = [pc EXCEPT ![a] = "setup"] /\ UNCHANGED <<job, left>>
  ELSE LET rest == Tail(left[a])
       IN /\ left' = [left EXCEPT ![a] = rest]
          /\ IF rest = <<>>
             THEN pc' = [pc EXCEPT ![a] = "set"] /\ UNCHANGED job
             ELSE /\ pc' = [pc EXCEPT ![a] = "create"]
                  /\ job' = [job EXCEPT ![a].worker = Head(rest),
                                        ![a].contract = built[a][Head(rest)]]

\* What follows an error: the process ends; the script leaves the inventory.
Refused(a) ==
  /\ pc' = [pc EXCEPT ![a] = IF a \in Replica THEN "down" ELSE "failed"]
  /\ UNCHANGED <<job, left>>

Create(a) ==
  LET w == job[a].worker
  IN /\ pc[a] = "create"
     /\ IF registry[w] = None
        THEN /\ registry' = [registry EXCEPT ![w] = [contract |-> job[a].contract, revision |-> 1]]
             /\ Registered(a)
        ELSE /\ pc' = [pc EXCEPT ![a] = "get"] /\ UNCHANGED <<registry, job, left>>
     /\ UNCHANGED <<inventory, durable, found, built>>

\* The contract that is there is the actor's own.
Accepts(a, entry) == entry.contract = job[a].contract

Get(a) ==
  LET entry == registry[job[a].worker]
  IN /\ pc[a] = "get"
     /\ found' = [found EXCEPT ![a] = entry]
     /\ \/ Accepts(a, entry) /\ Registered(a)
        \/ ~Accepts(a, entry) /\ ~job[a].replace /\ Refused(a)
        \/ /\ ~Accepts(a, entry) /\ job[a].replace
           /\ pc' = [pc EXCEPT ![a] = "update"] /\ UNCHANGED <<job, left>>
     /\ UNCHANGED <<registry, inventory, durable, built>>

\* Variant of Current: the entry is put, whatever it holds by now.
CurrentOrNot(a) == TRUE

Current(a) == registry[job[a].worker].revision = found[a].revision

\* The replacement, at the revision that was read.
Update(a) ==
  LET w == job[a].worker
  IN /\ pc[a] = "update"
     /\ IF Current(a)
        THEN /\ registry' = [registry EXCEPT ![w] = [contract |-> job[a].contract,
                                                     revision |-> @.revision + 1]]
             /\ Registered(a)
        ELSE Refused(a) /\ UNCHANGED registry
     /\ UNCHANGED <<inventory, durable, found, built>>

-----------------------------------------------------------------------------
(* A provisioning run                                                      *)

\* Variant of PutInventory: what begins does not touch a ready inventory.
PutReady(ready, names) ==
  inventory' = IF ready \/ inventory = None THEN [ready |-> ready, names |-> names] ELSE inventory

\* SetInventory: a blind put.
PutInventory(ready, names) == inventory' = [ready |-> ready, names |-> names]

\* inventory begin.  Replacing, the operator first stops the replicas.
Begin(p, replace) ==
  /\ pc[p] = "idle"
  /\ overlapped' = (overlapped \/ \E q \in Provisioning : ~Idle(q))
  /\ replace => \A r \in Replica : ~Up(r)
  /\ PutInventory(FALSE, {})
  /\ left' = [left EXCEPT ![p] = Services]
  /\ job' = [job EXCEPT ![p] = Job(Services[1], built[p][Services[1]], None, replace)]
  /\ pc' = [pc EXCEPT ![p] = "create"]
  /\ UNCHANGED <<registry, durable, found, built>>

\* inventory set, with the names the registrations returned.
Declare(p) ==
  /\ pc[p] = "set"
  /\ PutInventory(TRUE, {Services[i] : i \in DOMAIN Services})
  /\ pc' = [pc EXCEPT ![p] = "done"]
  /\ UNCHANGED <<registry, durable, job, found, left, built>>

\* A container fails, or the run is interrupted, at any point.
Abort(p) ==
  /\ pc[p] \in Registering \cup {"set"}
  /\ pc' = [pc EXCEPT ![p] = "failed"]
  /\ UNCHANGED <<registry, inventory, durable, job, found, left, built>>

-----------------------------------------------------------------------------
(* A replica                                                               *)

\* Contracts and limits of its image; the operator restarts the replicas only
\* when no replacement is in progress.
Start(r, w, c, l) ==
  /\ pc[r] = "down"
  /\ \A p \in Provisioning : ~Idle(p) => ~job[p].replace
  /\ job' = [job EXCEPT ![r] = Job(w, c, l, FALSE)]
  /\ pc' = [pc EXCEPT ![r] = "create"]
  /\ UNCHANGED <<registry, inventory, durable, found, left, built>>

\* Required tools are present and Setup succeeds; what else is Stop.
Prepare(r) ==
  /\ pc[r] = "setup"
  /\ pc' = [pc EXCEPT ![r] = "bind"]
  /\ UNCHANGED <<registry, inventory, durable, job, found, left, built>>

Wanted(r) == [kinds |-> job[r].contract, limits |-> job[r].limits]

\* CreateConsumer, which leaves a durable that exists as it is.
Bind(r) ==
  LET w == job[r].worker
  IN /\ pc[r] = "bind"
     /\ durable' = [durable EXCEPT ![w] = IF @ = None THEN Wanted(r) ELSE @]
     /\ pc' = [pc EXCEPT ![r] = "compare"]
     /\ UNCHANGED <<registry, inventory, job, found, left, built>>

\* Variant of Suits: limits are not compared.
SuitsKinds(r, d) == d.kinds = Wanted(r).kinds

Suits(r, d) == d = Wanted(r)

\* The settings of the durable are those the replica would have made.
Compare(r) ==
  /\ pc[r] = "compare"
  /\ pc' = [pc EXCEPT ![r] = IF Suits(r, durable[job[r].worker]) THEN "listening" ELSE "down"]
  /\ UNCHANGED <<registry, inventory, durable, job, found, left, built>>

\* A replica stops or crashes.
Stop(r) ==
  /\ Up(r)
  /\ pc' = [pc EXCEPT ![r] = "down"]
  /\ UNCHANGED <<registry, inventory, durable, job, found, left, built>>

\* The operator migrates a durable, its replicas being down.
Migrate(w) ==
  /\ durable[w] # None
  /\ \A r \in Replica : Up(r) => job[r].worker # w
  /\ durable' = [durable EXCEPT ![w] = None]
  /\ UNCHANGED <<registry, inventory, pc, job, found, left, built>>

Next ==
  \/ \E p \in Provisioning, replace \in BOOLEAN : Begin(p, replace)
  \/ /\ \/ \E a \in Actor : Create(a) \/ Get(a) \/ Update(a)
        \/ \E p \in Provisioning : Declare(p) \/ Abort(p)
        \/ \E r \in Replica :
             \/ \E w \in Worker, c \in Contract, l \in Limits : Start(r, w, c, l)
             \/ Prepare(r) \/ Bind(r) \/ Compare(r) \/ Stop(r)
        \/ \E w \in Worker : Migrate(w)
     /\ UNCHANGED overlapped

Spec == Init /\ [][Next]_vars

-----------------------------------------------------------------------------
(* Properties                                                              *)

\* Every bucket, consumer and process holds something of its kind.
TypeOK ==
  /\ registry \in [Worker -> Entry \cup {None}]
  /\ inventory \in Inventory \cup {None}
  /\ durable \in [Worker -> Settings \cup {None}]
  /\ pc \in [Actor -> Registering \cup
                {"idle", "done", "failed", "down", "set", "setup", "bind", "compare", "listening"}]
  /\ job \in [Actor -> Assignment \cup {None}]
  /\ found \in [Actor -> Entry \cup {None}]
  /\ left \in [Provisioning -> Seq(Worker)]
  /\ built \in [Provisioning -> [Worker -> Contract]] /\ overlapped \in BOOLEAN

\* Replicas of one name that are past their registration share the registered
\* contract, as long as replacements keep to the procedure of sdk/WORKFLOW.md:81.
RunningContractIsRegistered ==
  \A r \in Replica : pc[r] \in {"setup", "bind", "compare", "listening"} =>
    registry[job[r].worker] # None /\ registry[job[r].worker].contract = job[r].contract

\* What the durable of a listening replica delivers is what the registered
\* contract promises (coverage expects no more and no less), under the limits
\* this very replica relies on, whoever made the durable (sdk.go:270).
DurableFeedsTheContract ==
  \A r \in Replica : pc[r] = "listening" =>
    LET w == job[r].worker
    IN durable[w] # None /\ durable[w] = [kinds |-> registry[w].contract, limits |-> job[r].limits]

\* A replica works to the registered contract, on a durable that feeds it.
ListensAsRegistered == RunningContractIsRegistered /\ DurableFeedsTheContract

ReplacesItsRead ==
  \A w \in Worker :
    registry[w] # None /\ registry'[w] # registry[w] =>
      \E p \in Provisioning :
        pc[p] = "update" /\ job[p].replace /\ job[p].worker = w /\ found[p] = registry[w]

\* A contract is replaced only by a run that was told to and read the very
\* contract it replaces, however runs overlap (registry.go:127).
ReplacesWhatItRead == [][ReplacesItsRead]_vars

\* Workers that a ready inventory names have registered, whoever said ready.
ReadyNamesAreRegistered ==
  inventory # None /\ inventory.ready => \A w \in inventory.names : registry[w] # None

\* Of runs that have not overlapped a ready inventory is the work of one complete run:
\* the registered contracts are those of its images.
ReadyDescribesADeployment ==
  inventory # None /\ inventory.ready =>
    \E p \in Provisioning : /\ pc[p] = "done"
                            /\ \A w \in inventory.names : registry[w].contract = built[p][w]

\* A run that has begun and has not completed leaves the inventory unfinished
\* (register-workers.py:33, sdk/WORKFLOW.md:77), until a later run completes.
UnfinishedIsVisible ==
  (\E p \in Provisioning : pc[p] \in Registering \cup {"set"}) =>
    inventory # None /\ ~inventory.ready

\* What the inventory says is true: ready of a complete run that nothing follows, and
\* in any case of workers that have registered.
InventoryIsTrue ==
  /\ ReadyNamesAreRegistered
  /\ ~overlapped => ReadyDescribesADeployment /\ UnfinishedIsVisible
=============================================================================
