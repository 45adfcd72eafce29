------------------------------ MODULE Runtimes ------------------------------
(***************************************************************************)
(* The runtime manager of the gateway (internal/runtimes) with the driver   *)
(* and owner of its runtimes, the publication half of the catalogue         *)
(* (internal/catalog) and the operation records of the server store.        *)
(*                                                                         *)
(* The manager brings each configured downstream server to its desired      *)
(* state.  A trigger (an edit through the API, a credential callback, the   *)
(* start of the process) bumps the generation of the server, withdraws the  *)
(* routes of the candidates it finds and queues work; a bounded number of   *)
(* workers stop the previous runtime, start a candidate, publish its        *)
(* catalogue and complete the operation.  Runtimes die on their own, stops  *)
(* stay unconfirmed, storage refuses or fails, and the process drains.      *)
(*                                                                         *)
(* One action is one section under Manager.mu, ActiveRegistry.mu or the     *)
(* locks of the driver, with the reads before it that commute with others.  *)
(***************************************************************************)
EXTENDS Naturals, FiniteSets, FiniteSetsExt

CONSTANTS
    Servers,            \* configured servers; a server names its start-up operation
    Edits,              \* behavioural edits of the API; an edit names its operation
    Callbacks,          \* operationless triggers of the credential services
    MaxReconciliations, \* server_reconciliations, 4 in the code
    CompletionAttempts, \* ReconciliationCompletionAttempts, 4 in the code
    MaxFaults,          \* bound on failures of storage, runtimes and stops
    MaxRuntimes,        \* bound on runtimes started: no retry fires beyond it
    None

ASSUME LimitsAssumption ==
    /\ MaxReconciliations \in Nat \ {0}
    /\ CompletionAttempts \in Nat \ {0}
    /\ MaxFaults \in Nat
    /\ MaxRuntimes \in Nat

ASSUME NamesAssumption ==
    /\ Servers \cap Edits = {} /\ Servers \cap Callbacks = {} /\ Edits \cap Callbacks = {}
    /\ None \notin Servers \cup Edits \cup Callbacks
    /\ IsFiniteSet(Servers)

(* A candidate: a runtime identifier, the generation it is for, what it runs. *)
Candidate == [id : Nat, gen : Nat, version : Nat]

ASSUME NoneIsNoCandidate == None \notin Candidate

VARIABLES
    desired,    \* servers table: enabled, version (what sameFence compares), revision
    ops,        \* server_operations table: state of each operation
    call,       \* threads that trigger: API handlers, callbacks, Start
    entry,      \* Manager.entries
    work,       \* the worker of a server and its reconciliationWork
    inUse,      \* Manager.globalInUse
    stoppers,   \* goroutines that stop one runtime
    owner,      \* RuntimeOwner.byServer
    handles,    \* ConcreteDriver.handles
    quiet,      \* handles whose exit is no longer reported (stopping, failureOnce)
    route,      \* ActiveRegistry.servers
    lock,       \* ActiveRegistry.mu while a publication holds it
    drain,      \* Manager.Drain and Composition.beginDrain, awaitDrain
    issued,     \* runtime identifiers given out by NewID
    faults      \* failures so far, bounded by MaxFaults

vars == <<desired, ops, call, entry, work, inUse, stoppers, owner, handles, quiet,
          route, lock, drain, issued, faults>>
manager == <<entry, work, inUse>>
driver  == <<owner, handles, quiet>>
catalog == <<route, lock>>
store   == <<desired, ops>>

Ops     == Servers \cup Edits
Callers == Ops \cup Callbacks

Terminal    == {"succeeded", "failed", "superseded"}
Nonterminal == {"scheduled", "running"}

catalogDraining == drain.pc # "none"
draining        == drain.pc \in {"stopping", "waiting", "done"}

(* A failure the code handles; TLC explores at most MaxFaults of them.      *)
Fault   == faults < MaxFaults /\ faults' = faults + 1
NoFault == faults' = faults

------------------------------------------------------------------------------
(* State.                                                                   *)

NoEntry == [gen |-> 0, pending |-> FALSE, pendingDisplaced |-> FALSE, operation |-> None,
            unsettled |-> FALSE, activating |-> None, active |-> None, blocked |-> None,
            failure |-> FALSE, timer |-> None, status |-> "inactive"]

Idle == [pc |-> "idle", gen |-> 0, op |-> None, cleanupOnly |-> FALSE, displaced |-> FALSE,
         settled |-> FALSE, failed |-> FALSE, attempt |-> FALSE, snap |-> None, cand |-> None,
         outcome |-> None, started |-> FALSE, target |-> None, next |-> None,
         bad |-> FALSE, verified |-> FALSE, retry |-> FALSE, tries |-> 0]

Init ==
    /\ desired = [s \in Servers |-> [on |-> TRUE, version |-> 0, rev |-> 0]]
    /\ ops = [o \in Ops |-> IF o \in Servers THEN "scheduled" ELSE "none"]
    /\ call = [c \in Callers |->
                 [pc |-> IF c \in Servers THEN "trigger" ELSE "idle",
                  server |-> IF c \in Servers THEN c ELSE None,
                  rev |-> 0, off |-> FALSE, gen |-> 0, targets |-> {}]]
    /\ entry = [s \in Servers |-> NoEntry]
    /\ work = [s \in Servers |-> Idle]
    /\ inUse = 0
    /\ stoppers = {}
    /\ owner = [s \in Servers |-> None]
    /\ handles = {} /\ quiet = {}
    /\ route = [s \in Servers |-> None]
    /\ lock = None
    /\ drain = [pc |-> "none", before |-> 0, cands |-> {}, verified |-> {}, unconfirmed |-> 0]
    /\ issued = 0
    /\ faults = 0

------------------------------------------------------------------------------
(* Helpers of the manager.                                                  *)

Current(s, gen) == entry[s].gen = gen /\ ~draining

(* Manager.Current: the candidate holds the generation and a place.         *)
Live(s, cand) == Current(s, cand.gen) /\ cand \in {entry[s].activating, entry[s].active}

Owned(s, cand) == owner[s] = cand.id

NewWork(e) ==
    [Idle EXCEPT !.pc = IF e.pendingDisplaced THEN "stopPrevious" ELSE "read",
                 !.gen = e.gen, !.op = e.operation,
                 !.cleanupOnly = e.pendingDisplaced, !.displaced = e.pendingDisplaced]

Begun(e) ==
    [e EXCEPT !.pending = FALSE, !.operation = None, !.pendingDisplaced = FALSE,
              !.status = IF e.active # None \/ e.blocked # None THEN "stopping" ELSE "activating"]

(* startAvailableLocked, for the entries en, workers wk and occupancy n that *)
(* the caller leaves: it starts every server it may, in the order of a map.  *)
StartAvailable(en, wk, n) ==
    LET startable == {s \in Servers : en[s].pending /\ ~en[s].unsettled /\ wk[s].pc = "idle"}
        places    == IF n >= MaxReconciliations THEN 0 ELSE MaxReconciliations - n
        count     == IF draining THEN 0
                     ELSE IF Cardinality(startable) < places THEN Cardinality(startable) ELSE places
    IN \E S \in kSubset(count, startable) :
         /\ entry' = [s \in Servers |-> IF s \in S THEN Begun(en[s]) ELSE en[s]]
         /\ work' = [s \in Servers |-> IF s \in S THEN NewWork(en[s]) ELSE wk[s]]
         /\ inUse' = n + count

(* releaseLocked of a worker that has returned.                             *)
Release(s, en) ==
    StartAvailable(en, [work EXCEPT ![s] = Idle], IF inUse > 0 THEN inUse - 1 ELSE 0)

(* A worker on its way out keeps what the settlement of its work needs.     *)
Leaving(w, pc) ==
    [Idle EXCEPT !.pc = pc, !.gen = w.gen, !.op = w.op, !.cleanupOnly = w.cleanupOnly,
                 !.displaced = w.displaced, !.settled = w.settled, !.failed = w.failed,
                 !.attempt = w.attempt, !.cand = w.cand]
Stale(w)  == Leaving(w, "stale")
Ending(w) == Leaving(w, IF w.cand = None THEN "finish" ELSE "clear")

Step(s, w) == work' = [work EXCEPT ![s] = w]
Enter(s, e) == entry' = [entry EXCEPT ![s] = e]

------------------------------------------------------------------------------
(* The active registry.                                                     *)

Unpublished(cand) == [id |-> cand.id, gen |-> cand.gen, live |-> FALSE]
Published(cand)   == [id |-> cand.id, gen |-> cand.gen, live |-> TRUE]

Routes(s, cand) == route[s] # None /\ route[s].id = cand.id /\ route[s].gen = cand.gen

(* WithdrawAudited: only the exact candidate, or a server without routes.   *)
Withdraw(s, cand) ==
    IF ~catalogDraining /\ (route[s] = None \/ Routes(s, cand))
    THEN [route EXCEPT ![s] = Unpublished(cand)] ELSE route

(* The withdrawal writes audit evidence, and the write may fail.            *)
WithdrawIsAudited(s, cand) ==
    ~catalogDraining /\ (route[s] = None \/ (Routes(s, cand) /\ route[s].live))

------------------------------------------------------------------------------
(* ConcreteDriver.Stop: close the handle, then release the ownership.       *)

CloseHandle(s, cand) ==
    /\ cand \in handles
    /\ handles' = handles \ {cand}
    /\ quiet' = quiet \ {cand}
    /\ UNCHANGED owner /\ NoFault

CloseFails(s, cand) ==
    /\ cand \in handles
    /\ Fault
    /\ quiet' = quiet \cup {cand}
    /\ UNCHANGED <<owner, handles>>

NoHandle(s, cand) ==
    /\ cand \notin handles
    /\ UNCHANGED driver /\ NoFault

ReleaseOwner(s, cand) ==
    /\ owner' = [owner EXCEPT ![s] = IF Owned(s, cand) THEN None ELSE @]
    /\ UNCHANGED <<handles, quiet>> /\ NoFault

------------------------------------------------------------------------------
(* Callers: behavioural edits, credential callbacks and Start.              *)

(* Composition.Start: Manager.Start returns before requests are served.     *)
Serving == \A s \in Servers : call[s].pc = "done"

(* supersedeNonterminalTx.                                                  *)
Superseded(s) ==
    [o \in Ops |-> IF call[o].server = s /\ ops[o] \in Nonterminal THEN "superseded" ELSE ops[o]]

(* Repository.Patch: a behavioural edit supersedes what is under way and    *)
(* schedules an operation of its own.                                       *)
Patch(c, s) ==
    /\ c \in Edits /\ call[c].pc = "idle" /\ Serving
    /\ \E toggle \in BOOLEAN :
         LET d  == desired[s]
             on == IF toggle THEN ~d.on ELSE d.on
         IN /\ desired' = [desired EXCEPT ![s] =
                              [on |-> on, version |-> IF toggle THEN d.version ELSE d.version + 1,
                               rev |-> d.rev + 1]]
            /\ ops' = [Superseded(s) EXCEPT ![c] = "scheduled"]
            /\ call' = [call EXCEPT ![c] = [@ EXCEPT !.pc = "trigger", !.server = s,
                                                     !.rev = d.rev + 1, !.off = ~on]]
    /\ UNCHANGED <<manager, stoppers, driver, catalog, drain, issued, faults>>

(* A token refresh: SetCredentialState fences the server, unless it drains.  *)
Fenced(s) == IF draining THEN entry[s] ELSE [entry[s] EXCEPT !.gen = @ + 1]

RefreshBegins(c, s) ==
    /\ c \in Callbacks /\ call[c].pc = "idle" /\ Serving
    /\ Enter(s, Fenced(s))
    /\ call' = [call EXCEPT ![c].pc = "refresh", ![c].server = s]
    /\ UNCHANGED <<store, work, inUse, stoppers, driver, catalog, drain, issued, faults>>

(* The new token is committed and triggers a reconciliation, or the server   *)
(* waits for an authorization.                                               *)
RefreshEnds(c) ==
    LET s == call[c].server
    IN /\ call[c].pc = "refresh"
       /\ \/ /\ NoFault /\ UNCHANGED entry
             /\ desired' = [desired EXCEPT ![s].version = @ + 1]
             /\ call' = [call EXCEPT ![c].pc = "trigger"]
          \/ /\ Fault /\ UNCHANGED desired
             /\ Enter(s, Fenced(s))
             /\ call' = [call EXCEPT ![c].pc = "rejected"]
       /\ UNCHANGED <<ops, work, inUse, stoppers, driver, catalog, drain, issued>>

(* Manager.Fence before a replacement that then fails and recovers.         *)
FenceServer(c, s) ==
    /\ c \in Callbacks /\ call[c].pc = "idle" /\ Serving
    /\ Enter(s, [entry[s] EXCEPT !.gen = @ + 1])
    /\ call' = [call EXCEPT ![c].pc = "trigger", ![c].server = s]
    /\ UNCHANGED <<store, work, inUse, stoppers, driver, catalog, drain, issued, faults>>

(* The candidates whose routes a trigger withdraws.                         *)
Targets(e) == {e.active, e.activating} \ {None}

Triggered(e, op) ==
    [e EXCEPT !.gen = @ + 1, !.pending = TRUE, !.timer = None,
              !.operation = IF op = None THEN @ ELSE op,
              !.pendingDisplaced = op = None /\ e.operation # None]

(* TriggerWithCause up to the first unlock.                                 *)
Trigger(c) ==
    LET s  == call[c].server
        e  == entry[s]
        w  == work[s]
        op == IF c \in Ops THEN c ELSE None
    IN /\ call[c].pc = "trigger"
       /\ IF draining
          THEN call' = [call EXCEPT ![c].pc = "done"] /\ UNCHANGED <<entry, work>>
          ELSE /\ Enter(s, Triggered(e, op))
               /\ Step(s, IF w.pc # "idle" /\ w.op # None /\ ~w.settled
                          THEN [w EXCEPT !.displaced = TRUE] ELSE w)
               /\ call' = [call EXCEPT ![c] =
                             [@ EXCEPT !.pc = "withdraw", !.gen = e.gen + 1,
                                       !.targets = Targets(e)]]
       /\ UNCHANGED <<store, inUse, stoppers, driver, catalog, drain, issued, faults>>

(* publisher.Withdraw outside the manager's lock.                           *)
TriggerWithdraws(c) ==
    /\ call[c].pc = "withdraw"
    /\ lock = None \/ catalogDraining
    /\ \E cand \in call[c].targets :
         /\ route' = Withdraw(call[c].server, cand)
         /\ call' = [call EXCEPT ![c].targets = @ \ {cand}]
    /\ UNCHANGED <<store, manager, stoppers, driver, lock, drain, issued, faults>>

TriggerReturns(c) ==
    /\ call[c].pc = "withdraw" /\ call[c].targets = {}
    /\ StartAvailable(entry, work, inUse)
    /\ call' = [call EXCEPT ![c].pc = "done", ![c].gen = 0]
    /\ UNCHANGED <<store, stoppers, driver, catalog, drain, issued, faults>>

------------------------------------------------------------------------------
(* A worker: reconcile up to the choice of a candidate.                     *)

ReadServer(s) ==
    /\ work[s].pc = "read"
    /\ \/ NoFault /\ Step(s, [work[s] EXCEPT !.pc = "record", !.snap = desired[s]])
       \/ Fault /\ Step(s, [work[s] EXCEPT !.pc = "record"])
    /\ UNCHANGED <<store, call, entry, inUse, stoppers, driver, catalog, drain, issued>>


(* Admission was busy: the same work waits for a timer.                     *)
Requeued(e, w) == [e EXCEPT !.pending = FALSE, !.operation = w.op, !.timer = e.gen,
                            !.status = "retry"]

(* RecordReconciliation and the section that judges its result.             *)
RecordAttempt(s) ==
    LET w == work[s]
        e == entry[s]
        mine == e.gen = w.gen
    IN /\ w.pc = "record"
       /\ \/ /\ NoFault /\ UNCHANGED entry
             /\ Step(s, [w EXCEPT !.pc = IF Current(s, w.gen) THEN "begin" ELSE "finish",
                                  !.attempt = TRUE])
          \/ /\ Fault           \* admission busy
             /\ Enter(s, IF mine THEN Requeued(e, w) ELSE e)
             /\ Step(s, [w EXCEPT !.pc = "finish"])
          \/ /\ Fault           \* any other error
             /\ Enter(s, IF mine THEN [e EXCEPT !.pending = FALSE, !.status = "degraded"] ELSE e)
             /\ Step(s, [w EXCEPT !.pc = "finish", !.failed = TRUE])
       /\ UNCHANGED <<store, call, inUse, stoppers, driver, catalog, drain, issued>>

(* transitionCurrent to running.                                            *)
BeginOperation(s) ==
    LET w  == work[s]
        ok == w.op # None => \/ ops[w.op] = "running"
                             \/ Current(s, w.gen) /\ ops[w.op] = "scheduled"
    IN /\ w.pc = "begin"
       /\ \/ /\ ok /\ NoFault
             /\ ops' = [o \in Ops |-> IF o = w.op THEN "running" ELSE ops[o]]
             /\ Step(s, [w EXCEPT !.pc = "stopPrevious"])
          \/ /\ IF ok THEN w.op # None /\ Fault ELSE NoFault
             /\ UNCHANGED ops
             /\ Step(s, Stale(w))
       /\ UNCHANGED <<desired, call, entry, inUse, stoppers, driver, catalog, drain, issued>>

\* Mutant: a runtime is stopped before its route is withdrawn.
StoppingUnwithdrawn(w, cand, next) ==
    [w EXCEPT !.pc = "stop", !.target = cand, !.next = next, !.bad = FALSE]
Stopping(w, cand, next) == [w EXCEPT !.pc = "withdraw", !.target = cand, !.next = next, !.bad = FALSE]
Failing(w, retry) == [Leaving(w, "fail") EXCEPT !.retry = retry]

(* stopPrevious: a blocked stop comes before the active runtime.            *)
StopPrevious(s) ==
    LET w == work[s]
        e == entry[s]
        previous == IF e.blocked # None THEN e.blocked ELSE e.active
    IN /\ w.pc = "stopPrevious"
       /\ Enter(s, IF e.blocked = None THEN [e EXCEPT !.active = None] ELSE e)
       /\ Step(s, IF previous # None
                  THEN Stopping(w, previous, IF w.cleanupOnly THEN "cleaned" ELSE "decide")
                  ELSE [w EXCEPT !.pc = IF w.cleanupOnly THEN "finish" ELSE "decide"])
       /\ UNCHANGED <<store, call, inUse, stoppers, driver, catalog, drain, issued, faults>>

(* The rest of reconcile for a server that is to run: a fresh candidate.    *)
ChooseCandidate(s) ==
    LET w == work[s]
        cand == [id |-> issued + 1, gen |-> w.gen, version |-> w.snap.version]
    IN /\ w.pc = "decide" /\ w.snap # None /\ w.snap.on
       /\ IF Current(s, w.gen) /\ entry[s].activating = None
          THEN /\ Enter(s, [entry[s] EXCEPT !.activating = cand, !.failure = FALSE])
               /\ Step(s, [w EXCEPT !.pc = "resolve", !.cand = cand])
               /\ issued' = issued + 1
          ELSE /\ Step(s, Stale(w))
               /\ UNCHANGED <<entry, issued>>
       /\ UNCHANGED <<store, call, inUse, stoppers, driver, catalog, drain, faults>>

(* finalizeCatalogLifecycle of a disable operation, and success.            *)
RetireServer(s) ==
    LET w == work[s]
        finalize == w.op # None /\ call[w.op].off
        refused  == catalogDraining \/ desired[s].rev # w.snap.rev \/ desired[s].version # w.snap.version
    IN /\ w.pc = "decide" /\ w.snap # None /\ ~w.snap.on
       /\ finalize => lock = None
       /\ \/ /\ NoFault /\ ~(finalize /\ refused)
             /\ route' = IF finalize /\ route[s] # None THEN [route EXCEPT ![s].live = FALSE] ELSE route
             /\ Step(s, [w EXCEPT !.pc = "succeed"])
          \/ /\ finalize
             /\ IF refused THEN NoFault ELSE Fault
             /\ UNCHANGED route
             /\ Step(s, Failing(w, FALSE))
       /\ UNCHANGED <<store, call, entry, inUse, stoppers, driver, lock, drain, issued>>

(* The server could not be read, or its authority cannot be.                *)
CannotDecide(s) ==
    LET w == work[s]
    IN /\ w.pc = "decide"
       /\ \/ w.snap = None /\ NoFault /\ Step(s, Failing(w, FALSE))
          \/ w.snap # None /\ Fault /\ Step(s, Failing(w, TRUE))
       /\ UNCHANGED <<store, call, entry, inUse, stoppers, driver, catalog, drain, issued>>

------------------------------------------------------------------------------
(* A worker: activateCurrentCandidate.                                      *)

(* AuthorityResolver.Resolve and the check of Current after it.             *)
ResolveAuthority(s) ==
    LET w == work[s]
    IN /\ w.pc = "resolve"
       /\ \/ /\ NoFault
             /\ Step(s, IF Live(s, w.cand) THEN [w EXCEPT !.pc = "admit"] ELSE Stale(w))
          \/ /\ Fault
             /\ \E outcome \in {"retry", "final"} :
                  Step(s, [w EXCEPT !.pc = "fence", !.outcome = outcome])
       /\ UNCHANGED <<store, call, entry, inUse, stoppers, driver, catalog, drain, issued>>

(* RuntimeOwner.Admit: one runtime per server.                              *)
AdmitRuntime(s) ==
    LET w == work[s]
    IN /\ w.pc = "admit"
       /\ IF owner[s] = None
          THEN /\ owner' = [owner EXCEPT ![s] = w.cand.id]
               /\ Step(s, [w EXCEPT !.pc = "construct", !.started = TRUE])
          ELSE /\ UNCHANGED owner
               /\ Step(s, [w EXCEPT !.pc = "fence", !.started = TRUE, !.outcome = "retry"])
       /\ UNCHANGED <<store, call, entry, inUse, stoppers, handles, quiet, catalog, drain,
                      issued, faults>>

(* construct and Negotiate; a failure cleans up after itself if it can.  The *)
(* drain cancels the context both run under.                                 *)
ConstructRuntime(s) ==
    LET w == work[s]
    IN /\ w.pc = "construct"
       /\ \/ /\ NoFault
             /\ handles' = handles \cup {w.cand} /\ UNCHANGED <<owner, quiet>>
             /\ Step(s, [w EXCEPT !.pc = "publish", !.outcome = "active"])
          \/ /\ IF draining THEN NoFault ELSE Fault
             /\ owner' = [owner EXCEPT ![s] = None] /\ UNCHANGED <<handles, quiet>>
             /\ \E outcome \in {"retry", "final"} :
                  Step(s, [w EXCEPT !.pc = "fence", !.outcome = outcome])
          \/ /\ Fault           \* cleanupConstruction cannot confirm the close
             /\ handles' = handles \cup {w.cand} /\ quiet' = quiet \cup {w.cand}
             /\ UNCHANGED owner
             /\ \E outcome \in {"retry", "final"} :
                  Step(s, [w EXCEPT !.pc = "fence", !.outcome = outcome])
       /\ UNCHANGED <<store, call, entry, inUse, stoppers, catalog, drain, issued>>

(* The conditions of Publish and of its transaction.                        *)
MayPublish(s, w) ==
    /\ ~catalogDraining /\ Live(s, w.cand)
    /\ desired[s].rev = w.snap.rev /\ desired[s].version = w.snap.version

Unlock == lock' = None

(* Publish up to the durable commit, which keeps the registry locked, or the *)
(* failure path of the coordinator, which leaves no route of the candidate.  *)
PublishCommit(s) ==
    LET w == work[s]
        admitted == MayPublish(s, w)
    IN /\ w.pc = "publish" /\ lock = None
       /\ \/ /\ admitted /\ NoFault
             /\ lock' = s /\ UNCHANGED route
             /\ Step(s, [w EXCEPT !.pc = "recheck"])
          \/ /\ IF admitted THEN Fault ELSE NoFault
             /\ UNCHANGED lock /\ route' = Withdraw(s, w.cand)
             /\ Step(s, [w EXCEPT !.pc = "fence"])
          \/ /\ Fault           \* the traversal finds the runtime failed
             /\ UNCHANGED lock /\ route' = Withdraw(s, w.cand)
             /\ \E outcome \in {"retry", "final"} :
                  Step(s, [w EXCEPT !.pc = "fence", !.outcome = outcome])
       /\ UNCHANGED <<store, call, entry, inUse, stoppers, driver, drain, issued>>

(* Publish between commit and installation: the last check of Current.      *)
PublishRecheck(s) ==
    LET w == work[s]
        current == ~catalogDraining /\ Live(s, w.cand)
    IN /\ w.pc = "recheck"
       /\ \/ /\ current /\ NoFault /\ UNCHANGED lock
             /\ Step(s, [w EXCEPT !.pc = "install"])
          \/ /\ IF current THEN Fault ELSE NoFault
             /\ Unlock
             /\ Step(s, Stopping([w EXCEPT !.outcome = IF current THEN "storage" ELSE "stale"],
                                 w.cand, "durable"))
       /\ UNCHANGED <<store, call, entry, inUse, stoppers, driver, route, drain, issued>>

(* routes.replace and the audit record of the publication.                  *)
PublishInstall(s) ==
    LET w == work[s]
    IN /\ w.pc = "install"
       /\ Unlock
       /\ \/ /\ NoFault
             /\ route' = [route EXCEPT ![s] = Published(w.cand)]
             /\ Step(s, [w EXCEPT !.pc = "fence"])
          \/ /\ Fault           \* the record fails: withdrawn under the same lock
             /\ route' = [route EXCEPT ![s] = Unpublished(w.cand)]
             /\ Step(s, Stopping([w EXCEPT !.outcome = "storage"], w.cand, "durable"))
       /\ UNCHANGED <<store, call, entry, inUse, stoppers, driver, drain, issued>>

(* sameFence and current after the driver and the catalogue have answered.  *)
CheckFence(s) ==
    LET w == work[s]
        d == desired[s]
        same == w.snap.on = d.on /\ w.snap.version = d.version /\ Current(s, w.gen)
    IN /\ w.pc = "fence"
       /\ \/ /\ same /\ NoFault
             /\ Step(s, CASE w.outcome = "active" -> [w EXCEPT !.pc = "succeed"]
                          [] w.outcome # "active" /\ w.started -> Stopping(w, w.cand, w.outcome)
                          [] OTHER -> Failing(w, w.outcome = "retry"))
          \/ /\ IF same THEN Fault ELSE NoFault
             /\ Step(s, IF w.started THEN Stopping(w, w.cand, "stale") ELSE Stale(w))
       /\ UNCHANGED <<store, call, entry, inUse, stoppers, driver, catalog, drain, issued>>

------------------------------------------------------------------------------
(* A worker: stopCandidate, and driver.Stop alone where next is in Raw.     *)

Raw == {"durable", "undone"}

WorkerWithdraws(s) ==
    LET w == work[s]
    IN /\ w.pc = "withdraw"
       /\ lock = None \/ catalogDraining
       /\ route' = Withdraw(s, w.target)
       /\ \/ NoFault /\ Step(s, [w EXCEPT !.pc = "stop"])
          \/ /\ WithdrawIsAudited(s, w.target) /\ w.next \notin Raw /\ Fault
             /\ Step(s, [w EXCEPT !.pc = "stop", !.bad = TRUE])
       /\ UNCHANGED <<store, call, entry, inUse, stoppers, driver, lock, drain, issued>>

WorkerStops(s) ==
    LET w == work[s]
    IN /\ w.pc = "stop"
       /\ \/ CloseHandle(s, w.target) /\ Step(s, [w EXCEPT !.pc = "release"])
          \/ /\ CloseFails(s, w.target) \/ NoHandle(s, w.target)
             /\ Step(s, [w EXCEPT !.pc = "stopped",
                                  !.verified = w.next \notin Raw /\ ~Owned(s, w.target) /\ ~w.bad])
       /\ UNCHANGED <<store, call, entry, inUse, stoppers, catalog, drain, issued>>

WorkerReleases(s) ==
    LET w == work[s]
    IN /\ w.pc = "release"
       /\ ReleaseOwner(s, w.target)
       /\ Step(s, [w EXCEPT !.pc = "stopped", !.verified = ~w.bad])
       /\ UNCHANGED <<store, call, entry, inUse, stoppers, catalog, drain, issued>>

(* rememberBlockedStop and its variants in finishDurableOnly and finishSuccess. *)
Remembered(e, w) ==
    [e EXCEPT !.blocked = w.target,
              !.pending = IF w.next = "durable" THEN FALSE ELSE @,
              !.status = IF w.next \in Raw THEN "degraded" ELSE @]

(* Where the stop was called from goes on: stopPrevious, rememberBlockedStop *)
(* or the end of finishDurableOnly.                                          *)
Stopped(s) ==
    LET w == work[s]
        e == entry[s]
        confirmed == IF w.next \in {"decide", "cleaned"} /\ e.blocked = w.target
                     THEN [e EXCEPT !.blocked = None]
                     ELSE IF w.next = "durable" /\ w.outcome = "storage" /\ Current(s, w.gen)
                     THEN [e EXCEPT !.status = "degraded"] ELSE e
    IN /\ w.pc = "stopped"
       /\ Enter(s, IF w.verified THEN confirmed ELSE Remembered(e, w))
       /\ Step(s, CASE w.next = "stale" -> Stale(w)
                    [] w.next \in Raw -> Ending(w)
                    [] w.next = "cleaned" -> Ending([w EXCEPT !.failed = ~w.verified])
                    [] w.next = "decide" -> IF w.verified
                                            THEN [w EXCEPT !.pc = "decide", !.target = None,
                                                           !.next = None, !.verified = FALSE]
                                            ELSE Failing(w, FALSE)
                    [] OTHER -> Failing(w, w.verified /\ w.next = "retry"))
       /\ UNCHANGED <<store, call, inUse, stoppers, driver, catalog, drain, issued, faults>>

------------------------------------------------------------------------------
(* A worker: completion.                                                    *)

(* finishSuccess, first section: the candidate becomes the active runtime.  *)
Succeed(s) ==
    LET w == work[s]
        e == entry[s]
        stale == ~Current(s, w.gen)
        lost  == w.cand # None /\ e.failure
    IN /\ w.pc = "succeed"
       /\ Enter(s, IF stale THEN e
                   ELSE IF lost THEN [e EXCEPT !.failure = FALSE]
                   ELSE IF w.cand = None THEN [e EXCEPT !.status = "inactive"]
                   ELSE [e EXCEPT !.active = w.cand, !.activating = None, !.status = "active"])
       /\ Step(s, CASE stale /\ w.cand = None -> Stale(w)
                    [] stale /\ w.cand # None -> Stopping(w, w.cand, "stale")
                    [] ~stale /\ lost -> Stopping(w, w.cand, "retry")
                    [] OTHER -> [w EXCEPT !.pc = "complete", !.tries = 0])
       /\ UNCHANGED <<store, call, inUse, stoppers, driver, catalog, drain, issued, faults>>

\* Mutant: an operation is completed whatever its record says.
CompletableAny(w) == TRUE

(* CompleteReconciliation: the operation record admits the transition.      *)
Completable(w) == w.op # None => ops[w.op] = "running"
Completed(w, state) == [o \in Ops |-> IF o = w.op THEN state ELSE ops[o]]

(* persistCompletionLocked, the result: refused by a busy store, or failed. *)
CompletionRefused(w) == Fault /\ w.tries + 1 < CompletionAttempts
CompletionFails(w) == IF Completable(w) THEN Fault ELSE NoFault

(* finishSuccess, second section, displaced: by a newer generation or by a   *)
(* drain, seen at once or after a wait of persistCompletionLocked.           *)
CompletionDisplaced(s) ==
    LET w == work[s]
        e == entry[s]
        mine == w.cand # None /\ (w.tries > 0 \/ e.active = w.cand)
    IN /\ w.pc = "complete" /\ ~Current(s, w.gen)
       /\ Enter(s, IF mine /\ w.tries = 0 THEN [e EXCEPT !.active = None] ELSE e)
       /\ Step(s, IF mine THEN Stopping(w, w.cand, "stale") ELSE Stale(w))
       /\ UNCHANGED <<store, call, inUse, stoppers, driver, catalog, drain, issued, faults>>

CompleteSuccess(s) ==
    LET w == work[s]
        e == entry[s]
    IN /\ w.pc = "complete" /\ Current(s, w.gen)
       /\ \/ /\ Completable(w) /\ NoFault
             /\ ops' = Completed(w, "succeeded") /\ UNCHANGED entry
             /\ Step(s, Ending([w EXCEPT !.settled = TRUE]))
          \/ /\ CompletionRefused(w)
             /\ UNCHANGED <<ops, entry>>
             /\ Step(s, [w EXCEPT !.tries = @ + 1])
          \/ /\ CompletionFails(w)
             /\ UNCHANGED ops
             /\ Enter(s, [e EXCEPT !.gen = @ + 1, !.active = None, !.status = "degraded"])
             /\ Step(s, IF w.cand = None THEN Ending([w EXCEPT !.failed = TRUE])
                        ELSE Stopping([w EXCEPT !.failed = TRUE], w.cand, "undone"))
       /\ UNCHANGED <<desired, call, inUse, stoppers, driver, catalog, drain, issued>>

(* finishFailure.                                                           *)
CompleteFailure(s) ==
    LET w == work[s]
        e == entry[s]
    IN /\ w.pc = "fail"
       /\ \/ /\ ~Current(s, w.gen) /\ NoFault
             /\ UNCHANGED <<ops, entry>>
             /\ Step(s, Stale(w))
          \/ /\ Current(s, w.gen) /\ Completable(w) /\ NoFault
             /\ ops' = Completed(w, "failed")
             /\ Enter(s, [e EXCEPT !.status = IF w.retry THEN "retry" ELSE "degraded",
                                   !.timer = IF w.retry THEN e.gen ELSE @])
             /\ Step(s, Ending([w EXCEPT !.settled = TRUE]))
          \/ /\ Current(s, w.gen) /\ CompletionRefused(w)
             /\ UNCHANGED <<ops, entry>>
             /\ Step(s, [w EXCEPT !.tries = @ + 1])
          \/ /\ Current(s, w.gen) /\ CompletionFails(w)
             /\ UNCHANGED ops
             /\ Enter(s, [e EXCEPT !.pending = FALSE, !.status = "degraded"])
             /\ Step(s, Ending([w EXCEPT !.failed = TRUE]))
       /\ UNCHANGED <<desired, call, inUse, stoppers, driver, catalog, drain, issued>>

\* Mutant: stale work is not queued again.
ReopenedNot(e, w) == e

(* finishStale: work that nothing newer replaces is queued again.           *)
Reopened(e, w) == IF e.gen = w.gen THEN [e EXCEPT !.pending = TRUE] ELSE e

FinishStale(s) ==
    LET w == work[s]
    IN /\ w.pc = "stale"
       /\ Enter(s, Reopened(entry[s], w))
       /\ Step(s, Ending([w EXCEPT !.displaced = TRUE]))
       /\ UNCHANGED <<store, call, inUse, stoppers, driver, catalog, drain, issued, faults>>

(* clearActivating, deferred.                                               *)
ClearActivating(s) ==
    LET w == work[s]
        e == entry[s]
    IN /\ w.pc = "clear"
       /\ Enter(s, IF e.activating = w.cand
                   THEN [e EXCEPT !.activating = None, !.failure = FALSE] ELSE e)
       /\ Step(s, [w EXCEPT !.pc = "finish", !.cand = None])
       /\ UNCHANGED <<store, call, inUse, stoppers, driver, catalog, drain, issued, faults>>

(* finishWork: displaced work is settled, failed work blocks the server, and *)
(* the place is given back.                                                  *)
FinishWork(s) ==
    LET w == work[s]
        e == entry[s]
        displaced == w.displaced \/ w.cleanupOnly \/ e.gen # w.gen
        settle    == ~draining /\ displaced /\ ~w.settled /\ ~w.failed
        left(failed) == IF draining THEN e
                        ELSE IF failed
                        THEN [e EXCEPT !.unsettled = TRUE, !.pending = FALSE, !.status = "degraded"]
                        ELSE [e EXCEPT !.pending = e.pending \/ w.cleanupOnly]
        ends(failed) == Release(s, [entry EXCEPT ![s] = left(failed)])
    IN /\ w.pc = "finish"
       /\ \/ /\ ~settle /\ NoFault /\ UNCHANGED ops /\ ends(w.failed)
          \/ /\ settle /\ e.blocked # None /\ NoFault /\ UNCHANGED ops /\ ends(TRUE)
          \/ /\ settle /\ e.blocked = None /\ NoFault /\ ends(FALSE)
             /\ ops' = [o \in Ops |-> IF o = w.op /\ ops[o] \notin Terminal
                                      THEN "superseded" ELSE ops[o]]
          \/ /\ settle /\ e.blocked = None /\ (w.op # None \/ w.attempt) /\ Fault
             /\ UNCHANGED ops /\ ends(TRUE)
       /\ UNCHANGED <<desired, call, stoppers, driver, catalog, drain, issued>>

------------------------------------------------------------------------------
(* Runtimes that exit, and the goroutines that stop one runtime.            *)

Stopper(s, cand, gen, kind) ==
    [server |-> s, cand |-> cand, gen |-> gen, kind |-> kind,
     pc |-> IF kind = "lost" THEN "withdraw" ELSE "stop", bad |-> FALSE, verified |-> FALSE]

Becomes(t, u) == stoppers' = (stoppers \ {t}) \cup {u}

(* reportHandleFailure and ReportRuntimeFailure: the active runtime is taken *)
(* out and stopped, an activating one is marked, any other is only stopped.  *)
RuntimeExits(s, cand) ==
    LET e == entry[s]
        heard == Current(s, cand.gen) /\ ~e.pending
    IN /\ cand \in handles \ quiet /\ Owned(s, cand)
       /\ Fault
       /\ quiet' = quiet \cup {cand}
       /\ \/ /\ heard /\ e.active = cand
             /\ Enter(s, [e EXCEPT !.active = None, !.gen = @ + 1, !.status = "stopping"])
             /\ stoppers' = stoppers \cup {Stopper(s, cand, e.gen + 1, "lost")}
          \/ /\ heard /\ e.active # cand /\ e.activating = cand /\ ~e.failure
             /\ Enter(s, [e EXCEPT !.failure = TRUE])
             /\ UNCHANGED stoppers
          \/ /\ ~(heard /\ (e.active = cand \/ (e.activating = cand /\ ~e.failure)))
             /\ stoppers' = stoppers \cup {Stopper(s, cand, 0, "refused")}
             /\ UNCHANGED entry
       /\ UNCHANGED <<store, call, work, inUse, owner, handles, catalog, drain, issued>>

StopperWithdraws(t) ==
    /\ t.pc = "withdraw"
    /\ lock = None \/ catalogDraining
    /\ route' = Withdraw(t.server, t.cand)
    /\ \/ NoFault /\ Becomes(t, [t EXCEPT !.pc = "stop"])
       \/ /\ WithdrawIsAudited(t.server, t.cand) /\ Fault
          /\ Becomes(t, [t EXCEPT !.pc = "stop", !.bad = TRUE])
    /\ UNCHANGED <<store, call, manager, driver, lock, drain, issued>>

StopperStops(t) ==
    /\ t.pc = "stop"
    /\ \/ CloseHandle(t.server, t.cand) /\ Becomes(t, [t EXCEPT !.pc = "release"])
       \/ /\ CloseFails(t.server, t.cand) \/ NoHandle(t.server, t.cand)
          /\ Becomes(t, [t EXCEPT !.pc = "stopped",
                                  !.verified = t.kind = "lost" /\ ~Owned(t.server, t.cand) /\ ~t.bad])
    /\ UNCHANGED <<store, call, manager, catalog, drain, issued>>

StopperReleases(t) ==
    /\ t.pc = "release"
    /\ ReleaseOwner(t.server, t.cand)
    /\ Becomes(t, [t EXCEPT !.pc = "stopped", !.verified = ~t.bad])
    /\ UNCHANGED <<store, call, manager, catalog, drain, issued>>

\* Mutant: the stop of a lost runtime that could not be confirmed is reported, and not remembered.
Unremembered(e, t) == [e EXCEPT !.status = IF e.gen = t.gen THEN "degraded" ELSE @]

(* finishRuntimeFailure after the stop.                                     *)
Unconfirmed(e, t) == [e EXCEPT !.blocked = t.cand, !.status = IF e.gen = t.gen THEN "degraded" ELSE @]
LostRuntimeStopped(t) ==
    LET s == t.server
        e == entry[s]
    IN /\ t.pc = "stopped" /\ t.kind = "lost"
       /\ stoppers' = stoppers \ {t}
       /\ Enter(s, CASE ~t.verified -> Unconfirmed(e, t)
                     [] t.verified /\ Current(s, t.gen) -> [e EXCEPT !.timer = e.gen, !.status = "retry"]
                     [] OTHER -> e)
       /\ UNCHANGED <<store, call, work, inUse, driver, catalog, drain, issued, faults>>

RefusedRuntimeStopped(t) ==
    /\ t.pc = "stopped" /\ t.kind = "refused"
    /\ stoppers' = stoppers \ {t}
    /\ UNCHANGED <<store, call, manager, driver, catalog, drain, issued, faults>>

(* scheduleRetryLocked: the callback of a timer of the current generation.  *)
RetryFires(s) ==
    LET e == entry[s]
    IN /\ e.timer # None /\ Current(s, e.timer)
       /\ issued < MaxRuntimes
       /\ StartAvailable([entry EXCEPT ![s] = [e EXCEPT !.timer = None, !.gen = @ + 1, !.pending = TRUE]],
                         work, inUse)
       /\ UNCHANGED <<store, call, stoppers, driver, catalog, drain, issued, faults>>

------------------------------------------------------------------------------
(* Shutdown: Composition.beginDrain, Manager.Drain and awaitDrain.          *)

OwnedCount == Cardinality({s \in Servers : owner[s] # None})

BeginDrain ==
    /\ drain.pc = "none"
    /\ drain' = [drain EXCEPT !.pc = "routes", !.before = OwnedCount]
    /\ UNCHANGED <<store, call, manager, stoppers, driver, catalog, issued, faults>>

(* ActiveRegistry.Drain waits for the publication that holds the lock.      *)
DrainRoutes ==
    /\ drain.pc = "routes" /\ lock = None
    /\ route' = [s \in Servers |-> IF route[s] = None THEN None ELSE [route[s] EXCEPT !.live = FALSE]]
    /\ drain' = [drain EXCEPT !.pc = "manager"]
    /\ UNCHANGED <<store, call, manager, stoppers, driver, lock, issued, faults>>

Drained(e) ==
    [e EXCEPT !.gen = @ + 1, !.pending = FALSE, !.timer = None, !.activating = None,
              !.active = None, !.blocked = None,
              !.status = IF {e.activating, e.active, e.blocked} = {None} THEN @ ELSE "degraded"]

(* Manager.Drain: everything known is taken out; an activating candidate is  *)
(* left to its worker.                                                       *)
DrainManager ==
    LET held == {p \in Servers \X {"active", "blocked"} : entry[p[1]][p[2]] # None}
        tasks == {Stopper(p[1], entry[p[1]][p[2]], 0, "drain") : p \in held}
        activating == {s \in Servers : entry[s].activating # None}
    IN /\ drain.pc = "manager"
       /\ entry' = [s \in Servers |-> Drained(entry[s])]
       /\ stoppers' = stoppers \cup tasks
       /\ drain' = [drain EXCEPT !.pc = "stopping",
                      !.cands = {<<t.server, t.cand>> : t \in tasks}
                                  \cup {<<s, entry[s].activating>> : s \in activating}]
       /\ UNCHANGED <<store, call, work, inUse, driver, catalog, issued, faults>>

DrainStopped(t) ==
    /\ t.pc = "stopped" /\ t.kind = "drain"
    /\ stoppers' = stoppers \ {t}
    /\ drain' = [drain EXCEPT !.verified = IF t.verified THEN @ \cup {t.cand} ELSE @]
    /\ UNCHANGED <<store, call, manager, driver, catalog, issued, faults>>

(* The count of Manager.Drain, once each of its stops has returned.         *)
DrainCounts ==
    /\ drain.pc = "stopping" /\ \A t \in stoppers : t.kind # "drain"
    /\ drain' = [drain EXCEPT !.pc = "waiting",
                   !.unconfirmed = Cardinality({p \in drain.cands :
                                       p[2] \notin drain.verified /\ Owned(p[1], p[2])})]
    /\ UNCHANGED <<store, call, manager, stoppers, driver, catalog, issued, faults>>

(* awaitDrain: Manager.Wait, then the owner's count replaces the manager's  *)
(* unless it has grown.                                                     *)
DrainReturns ==
    /\ drain.pc = "waiting" /\ \A s \in Servers : work[s].pc = "idle"
    /\ drain' = [drain EXCEPT !.pc = "done",
                   !.unconfirmed = IF OwnedCount <= drain.before THEN OwnedCount ELSE @]
    /\ UNCHANGED <<store, call, manager, stoppers, driver, catalog, issued, faults>>

------------------------------------------------------------------------------
Callback(c, s) == RefreshBegins(c, s) \/ FenceServer(c, s)

CallStep(c) == RefreshEnds(c) \/ Trigger(c) \/ TriggerWithdraws(c) \/ TriggerReturns(c)

WorkerStep(s) ==
    \/ ReadServer(s) \/ RecordAttempt(s) \/ BeginOperation(s) \/ StopPrevious(s)
    \/ ChooseCandidate(s) \/ RetireServer(s) \/ CannotDecide(s)
    \/ ResolveAuthority(s) \/ AdmitRuntime(s) \/ ConstructRuntime(s)
    \/ PublishCommit(s) \/ PublishRecheck(s) \/ PublishInstall(s) \/ CheckFence(s)
    \/ WorkerWithdraws(s) \/ WorkerStops(s) \/ WorkerReleases(s) \/ Stopped(s)
    \/ Succeed(s) \/ CompletionDisplaced(s) \/ CompleteSuccess(s) \/ CompleteFailure(s)
    \/ FinishStale(s) \/ ClearActivating(s) \/ FinishWork(s)

StopperStep(t) ==
    \/ StopperWithdraws(t) \/ StopperStops(t) \/ StopperReleases(t)
    \/ LostRuntimeStopped(t) \/ RefusedRuntimeStopped(t) \/ DrainStopped(t)

DrainStep == DrainRoutes \/ DrainManager \/ DrainCounts \/ DrainReturns

Next ==
    \/ \E c \in Callers, s \in Servers : Patch(c, s) \/ Callback(c, s)
    \/ \E c \in Callers : CallStep(c)
    \/ \E s \in Servers : WorkerStep(s) \/ RetryFires(s)
    \/ \E s \in Servers, cand \in handles : RuntimeExits(s, cand)
    \/ \E t \in stoppers : StopperStep(t)
    \/ BeginDrain \/ DrainStep

(* What some goroutine or timer is obliged to do; edits, callbacks, exits    *)
(* and the decision to shut down are never forced.                          *)
Obliged ==
    \/ \E c \in Callers : CallStep(c)
    \/ \E s \in Servers : WorkerStep(s) \/ RetryFires(s)
    \/ \E t \in stoppers : StopperStep(t)
    \/ DrainStep

(* While some goroutine can run, one runs. *)
Fairness == WF_vars(Obliged)

Spec == Init /\ [][Next]_vars
FairSpec == Spec /\ Fairness

------------------------------------------------------------------------------
(* Properties.                                                              *)

(* Something that can stop or report the runtime refers to it: the entry, a  *)
(* worker, a stopping goroutine or the count of the drain.                   *)
Knows(s, id) ==
    LET e == entry[s]
        w == work[s]
        held == {e.activating, e.active, e.blocked, w.cand, w.target}
                  \cup {t.cand : t \in {u \in stoppers : u.server = s}}
                  \cup {p[2] : p \in {q \in drain.cands : q[1] = s}}
    IN \E cand \in held \ {None} : cand.id = id

(* No path through stop, failure, retry and drain drops the last reference to *)
(* an owned runtime (rememberBlockedStop, finishRuntimeFailure, Drain).  An   *)
(* entry remembers one blocked stop, so this is claimed up to two failures: a *)
(* third can make finishRuntimeFailure overwrite the stop of the successor.   *)
NoForgottenRuntime ==
    faults < 3 => \A s \in Servers : owner[s] # None => Knows(s, owner[s])

(* Ownership outlives the handle: a runtime that may still run is owned, so  *)
(* no replacement of it is admitted and the drain counts it.                 *)
HandleIsOwned == \A cand \in handles : \E s \in Servers : Owned(s, cand)

(* Somebody is about to withdraw the route of candidate id of server s: a    *)
(* trigger, the worker or the goroutine of a lost runtime; or a trigger that *)
(* finds the candidate in its entry is on its way.                           *)
Withdrawing(s, id) ==
    LET held  == {entry[s].active, entry[s].activating} \ {None}
        calls == {call[c] : c \in {d \in Callers : call[d].server = s}}
        doomed == (UNION {c.targets : c \in calls})
                    \cup {t.cand : t \in {u \in stoppers : u.server = s /\ u.pc = "withdraw"}}
                    \cup (IF work[s].pc \in {"idle", "stop", "release", "stopped", "clear", "finish"}
                          THEN {} ELSE {work[s].cand, work[s].target} \ {None})
                    \cup (IF \E c \in calls : c.pc \in {"refresh", "trigger"} THEN held ELSE {})
                    \cup (IF work[s].pc # "idle" \/ entry[s].pending THEN held ELSE {})
    IN drain.pc = "routes" \/ \E cand \in doomed : cand.id = id

(* The refresh of the server's token failed after the server was fenced for   *)
(* it; nothing triggers a reconciliation then.                                *)
RefreshRejected(s) == \E c \in Callbacks : call[c].server = s /\ call[c].pc = "rejected"

(* A route that is served belongs to the current generation, or somebody is  *)
(* about to withdraw it: no interleaving strands a stale route, except that  *)
(* of a server whose refresh was rejected.                                   *)
RouteIsFenced ==
    \A s \in Servers : route[s] # None /\ route[s].live =>
        entry[s].gen = route[s].gen \/ Withdrawing(s, route[s].id) \/ RefreshRejected(s)

(* A route that is served leads to a runtime that is still owned, or somebody *)
(* is about to withdraw it: whoever stops a runtime (stopCandidate, the stop  *)
(* of a lost one, Drain) withdraws its route first.  A server whose refresh   *)
(* was rejected is fenced without a trigger and is not claimed.               *)
RouteHasRuntime ==
    \A s \in Servers : route[s] # None /\ route[s].live =>
        \/ owner[s] = route[s].id \/ Withdrawing(s, route[s].id)
        \/ RefreshRejected(s)

(* Late work cannot publish: once ActiveRegistry.Drain has returned no route *)
(* is served again.                                                          *)
NoRouteAfterDrain ==
    drain.pc \notin {"none", "routes"} => \A s \in Servers : route[s] # None => ~route[s].live

(* An operation is completed once, and success is recorded for the desired   *)
(* revision the operation stands for.                                        *)
OperationsSettleOnce ==
    [][\A o \in Ops :
         /\ ops[o] \in Terminal => ops'[o] = ops[o]
         /\ ops[o] # "succeeded" /\ ops'[o] = "succeeded" =>
              LET s == call[o].server
              IN /\ desired[s].rev = call[o].rev
                 /\ desired[s].on => entry[s].active # None /\ Owned(s, entry[s].active)]_vars

(* An edit never blocks a server: work is left unsettled, which stops every   *)
(* later reconciliation of the server, only after something has failed.       *)
BlockedByFault == \A s \in Servers : entry[s].unsettled /\ drain.pc = "none" => faults > 0

(* What the reconciliation of a server may end in short of the desired state: *)
(* shutdown, blocked work, a failure that is not retried, or the bound.       *)
Excused(s) ==
    \/ drain.pc # "none" \/ entry[s].unsettled \/ entry[s].status = "degraded"
    \/ entry[s].timer # None /\ issued >= MaxRuntimes

Reconciled(s) ==
    IF desired[s].on
    THEN \E cand \in {entry[s].active} \ {None} : cand.version = desired[s].version /\ Owned(s, cand)
    ELSE owner[s] = None

(* A stop that could not be confirmed is remembered (rememberBlockedStop) for *)
(* the next reconciliation or the drain; nothing else takes it up.            *)
StopRemembered(s) == entry[s].blocked # None

(* Reconciliation converges: whatever edits, exits and stops interleave, the  *)
(* server ends with the runtime of its latest definition, or with none, unless *)
(* a stop that failed is left for the next reconciliation.                    *)
Converges == \A s \in Servers : <>[](Excused(s) \/ RefreshRejected(s) \/ StopRemembered(s) \/ Reconciled(s))

(* An earlier edit of the server that o superseded may still have had its       *)
(* trigger to run: handlers trigger after their commit without a common lock.   *)
Overtaken(o, s) ==
    \E p \in Edits : /\ call[p].server = s /\ call[p].rev < call[o].rev
                     /\ ops[p] = "superseded"

(* No operation is lost (Requeued, Reopened, finishWork): one that is         *)
(* scheduled or running is carried by the handler about to trigger, the queue *)
(* of its server or its worker, unless the server is excused.  A server that a *)
(* credential callback restarts is not claimed: an operation that was given up *)
(* when the server was degraded is not taken up again.  Nor is an operation    *)
(* that superseded an edit: the late trigger of that edit takes its place in   *)
(* the queue (TriggerWithCause), and the record then stays scheduled.          *)
NoLostOperation ==
    \A o \in Ops : ops[o] \in Nonterminal =>
        \E s \in Servers : /\ call[o].server = s
                           /\ \/ call[o].pc = "trigger" \/ entry[s].operation = o
                              \/ work[s].op = o \/ Excused(s) \/ Overtaken(o, s)
                              \/ \E c \in Callbacks : call[c].server = s

(* A shutdown that has begun gets through: no worker, publication or stop     *)
(* keeps Drain and awaitDrain waiting.                                        *)
DrainCompletes == drain.pc # "none" ~> drain.pc = "done"

(* What stays owned: no runtime and no operation is forgotten, whatever fails *)
(* or is superseded.                                                          *)
NothingForgotten == NoForgottenRuntime /\ HandleIsOwned /\ NoLostOperation

(* What a served route may be: current or about to go, with a runtime behind  *)
(* it, and none once the registry has drained.                                *)
RoutesAreSound == RouteIsFenced /\ RouteHasRuntime /\ NoRouteAfterDrain

(* Reconciliation comes to an end, by itself or in a shutdown.                *)
Settles == Converges /\ DrainCompletes
=============================================================================
