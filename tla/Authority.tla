----------------------------- MODULE Authority -----------------------------
(***************************************************************************)
(* The authority core of the gateway (internal/authorization): one gate    *)
(* that serialises authentication, evaluation, confirmation and every      *)
(* change of authority; the registry of credential leases; the two-phase   *)
(* admission of a request (evaluate, then confirm); cancellation of leases *)
(* by mutations; and the drain of a shutting-down process.                 *)
(*                                                                         *)
(* A process is one goroutine serving one call:                            *)
(*   Requests  an agent request: authenticate, evaluate, confirm, execute, *)
(*             release its lease;                                          *)
(*   Admins    an authority mutation (mutateAuthority);                    *)
(*   Writers   a mutation of some other repository, which takes the single *)
(*             storage writer but not the gate;                            *)
(*   Drainer   the shutdown sequence BeginDrain; Drain.                    *)
(*                                                                         *)
(* A step is what happens between two points where another goroutine can   *)
(* be observed: the body of a mutex section, a storage transaction, a      *)
(* compare-and-swap.  A context may be cancelled and a wait may expire at  *)
(* any moment, so both are nondeterministic choices.                       *)
(***************************************************************************)
EXTENDS Naturals, FiniteSets

CONSTANTS Requests, Admins, Writers, Drainer, \* the processes
          Principals,   \* identities that hold at most one credential
          Targets,      \* what a grant may name: a tool of a server
          Synthetic,    \* the target of the default grant of a principal
          WorkLimit,    \* authority_work: processes at or waiting for the gate
          None          \* no process

ASSUME ProcessesDistinct ==
  /\ Requests \cap Admins = {} /\ Requests \cap Writers = {}
  /\ Admins \cap Writers = {}
  /\ Drainer \notin Requests \cup Admins \cup Writers
  /\ None \notin Requests \cup Admins \cup Writers \cup {Drainer}
ASSUME SyntheticAssumption == Synthetic \in Targets
ASSUME PrincipalsNonempty == Principals # {}
ASSUME WorkLimitAssumption == WorkLimit \in Nat \ {0}
ASSUME FiniteProcesses == IsFiniteSet(Requests) /\ IsFiniteSet(Admins)

Procs    == Requests \cup Admins \cup Writers \cup {Drainer}
Gated    == Requests \cup Admins          \* the processes that take the gate
Owners   == Admins \cup {Drainer}         \* the processes that cancel leases

\* A grant row; its id is the admin that created it, or the principal whose
\* default grant it is.
Grants == [id : Admins \cup Principals, principal : Principals, target : Targets,
           effect : {"allow", "deny"}]
Rows == [state : {"absent", "active", "disabled"}, revision : Nat,
         credentialRevision : Nat, credential : BOOLEAN]
Bindings == [principal : Principals, revision : Nat, credentialRevision : Nat]
Mutations ==
  [kind : {"create", "disable", "enable", "patch", "issue", "revoke"},
   principal : Principals, expected : Nat, expectedCredential : Nat]
  \cup [kind : {"grant", "ungrant", "describe"}, grant : Grants]

VARIABLES
  principal,  \* the principals table
  grants,     \* the grants table
  expired,    \* the grants whose expires_at has passed
  authRev,    \* authorization_meta.revision
  latched,    \* Store.latched
  writer,     \* the owner of the storage mutation slot
  gate,       \* the process whose token fills registry.gate
  work,       \* registry.work
  draining,   \* registry.draining (and the closed stopping channel)
  leases,     \* registry.leases, as the requests whose lease is in the map
  phase,      \* Lease.phase of the lease of each request
  binding,    \* Lease.binding
  closes,     \* how often Lease.done was closed
  target,     \* what the request asks for
  candidate,  \* EvaluationCandidate.revision
  seen,       \* the unexpired grants the evaluation read (history)
  pc,         \* where the process is
  stage,      \* which use of the gate a request is at
  result,     \* the error of the current call
  loaded,     \* the phase Release read before its compare-and-swap
  mutation,   \* the mutation an admin performs
  cancelling  \* leases taken out of the map and not yet cancelled

database == <<principal, grants, authRev>>
storage  == <<latched, writer>>
registry == <<gate, work, draining, leases>>
lease    == <<phase, binding, closes>>
evaluation == <<target, candidate, seen>>
control  == <<stage, result, loaded, mutation, cancelling>>
vars == <<principal, grants, expired, authRev, latched, writer, gate, work,
          draining, leases, phase, binding, closes, target, candidate, seen,
          pc, stage, result, loaded, mutation, cancelling>>

NoBinding  == [principal |-> CHOOSE p \in Principals : TRUE, revision |-> 0,
               credentialRevision |-> 0]
NoMutation == [kind |-> "none"]

Goto(p, label) == pc' = [pc EXCEPT ![p] = label]

---------------------------------------------------------------------------
(* The authority database *)

\* The binding verifyCurrentBindingTx reads for a principal.
BindingOf(p) == [principal |-> p, revision |-> principal[p].revision,
                 credentialRevision |-> principal[p].credentialRevision]
HasCredential(p) == principal[p].state = "active" /\ principal[p].credential
CurrentBinding(b) == HasCredential(b.principal) /\ BindingOf(b.principal) = b

\* evaluateTx: an applicable deny beats every allow, and nothing is allowed
\* by default.
Decision(gs, p, t) ==
  LET applies(e) == \E g \in gs : g.principal = p /\ g.target = t /\ g.effect = e IN
  IF applies("deny") THEN "deny" ELSE IF applies("allow") THEN "allow" ELSE "block"

\* Mutant: a patch is taken for a change that affects nobody.
AffectedWithoutPatch(m) == IF m.kind \in {"disable", "enable", "issue", "revoke"}
                           THEN {m.principal} ELSE {}

\* The principal whose leases mutateAuthority cancels.
Affected(m) == IF m.kind \in {"disable", "enable", "patch", "issue", "revoke"}
               THEN {m.principal} ELSE {}

\* The row the call names exists and has the revision its caller expects.
Fresh(m) == /\ principal[m.principal].state # "absent"
            /\ principal[m.principal].revision = m.expected

UpdateRow(p, row) == principal' = [principal EXCEPT ![p] = row]

\* Every update of a row advances its revision.
Revised(row, state, credentialRevision, credential) ==
  [state |-> state, revision |-> row.revision + 1,
   credentialRevision |-> credentialRevision, credential |-> credential]

DefaultGrant(p) == [id |-> p, principal |-> p, target |-> Synthetic, effect |-> "allow"]

\* advanceAuthorizationRevisionTx
Advance == authRev' = authRev + 1

CreatePrincipal(m) ==
  /\ m.kind = "create" /\ principal[m.principal].state = "absent"
  /\ UpdateRow(m.principal, [state |-> "active", revision |-> 1,
                             credentialRevision |-> 0, credential |-> FALSE])
  /\ grants' = grants \cup {DefaultGrant(m.principal)}
  /\ Advance

\* Disabling also drops the credential; only a change of state advances the
\* authorization revision, not one of name or visibility.
PatchPrincipal(m) ==
  LET row == principal[m.principal] IN
  /\ m.kind \in {"patch", "enable", "disable"} /\ Fresh(m)
  /\ \/ /\ m.kind = "patch"
        /\ UpdateRow(m.principal, Revised(row, row.state, row.credentialRevision, row.credential))
        /\ UNCHANGED authRev
     \/ /\ m.kind = "enable" /\ row.state = "disabled"
        /\ UpdateRow(m.principal, Revised(row, "active", row.credentialRevision, row.credential))
        /\ Advance
     \/ /\ m.kind = "disable" /\ row.state = "active"
        /\ UpdateRow(m.principal, Revised(row, "disabled", row.credentialRevision + 1, FALSE))
        /\ Advance
  /\ UNCHANGED grants

IssueCredential(m) ==
  LET row == principal[m.principal] IN
  /\ m.kind = "issue" /\ Fresh(m)
  /\ row.state = "active" /\ row.credentialRevision = m.expectedCredential
  /\ UpdateRow(m.principal, Revised(row, row.state, row.credentialRevision + 1, TRUE))
  /\ UNCHANGED <<grants, authRev>>

RevokeCredential(m) ==
  LET row == principal[m.principal] IN
  /\ m.kind = "revoke" /\ Fresh(m) /\ row.credential
  /\ UpdateRow(m.principal, Revised(row, row.state, row.credentialRevision + 1, FALSE))
  /\ UNCHANGED <<grants, authRev>>

CreateGrant(m) ==
  /\ m.kind = "grant" /\ principal[m.grant.principal].state # "absent"
  /\ grants' = grants \cup {m.grant}
  /\ Advance
  /\ UNCHANGED principal

\* Mutant: DeleteGrant forgets to advance the revision.
DeleteGrantSilently(m) ==
  /\ m.kind = "ungrant" /\ m.grant \in grants
  /\ grants' = grants \ {m.grant}
  /\ UNCHANGED <<principal, authRev>>

DeleteGrant(m) ==
  /\ m.kind = "ungrant" /\ m.grant \in grants
  /\ grants' = grants \ {m.grant}
  /\ Advance
  /\ UNCHANGED principal

\* PatchGrant changes the description only.
PatchGrant(m) ==
  /\ m.kind = "describe" /\ m.grant \in grants
  /\ UNCHANGED database

\* The body of the transaction returns nil, having made its change.
Body(m) ==
  \/ CreatePrincipal(m) \/ PatchPrincipal(m) \/ IssueCredential(m)
  \/ RevokeCredential(m) \/ CreateGrant(m) \/ DeleteGrant(m) \/ PatchGrant(m)

---------------------------------------------------------------------------
Init ==
  /\ principal \in [Principals -> {[state |-> "active", revision |-> 1,
                                    credentialRevision |-> 1, credential |-> TRUE],
                                   [state |-> "absent", revision |-> 0,
                                    credentialRevision |-> 0, credential |-> FALSE]}]
  /\ grants = {DefaultGrant(p) : p \in {q \in Principals : principal[q].state = "active"}}
  /\ expired = {} /\ authRev = 0
  /\ latched = FALSE /\ writer = None
  /\ gate = None /\ work = 0 /\ draining = FALSE /\ leases = {}
  /\ phase = [r \in Requests |-> "none"]
  /\ binding = [r \in Requests |-> NoBinding]
  /\ closes = [r \in Requests |-> 0]
  /\ target \in [Requests -> Targets]
  /\ candidate = [r \in Requests |-> 0]
  /\ seen = [r \in Requests |-> {}]
  /\ pc = [p \in Procs |-> IF p \in Requests THEN "ready" ELSE "start"]
  /\ stage = [r \in Requests |-> "authenticate"]
  /\ result = [p \in Gated |-> "ok"]
  /\ loaded = [r \in Requests |-> "none"]
  /\ mutation = [a \in Admins |-> NoMutation]
  /\ cancelling = [o \in Owners |-> {}]

---------------------------------------------------------------------------
(* authorityRegistry.acquire and its release *)

\* Where a gated process goes when its use of the gate ended.
After(p, res) ==
  IF p \in Admins THEN "done"
  ELSE IF res = "error" THEN (IF phase[p] = "none" THEN "done" ELSE "release")
  ELSE IF stage[p] = "confirm" THEN "execute" ELSE "ready"

NextStage(r) == IF stage[r] = "authenticate" THEN "evaluate" ELSE "confirm"

\* The arguments of a mutation are gone once its call has returned.
Forget(p) == IF p \in Admins THEN [mutation EXCEPT ![p] = NoMutation] ELSE mutation

\* reserveWork refuses: draining, the limit, or a context already done.
ReserveRefused(p) ==
  /\ pc[p] = "ready"
  /\ Goto(p, After(p, "error"))
  /\ mutation' = Forget(p)
  /\ UNCHANGED <<database, expired, storage, registry, lease, evaluation, stage,
                 result, loaded, cancelling>>

ReserveWork(p) ==
  /\ pc[p] = "ready" /\ ~draining /\ work < WorkLimit
  /\ work' = work + 1
  /\ Goto(p, "waiting")
  /\ UNCHANGED <<database, expired, storage, gate, draining, leases, lease,
                 evaluation, control>>

\* The select of acquire: the token is taken ...
TakeGate(p) ==
  /\ pc[p] = "waiting" /\ gate = None
  /\ gate' = p
  /\ Goto(p, "won")
  /\ UNCHANGED <<database, expired, storage, work, draining, leases, lease,
                 evaluation, control>>

\* ... or the wait ends first: deadline, cancelled context or stopping.
GiveUp(p) ==
  /\ pc[p] = "waiting"
  /\ work' = work - 1
  /\ Goto(p, After(p, "error"))
  /\ mutation' = Forget(p)
  /\ UNCHANGED <<database, expired, storage, gate, draining, leases, lease,
                 evaluation, stage, result, loaded, cancelling>>

\* The rechecks behind the select: the owner keeps the gate only when the
\* process is not draining.
EnterGate(p) ==
  /\ pc[p] = "won" /\ ~draining
  /\ Goto(p, "in")
  /\ UNCHANGED <<database, expired, storage, registry, lease, evaluation, control>>

ReturnGate(p, res) ==
  /\ gate' = None /\ work' = work - 1
  /\ Goto(p, After(p, res))
  /\ result' = [result EXCEPT ![p] = "ok"]
  /\ stage' = IF p \in Requests /\ res = "ok" THEN [stage EXCEPT ![p] = NextStage(p)]
              ELSE stage
  /\ mutation' = Forget(p)
  /\ UNCHANGED <<database, expired, storage, draining, leases, lease, evaluation,
                 loaded, cancelling>>

AbandonGate(p) == pc[p] = "won" /\ ReturnGate(p, "error")

\* The deferred releaseGate of the operation.
ReleaseGate(p) == pc[p] = "leave" /\ ReturnGate(p, result[p])

\* The operation decides its result and runs into its deferred release.
Leave(p, res) ==
  /\ Goto(p, "leave")
  /\ result' = [result EXCEPT ![p] = res]
  /\ UNCHANGED <<stage, loaded, mutation, cancelling>>

---------------------------------------------------------------------------
(* Agent requests *)

\* repository.view fails: the context, the latch, or a storage error; a view
\* whose connection does not settle latches the store.
ViewFails(r) ==
  /\ r \in Requests /\ pc[r] = "in"
  /\ latched' \in {latched, TRUE}
  /\ Leave(r, "error")
  /\ UNCHANGED <<database, expired, writer, registry, lease, evaluation>>

\* authenticateBinding: the bearer names the current credential of some
\* active principal, or nobody's.
AuthenticateRead(r) ==
  /\ pc[r] = "in" /\ stage[r] = "authenticate" /\ ~latched
  /\ \/ \E p \in Principals :
          /\ HasCredential(p)
          /\ binding' = [binding EXCEPT ![r] = BindingOf(p)]
          /\ Goto(r, "read")
          /\ UNCHANGED control
     \/ Leave(r, "error") /\ UNCHANGED binding
  /\ UNCHANGED <<database, expired, storage, registry, phase, closes, evaluation>>

\* register: refused while draining or latched, else the lease is pending
\* and in the map.
Register(r) ==
  /\ pc[r] = "read" /\ stage[r] = "authenticate"
  /\ IF draining \/ latched
     THEN Leave(r, "error") /\ UNCHANGED <<leases, phase>>
     ELSE /\ leases' = leases \cup {r}
          /\ phase' = [phase EXCEPT ![r] = "pending"]
          /\ Leave(r, "ok")
  /\ UNCHANGED <<database, expired, storage, gate, work, draining, binding,
                 closes, evaluation>>

\* EvaluateAdmission: the lease must be pending and its binding current; an
\* allow yields a candidate that carries the authorization revision.
Evaluate(r) ==
  /\ pc[r] = "in" /\ stage[r] = "evaluate"
  /\ LET live == grants \ expired IN
     IF /\ ~latched /\ phase[r] = "pending" /\ CurrentBinding(binding[r])
        /\ Decision(live, binding[r].principal, target[r]) = "allow"
     THEN /\ candidate' = [candidate EXCEPT ![r] = authRev]
          /\ seen' = [seen EXCEPT ![r] = live]
          /\ Leave(r, "ok")
     ELSE Leave(r, "error") /\ UNCHANGED <<candidate, seen>>
  /\ UNCHANGED <<database, expired, storage, registry, lease, target>>

\* ConfirmEvaluation, the view: binding and authorization revision are
\* unchanged.  The lease phase is not read here.
ConfirmRead(r) ==
  /\ pc[r] = "in" /\ stage[r] = "confirm"
  /\ IF ~latched /\ CurrentBinding(binding[r]) /\ authRev = candidate[r]
     THEN Goto(r, "read") /\ UNCHANGED control
     ELSE Leave(r, "error")
  /\ UNCHANGED <<database, expired, storage, registry, lease, evaluation>>

\* ConfirmEvaluation, the section under registry.mu and the fault fence.
Confirm(r) ==
  /\ pc[r] = "read" /\ stage[r] = "confirm"
  /\ ~draining /\ ~latched /\ phase[r] = "pending"
  /\ phase' = [phase EXCEPT ![r] = "admitted"]
  /\ leases' = leases \ {r}
  /\ Leave(r, "ok")
  /\ UNCHANGED <<database, expired, storage, gate, work, draining, binding,
                 closes, evaluation>>

\* The same section when a fence is closed, the context is done or the
\* compare-and-swap fails.
ConfirmRefused(r) ==
  /\ pc[r] = "read" /\ stage[r] = "confirm"
  /\ Leave(r, "error")
  /\ UNCHANGED <<database, expired, storage, registry, lease, evaluation>>

\* A legacy MCP session keeps the lease of the request that opened it instead
\* of evaluating anything with it ...
Hold(r) ==
  /\ pc[r] = "ready" /\ stage[r] = "evaluate"
  /\ Goto(r, "held")
  /\ UNCHANGED <<database, expired, storage, registry, lease, evaluation, control>>

\* ... until the session ends or times out, or the lease is done.
SessionEnds(r) ==
  /\ pc[r] = "held"
  /\ Goto(r, "release")
  /\ UNCHANGED <<database, expired, storage, registry, lease, evaluation, control>>

LeaseDone(r) == closes[r] > 0 /\ SessionEnds(r)

\* The one dispatch of an admitted request.
Execute(r) ==
  /\ pc[r] = "execute"
  /\ Goto(r, "release")
  /\ UNCHANGED <<database, expired, storage, registry, lease, evaluation, control>>

\* Lease.Release: load the phase ...
ReleaseLoad(r) ==
  /\ pc[r] = "release"
  /\ IF phase[r] \in {"cancelled", "released"}
     THEN Goto(r, "remove") /\ UNCHANGED loaded
     ELSE Goto(r, "swap") /\ loaded' = [loaded EXCEPT ![r] = phase[r]]
  /\ UNCHANGED <<database, expired, storage, registry, lease, evaluation, stage,
                 result, mutation, cancelling>>

\* ... then swap it for released and close done, or load again.
ReleaseSwap(r) ==
  /\ pc[r] = "swap"
  /\ IF phase[r] = loaded[r]
     THEN /\ phase' = [phase EXCEPT ![r] = "released"]
          /\ closes' = [closes EXCEPT ![r] = @ + 1]
          /\ Goto(r, "remove")
     ELSE Goto(r, "release") /\ UNCHANGED <<phase, closes>>
  /\ loaded' = [loaded EXCEPT ![r] = "none"]
  /\ UNCHANGED <<database, expired, storage, registry, binding, evaluation, stage,
                 result, mutation, cancelling>>

ReleaseRemove(r) ==
  /\ pc[r] = "remove"
  /\ leases' = leases \ {r}
  /\ Goto(r, "done")
  /\ UNCHANGED <<database, expired, storage, gate, work, draining, lease,
                 evaluation, control>>

---------------------------------------------------------------------------
(* Cancellation of leases *)

\* cancelMatching, under registry.mu: take the matching leases out of the map.
Collect(o, ps, label) ==
  LET matched == {r \in leases : binding[r].principal \in ps} IN
  /\ leases' = leases \ matched
  /\ cancelling' = [cancelling EXCEPT ![o] = matched]
  /\ Goto(o, label)

\* Lease.cancel, outside registry.mu, one lease at a time.
Cancel(o) ==
  /\ o \in Owners /\ pc[o] = "cancel"
  /\ \E r \in cancelling[o] :
       /\ cancelling' = [cancelling EXCEPT ![o] = @ \ {r}]
       /\ IF phase[r] = "pending"
          THEN /\ phase' = [phase EXCEPT ![r] = "cancelled"]
               /\ closes' = [closes EXCEPT ![r] = @ + 1]
          ELSE UNCHANGED <<phase, closes>>
  /\ UNCHANGED <<database, expired, storage, registry, binding, evaluation, pc,
                 stage, result, loaded, mutation>>

CancelDone(o) ==
  /\ o \in Owners /\ pc[o] = "cancel" /\ cancelling[o] = {}
  /\ Goto(o, IF o = Drainer THEN "drain" ELSE "leave")
  /\ UNCHANGED <<database, expired, storage, registry, lease, evaluation, control>>

---------------------------------------------------------------------------
(* Authority mutations: mutateAuthority *)

\* The call arrives with the revisions its caller has read; IssueCredential
\* reads the credential revision itself, before it asks for the gate.
StartMutation(a) ==
  /\ pc[a] = "start"
  /\ \/ \E k \in {"create", "disable", "enable", "patch", "issue", "revoke"}, p \in Principals :
          mutation' = [mutation EXCEPT ![a] =
            [kind |-> k, principal |-> p, expected |-> principal[p].revision,
             expectedCredential |-> principal[p].credentialRevision]]
     \/ \E p \in Principals, t \in Targets, e \in {"allow", "deny"} :
          mutation' = [mutation EXCEPT ![a] = [kind |-> "grant", grant |->
            [id |-> a, principal |-> p, target |-> t, effect |-> e]]]
     \/ \E k \in {"ungrant", "describe"}, g \in grants :
          mutation' = [mutation EXCEPT ![a] = [kind |-> k, grant |-> g]]
  /\ Goto(a, "ready")
  /\ UNCHANGED <<database, expired, storage, registry, lease, evaluation, stage,
                 result, loaded, cancelling>>

\* Store.mutate: the writer slot never queues.
TakeWriter(p, label) ==
  /\ writer = None /\ writer' = p
  /\ Goto(p, label)

MutationBusy(a) ==
  /\ a \in Admins /\ pc[a] = "in"
  /\ Goto(a, "returned")
  /\ result' = [result EXCEPT ![a] = "error"]
  /\ UNCHANGED <<database, expired, storage, registry, lease, evaluation, stage,
                 loaded, mutation, cancelling>>

BeginMutation(a) ==
  /\ a \in Admins /\ pc[a] = "in"
  /\ TakeWriter(a, "tx")
  /\ UNCHANGED <<database, expired, latched, registry, lease, evaluation, control>>

\* mutateOwned commits.
TxCommit(a) ==
  /\ pc[a] = "tx" /\ a \in Admins /\ ~latched
  /\ Body(mutation[a])
  /\ result' = [result EXCEPT ![a] = "ok"]
  /\ Goto(a, "settle")
  /\ UNCHANGED <<expired, storage, registry, lease, evaluation, stage, loaded, mutation,
                 cancelling>>

\* mutateOwned returns an error and nothing was written: latched before,
\* context, begin failure, or a body error rolled back.
TxRollback(a) ==
  /\ pc[a] = "tx" /\ a \in Admins
  /\ result' = [result EXCEPT ![a] = "error"]
  /\ Goto(a, "settle")
  /\ UNCHANGED <<database, expired, storage, registry, lease, evaluation, stage,
                 loaded, mutation, cancelling>>

\* The commit or the rollback fails, or the connection does not settle: the
\* rows may or may not have changed, and the store is about to latch.
TxAmbiguous(a) ==
  /\ pc[a] = "tx" /\ a \in Admins /\ ~latched
  /\ Body(mutation[a]) \/ UNCHANGED database
  /\ result' = [result EXCEPT ![a] = "error"]
  /\ Goto(a, "latch")
  /\ UNCHANGED <<expired, storage, registry, lease, evaluation, stage, loaded, mutation,
                 cancelling>>

Latch(a) ==
  /\ pc[a] = "latch"
  /\ latched' = TRUE
  /\ Goto(a, "settle")
  /\ UNCHANGED <<database, expired, writer, registry, lease, evaluation, control>>

ReleaseWriter(a) ==
  /\ pc[a] = "settle"
  /\ writer' = None
  /\ Goto(a, IF a \in Admins THEN "returned" ELSE "done")
  /\ UNCHANGED <<database, expired, latched, registry, lease, evaluation, control>>

\* mutateAuthority: leases of the affected principal are cancelled when the
\* mutation succeeded or the store is latched.
MutationReturned(a) ==
  /\ pc[a] = "returned"
  /\ IF result[a] = "ok" \/ latched
     THEN Collect(a, Affected(mutation[a]), "cancel")
     ELSE Goto(a, "leave") /\ UNCHANGED <<leases, cancelling>>
  /\ UNCHANGED <<database, expired, storage, gate, work, draining, lease,
                 evaluation, stage, result, loaded, mutation>>

---------------------------------------------------------------------------
(* Other writers, time and shutdown *)

OtherBegin(w) ==
  /\ w \in Writers /\ pc[w] = "start"
  /\ TakeWriter(w, "tx")
  /\ UNCHANGED <<database, expired, latched, registry, lease, evaluation, control>>

OtherSettles(w) ==
  /\ w \in Writers /\ pc[w] = "tx"
  /\ latched' \in {latched, TRUE}
  /\ Goto(w, "settle")
  /\ UNCHANGED <<database, expired, writer, registry, lease, evaluation, control>>

\* expires_at of a grant passes: no revision advances.  A default grant has
\* no expiry.
Expire ==
  /\ \E g \in grants \ expired : g.id \in Admins /\ expired' = expired \cup {g}
  /\ UNCHANGED <<database, storage, registry, lease, evaluation, pc, control>>

\* BeginDrain, under registry.mu.
BeginDrain ==
  /\ pc[Drainer] = "start"
  /\ draining' = TRUE
  /\ Goto(Drainer, "fenced")
  /\ UNCHANGED <<database, expired, storage, gate, work, leases, lease,
                 evaluation, control>>

\* Mutant: BeginDrain closes the fence and forgets the pending leases.
DrainWithoutCancel ==
  /\ pc[Drainer] = "fenced"
  /\ Goto(Drainer, "cancel")
  /\ UNCHANGED <<database, expired, storage, registry, lease, evaluation, control>>

CancelPending ==
  /\ pc[Drainer] = "fenced"
  /\ Collect(Drainer, Principals, "cancel")
  /\ UNCHANGED <<database, expired, storage, gate, work, draining, lease,
                 evaluation, stage, result, loaded, mutation>>

\* Drain returns once the idle channel is closed.
Drain ==
  /\ pc[Drainer] = "drain" /\ work = 0
  /\ Goto(Drainer, "done")
  /\ UNCHANGED <<database, expired, storage, registry, lease, evaluation, control>>

---------------------------------------------------------------------------
GateStep(p) ==
  \/ ReserveRefused(p) \/ ReserveWork(p) \/ TakeGate(p) \/ GiveUp(p)
  \/ EnterGate(p) \/ AbandonGate(p) \/ ReleaseGate(p)

RequestStep(r) ==
  \/ ViewFails(r) \/ AuthenticateRead(r) \/ Register(r) \/ Evaluate(r)
  \/ ConfirmRead(r) \/ Confirm(r) \/ ConfirmRefused(r) \/ Execute(r)
  \/ LeaseDone(r)
  \/ ReleaseLoad(r) \/ ReleaseSwap(r) \/ ReleaseRemove(r)

MutationStep(a) ==
  \/ MutationBusy(a) \/ BeginMutation(a) \/ TxCommit(a) \/ TxRollback(a)
  \/ TxAmbiguous(a) \/ Latch(a) \/ ReleaseWriter(a) \/ MutationReturned(a)
  \/ Cancel(a) \/ CancelDone(a)

OtherStep(w) == OtherSettles(w) \/ ReleaseWriter(w)

DrainStep == CancelPending \/ Cancel(Drainer) \/ CancelDone(Drainer) \/ Drain

\* Everything has run to its end; the process exits.
Terminated ==
  /\ \A p \in Procs : pc[p] = "done" \/ (p \notin Gated /\ pc[p] = "start")
  /\ UNCHANGED vars

Next ==
  \/ \E p \in Gated : GateStep(p)
  \/ \E r \in Requests : RequestStep(r) \/ Hold(r) \/ SessionEnds(r)
  \/ \E a \in Admins : StartMutation(a) \/ MutationStep(a)
  \/ \E w \in Writers : OtherBegin(w) \/ OtherStep(w)
  \/ Expire \/ BeginDrain \/ DrainStep
  \/ Terminated

\* A goroutine that can take a step eventually does, and Go's locks are not
\* starved forever by a holder: each process is weakly fair.  Calls need not
\* arrive, grants need not expire and nobody need shut the process down.
Fairness ==
  /\ \A r \in Requests : WF_vars(GateStep(r) \/ RequestStep(r))
  /\ \A a \in Admins : WF_vars(GateStep(a) \/ MutationStep(a))
  /\ \A w \in Writers : WF_vars(OtherStep(w))
  /\ WF_vars(DrainStep)

Spec == Init /\ [][Next]_vars /\ Fairness

---------------------------------------------------------------------------
(* Properties *)

HolderLabels == {"won", "in", "read", "tx", "latch", "settle", "returned", "leave"}
Holds(p) == \/ pc[p] \in HolderLabels
            \/ p \in Admins /\ pc[p] = "cancel"

\* The type invariant.
TypeOK ==
  /\ principal \in [Principals -> Rows]
  /\ grants \subseteq Grants /\ expired \subseteq Grants /\ authRev \in Nat
  /\ latched \in BOOLEAN /\ writer \in Procs \cup {None}
  /\ gate \in Gated \cup {None} /\ work \in Nat /\ draining \in BOOLEAN
  /\ leases \subseteq Requests
  /\ phase \in [Requests -> {"none", "pending", "admitted", "cancelled", "released"}]
  /\ binding \in [Requests -> Bindings]
  /\ closes \in [Requests -> Nat]
  /\ target \in [Requests -> Targets]
  /\ candidate \in [Requests -> Nat]
  /\ seen \in [Requests -> SUBSET Grants]
  /\ pc \in [Procs -> {"start", "ready", "waiting", "won", "in", "read", "leave",
                       "execute", "held", "release", "swap", "remove", "tx", "latch",
                       "settle", "returned", "cancel", "fenced", "drain", "done"}]
  /\ stage \in [Requests -> {"authenticate", "evaluate", "confirm"}]
  /\ result \in [Gated -> {"ok", "error"}]
  /\ loaded \in [Requests -> {"none", "pending", "admitted", "cancelled", "released"}]
  /\ mutation \in [Admins -> Mutations \cup {NoMutation}]
  /\ cancelling \in [Owners -> SUBSET Requests]

\* The gate has exactly the owner that is between acquire and release, and
\* registry.work counts the processes that wait for it or hold it, within the
\* limit: the idle channel Drain waits for is closed exactly when nobody does.
Working == {p \in Gated : pc[p] = "waiting" \/ Holds(p)}
GateAccounting ==
  /\ \A p \in Gated : Holds(p) <=> gate = p
  /\ work = Cardinality(Working)
  /\ work <= WorkLimit

\* Whenever the gate is free, a lease that is still pending is bound to the
\* credential and the revision its principal has now, so that a mutation that
\* has returned left no usable lease behind; the exception is a process that
\* drains, whose leases are unusable anyway.
StaleLeaseUnusable ==
  \A r \in Requests :
    phase[r] = "pending" /\ gate = None => CurrentBinding(binding[r]) \/ draining

\* A request is admitted only while its credential is the current one of an
\* active principal and the rules that allowed it are all still in force: no
\* grant was added or removed since the evaluation, except by expiry; and
\* never once the store has latched or the process drains.
AdmissionIsCurrent ==
  [][\A r \in Requests :
       phase[r] # "admitted" /\ phase'[r] = "admitted" =>
         /\ CurrentBinding(binding[r])
         /\ seen[r] \subseteq grants /\ grants \ seen[r] \subseteq expired
         /\ Decision(seen[r], binding[r].principal, target[r]) = "allow"
         /\ ~latched /\ ~draining]_vars

\* Lease.done is closed once, by whichever of Release and cancel wins the
\* phase (closing a channel twice panics), and only then.
DoneClosedOnce ==
  \A r \in Requests :
    closes[r] = IF phase[r] \in {"cancelled", "released"} THEN 1 ELSE 0

\* A lease in the map belongs to a request that still has to release it, so a
\* finished request leaks no lease.
NoLeakedLease ==
  \A r \in leases : phase[r] # "none" /\ phase[r] # "admitted" /\ pc[r] # "done"

\* A shutdown that began ends: every holder and waiter leaves the gate.
DrainCompletes == draining ~> pc[Drainer] = "done"

\* A session that keeps a lease learns through Lease.Done that its credential
\* is no longer current, and that the process drains.
SessionsLearn ==
  \A r \in Requests :
    pc[r] = "held" /\ (draining \/ ~CurrentBinding(binding[r])) ~> closes[r] = 1

\* Both ends of a lease's life: the process gets rid of all of them, and who holds
\* one hears that it has ended.
LeasesEnd == DrainCompletes /\ SessionsLearn
=============================================================================
