------------------------------ MODULE Custody ------------------------------
(***************************************************************************)
(* The secret of one HTTP credential: its durable custody and fenced       *)
(* replacement (internal/keyring/cutover.go and custody.go), the service   *)
(* that edits the credential (internal/httpcredentials/service.go), and    *)
(* the requests that use the secret (internal/invocation/http_admission.go,*)
(* ConfirmHTTP and ConfirmMaterial).                                       *)
(*                                                                         *)
(* The database is durable and changes only by whole transactions.  A      *)
(* transaction commits, or fails and leaves no trace, or its outcome stays *)
(* unknown to the process, which then latches the store: no transaction of *)
(* this process succeeds any more.  A crash forgets everything but the     *)
(* database.                                                               *)
(*                                                                         *)
(* Two nonqueueing permits order the work: `mutation` belongs to one edit  *)
(* of the credential, or to one request while it is confirmed; `operation` *)
(* to one cutover, or to one request while it reads the secret.            *)
(***************************************************************************)
EXTENDS Naturals, FiniteSets

CONSTANTS
  Editors,         \* administrative calls that edit the credential
  Requests,        \* agent requests that use its secret
  Handles,         \* the generation handles the entropy source produces
  MaxCandidates,   \* keyring_candidates
  MaxCrashes,      \* bound: how often the process may crash
  None

Procs == Editors \cup Requests

ASSUME ProcsDistinct == Editors \cap Requests = {} /\ None \notin Procs \cup Handles
ASSUME HandlesFinite == IsFiniteSet(Handles)
ASSUME BoundsAssumption == MaxCandidates \in Nat \ {0} /\ MaxCrashes \in Nat

EditLabels == {"ready", "guarded", "admit", "fence", "retract", "sweep", "erase", "unlist",
               "register", "write", "verify", "commit", "activate", "discard", "discarded",
               "undo", "invalidate", "release"}
RequestLabels == {"evaluated", "reading", "acquired", "confirming", "confirmed", "dispatched"}
Labels == EditLabels \cup RequestLabels \cup {"idle", "leave", "returned"}

VARIABLES
  db,          \* the database
  latched,     \* the store refuses every transaction
  draining,    \* the coordinator refuses every new step
  operation,   \* who holds Coordinator.operation
  mutation,    \* who holds Service.mutation
  pc,
  kind,        \* "update", "rotate" or "delete"
  expected,    \* the credential revision an editor or a request goes by
  generation,  \* the material revision a request goes by, or an editor published
  handle,      \* the handle a process works on
  sweeping,    \* why an editor sweeps: "before" a new generation or "after" the cutover
  used,        \* the handles drawn so far
  served,      \* history: the handles that could ever be read
  crashes

vars == <<db, latched, draining, operation, mutation, pc, kind, expected, generation, handle,
          sweeping, used, served, crashes>>
store   == <<db, latched, served>>
permits == <<operation, mutation>>
locals  == <<kind, expected, generation, handle, sweeping, used>>
process == <<draining, crashes>>

\* The credential row, and the tables of the keyring for its namespace.
Row(revision, material, h, deleted) ==
  [revision |-> revision, material |-> material, handle |-> h, deleted |-> deleted]
Database(row, selected, selectedRevision, candidates, fenced, stored) ==
  [row |-> row, selected |-> selected, selectedRevision |-> selectedRevision,
   candidates |-> candidates, fenced |-> fenced, stored |-> stored]

\* Operation.ReadActive: the generation in force.
ServedBy(d) == IF d.fenced THEN None ELSE d.selected

\* availabilityTx: the row and the keyring agree on an unfenced generation.
Available(d) ==
  /\ ~d.row.deleted /\ d.row.handle # None /\ ~d.fenced
  /\ d.selected = d.row.handle /\ d.selectedRevision = d.row.material

\* precondition of repository.go.
Precondition(p) == ~db.row.deleted /\ db.row.revision = expected[p]

\* The handle that leaves keyring_authorities is kept in keyring_candidates.
Retained(d) == d.candidates \cup ({d.selected} \ {None})

Goto(p, label) == pc' = [pc EXCEPT ![p] = label]
SetLocal(f, p, v) == [f EXCEPT ![p] = v]

\* The credential was created and has no material yet (repository.create).
Init ==
  /\ db = Database(Row(1, 0, None, FALSE), None, 0, {}, FALSE, {})
  /\ latched = FALSE /\ draining = FALSE
  /\ operation = None /\ mutation = None
  /\ pc = [p \in Procs |-> "idle"]
  /\ kind = [p \in Editors |-> None]
  /\ expected = [p \in Procs |-> 0]
  /\ generation = [p \in Procs |-> 0]
  /\ handle = [p \in Procs |-> None]
  /\ sweeping = [p \in Editors |-> "before"]
  /\ used = {} /\ served = {}
  /\ crashes = 0
-----------------------------------------------------------------------------
(* Transactions (internal/storage/latch.go).                               *)

Write(d) == db' = d /\ served' = served \cup ({ServedBy(d)} \ {None})

Commits(p, new, ok) == ~latched /\ Write(new) /\ latched' = FALSE /\ Goto(p, ok)

\* Refused before it begins, or rolled back; a storage failure latches.
Fails(p, bad) == /\ UNCHANGED <<db, served>> /\ latched' \in {latched, TRUE}
                 /\ Goto(p, bad)

\* It commits, but the acknowledgement is lost: the caller sees the latch.
CommitsUnseen(p, new, bad) == ~latched /\ Write(new) /\ latched' = TRUE /\ Goto(p, bad)

Transact(p, allowed, new, ok, bad) ==
  \/ allowed /\ (Commits(p, new, ok) \/ CommitsUnseen(p, new, bad))
  \/ Fails(p, bad)

\* auditGenerationEffect: a transaction between two records of the audit.  When
\* the second record fails the effect stands and the caller sees an error.
Effect(p, new, ok, bad) == Transact(p, TRUE, new, ok, bad) \/ Commits(p, new, bad)

\* Some other transaction of the process latches the store.
OtherLatch == /\ ~latched /\ latched' = TRUE
              /\ UNCHANGED <<db, served, pc, permits, locals, process>>
-----------------------------------------------------------------------------
(* Edits: Service.Update, Rotate and Delete.                               *)

\* The operator read the credential and asks for an edit of that revision.
Observe(e, k) ==
  /\ pc[e] = "idle"
  /\ kind' = SetLocal(kind, e, k)
  /\ expected' = SetLocal(expected, e, db.row.revision)
  /\ Goto(e, "ready")
  /\ UNCHANGED <<store, permits, process, generation, handle, sweeping, used>>

TakeGuard(e) ==
  /\ pc[e] = "ready" /\ mutation = None
  /\ mutation' = e
  /\ Goto(e, IF kind[e] = "delete" THEN "admit" ELSE "guarded")
  /\ UNCHANGED <<store, operation, locals, process>>

GuardBusy(e) ==
  /\ pc[e] = "ready" /\ mutation # None /\ Goto(e, "returned")
  /\ UNCHANGED <<store, permits, locals, process>>

Update(e) ==
  /\ pc[e] = "guarded" /\ kind[e] = "update"
  /\ Transact(e, Precondition(e),
              Database(Row(db.row.revision + 1, db.row.material, db.row.handle, FALSE),
                       db.selected, db.selectedRevision, db.candidates, db.fenced, db.stored),
              "leave", "leave")
  /\ UNCHANGED <<permits, locals, process>>

\* rotate reads the credential again, now under the guard.
Check(e) ==
  /\ pc[e] = "guarded" /\ kind[e] = "rotate"
  /\ \/ Precondition(e) /\ Goto(e, "admit")
     \/ Goto(e, "leave")
  /\ UNCHANGED <<store, permits, locals, process>>

TakeOperation(e) ==
  /\ pc[e] = "admit" /\ operation = None /\ ~draining
  /\ operation' = e
  /\ Goto(e, IF kind[e] = "delete" THEN "invalidate" ELSE "fence")
  /\ UNCHANGED <<store, mutation, locals, process>>

\* The permit is taken or the coordinator drains; WithOperation, which only a
\* rotation goes through, also asks whether the caller is gone.
OperationRefused(e) ==
  /\ pc[e] = "admit" /\ (operation # None \/ draining \/ kind[e] = "rotate")
  /\ Goto(e, "leave")
  /\ UNCHANGED <<store, permits, locals, process>>
-----------------------------------------------------------------------------
(* The cutover: Operation.ReplaceFencedAfterAuthorizationSuccess.          *)

FenceAuthority(e) ==
  /\ pc[e] = "fence"
  /\ Transact(e, ~draining /\ Precondition(e),
              Database(db.row, None, 0, Retained(db), TRUE, db.stored), "sweep", "retract")
  /\ sweeping' = SetLocal(sweeping, e, "before")
  /\ UNCHANGED <<permits, process, kind, expected, generation, handle, used>>

\* Mutant: a cleanup that fails never ends the cutover.
SweepFailureIgnored(e) == IF sweeping[e] = "before" THEN "register" ELSE "release"

\* cleanupCandidates takes the retained candidates one after the other.  A failure
\* before the new generation ends the cutover, one after it is only reported.
SweepFailed(e) == IF sweeping[e] = "before" THEN "undo" ELSE "release"

SweepNext(e) ==
  /\ pc[e] = "sweep" /\ ~draining
  /\ \E h \in db.candidates : handle' = SetLocal(handle, e, h)
  /\ Goto(e, "erase")
  /\ UNCHANGED <<store, permits, process, kind, expected, generation, sweeping, used>>

SweepDone(e) ==
  /\ pc[e] = "sweep" /\ db.candidates = {}
  /\ Goto(e, IF sweeping[e] = "after" THEN "release"
             ELSE IF draining THEN "undo" ELSE "register")
  /\ UNCHANGED <<store, permits, locals, process>>

SweepStops(e) ==
  /\ pc[e] = "sweep" /\ Goto(e, SweepFailed(e))
  /\ UNCHANGED <<store, permits, locals, process>>

\* databaseCustody.remove spares a generation that is selected.
Erased(d, h) ==
  Database(d.row, d.selected, d.selectedRevision, d.candidates, d.fenced,
           IF d.selected = h THEN d.stored ELSE d.stored \ {h})
Unlisted(d, h) ==
  Database(d.row, d.selected, d.selectedRevision, d.candidates \ {h}, d.fenced, d.stored)

Erase(e) ==
  /\ pc[e] = "erase"
  /\ Effect(e, Erased(db, handle[e]), "unlist", SweepFailed(e))
  /\ UNCHANGED <<permits, locals, process>>

Unlist(e) ==
  /\ pc[e] = "unlist"
  /\ Transact(e, ~draining, Unlisted(db, handle[e]), "sweep", SweepFailed(e))
  /\ UNCHANGED <<permits, locals, process>>

RegisterCandidate(e) ==
  /\ pc[e] = "register"
  /\ \E h \in Handles \ used :
       /\ handle' = SetLocal(handle, e, h)
       /\ used' = used \cup {h}
       /\ Transact(e, h \notin Retained(db) /\ Cardinality(db.candidates) < MaxCandidates,
                   Database(db.row, db.selected, db.selectedRevision, db.candidates \cup {h},
                            db.fenced, db.stored),
                   IF draining THEN "undo" ELSE "write", "undo")
  /\ UNCHANGED <<permits, process, kind, expected, generation, sweeping>>

\* The entropy source fails.
NoHandle(e) ==
  /\ pc[e] = "register" /\ Goto(e, "undo")
  /\ UNCHANGED <<store, permits, locals, process>>

\* ensureActive stands before the write and before the verification.
Drained(e) ==
  /\ pc[e] \in {"write", "verify"} /\ draining /\ Goto(e, "undo")
  /\ UNCHANGED <<store, permits, locals, process>>

WriteGeneration(e) ==
  /\ pc[e] = "write"
  /\ Effect(e, Database(db.row, db.selected, db.selectedRevision, db.candidates, db.fenced,
                        db.stored \cup {handle[e]}),
            IF draining THEN "undo" ELSE "verify", "discard")
  /\ UNCHANGED <<permits, locals, process>>

Verify(e) ==
  /\ pc[e] = "verify"
  /\ \/ handle[e] \in db.stored /\ Goto(e, IF draining THEN "undo" ELSE "commit")
     \/ Goto(e, "discard")
  /\ UNCHANGED <<store, permits, locals, process>>

\* A failure that is neither the latch nor the drain discards the candidate.
CommitCandidate(e) ==
  /\ pc[e] = "commit"
  /\ \E bad \in {"undo", "discard"} :
       /\ Transact(e, ~draining /\ handle[e] \in db.candidates /\ Precondition(e),
                   Database(Row(db.row.revision + 1, db.row.material + 1, handle[e], FALSE),
                            handle[e], db.row.material + 1,
                            (db.candidates \ {handle[e]}) \cup ({db.selected} \ {None}),
                            db.fenced, db.stored),
                   "activate", bad)
       /\ bad = (IF latched' \/ draining THEN "undo" ELSE "discard")
  /\ generation' = SetLocal(generation, e, db.row.material + 1)
  /\ UNCHANGED <<permits, process, kind, expected, handle, sweeping, used>>

Discard(e) ==
  /\ pc[e] = "discard"
  /\ Effect(e, Erased(db, handle[e]), "discarded", "undo")
  /\ UNCHANGED <<permits, locals, process>>

Discarded(e) ==
  /\ pc[e] = "discarded"
  /\ Transact(e, ~draining, Unlisted(db, handle[e]), "undo", "undo")
  /\ UNCHANGED <<permits, locals, process>>

\* Only now can the new generation be read.
ActivateAuthority(e) ==
  /\ pc[e] = "activate"
  /\ Transact(e, ~draining /\ db.row.material = generation[e] /\ db.fenced,
              Database(db.row, db.selected, db.selectedRevision, db.candidates, FALSE, db.stored),
              "sweep", "undo")
  /\ sweeping' = SetLocal(sweeping, e, "after")
  /\ UNCHANGED <<permits, process, kind, expected, generation, handle, used>>

\* invalidateAuthority with its callback.
Invalidated(d, deleted) ==
  Database(IF d.row.deleted THEN d.row
           ELSE Row(d.row.revision + 1, d.row.material + 1, None, deleted),
           None, 0, Retained(d), d.fenced, d.stored)

\* Mutant: a failed cutover puts the generation of the row back in force.
UndoRestoring(e) ==
  /\ pc[e] \in {"undo", "retract"}
  /\ Transact(e, ~draining,
              Database(db.row, db.row.handle, db.row.material, db.candidates \ {db.row.handle},
                       FALSE, db.stored),
              IF pc[e] = "undo" THEN "sweep" ELSE "release", "release")
  /\ sweeping' = SetLocal(sweeping, e, "after")
  /\ UNCHANGED <<permits, process, kind, expected, generation, handle, used>>

\* A failed cutover withdraws whatever is selected, whoever selected it.
Undo(e) ==
  /\ pc[e] \in {"undo", "retract"}
  /\ Transact(e, ~draining, Invalidated(db, FALSE),
              IF pc[e] = "undo" THEN "sweep" ELSE "release", "release")
  /\ sweeping' = SetLocal(sweeping, e, "after")
  /\ UNCHANGED <<permits, process, kind, expected, generation, handle, used>>

Invalidate(e) ==
  /\ pc[e] = "invalidate"
  /\ Transact(e, ~draining /\ Precondition(e), Invalidated(db, TRUE), "sweep", "release")
  /\ sweeping' = SetLocal(sweeping, e, "after")
  /\ UNCHANGED <<permits, process, kind, expected, generation, handle, used>>

ReleaseOperation(e) ==
  /\ pc[e] = "release" /\ operation' = None /\ Goto(e, "leave")
  /\ UNCHANGED <<store, mutation, locals, process>>

ReleaseGuard(p) ==
  /\ pc[p] = "leave" /\ mutation' = None /\ Goto(p, "returned")
  /\ UNCHANGED <<store, operation, locals, process>>
-----------------------------------------------------------------------------
(* Requests: AdmitHTTP, Service.Acquire, ConfirmHTTP and ConfirmMaterial.  *)

\* The evaluation pins the credential's revision and its material generation.
Evaluate(r) ==
  /\ pc[r] = "idle" /\ Available(db)
  /\ expected' = SetLocal(expected, r, db.row.revision)
  /\ generation' = SetLocal(generation, r, db.row.material)
  /\ Goto(r, "evaluated")
  /\ UNCHANGED <<store, permits, process, kind, handle, sweeping, used>>

\* WithOperation and ReadActive.
BeginRead(r) ==
  /\ pc[r] = "evaluated" /\ operation = None /\ ~draining /\ ~latched /\ ServedBy(db) # None
  /\ operation' = r
  /\ handle' = SetLocal(handle, r, db.selected)
  /\ Goto(r, "reading")
  /\ UNCHANGED <<store, mutation, process, kind, expected, generation, sweeping, used>>

\* Mutant: a refused read keeps the operation permit.
FinishReadLeaking(r) ==
  /\ pc[r] = "reading"
  /\ \/ Precondition(r) /\ operation' = None /\ Goto(r, "acquired")
     \/ operation' = operation /\ Goto(r, "returned")
  /\ UNCHANGED <<store, mutation, locals, process>>

\* The generation is decrypted and held against a second view of the row.
FinishRead(r) ==
  /\ pc[r] = "reading" /\ operation' = None
  /\ \/ /\ ~draining /\ ~latched /\ handle[r] \in db.stored
        /\ Precondition(r) /\ db.row.handle = handle[r]
        /\ db.row.material = db.selectedRevision /\ generation[r] = db.selectedRevision
        /\ Goto(r, "acquired")
     \/ Goto(r, "returned")
  /\ UNCHANGED <<store, mutation, locals, process>>

\* Mutant: the confirmation does not exclude the edits.
BeginConfirmUnguarded(r) ==
  /\ pc[r] = "acquired" /\ Goto(r, "confirming")
  /\ UNCHANGED <<store, permits, locals, process>>

\* ConfirmMaterial takes the guard of the edits.
BeginConfirm(r) ==
  /\ pc[r] = "acquired" /\ mutation = None
  /\ mutation' = r /\ Goto(r, "confirming")
  /\ UNCHANGED <<store, operation, locals, process>>

ConfirmMaterial(r) ==
  /\ pc[r] = "confirming"
  /\ \/ /\ Available(db) /\ Precondition(r) /\ db.row.material = generation[r] /\ ~latched
        /\ Goto(r, "confirmed")
     \/ Goto(r, "leave")
  /\ UNCHANGED <<store, permits, locals, process>>

\* ConfirmHealthy: the dispatch is detached under the store's fault fence.
Detach(r) ==
  /\ pc[r] = "confirmed"
  /\ \/ ~latched /\ Goto(r, "dispatched")
     \/ Goto(r, "leave")
  /\ UNCHANGED <<store, permits, locals, process>>

Dispatched(r) ==
  /\ pc[r] = "dispatched" /\ Goto(r, "leave")
  /\ UNCHANGED <<store, permits, locals, process>>

\* A busy permit, the drain, the latch, a failed view or a cancelled caller.
Refused(r) ==
  /\ pc[r] \in {"evaluated", "acquired"} /\ Goto(r, "returned")
  /\ UNCHANGED <<store, permits, locals, process>>
-----------------------------------------------------------------------------
Drain == /\ ~draining /\ draining' = TRUE
         /\ UNCHANGED <<store, permits, pc, locals, crashes>>

\* The process stops anywhere, and a new one opens the same database.
Crash ==
  /\ crashes < MaxCrashes /\ crashes' = crashes + 1
  /\ latched' = FALSE /\ draining' = FALSE
  /\ operation' = None /\ mutation' = None
  /\ pc' = [p \in Procs |-> IF pc[p] = "idle" THEN "idle" ELSE "returned"]
  /\ UNCHANGED <<db, served, locals>>

Edit(e) ==
  \/ TakeGuard(e) \/ GuardBusy(e) \/ Update(e) \/ Check(e)
  \/ TakeOperation(e) \/ OperationRefused(e)
  \/ FenceAuthority(e) \/ SweepNext(e) \/ SweepDone(e) \/ SweepStops(e)
  \/ Erase(e) \/ Unlist(e) \/ RegisterCandidate(e) \/ NoHandle(e) \/ Drained(e)
  \/ WriteGeneration(e) \/ Verify(e) \/ CommitCandidate(e)
  \/ Discard(e) \/ Discarded(e) \/ ActivateAuthority(e)
  \/ Undo(e) \/ Invalidate(e) \/ ReleaseOperation(e) \/ ReleaseGuard(e)

Request(r) ==
  \/ BeginRead(r) \/ FinishRead(r) \/ BeginConfirm(r) \/ ConfirmMaterial(r)
  \/ Detach(r) \/ Dispatched(r) \/ Refused(r) \/ ReleaseGuard(r)

Next ==
  \/ \E e \in Editors : Edit(e) \/ \E k \in {"update", "rotate", "delete"} : Observe(e, k)
  \/ \E r \in Requests : Request(r) \/ Evaluate(r)
  \/ OtherLatch \/ Drain \/ Crash

Spec == Init /\ [][Next]_vars

\* Every goroutine runs on; calls arrive, the store latches and the process drains
\* or stops only if they do.
Fairness == /\ \A e \in Editors : WF_vars(Edit(e))
            /\ \A r \in Requests : WF_vars(Request(r))

FairSpec == Spec /\ Fairness
-----------------------------------------------------------------------------
(* Properties.                                                             *)

TypeOK ==
  /\ db \in [row : [revision : Nat, material : Nat, handle : Handles \cup {None}, deleted : BOOLEAN],
             selected : Handles \cup {None}, selectedRevision : Nat,
             candidates : SUBSET Handles, fenced : BOOLEAN, stored : SUBSET Handles]
  /\ latched \in BOOLEAN /\ draining \in BOOLEAN
  /\ operation \in Procs \cup {None} /\ mutation \in Procs \cup {None}
  /\ pc \in [Procs -> Labels]
  /\ kind \in [Editors -> {"update", "rotate", "delete", None}]
  /\ expected \in [Procs -> Nat] /\ generation \in [Procs -> Nat]
  /\ handle \in [Procs -> Handles \cup {None}]
  /\ sweeping \in [Editors -> {"before", "after"}]
  /\ used \subseteq Handles /\ served \subseteq Handles
  /\ crashes \in 0..MaxCrashes

\* validateTx (recovery.go) and UseDatabaseCustody refuse to start a gateway over a
\* database where this fails.  Whatever transaction was the last to commit when the
\* process stopped, the next process starts.
StartupValid ==
  /\ db.row.material <= db.row.revision
  /\ db.row.handle # None => db.row.material > 0 /\ ~db.row.deleted
  /\ db.selected # None =>
       /\ ~db.row.deleted /\ db.row.handle = db.selected
       /\ db.row.material = db.selectedRevision
       /\ db.selected \in db.stored

\* Every ciphertext at rest is selected or listed for cleanup: a cutover that stops
\* anywhere leaves nothing the next cutover cannot find and erase.
NothingOrphaned == db.stored \subseteq Retained(db)

\* Failed and interrupted cutovers do not pile up: at most one generation is
\* retained, so the keyring_candidates limit never refuses a rotation.
OneGeneration == Cardinality(Retained(db)) <= 1

\* What a request takes with it when its dispatch is detached is the material in
\* force for the revision it was authorised against; no rotation, edit or deletion
\* that has returned to its operator is missed.
DispatchIsCurrent ==
  \A r \in Requests : pc[r] = "dispatched" =>
    Available(db) /\ Precondition(r) /\ handle[r] = db.selected

\* A failed cutover withdraws whatever is selected and does not look at the revision
\* (ExactInvalidation): it is safe because a cutover that reaches its fence goes by the
\* current revision, and what an undo finds selected is the cutover's own generation.
CutoverNotStale ==
  \A e \in Editors :
    /\ pc[e] \in {"fence", "retract"} => Precondition(e)
    /\ pc[e] = "undo" => db.selected \in {None, handle[e]}

\* What a database may hold when the process stops at any transaction.
DurableState == TypeOK /\ StartupValid /\ NothingOrphaned /\ OneGeneration

\* What was read before a permit, a transaction or a drain is still so when it is used.
NothingStale == DispatchIsCurrent /\ CutoverNotStale

\* The readable generation behaves as SecretSlot promises.
Slot == INSTANCE SecretSlot WITH current <- ServedBy(db), past <- served
SlotSpec == Slot!Spec

\* Neither permit is kept for ever: both are nonqueueing, so a lost one would refuse
\* every later edit and every later request.
PermitsComeBack ==
  /\ operation # None ~> operation = None
  /\ mutation # None ~> mutation = None
=============================================================================
