------------------------------ MODULE Traffic ------------------------------
(***************************************************************************)
(* The optional traffic history (internal/invocation/traffic*.go): a       *)
(* facade that opens a generation of history in the background, the        *)
(* generation's bounded queue and its one writer, readers that may find it *)
(* damaged, recovery by revalidation, and shutdown.                        *)
(*                                                                         *)
(* An observation is the admission of a call, or its terminal.  No caller  *)
(* waits for the history and a batch is never written twice.  Charges in   *)
(* bytes are left out: every limit in bytes has one in records beside it.  *)
(***************************************************************************)
EXTENDS Integers, Sequences, FiniteSets, SequencesExt

CONSTANTS
    TrafficIds,       \* invocations, HTTP requests and Git operations
    Collisions,       \* ids that another observation carries with other facts
    QueueRecords, BatchRecords, RetainedRecords, \* TrafficConfig
    MaxFailures,      \* failures of the history in one behaviour
    Nil

VARIABLES
    facade,     \* the stable TrafficStore: [state, draining, closed, faulted, opener]
    store,      \* the generation it publishes, and its incident
    queue,      \* the channel of observations
    writer,     \* [pc, batch, active, error, revision]: runTraffic's goroutine
    history,    \* what is durable: [rows, high, pruned]
    faults      \* failures so far

trafficVars == <<facade, store, queue, writer, history, faults>>

NewFacade == [state |-> "disabled", draining |-> FALSE, closed |-> FALSE, faulted |-> FALSE, recoverable |-> FALSE, opener |-> "none"]

\* closed, draining, faulted, recoverable and failureRevision; the incident's
\* Recovery; pendingConnection; queued; and the last revision that a
\* revalidation has seen in full.
NewStore == [open |-> FALSE, published |-> FALSE, closed |-> FALSE, draining |-> FALSE, faulted |-> FALSE, recoverable |-> FALSE,
             revision |-> 0, validated |-> 0, incident |-> Nil, pending |-> FALSE, queued |-> 0]

NewWriter == [pc |-> "idle", batch |-> <<>>, error |-> Nil, revision |-> 0]

TrafficInit ==
    /\ facade = NewFacade
    /\ store = NewStore
    /\ queue = <<>>
    /\ writer = NewWriter
    /\ history = [rows |-> <<>>, high |-> 0, pruned |-> 0]
    /\ faults = 0

-----------------------------------------------------------------------------
(* Failures *)

\* classifyTraffic: which failures may be recovered from, given what is known
\* of the transaction.
Recoverable(cause, settlement) ==
    /\ cause # "integrity"
    /\ cause \in {"io", "capacity"} \/ settlement = "uncertain"

\* failTrafficState on the generation.
Failing(s, cause, settlement) ==
    IF \/ settlement # "uncertain" /\ cause \in {"identity", "capacity"}
       \/ s.closed \/ s.draining \/ (s.faulted /\ ~s.recoverable)
    THEN s
    ELSE [s EXCEPT !.faulted = TRUE, !.recoverable = Recoverable(cause, settlement), !.revision = @ + 1,
                   !.incident = IF Recoverable(cause, settlement) THEN "recovering" ELSE "operator_action_required"]

\* A failure the environment decides on, of which there are MaxFailures.
Fault == faults < MaxFailures /\ faults' = faults + 1

\* view: a reader meets a storage error and reports it, beside the writer.
ReadFails ==
    /\ store.open /\ ~store.closed
    /\ Fault
    /\ \E cause \in {"io", "integrity"} : store' = Failing(store, cause, "not_started")
    /\ UNCHANGED <<facade, queue, writer, history>>

-----------------------------------------------------------------------------
(* Observations *)

\* enqueueObservation: through the facade to the generation, or refused.
Accepts ==
    /\ ~facade.closed /\ ~facade.faulted /\ ~facade.draining /\ store.published
    /\ ~store.closed /\ ~store.faulted /\ ~store.draining
    /\ store.queued < QueueRecords

Enqueue(r) ==
    /\ IF Accepts
       THEN queue' = Append(queue, r) /\ store' = [store EXCEPT !.queued = @ + 1]
       ELSE UNCHANGED <<queue, store>>
    /\ UNCHANGED <<facade, writer, history, faults>>

\* ObserveMCP and observeInitial.
ObserveMCP(i) == Enqueue([id |-> i, facts |-> "own", terminal |-> Nil])

\* ObserveMCPCompletion: the snapshot of the admission comes with it, so it
\* can be recorded whether or not the admission was.
ObserveMCPCompletion(i, class) == Enqueue([id |-> i, facts |-> "own", terminal |-> class])

\* Another protocol's observation that carries the same identifier.
ObserveCollision(i) == i \in Collisions /\ Accepts /\ Enqueue([id |-> i, facts |-> "other", terminal |-> "outcome_unknown"])

-----------------------------------------------------------------------------
(* The durable history *)

Retained(h) == {h.rows[j].id : j \in 1 .. Len(h.rows)}
RowOf(h, i) == CHOOSE j \in 1 .. Len(h.rows) : h.rows[j].id = i

\* matchingTraffic: a known identifier must come with the facts it was recorded
\* with.
Matches(h, r) == r.id \in Retained(h) => h.rows[RowOf(h, r.id)].facts = r.facts

\* insertTraffic: the oldest rows make room.
insertTraffic(h, r) ==
    LET victims == IF Len(h.rows) + 1 > RetainedRecords THEN Len(h.rows) + 1 - RetainedRecords ELSE 0
        row == [id |-> r.id, facts |-> r.facts, terminal |-> Nil, sequence |-> h.high + 1]
    IN  [rows |-> Append(SubSeq(h.rows, victims + 1, Len(h.rows)), row), high |-> h.high + 1, pruned |-> h.pruned + victims]

\* One observation of applyTraffic: inserted when new; the first terminal wins.
Applied(h, r) ==
    LET known == IF r.id \in Retained(h) THEN h ELSE insertTraffic(h, r)
        j == RowOf(known, r.id)
    IN  IF r.terminal = Nil \/ known.rows[j].terminal # Nil THEN known
        ELSE [known EXCEPT !.rows = [@ EXCEPT ![j].terminal = r.terminal]]

\* applyTraffic: identities are validated before anything is pruned; one that
\* does not match refuses the batch, also when it appears within the batch.
applyTraffic(h, batch) ==
    LET step(acc, r) == IF acc = Nil \/ ~Matches(acc, r) THEN Nil ELSE Applied(acc, r)
    IN  IF \E j \in 1 .. Len(batch) : ~Matches(h, batch[j]) THEN Nil ELSE FoldLeft(step, h, batch)

\* validateTrafficEvidence.
ValidEvidence(h) ==
    /\ Len(h.rows) <= RetainedRecords
    /\ Cardinality(Retained(h)) = Len(h.rows)
    /\ \A j \in 1 .. Len(h.rows) : h.rows[j].sequence <= h.high /\ (j > 1 => h.rows[j - 1].sequence < h.rows[j].sequence)
    /\ h.high - Len(h.rows) = h.pruned

-----------------------------------------------------------------------------
(* The writer *)

\* runTraffic: the first observation and those that come within the dwell.
Gather ==
    /\ store.open /\ writer.pc = "idle" /\ queue # <<>>
    /\ \E n \in 1 .. BatchRecords :
          /\ n <= Len(queue)
          /\ writer' = [writer EXCEPT !.pc = "process", !.batch = SubSeq(queue, 1, n)]
          /\ queue' = SubSeq(queue, n + 1, Len(queue))
    /\ UNCHANGED <<facade, store, history, faults>>

\* processTraffic, before it writes: a generation that is closed or faulted
\* loses the batch; observations may have outlived QueueLifetime.
Process ==
    /\ writer.pc = "process"
    /\ \/ /\ store.closed \/ store.faulted
          /\ store' = [store EXCEPT !.queued = @ - Len(writer.batch)]
          /\ writer' = [writer EXCEPT !.pc = "idle", !.batch = <<>>]
          /\ UNCHANGED faults
       \/ /\ ~store.closed /\ ~store.faulted
          /\ writer' = [writer EXCEPT !.pc = "write"]
          /\ UNCHANGED <<store, faults>>
       \/ /\ Fault
          /\ store' = [store EXCEPT !.queued = @ - 1]
          /\ writer' = [writer EXCEPT !.pc = IF Len(writer.batch) = 1 THEN "idle" ELSE "process", !.batch = Tail(@)]
    /\ UNCHANGED <<facade, queue, history>>

\* writeTraffic ended: the connection returns to the pool unless it is still in
\* a transaction, and the failure is reported before the batch is settled.
WriteEnds(h, cause, settlement, pending) ==
    /\ history' = h
    /\ store' = IF cause = Nil THEN store
                ELSE [Failing(store, cause, IF pending THEN "uncertain" ELSE settlement) EXCEPT !.pending = pending]
    /\ writer' = [writer EXCEPT !.pc = "settle", !.error = cause]
    /\ UNCHANGED <<facade, queue>>

\* Begin, reservation and statements may fail with the transaction rolled back;
\* a rollback, a commit or its acknowledgment with its outcome unknown; and the
\* files may fail validation after the commit.  An unresolved connection
\* blocks the pool.
Write ==
    LET h == applyTraffic(history, writer.batch)
    IN  /\ writer.pc = "write"
        /\ \/ store.pending /\ WriteEnds(history, "io", "not_started", TRUE) /\ UNCHANGED faults
           \/ ~store.pending /\ h = Nil /\ WriteEnds(history, "identity", "rolled_back", FALSE) /\ UNCHANGED faults
           \/ ~store.pending /\ h # Nil /\ WriteEnds(h, Nil, Nil, FALSE) /\ UNCHANGED faults
           \/ /\ ~store.pending /\ Fault
              /\ \/ \E cause \in {"io", "capacity", "integrity"} : WriteEnds(history, cause, "rolled_back", FALSE)
                 \/ h # Nil /\ \E after \in {history, h} : WriteEnds(after, "io", "uncertain", FALSE)
                 \/ WriteEnds(history, "io", "uncertain", TRUE)
                 \/ h # Nil /\ WriteEnds(h, "integrity", "committed", FALSE)

\* settleTraffic: an acknowledged observation proves that recording recovered,
\* unless a reader has found another failure meanwhile.
Settle ==
    /\ writer.pc = "settle"
    /\ store' = [store EXCEPT !.queued = @ - Len(writer.batch),
                              !.incident = IF writer.error = Nil /\ @ # Nil /\ ~store.faulted THEN "recovered" ELSE @]
    /\ writer' = [writer EXCEPT !.pc = "idle", !.batch = <<>>, !.error = Nil]
    /\ UNCHANGED <<facade, queue, history, faults>>

\* drainTraffic, when the writer sees stop: everything left is lost.
DrainTraffic ==
    /\ writer.pc = "idle" /\ store.open /\ store.closed
    /\ store' = [store EXCEPT !.queued = @ - Len(queue)]
    /\ queue' = <<>>
    /\ writer' = [writer EXCEPT !.pc = "stopped"]
    /\ UNCHANGED <<facade, history, faults>>

-----------------------------------------------------------------------------
(* Recovery *)

\* recoverTraffic begins on a tick of the writer's goroutine; a connection that
\* is still in a transaction puts it off.
RecoverBegins ==
    /\ writer.pc = "idle" /\ store.open
    /\ ~store.closed /\ ~store.draining /\ store.faulted /\ store.recoverable
    /\ store' = [store EXCEPT !.pending = FALSE]
    /\ writer' = [writer EXCEPT !.pc = "recover", !.revision = store.revision]
    /\ UNCHANGED <<facade, queue, history, faults>>

\* Mutant: the generation is healthy again whatever was reported meanwhile.
RecoverEndsBlind ==
    /\ writer.pc = "recover"
    /\ writer' = [writer EXCEPT !.pc = "idle"]
    /\ ValidEvidence(history)
    /\ store' = [store EXCEPT !.faulted = FALSE, !.recoverable = FALSE, !.incident = "degraded", !.validated = writer.revision]
    /\ UNCHANGED <<facade, queue, history, faults>>

\* The complete revalidation ended.  A failure reported since it began is newer
\* than what it has seen.
RecoverEnds ==
    /\ writer.pc = "recover"
    /\ writer' = [writer EXCEPT !.pc = "idle"]
    /\ \/ /\ ValidEvidence(history)
          /\ store' = IF ~store.closed /\ ~store.draining /\ writer.revision = store.revision
                      THEN [store EXCEPT !.faulted = FALSE, !.recoverable = FALSE, !.incident = "degraded", !.validated = writer.revision]
                      ELSE store
          /\ UNCHANGED faults
       \/ ~ValidEvidence(history) /\ store' = Failing(store, "integrity", "not_started") /\ UNCHANGED faults
       \/ Fault /\ \E cause \in {"io", "integrity"} : store' = Failing(store, cause, "not_started")
    /\ UNCHANGED <<facade, queue, history>>

-----------------------------------------------------------------------------
(* The facade *)

\* StartOpening, once; without a selected generation history stays disabled.
StartOpening ==
    /\ facade.opener = "none" /\ ~facade.draining
    /\ \/ facade' = [facade EXCEPT !.opener = "opening", !.state = "opening"]
       \/ facade' = [facade EXCEPT !.opener = "done"]
    /\ UNCHANGED <<store, queue, writer, history, faults>>

\* An attempt fails: reported on the facade, and tried again after a delay when
\* the cause may pass.
OpenFails(cause) ==
    LET stopping == facade.draining \/ facade.closed
        recoverable == IF stopping THEN facade.recoverable ELSE Recoverable(cause, "not_started")
    IN  facade' = [facade EXCEPT !.state = "unavailable", !.faulted = @ \/ ~stopping, !.recoverable = recoverable,
                                 !.opener = IF recoverable /\ ~stopping THEN "waiting" ELSE "done"]

\* openTraffic: the generation is validated read-only before it is opened for
\* writing, and its writer starts.  A schema upgrade whose outcome is not known
\* ends the opener, as damage does.
OpenAttempt ==
    /\ facade.opener = "opening"
    /\ \/ Fault /\ (\E cause \in {"io", "integrity"} : OpenFails(cause)) /\ UNCHANGED <<store, writer>>
       \/ ~ValidEvidence(history) /\ OpenFails("integrity") /\ UNCHANGED <<faults, store, writer>>
       \/ /\ ValidEvidence(history)
          /\ facade' = [facade EXCEPT !.opener = "opened"]
          /\ store' = [NewStore EXCEPT !.open = TRUE]
          /\ writer' = NewWriter
          /\ UNCHANGED faults
    /\ UNCHANGED <<queue, history>>

OpenRetries ==
    /\ facade.opener = "waiting"
    /\ facade' = [facade EXCEPT !.opener = IF facade.draining THEN "done" ELSE "opening"]
    /\ UNCHANGED <<store, queue, writer, history, faults>>

\* The generation is published, or closed again when the drain came first.
OpenPublishes ==
    /\ facade.opener = "opened"
    /\ ~store.closed
    /\ IF facade.draining \/ facade.closed
       THEN store' = [store EXCEPT !.closed = TRUE] /\ UNCHANGED facade
       ELSE /\ store' = [store EXCEPT !.published = TRUE, !.incident = IF facade.faulted THEN "degraded" ELSE Nil]
            /\ facade' = [facade EXCEPT !.opener = "done", !.faulted = FALSE, !.state = "ready"]
    /\ UNCHANGED <<queue, writer, history, faults>>

\* BeginDrain on the facade and on what it has published.
BeginDrain ==
    /\ ~facade.draining
    /\ facade' = [facade EXCEPT !.draining = TRUE, !.opener = IF @ = "none" THEN "done" ELSE @]
    /\ store' = [store EXCEPT !.draining = store.published]
    /\ UNCHANGED <<queue, writer, history, faults>>

\* Close waits for the opener and then closes what was published.
CloseFacade ==
    /\ facade.draining /\ ~facade.closed
    /\ facade.opener = "done"
    /\ facade' = [facade EXCEPT !.closed = TRUE]
    /\ store' = [store EXCEPT !.closed = @ \/ store.published]
    /\ UNCHANGED <<queue, writer, history, faults>>

\* The generation's Close returns once its writer has ended: the databases are
\* closed and the directory has no owner.
CloseReturns ==
    /\ store.open /\ store.closed /\ writer.pc = "stopped"
    /\ store' = [store EXCEPT !.open = FALSE, !.published = FALSE]
    /\ facade' = [facade EXCEPT !.opener = IF @ = "opened" THEN "done" ELSE @]
    /\ UNCHANGED <<queue, writer, history, faults>>

WriterStep == Gather \/ Process \/ Write \/ Settle \/ DrainTraffic \/ RecoverBegins \/ RecoverEnds
OpenerStep == OpenAttempt \/ OpenRetries \/ OpenPublishes

-----------------------------------------------------------------------------
(* Properties *)

\* What is durable always passes the validation that a recovery and the next
\* start make of it, whatever batch was lost, rolled back or of unknown outcome,
\* and queued counts what is in the queue and in the writer's hands
\* (traffic_writer.go, traffic_generation.go validateTrafficEvidence).
HistoryIsSound ==
    /\ ValidEvidence(history)
    /\ store.open => store.queued = Len(queue) + Len(writer.batch)

\* A generation is healthy only if a complete revalidation began after the last
\* failure anyone reported (traffic_recovery.go failureRevision).
RecoveryIsCurrent == ~store.faulted => store.revision = store.validated

\* A drain ends with nothing open, whenever the generation was opened, and every
\* accepted observation settled (traffic_lifecycle.go, traffic.go Close).
HistoryCloses == facade.draining ~> (facade.closed /\ ~store.open /\ queue = <<>>)
=============================================================================
