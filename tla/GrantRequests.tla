---------------------------- MODULE GrantRequests ----------------------------
(***************************************************************************)
(* Grant requests (internal/grantrequests), the agent's self-service       *)
(* handlers in front of them (internal/selfservice) and the authority half *)
(* of an approval (authorization/request_approval.go).                     *)
(*                                                                         *)
(* An agent asks for a policy, an administrator approves a narrower one or *)
(* rejects it, the owner may cancel it, and terminal requests are evicted  *)
(* when a table is full.  Every mutation is one transaction of the single  *)
(* writer; a commit whose result is not known latches the store until the  *)
(* process restarts, and startup validates every row before readiness.     *)
(*                                                                         *)
(* Names of namespaces, tools and constraints are model values: a          *)
(* namespace stands for the server that permanently owns it, an atom of a  *)
(* constraint for one pointer, operator and value.  Evidence counts the    *)
(* descriptor snapshots a row carries in units of one snapshot.            *)
(***************************************************************************)
EXTENDS Integers, Sequences, FiniteSets, SequencesExt

CONSTANTS
    Requesters, Servers,
    Policies,                   \* the policies agents and administrators send
    MaxRows, MaxPending, MaxEvidence, MaxGrants, PageSize, \* the contract's limits
    MaxSequence, MaxTime,       \* bounds of the model
    Null

ASSUME LimitsAssumption == {MaxRows, MaxPending, MaxEvidence, MaxTime} \subseteq Nat
ASSUME NullIsNoNumber == Null \notin Int
\* A policy that was decoded has a duration in whole seconds or none.
ASSUME PoliciesAssumption == Null \notin Policies /\ \A p \in Policies : p.duration \in Nat \cup {Null}

VARIABLES
    db,        \* what SQLite holds: rows, sequence, identities, evidence, grants
    servers,   \* [Servers -> [state, descriptor]]: desired state, durable descriptor
    clock,     \* the wall clock, which may be set back
    process,   \* "ready", "latched" or "refused" (startup validation failed)
    walk       \* one caller paging through a list of requests

requestVars == <<db, servers, clock, process, walk>>

Times == 0 .. MaxTime
Terminal == {"approved", "rejected", "cancelled"}
RequestRows == DOMAIN db.rows

-----------------------------------------------------------------------------
(* Policies *)

\* CompilePolicy and normalizePolicyTarget.
CompilePolicy(p) ==
    /\ p.server \in Servers
    /\ p.tool # Null => ~p.future /\ ~p.readOnly
    /\ p.tool = Null => p.constraint = Null /\ p.future

\* CanonicalDedupeIdentity: sorted atoms are a set; a read-only policy is told
\* from a read-write one only by the version.
CanonicalDedupeIdentity(p) ==
    <<IF p.readOnly THEN 3 ELSE IF p.constraint # Null /\ p.constraint.version = 2 THEN 2 ELSE 1,
      p.server, p.tool, IF p.constraint = Null THEN Null ELSE p.constraint.atoms, p.duration, p.future>>

\* accesstarget.MCP: a target without a tool covers every tool of its server.
Covers(t, u) == t.server = u.server /\ (t.tool = Null \/ t.tool = u.tool)
Overlaps(t, u) == Covers(t, u) \/ Covers(u, t)

constraintRetained(submitted, approved) ==
    submitted # Null =>
        /\ approved # Null
        /\ ~(submitted.version = 2 /\ approved.version = 1)
        /\ submitted.atoms \subseteq approved.atoms

ValidateNarrowing(submitted, approved) ==
    /\ Covers(submitted, approved)
    /\ submitted.readOnly => approved.readOnly /\ approved.tool = Null
    /\ submitted.tool # Null => approved.tool # Null /\ constraintRetained(submitted.constraint, approved.constraint)
    /\ submitted.duration # Null => approved.duration # Null /\ approved.duration <= submitted.duration

\* HasActiveDenyConflictTx: a DENY that has not expired and overlaps the target.
HasActiveDenyConflict(grants, principal, target, now) ==
    \E g \in grants : /\ g.effect = "deny"
                      /\ g.principal = principal
                      /\ g.expires = Null \/ g.expires > now
                      /\ Overlaps(target, g)

-----------------------------------------------------------------------------
(* The transaction *)

\* Store.Mutate around a callback that reached its end: the commit is known to
\* be durable, or its outcome is unknown and the store latches.
Mutate(new) ==
    /\ process = "ready"
    /\ \/ db' = new /\ UNCHANGED process
       \/ db' \in {db, new} /\ process' = "latched"

\* The snapshots that a set of rows carries: at submission, at approval.
Snapshots(rows) == Cardinality({q \in DOMAIN rows : rows[q].submitted}) + Cardinality({q \in DOMAIN rows : rows[q].captured})

\* ensureRequestCapacity: the rows to evict, the oldest terminal ones and no more than make
\* room; none when all of them do not, or when the principal has its share of pending rows.
\* Evidence is counted by the table's triggers.
Victims(principal, new) ==
    LET pending == {q \in RequestRows : db.rows[q].state = "pending"}
        terminal == RequestRows \ pending
        needRows == Cardinality(RequestRows) + 1 - MaxRows
        needEvidence == db.evidence + new - MaxEvidence
        enough == {S \in SUBSET terminal : /\ \A p \in S, q \in terminal \ S : p < q
                                           /\ Cardinality(S) >= needRows
                                           /\ Snapshots(Restrict(db.rows, S)) >= needEvidence}
    IN  {S \in enough : /\ Cardinality({q \in pending : db.rows[q].principal = principal}) < MaxPending
                        /\ \A T \in enough : S \subseteq T}

\* loadPendingByIdentity.
PendingByIdentity(principal, policy) ==
    {q \in RequestRows : /\ db.rows[q].principal = principal
                         /\ db.rows[q].state = "pending"
                         /\ CanonicalDedupeIdentity(db.rows[q].requested) = CanonicalDedupeIdentity(policy)}

\* insertPendingRequest, with the identity that outlives the row.  The
\* sequence is AUTOINCREMENT: it is never used again.
Inserted(principal, policy, evicted) ==
    LET q == db.sequence + 1
        row == [principal |-> principal, state |-> "pending", revision |-> 1, requested |-> policy,
                approved |-> Null, grant |-> Null, submitted |-> policy.tool # Null, captured |-> FALSE,
                created |-> clock, closed |-> Null]
        rows == [x \in (RequestRows \ evicted) \cup {q} |-> IF x = q THEN row ELSE db.rows[x]]
        freed == Snapshots(Restrict(db.rows, evicted))
    IN  [db EXCEPT !.rows = rows, !.sequence = q, !.evidence = @ - freed + (IF row.submitted THEN 1 ELSE 0),
                   !.identities = [x \in DOMAIN db.identities \cup {q} |-> IF x = q THEN clock ELSE db.identities[x]]]

\* CreateOrExisting: a duplicate of a pending request is answered with it even
\* when the server is deleted; every other refusal leaves the tables alone.
CreateOrExisting(principal, policy) ==
    /\ db.sequence < MaxSequence
    /\ CompilePolicy(policy)
    /\ servers[policy.server].state \notin {"absent", "deleted"}
    /\ PendingByIdentity(principal, policy) = {}
    /\ policy.tool # Null => servers[policy.server].descriptor # "absent"
    /\ ~HasActiveDenyConflict(db.grants, principal, policy, clock)
    /\ \E evicted \in Victims(principal, IF policy.tool # Null THEN 1 ELSE 0) :
          Mutate(Inserted(principal, policy, evicted))
    /\ UNCHANGED <<servers, clock, walk>>

-----------------------------------------------------------------------------
(* Terminal transitions *)

\* Mutant: the aggregate of the evidence does not follow an approval.
CloseUncounted(q, state, approved, grant, captured) ==
    [db EXCEPT !.rows[q] = [@ EXCEPT !.state = state, !.revision = 2, !.approved = approved, !.grant = grant,
                                     !.captured = captured, !.closed = clock]]

\* The guarded UPDATE: only the pending row of revision 1, closed no earlier
\* than it was created.
Close(q, state, approved, grant, captured) ==
    LET row == [db.rows[q] EXCEPT !.state = state, !.revision = 2, !.approved = approved, !.grant = grant,
                                  !.captured = captured, !.closed = clock]
    IN  [db EXCEPT !.rows[q] = row, !.evidence = @ + (IF captured THEN 1 ELSE 0)]

Closable(q) == q \in RequestRows /\ db.rows[q].state = "pending" /\ clock >= db.rows[q].created

CancelOwned(principal, q) ==
    /\ Closable(q)
    /\ db.rows[q].principal = principal
    /\ Mutate(Close(q, "cancelled", Null, Null, FALSE))
    /\ UNCHANGED <<servers, clock, walk>>

Reject(q, revision) ==
    /\ Closable(q)
    /\ db.rows[q].revision = revision
    /\ Mutate(Close(q, "rejected", Null, Null, FALSE))
    /\ UNCHANGED <<servers, clock, walk>>

\* Mutant: an approval trusts the revision the administrator read.
PrepareUnchecked(q, revision, policy) ==
    /\ q \in RequestRows
    /\ CompilePolicy(policy)
    /\ servers[policy.server].state \notin {"absent", "deleted"}
    /\ ValidateNarrowing(db.rows[q].requested, policy)
    /\ policy.tool # Null => servers[policy.server].descriptor # "absent"

\* A tool approved out of a request for its server captures a descriptor.
Captures(q, policy) == db.rows[q].requested.tool = Null /\ policy.tool # Null

\* PrepareGrantRequestApproval: the request as it is inside the transaction.
PrepareGrantRequestApproval(q, revision, policy) ==
    /\ q \in RequestRows
    /\ db.rows[q].revision = revision
    /\ db.rows[q].state = "pending"
    /\ CompilePolicy(policy)
    /\ servers[policy.server].state # "absent"
    /\ ValidateNarrowing(db.rows[q].requested, policy)
    /\ servers[policy.server].state # "deleted"
    /\ Captures(q, policy) => servers[policy.server].descriptor # "absent"

\* ApproveGrantRequest with CommitGrantRequestApproval: the grant, the terminal
\* request and the revision of the authority are one transaction.
ApproveGrantRequest(q, revision, policy) ==
    LET grant == [id |-> q, effect |-> "allow", principal |-> db.rows[q].principal, server |-> policy.server,
                  tool |-> policy.tool, policy |-> policy, request |-> q,
                  expires |-> IF policy.duration = Null THEN Null ELSE clock + policy.duration]
        closed == Close(q, "approved", policy, q, Captures(q, policy))
    IN  /\ PrepareGrantRequestApproval(q, revision, policy)
        /\ Cardinality(db.grants) < MaxGrants
        /\ ~HasActiveDenyConflict(db.grants, db.rows[q].principal, policy, clock)
        /\ clock >= db.rows[q].created
        /\ Captures(q, policy) => db.evidence <= MaxEvidence - 1
        /\ Mutate([closed EXCEPT !.grants = @ \cup {grant}])
        /\ UNCHANGED <<servers, clock, walk>>

-----------------------------------------------------------------------------
(* Startup *)

\* scanAgentRequest: the columns of one row agree with its state.
scanAgentRequest(row) ==
    /\ row.revision = IF row.state = "pending" THEN 1 ELSE 2
    /\ (row.closed = Null) = (row.state = "pending")
    /\ (row.approved # Null) = (row.state = "approved")
    /\ (row.grant # Null) = (row.state = "approved")
    /\ row.closed # Null => row.closed >= row.created
    /\ row.approved # Null => CompilePolicy(row.approved) /\ ValidateNarrowing(row.requested, row.approved)

\* validateStartupRequest.
validateStartupRequest(row) ==
    /\ CompilePolicy(row.requested)
    /\ row.submitted = (row.requested.tool # Null)
    /\ row.captured = (row.approved # Null /\ row.requested.tool = Null /\ row.approved.tool # Null)

\* ValidateStartup.
ValidateStartup ==
    /\ Cardinality(RequestRows) <= MaxRows
    /\ \A q \in RequestRows : /\ q \in DOMAIN db.identities
                              /\ db.identities[q] = db.rows[q].created
                              /\ servers[db.rows[q].requested.server].state # "absent"
                              /\ scanAgentRequest(db.rows[q])
                              /\ validateStartupRequest(db.rows[q])
    /\ \A p \in Requesters :
          Cardinality({q \in RequestRows : db.rows[q].principal = p /\ db.rows[q].state = "pending"}) <= MaxPending
    /\ db.evidence = Snapshots(db.rows)
    /\ db.evidence <= MaxEvidence

\* The process starts again over the same database; cursors are bound to the
\* process and do not survive it.
Restart ==
    /\ process' = IF ValidateStartup THEN "ready" ELSE "refused"
    /\ walk' = IF walk = Null THEN Null ELSE [walk EXCEPT !.valid = FALSE]
    /\ UNCHANGED <<db, servers, clock>>

-----------------------------------------------------------------------------
(* Lists *)

Listed(w) == {q \in RequestRows : /\ w.owner = Null \/ db.rows[q].principal = w.owner
                                  /\ w.state = Null \/ db.rows[q].state = w.state}

\* What queryAdmin binds its cursor to: the filter and every candidate row.
Candidates == [q \in RequestRows |-> db.rows[q].state]

NewWalk(owner, state, bound) ==
    [owner |-> owner, state |-> state, bound |-> bound, upper |-> db.sequence, after |-> 0, seen |-> <<>>,
     valid |-> TRUE, done |-> FALSE, base |-> {}, at |-> IF bound THEN Candidates ELSE Null]

\* Mutant: the position of the next page is counted, not named.
PageByOffset(w) ==
    LET matching == SetToSortSeq({q \in Listed(w) : q <= w.upper}, <)
        last == IF Len(matching) < w.after + PageSize THEN Len(matching) ELSE w.after + PageSize
    IN  [w EXCEPT !.seen = @ \o SubSeq(matching, w.after + 1, last),
                  !.done = Len(matching) <= w.after + PageSize,
                  !.after = w.after + PageSize]

\* One page: ListOwned and ListAdmin read the rows between the position and
\* the watermark of the first page; queryAdmin, when nothing changed since,
\* goes on where it stopped.  The last page carries no cursor.
Page(w) ==
    LET matching == SetToSortSeq({q \in Listed(w) : q > w.after /\ q <= w.upper}, <)
        items == SubSeq(matching, 1, IF Len(matching) < PageSize THEN Len(matching) ELSE PageSize)
    IN  [w EXCEPT !.seen = @ \o items,
                  !.done = Len(matching) <= PageSize,
                  !.after = IF items = <<>> THEN @ ELSE items[Len(items)]]

\* ListOwned takes the owner's largest sequence for its watermark, the
\* administrator's lists that of the filter: rows above it match neither.
FirstPage(owner, state, bound) ==
    LET w == NewWalk(owner, state, bound)
    IN  /\ process = "ready"
        /\ walk = Null
        /\ walk' = Page([w EXCEPT !.base = Listed(w)])
        /\ UNCHANGED <<db, servers, clock, process>>

\* DecodeRequestCursor and queryAdmin refuse a cursor of another process, of an
\* older revision of the subject, or bound to rows that have changed.
NextPage ==
    /\ process = "ready"
    /\ walk # Null
    /\ ~walk.done
    /\ walk' = IF walk.valid /\ (walk.bound => walk.at = Candidates) THEN Page(walk) ELSE Null
    /\ UNCHANGED <<db, servers, clock, process>>

\* The subject's principal or credential gets a new revision.
SubjectChanges ==
    /\ walk # Null
    /\ walk.owner # Null
    /\ walk.valid
    /\ walk' = [walk EXCEPT !.valid = FALSE]
    /\ UNCHANGED <<db, servers, clock, process>>

-----------------------------------------------------------------------------
(* The rest of the gateway *)

\* A DENY is created or any grant removed by an administrator.
DenyCreated(principal, s, expires) ==
    /\ Cardinality(db.grants) < MaxGrants
    /\ expires > clock
    /\ Mutate([db EXCEPT !.grants = @ \cup {[id |-> 0, effect |-> "deny", principal |-> principal, server |-> s,
                tool |-> Null, policy |-> Null, request |-> Null, expires |-> expires]}])
    /\ UNCHANGED <<servers, clock, walk>>

GrantRemoved(g) ==
    /\ Mutate([db EXCEPT !.grants = @ \ {g}])
    /\ UNCHANGED <<servers, clock, walk>>

\* A server is configured, its descriptor is discovered and retired, it is
\* deleted; its namespace stays reserved.
ServerChanges(s) ==
    /\ process = "ready"
    /\ \E state \in {"enabled", "deleted"}, descriptor \in {"absent", "present"} :
          /\ servers[s].state = "deleted" => state = "deleted"
          /\ servers[s].descriptor # "absent" => descriptor # "absent"
          /\ servers' = [servers EXCEPT ![s] = [state |-> state, descriptor |-> descriptor]]
    /\ UNCHANGED <<db, clock, process, walk>>

ClockMoves ==
    /\ process = "ready"
    /\ clock' \in Times
    /\ UNCHANGED <<db, servers, process, walk>>

-----------------------------------------------------------------------------
RequestsInit ==
    /\ db = [rows |-> << >>, sequence |-> 0, identities |-> << >>, evidence |-> 0, grants |-> {}]
    /\ servers = [s \in Servers |-> [state |-> "absent", descriptor |-> "absent"]]
    /\ clock = 0
    /\ process = "ready"
    /\ walk = Null

RequestsNext ==
    \/ \E p \in Requesters, policy \in Policies : CreateOrExisting(p, policy)
    \/ \E p \in Requesters, q \in RequestRows : CancelOwned(p, q)
    \/ \E q \in RequestRows, revision \in 1 .. 2 : Reject(q, revision)
    \/ \E q \in RequestRows, revision \in 1 .. 2, policy \in Policies : ApproveGrantRequest(q, revision, policy)
    \/ Restart
    \/ \E owner \in Requesters \cup {Null}, state \in {Null, "pending"}, bound \in BOOLEAN :
          (owner = Null) = bound /\ FirstPage(owner, state, bound)
    \/ NextPage
    \/ SubjectChanges
    \/ \E p \in Requesters, s \in Servers, expires \in Times : DenyCreated(p, s, expires)
    \/ \E g \in db.grants : GrantRemoved(g)
    \/ \E s \in Servers : ServerChanges(s)
    \/ ClockMoves

RequestsSpec == RequestsInit /\ [][RequestsNext]_requestVars

-----------------------------------------------------------------------------
(* Properties *)

\* However requests were created, closed and evicted, at whatever limit and
\* with the clock set back between two of them, and whichever half of an
\* uncertain commit survived, the next start of the gateway accepts the
\* tables: ValidateStartup never refuses what the repository wrote.
StartupAccepts == ValidateStartup /\ process # "refused"

\* A grant belongs to one approved request, is the policy approved there and
\* lasts no longer than was asked for.
GrantMatchesRequest ==
    /\ \A g \in db.grants : g.request \in RequestRows =>
          LET row == db.rows[g.request]
          IN  /\ row.state = "approved" /\ row.approved = g.policy /\ row.principal = g.principal
              /\ Covers(row.requested, g)
              /\ row.requested.duration # Null => (g.expires # Null /\ g.expires <= row.closed + row.requested.duration)
    /\ \A g, h \in db.grants : (g.request # Null /\ g.request = h.request) => g = h

\* A request is settled once: whatever races for it (owner, administrators,
\* eviction, an uncertain commit and the retry after the restart), a terminal
\* row never changes again, and a grant belongs to one approved request, is
\* the policy approved there and lasts no longer than was asked for.
SettledOnce ==
    [][/\ GrantMatchesRequest'
       /\ \A q \in RequestRows : db.rows[q].state \in Terminal =>
             \/ q \notin RequestRows' /\ \A g \in db'.grants \ db.grants : g.request # q
             \/ q \in RequestRows' /\ db'.rows[q] = db.rows[q]]_requestVars

\* A caller who pages to the end while requests are created, closed and
\* evicted has met no request twice, in insertion order, and has missed none
\* of those that matched when it began and still match.
WalkComplete ==
    walk # Null => /\ \A i, j \in 1 .. Len(walk.seen) : i < j => walk.seen[i] < walk.seen[j]
                   /\ walk.done => walk.base \cap Listed(walk) \subseteq ToSet(walk.seen)
=============================================================================
