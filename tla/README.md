# Agent Gateway: a TLA+ verification project

The repository is one Go service, `src/agent-gateway`: a gateway that stands
between agents and the tools, HTTP APIs and Git servers they use. Agents
authenticate with a bearer, the gateway decides what they may do, keeps the
secrets the downstream systems want, runs and supervises the downstream MCP
servers, and gives an administrator an API and a browser interface.

This directory models the parts of it whose correctness depends on the order in
which goroutines, transactions, timers, requests and crashes happen, from the
administrator's browser to the downstream server. `PROJECT.json` lists
the components, runs, mutants, hazards, theorems and, for each definition, the
source lines it stands for.

All paths below are relative to `src/agent-gateway/internal` unless they begin
with `src/` or `docs/` (the latter: `src/agent-gateway/docs`).

## 1. Inventory

| component | state it keeps | operations | correct when |
|---|---|---|---|
| `authorization` | principals, credentials, grants (SQL); the registry: gate, work count, leases, draining | authenticate, evaluate, confirm, mutate, cancel, drain | nothing is admitted under an authority that has been changed; leases of a changed principal are cancelled; a drain ends |
| `storage` | the SQLite file, one nonqueueing writer slot, the latch | mutate, view, latch | a transaction whose outcome is unknown stops every later one |
| `mcpingress` | table of legacy sessions, reservations, permits | initialize, use, stream, delete, timers, shutdown | a session holds its lease until it leaves the table, its place is given back once, shutdown leaves none |
| `keyring` | selected generation, candidates, fences, ciphertexts; two permits | fence, register, write, verify, commit, activate, invalidate, cleanup | at most one generation readable, nothing orphaned by a crash |
| `keyring` and `paths`: the master key | key file, rotation slot, retained bundles, the key the database is bound to | set up, rotate, recover, start | whatever a power loss leaves, the gateway starts or a recovery settles it, and no key that may still be needed is lost |
| `httpcredentials` | credential rows | create, update, rotate, delete, acquire, confirm | what is dispatched is in force |
| `admin` | administrator credentials (SQL), sessions (memory) | create, rotate, revoke; sign in, use, log out, shut down | a revoked credential has no session; one credential that never expires remains |
| `events` | open streams, coalesced hints, one timer | subscribe, publish, flush, invalidate, shut down | no hint lost in silence, the timer joined |
| `runtimes` | per server: generation, pending work, active, activating and blocked runtime; worker slots | trigger, reconcile, retry, report failure, drain | a stale runtime is withdrawn, its successor waits for its end, every edit is reconciled |
| `catalog` | durable catalog, active snapshot per server, registry lock | activate, withdraw, route, drain | only the current candidate is routable |
| `servers` | server rows, operations, idempotency records | create, patch, delete, operation transitions | an operation ends once |
| `oauth`, with the flows and fences of `servers` | flows, callback listeners, client registration, tokens, refresh fences | begin, callback, register, exchange, refresh, disconnect | a rotating refresh token is spent once; tokens are readable only if their flow succeeded |
| `invocation` | pipeline fence, attempts | admit, call, respond, drain | at most one attempt per call, and the agent is told what happened to it |
| `invocation` traffic history, `audit` | bounded queue, one writer, generations of a database; pages, searches and exports over it | offer, write, damage, recover, close; list, search, export | no caller waits for it, it holds only what happened, a reader who pages to the end misses nothing |
| `downstream`, `runtimes` processes | dispatcher slots, capabilities, leases, calls, frames; child processes | acquire, execute, cancel, close; start, probe, signal, reap | a slot comes back, a request handed over is cancelled at the server, no process is left |
| `grantrequests`, `selfservice` | requests with evidence, their sequence | create, cancel, approve, reject, evict, list, validate at start | settled once, an approval grants no more than was asked for, the next start accepts the tables |
| `httpproxy`, `gitcredentials`, `gitwire`, `gitpolicy`, `httppolicy` | connections, tunnels, streams, per-request state | connect, intercept, evaluate, confirm, exchange, complete, drain | work is admitted under the authority in force; opaque tunnels respect the routing profile |
| `api`, `httpboundary` | idempotency records, preconditions | decode, authenticate, mutate, replay, answer | a decision is carried out once and its answer is honest |
| `web/`, `cmd`, `controlclient` | the page, its drafts and streams; a command and its secret file | read, follow, edit, submit, retry, rotate | nothing stale is shown or submitted; no operator is locked out |
| `composition`, `lifecycle` | wiring, the drain order | build, drain | everything is drained once |
| `cmd` init, `paths`, `composition`: installation | plan, receipts and retained input beside database, key, history, bearer, certificate | begin, resume, inspect, seal, complete, clean up, accept | what `serve` accepts is whole, and no interruption separates a database from its secrets |
| lists of `authorization`, `servers`, `httpcredentials`, `gitcredentials`, `catalog`, `discovery`, `mcpingress` | pages and cursors over tables that change | list, continue, refuse | a client that pages to the end has seen every row that was there all the time, once |
| `activity`, `diagnostics`, `contract`, `strictjson`, `configexport`, `accesstarget`, `testutil` | files, counters, constants | | pure, or file I/O |

How they interact. A request passes `httpboundary` (permits, authentication,
drain), obtains a lease from `authorization`, is evaluated and confirmed under
the authorization gate, and is dispatched by `invocation` to a route of
`catalog`, which a runtime of `runtimes` serves with a credential that
`keyring` reads. A change of authority commits in `storage` and cancels leases
after it; whoever holds a lease (a legacy session of `mcpingress`, a tunnel of
`httpproxy`) hears of it through the lease's done channel. A change of a server
commits and then triggers `runtimes`, which withdraws the old publication from
`catalog` and reconciles. A revoked administrator credential is announced by
callback to `admin` sessions and to `events`. A shutdown drains pipelines,
authority, catalog, refresh, flows, proxy, keyring and runtimes, in this order,
and waits for each. The browser and the commands reach all of this through the
administrative API, with a revision as precondition and an idempotency key, and
follow it through the event stream.

What is hard here: state read under a lock (or in a transaction) and used after
it was given back; cancellation that races with use; several closers of one
object; commits whose acknowledgement is lost; crashes between transactions and
file operations; nonqueueing permits that would be lost for ever; generations
that are superseded while they are being built; requests that are served after
their sender has given up; pages read from a table that changes; and shutdown in
the middle of all of it. `PROJECT.json` lists these places line by line under "hazards".

## 2. Modules

| module | models | main sources |
|---|---|---|
| `Authority` | the registry, admission and mutations of `authorization`, with `storage` | authorization leases, confirmation, authentication, evaluator, mutations; storage |
| `AuthorityInvariant`, `AuthorityProofs` | its inductive invariant; proofs about it and about `GrantRequests` | |
| `Ingress` | requests and legacy sessions | mcpingress/handler.go |
| `Custody` | a secret's durable life | keyring/cutover.go, httpcredentials, HTTP admission |
| `SecretSlot` | what Custody promises (abstract specification) | |
| `KeyRotation` | the master key: setup, rotation, recovery, power loss | keyring/custody.go, rotation.go; paths |
| `Installation` | how an installation comes to be: `init`, its resumption and cleanup, power loss | cmd init.go, composition/initialization.go, paths/initialization*.go, storage, httpca |
| `CustodyProofs` | proofs about the four above | |
| `EventHub` | the hub | events/hub.go |
| `AdminSessions`, `AdminSessionsProofs` | administrator credentials and sessions, their event streams, the order of the shutdown | admin, api/handler.go, root.go |
| `Runtimes`, `RuntimesProofs` | the reconciliation manager with driver, owner, publication and operation records | runtimes/manager.go, driver.go, catalog, servers, composition |
| `Downstream` | a call's way to a server: route, capability, slot, exchange, cancellation | catalog/routes.go, downstream, remote |
| `Process` | negotiation with a stdio server over supervised processes | downstream/negotiation.go, runtimes/stdio.go |
| `Traffic` | the optional history of calls | invocation/traffic*.go |
| `Invocation` | the pipeline; composes the three above | invocation/service.go, result.go, pipeline.go |
| `IngressProofs` | proofs about `Ingress`, and about `Invocation` and its parts | |
| `ProxyPolicy` | evaluation of one request against one snapshot of grants (pure) | httppolicy, gitpolicy |
| `Proxy`, `ProxyProofs` | the proxy engine with the authority behind it; uses `ProxyPolicy` | httpproxy, authorization HTTP and Git files |
| `OAuth`, `OAuthProofs` | flows, callbacks, registration, refresh, disconnection of one server | oauth, servers/auth_flows.go, oauth_refresh.go |
| `GrantRequests` | requests of agents for grants | grantrequests, selfservice, authorization/request_approval.go |
| `Listing` | the paged lists of current state, their cursors and scopes | authorization, servers, catalog, discovery, mcpingress/tools_list.go, selfservice |
| `History` | paged reads and exports of a history that changes | audit, invocation lists, api |
| `Console` | the browser's views, panels and history controllers; composes with `History` | web/src |
| `AdminWrites` | the API as writes meet it: preconditions, idempotency, answers | api, servers |
| `WebForms`, `Commands` | the forms of the console and the commands of the client, each composed with `AdminWrites` | web/src, cmd |
| `AdministrationProofs` | proofs about the two above as `MCMutations` composes them, and about `EventHub` | |
| `MC*` | constants, symmetry and the choice of instance for TLC | |

Conventions. A step is what happens between two points at which another
goroutine can be observed: a mutex section, a transaction, a compare-and-swap,
a channel operation. A handler that unlocks and locks again is several actions.
A goroutine is a member of a constant set and serves one call. Context
cancellation, deadlines, storage errors, lost acknowledgements and audit
failures are nondeterministic wherever the code checks for them. A definition
preceded by `\* Mutant:` is a mutated form of its neighbour; no specification
uses it. Several `MC` modules hold a variable `focus` (`client` in
`MCMutations`): it is chosen once, in the initial state, and says which part of
a large component a behaviour exercises while the others keep still, so that one
run asks one question of all of them.

### Authority

State: the tables `principal`, `grants`, `expired`, the revision `authRev`; the
store's `latched` and `writer`; the registry's `gate`, `work`, `draining`,
`leases`; of each lease `phase`, `binding` and `closes` (how often its channel
was closed). A request authenticates (registering a lease), evaluates (a
candidate with the authorization revision it saw), confirms (a
compare-and-swap of the phase after checking binding and revision again) and
executes or holds its lease as a session. An administrator's mutation takes
the gate, runs its transaction (commit, rollback, or an ambiguous commit that
latches the store), collects the leases of the principals it affects under the
registry lock and cancels them after it. `Release` is three steps: load, swap,
remove. `BeginDrain` fences, collects every lease and cancels.

Abstracted: constraint language of grants (a grant names a target), bearer
digests, rate limits, HTTP and Git grants.

### Ingress

State: the permits, the table `legacy`, the reservation counter, each session's
`closeOnce`, timers, watcher, and how far every closer (request, idle timer,
absolute timer, watcher, shutdown) of every session has come. Closing is three
steps, as in the code: remove from the table, enter the once, release. The MCP
SDK is external: it answers, or streams until its session ends.
`early` holds the sessions one of whose timers fired while they were being
installed; the properties of published sessions do not claim those, because the
code breaks them (section 3).

### Custody and SecretSlot

State: the database (`row`, `selected`, `candidates`, `fenced`, `stored`), the
latch, the drain, the permits `operation` and `mutation`, and each process's
position. Every transaction may commit, fail, or lose its acknowledgement and
latch the store; `Crash` keeps only the database. `SecretSlot` is the promise to
consumers: at most one generation readable, a new one only where none is, none
comes back. `SlotSpec` states that Custody implements it with
`current <- ServedBy(db)`, `past <- served`.

Two facts about the code that the model makes visible, and that no document
contradicts: a rotation refused at its fence leaves the old secret in force,
and candidates that a crash left behind are cleaned by the next cutover of the
same namespace, not at start-up.

### KeyRotation

State: the files of the root directory as the running process sees them
(`files`: key file, rotation slot, retained bundles) and as they surely survive
(`durable`), the key the database is bound to, and the position of the one
process that owns the root: a setup, a gateway, a rotation or a recovery. Every
file operation and every directory sync is a step. `Survivors` are the
directories a power loss may leave: any of the renames and creations since the
last sync may be missing. The contents of a file are synced before its rename,
and commits are durable (WAL, synchronous FULL). The refusal of a recovery that
finds a half-open database is simply a recovery that is not taken.

### Installation

State: every file as processes see it (`disk`) and what a loss of power may leave
of it (`survives`), the committed rows that initialization writes, the commands
with the plan they were started for, and the step of the one that owns the
installation lock. A content, identity or secret is the name of the command that
drew it. A command decides what to do before it takes the lock, reads again under
it, and then follows `initializeOwned`: each file is created, written and synced
in steps of its own, each receipt is sealed after the work it confirms, the last
one digests the others, and the retained input of an import is removed after the
last receipt is durable. A command may end at any step and the machine may lose
its power at any step; `--resume` inspects what is there and continues or refuses.

Abstracted: the contents of the database are the six rows initialization commits;
the cutover of the certificate authority is fenced and settled (its details are
Custody's); the staged configuration is one row. What a served gateway changes
later is not here.

### EventHub

State: open streams, ids, fill of each buffered channel, the coalesced kinds with
the last stream id they concern, the timer (`armed`, `fired` but its callback
not yet inside, `stopped`), the wait group, shutdown; and two histories: which
hints a stream is owed and which were published since it was opened. `Close`
closes any set of streams, which covers client, credential and session closing.

### AdminSessions

State: credentials, lapsed ones and the authority revision; sessions with their
parents, overdue ones, reservations; progress of each sign-in, stream request
and credential change; the hub's open streams; the progress of the process's
shutdown. A sign-in authenticates three times (exchange, before reserving, and
again under the manager's lock) and the model keeps all three. A credential
change commits, copies the callbacks, and calls them in any order. Time appears
as two facts, lapsed and overdue. A request admitted before the drain may do its
work during it, so handlers start until `server.Shutdown`. The graceful deadline
passes only when nothing but waiting streams is left: ten seconds are long for
everything else.

### Runtimes

State, per server: the durable definition (`desired`: enabled, the version that
`sameFence` compares, the revision), the operation records, the entry of the
manager (generation, pending, queued operation, unsettled work, activating,
active and blocked candidate, retry timer), the worker and where it is, the
owner's claim and the published route; and globally `inUse`, the handles of the
driver, the registry lock, the goroutines that stop one runtime and the drain.
A candidate is a record of identifier, generation and version.

A caller (an edit, a credential callback, `Manager.Start` for each server)
triggers in three steps: the section that bumps the generation, the withdrawals
outside the lock, and `startAvailableLocked`. A worker follows `reconcile` and
`activateCurrentCandidate` step by step: read, record, begin the operation, stop
the previous runtime, choose a candidate, resolve, admit, construct, commit the
catalog, recheck, install, check the fence, complete, settle. Every storage
call, close, construction and audit record can fail once per `MaxFaults`, and a
runtime can exit at any point at which the driver watches it. Admission and the
lock of the registry are waited for; a stop is close-then-release, so that two
goroutines that stop one runtime interleave.

Abstracted: deadlines and delays (a timer that is armed may fire), the catalog
itself (a route is live or withdrawn), the diagnostics. Not modelled, and listed
in the plan: the replay after an OAuth challenge, the catalog handoff and
polling, creation and deletion of servers, display-only edits, a credential
replacement that commits (it comes back with an operation of its own).

### Downstream, Process, Traffic, Invocation

`Downstream`: a call captures a route, takes a slot of the server and of the
gateway, is revalidated and registered as a lease of a capability, passes the
dispatcher, and is carried by a transport: HTTP, or stdio, where one mutex
serialises exchanges and frames may be late. There the write itself may block,
with the mutex held and whatever the context says, while the server does not read
its input (`transport.reading`, `WriteReturns`); a call that waits for the mutex
waits until it has it (`waiting`, `TakeExchange`). A publication makes a new
capability, fences the old one and cancels its leases. A cancelled call that
was handed over tells the server. `Process`: a probe and, in automatic mode, a
fresh process, each with waiter, readers and stops that take turns; children
may keep the output open. `Traffic`: the facade, its generations, the bounded
queue, the writer's batches, damage, revalidation and close. `Invocation`
composes them: fence, admission, dispatch, observation, response.

Abstracted: arguments, results and frames are an identifier and a class; the
tokens of the server and of the gateway are given back in one step; limits
in bytes have one in records beside them; the authority's decision is
`Authority`'s; challenges of OAuth are refusals.

### ProxyPolicy, Proxy

`ProxyPolicy` evaluates a CONNECT, a request or a Git request: blocks before
allowances, grants in the order of their identifiers, the address classes of the
destination, and for Git the references of a push. In `Proxy` a connection
carries a request or a CONNECT, which becomes an opaque tunnel or is
intercepted, and then carries streams. Each is authenticated, evaluated,
resolved, confirmed under the authority's lock against what is stored then,
exchanged and completed with one record. Meanwhile grants, the routing profile,
the repository, the agent's state, default and credential and the material change,
grants expire, clients leave and the engine drains. Only a change of the state or
the default advances the authorization revision; a new credential, a new name or
visibility changes the agent's own revision alone, and it is the comparison of
bindings that finds it. Expiry advances nothing: a grant counts for an evaluation
that comes before it.

Abstracted: one principal and one repository with a credential; schemes,
methods and paths of a selector are folded into the set of origins it matches;
the readiness check is left out; what a handler releases at its end is one step.

### OAuth

State: the tables (`db`: tokens with their fence, flows, registration, trust
pin, desired revision), the latch, generations of tokens and the refresh tokens
the issuer has seen (`spent`), callback listeners, the refresh slot and the
keyring's permit. A flow is created, registers a client where needed, opens and
is consumed by a callback, which exchanges the code and commits; a refresh
records its handoff before it contacts the issuer and settles after. An edit may
advance the registration; the request of a disconnection or of a new credential
supersedes the flows and leaves their listeners to time out (`Supersede`). Every
transaction may fail or lose its acknowledgement, every answer of the issuer may
be lost after it has acted, and a crash forgets all but the tables.

### GrantRequests

State: the rows with their sequence, the grants made from them, the clock,
the process (running, latched, refused) and a walk through a list. Creation
deduplicates, checks limits in the code's order and evicts terminal rows;
approval captures evidence, checks that the approved policy is narrower and
inserts the grant in the same transaction. `Restart` runs `ValidateStartup`.

### Listing

A walk through one of seventeen lists (agents, grants of the three kinds,
credentials, repositories, servers, operations, flows, descriptors and tools of
an agent among them): which rows the list holds, in which order, what a cursor
carries, which changes refuse it. Rows are inserted, changed, deleted and
restored between the pages, agents are renamed, catalogs published. It runs
beside `GrantRequests` in `MCGrantRequests`.

### History and Console

`History` appends, completes, prunes, renames and replaces records; a page is
one transaction, a cursor carries what the first page saw and is refused when
it no longer holds. `Console` follows one tab: session and epochs, the event
stream and its reconnection, panels that are read, superseded, failed and
refreshed, navigation, and the controllers of the five kinds of history page and
of the export. A callback of the browser is one step. `count` stands for every
panel that shows current state as one value.

### AdminWrites, WebForms, Commands

`AdminWrites` serves the requests of any client in any order, also after the
client gave up: route checks, idempotency lookup, precondition, transaction,
record, answer. One resource with a revision stands for the one acted on. A form
(`WebForms`) and a command (`Commands`) are records: the routes they call, where
the precondition comes from, what they ask for, which answers leave their
outcome open. The rotation of an administrator's credential and its file are
followed step by step.

Abstracted: validity of bodies, limits and conflicts of content are
nondeterministic refusals; the Git editor is modelled in its rotation mode.

## 3. What TLC checks

Passing runs, with the distinct states TLC visits:

| run | instance | states | properties |
|---|---|---|---|
| `authority` | 1 request or session, 1 mutation, 1 other writer, drain | 134k | `StaleLeaseUnusable`; `AdmissionIsCurrent`; `LeasesEnd` |
| `ingress` | 2 initialisations for 1 slot, or a user of the session, or an early timer; shutdown | 348k | `SessionsAccounted`; `SessionKeepsLease`; `SessionsEnd` |
| `custody` | 2 edits, 2 handles, 1 request, 2 crashes; 4 master keys, or 3 commands of an installation, any number of power losses | 403k | `DurableState`, `NothingStale`, `KeyOpensCustody`, `InstallationIsWhole`; refinement of `SecretSlot` (`SlotSpec`); `PermitsComeBack` |
| `sessions` | 2 sign-ins for 1 slot, 2 changes of 3 credentials for 2 records, or 1 change with a stream and the shutdown | 493k | `AuthorityRemains`, `RevokedHasNoSession`; `StreamsEnd` |
| `runtimes` | 1 server, 1 edit or 1 callback, 2 faults, 3 runtimes, shutdown | 884k | `NothingForgotten`, `RoutesAreSound`; `OperationsSettleOnce`; `Settles` |
| `grant_requests` | 3 requests for 2 rows, 2 units of evidence and 1 grant; pages of 1; a clock that is set back; 17 lists with 4 insertions and 2 other changes | 1.77M | `StartupAccepts`, `WalksComplete`; `SettledOnce` |
| `calls` | 2 calls, 2 publications, limits 1 and 2; a queue of 2 with 2 failures; a server that stops reading; a probe and a fresh process | 424k | `OneStory`, `HistoryIsTrue`, `ResourcesAreOwned`; `EverythingEnds` |
| `proxy` | 2 requests, 2 origins, 5 HTTP and 3 Git grants, expiry, 3 revisions, drain | 743k | `RecordsAreTrue`; `DispatchIsPermitted`; `ProxyDrains` |
| `oauth` | 2 flows with 2 callbacks, or 1 beside a refresh, or 2 refreshes; 1 edit, 1 crash | 1.35M | `TokensAreFenced`, `FlowAndTokensAgree`; `AuthorizationEnds` |
| `console` | hub: 3 streams for 2 places, buffers of 2, 3 kinds; views; 5 histories of 3 records, pages of 1; export | 535k | `NothingLost`, `PageIsTrue`, `WalksAreWhole`; `PauseHolds`; `HintsArrive` |
| `mutations` | 17 forms and 23 commands, 2 requests, 3 revisions, 2 reads, 2 sessions | 3.71M | `OnceOnly`, `ClientIsHonest`, `NeverLockedOut` |

Most properties conjoin named parts; the ones that are not defined by their name:

- `LeasesEnd`: `DrainCompletes`, and `SessionsLearn`: who holds the lease of a
  changed principal hears of it.
- `SessionsAccounted`: `TypeOK`, `Capacity` (slots and permits are counted
  right), `LeaseHasOwner`, `NothingAfterShutdown`, `ClosedIsUnpublished`;
  `SessionsEnd`: `CancelledSessionLeaves`, `ShutdownCompletes`.
- `DurableState`: `TypeOK`, `StartupValid` (the next start accepts what is
  stored), `NothingOrphaned`, `OneGeneration`; `NothingStale`:
  `DispatchIsCurrent`, `CutoverNotStale`; `KeyOpensCustody`: `CanResume`
  (whatever survives, a start or a recovery succeeds) and `KeysAreKept`.
- `StreamsEnd`: `SessionStreamsEnd`, `DrainEnds`.
- `NothingForgotten`: `NoForgottenRuntime`, `HandleIsOwned`, `NoLostOperation`;
  `RoutesAreSound`: `RouteIsFenced`, `RouteHasRuntime`, `NoRouteAfterDrain`;
  `Settles`: `Converges` (the latest definition wins), `DrainCompletes`.
- `OneStory`: `HonestOutcome` (what the agent is told agrees with what the
  server got), `CancellationIsSent`; `HistoryIsTrue`: `HistoryIsSound`,
  `RecoveryIsCurrent`, `TerminalIsResponse` (a terminal record agrees with the
  response); `ResourcesAreOwned`: `SlotsAreBounded`,
  `ProcessesAreOwned`, `FallbackAfterReap`; `EverythingEnds`: `CallsEnd`
  (if a server always reads its input again), `HistoryCloses`.
- `RecordsAreTrue`: `OpaqueIsFenced` (an opaque tunnel to an origin excludes
  a profile that routes Git to it), `HonestCompletion`.
- `TokensAreFenced`: `NoReplay` (no generation of tokens is refreshed twice; where
  an issuer returns no new refresh token the next generation holds the old one),
  `ExchangeIsFenced`.
- `PageIsTrue`: `CurrentIsFresh`, `SessionIsFenced`; `WalksAreWhole`:
  `ListIsOneWalk`, `ExportIsComplete`; `HintsArrive`: the hub's flush runs,
  and a console that is left alone comes to rest up to date.
- `InstallationIsWhole`, of whatever a loss of power may leave:
  `MaterialIsKept` (the database still has its key, its bearer, its history),
  `AcceptedIsWhole` (what `serve` accepts is complete and of one installation),
  `ConsentIsKept` (what is not complete still has its plan and its input).
- `WalksComplete`: the walks of `GrantRequests` and those of `Listing`.
- `ClientIsHonest`: `OutcomeIsHonest` (a client reports no more about a write
  than it knows), `ReviewedRevision` (a change replaces the revision its author
  had before him when he decided, which the model keeps apart from the revision
  the form sends), `SecretStaysPut`.

`GateAccounting`, `DoneClosedOnce`, `NoLeakedLease`, `SlotsAccounted`,
`TimerJoined`, `NoEarlierHint`, `NoSessionWhileShutting` and the type invariants
of `Authority`, `EventHub` and `AdminSessions` are proved (section 4) and not run
as well.

### Bounds

Each hazard is a race of two or three parties, and the instances have them all,
with limits one below the number that want in (one legacy slot for two
initialisations, one session slot for two sign-ins, two stream places for three
subscribers, two credential records for three credentials, two rows for three
requests). Deadlock checking is off where everything may be over: commands end,
clients need not come back, a stopped process stays stopped.

- `authority`: one mutation is enough because a lease becomes stale by one;
  that more of them, and more requests, change nothing is proved.
- `ingress`: initialisations arrive in one order; once the second has arrived
  the authority neither halts nor cancels, and no user comes; an early timer
  excludes the other requests.
- `custody`: two crashes let the recovery from a crash crash. `MaxCandidates`
  has the code's value because `OneGeneration` says it is never approached.
  Four master keys are a setup and three rotations; losses of power are not
  bounded. Three commands are an `init`, a resumption and a cleanup, a second
  resumption or a `serve`; that more keys or commands change nothing is proved.
- `grant_requests`: a list has up to four insertions, pages of one row and two
  other changes during a walk: one before and one after the place a cursor
  stands at. Keys vary only where a list is sorted by them, and the tools of a
  catalog are numbered in their first order.
- `sessions`: a second change excludes the stream and the shutdown; a second
  sign-in excludes the two together.
- `runtimes`: a server starts, so one edit or one callback already meets a
  worker in every position, and after it a retry or a lost runtime brings a
  third generation. Edit and callback exclude each other, and a callback
  excludes a fault together with a shutdown; after an edit the shutdown begins
  before the fault or not at all; a second fault meets no callback, and not both an
  edit and a shutdown. Two attempts of
  `CompletionAttempts` (four in the code) contain the first, the last and a wait
  between them. One server does not exercise the contention for
  `server_reconciliations`.
- `calls`: a stdio server stops reading when something is about to be written,
  and is not withdrawn as well; the acquisition of slots and the exchange are explored with two calls
  each, while the other half of a call's way is taken alone; in the part about
  the history a dispatch is one step; `MCInvocation` states each restriction.
- `proxy`: two tunnels with profile edits, one request with any change of
  policy or one expiry while it is evaluated, or a CONNECT with a stream in it. The limits on
  work and per principal are not reached.
- `oauth`: `MCOAuth` names the pairs of processes and when the server may
  change; three generations of tokens, one edit, one crash.
- `console`: one page holds one record, so that a walk takes several; the
  related list is followed on the HTTP page; in lists, exports and related lists
  the history changes while the stream is quiet; in views at most two
  disturbances, one of them a click or a navigation; the panel that lives as long
  as the session has no clicks.
- `mutations`: two requests are a decision and its repetition, or two decisions;
  other administrators edit up to revision 3; two reads and two sessions let a
  page be refreshed, and left and entered, under a form. Whether a draft is dirty
  is kept only for forms that hold a precondition, and an answer that comes after
  its form was left is discarded at once.

### Fairness

A goroutine that can run eventually does. Where a specification states this with
one weak fairness condition over a union of steps (`Ingress`, `AdminSessions`,
`Runtimes`, `OAuth`, `Console`, `calls`, `proxy`) it is the weaker reading
"while some goroutine can run, one of them runs", which suffices because each
takes finitely many steps. Timers that are armed fire in `EventHub`; deadlines
end every wait of a call, of a proxied request (dial, header and idle timeouts,
the tunnel's lifetime of an hour) and of a callback listener. The write of a
request over stdio and the wait for the lock of the exchange have no deadline:
nothing obliges a server to read, and `CallsEnd` supposes that it does
(`[]<>Reading`; without the hypothesis TLC finds it violated). Nobody is obliged
to send a request, to answer one, to leave, to revoke, to expire or to shut
down. `Converges` excuses a server that is degraded, whose work is unsettled or
whose failed stop is remembered, because the code leaves those to the operator. `mutations` and `grant_requests`
check no liveness: their actors are people and commands.

### Disagreements with the documents

One run is expected to be violated. `edit_race` (`BlockedByFault`): an edit
commits, superseding the running operation, between the worker's last check and
its completion; the refused completion is taken for a failure and blocks the
server for the rest of the process, although nothing has failed.

Other behaviours that the models show and the properties leave out, each
without a run of its own. Against a sentence of a document:

- A bearer event stream that was authenticated before the revocation of its
  credential and subscribes after it stays open (`api/handler.go:813`;
  `docs/design/administrative-control-plane.md:202`).
- `server.Shutdown` waits for open bearer event streams, which the hub would
  close only after it (`cmd/agent-gateway/root.go:544`, 563; same document, 202
  and 249).
- Over stdio the late answer to a call that timed out is taken for the answer to
  the next one, which is then reported as `downstream_failure` although no result
  of its own was observed (`downstream/downstream.go:246`;
  `docs/design/invocation-and-ingress.md:372`).
- Refresh and code exchange share one fence. A refresh that armed it before a
  code exchange began, and fails before its own handoff after that exchange has
  failed, deletes it: the old tokens are readable again although the exchange
  may have had its effect (`keyring/cutover.go:205`, `servers/auth_flows.go:256`;
  `docs/design/downstream-servers.md:255`).
- The related history declines the read that follows the first connection of the
  stream, so it does not load by itself when the console opens directly on a
  detail page (`web/src/related-history.ts:58`, `view.ts:554`, 772;
  `docs/design/browser-control-plane.md:152`).
- Git policy writes (repository, grant, routing profile) answer a commit of
  unknown outcome with `authorization_unavailable` (`api/git.go:29-35`,
  `api/grants.go:324-325`), which no audit of the route turns into
  `storage_unavailable` (`api/audit.go:68-97`) and which the console and the
  command line report as a definite failure although the change may be committed
  (`web/src/mutation.ts:344-355`, `online_git.go:366`;
  `docs/design/browser-control-plane.md:350`). `OutcomeIsHonest` leaves it out
  (`Misjudges`).
- After its process has exited while a child holds the output,
  `StdioRuntime.Stop` joins and never signals the group
  (`docs/design/downstream-servers.md:171`).

Against what a reader may expect:

- A timer of a legacy session that fires between `time.AfterFunc` and the
  installation of the session (`mcpingress/handler.go:433-465`), and is
  descheduled between its two halves, leaves a closed session in the table.
- `SessionManager.Sweep` (`admin/sessions.go:279`) has no caller, so an expired
  session keeps its slot until its cookie is presented, its parent is revoked or
  the manager shuts down.
- A trigger can return while an older route is still installed: a runtime
  failure, `stopPrevious` or a failed completion has already cleared `active`
  and its own withdrawal is outstanding (`runtimes/manager.go:511`, 1187, 1789).
  `RouteIsFenced` states what does hold: that withdrawal is certain to come.
- A token refresh that fails after `SetCredentialState` fenced the server
  (`oauth/refresh.go:357-361`) triggers nothing. If the runtime exits then, its
  report is refused and its route stays until the next trigger; `RouteHasRuntime`
  does not claim such a server.
- `awaitDrain` keeps the count of the manager when the owner's count has grown
  since the drain began (`composition/composition.go`, `ownedAfter`), so a
  runtime admitted during the drain whose stop is not confirmed is not counted.
- A disable operation can succeed while the goroutine of a lost runtime has not
  yet stopped that runtime. An operation given up when its server was degraded
  stays `running` in the records when a credential callback restarts the server.
- An operation that superseded an edit can be overtaken by the trigger of that
  edit, which comes late and takes its place in the queue (`TriggerWithCause`);
  its record stays scheduled. `NoLostOperation` leaves out such an operation
  (`Overtaken`).
- An entry remembers one blocked stop. After three failures it can forget one: a
  runtime exits, its withdrawal cannot be audited, so that its stop counts as
  unverified although it ended; meanwhile the stop of its successor fails and is
  remembered; then `finishRuntimeFailure` overwrites that with the first
  (`runtimes/manager.go:1290`, 1807). The successor stays owned and nothing refers
  to it (`docs/design/downstream-servers.md:173`, 177).
  `NoForgottenRuntime` is claimed up to two failures.
- `Runtime.Close` cancels active calls one after the other, and over stdio each
  cancellation needs the lock of the exchange. The write to the input of a stdio
  server blocks while the server does not read, with that lock held and whatever
  the deadline of the call (`downstream/downstream.go:238`, 261, 295,
  `negotiation.go:383`): until the process is stopped the call, the ones behind it
  and `Close` wait with it.
- A lost runtime whose stop cannot be confirmed is remembered in the entry. An edit
  that disables the server meanwhile finds nothing to stop and succeeds; the server
  is inactive and the runtime stays owned until the next reconciliation or the
  drain. `Converges` excuses a stop that is remembered (`StopRemembered`).
- A grant that expires between the evaluation of a request and its confirmation
  still admits it (`authorization/http_evaluation.go:100`, `git_admission.go:99`);
  `DispatchIsPermitted` says so.
- `failConsumed` marks a flow as failed under the context of the request that
  may have just ended (`oauth/callback.go:246`); the `expired` update of
  `BeginAuthFlowExchange` is rolled back with the error it returns
  (`servers/auth_flows.go:241-247`); a dynamic confidential client whose secret
  lapsed cannot register again while its handle is set.
- `createServer`, `patchServer` and `deleteServer` report an error after the
  commit, and skip the events and the trigger, when the resource cannot be read
  back. Idempotency records last a day, sessions up to seven: `OnceOnly` claims
  a decision only while its record is kept.
- The server editor keeps its draft per server but takes the live revision, so
  that an edit by someone else between draft and submission is overwritten. The
  replacement of a server's credential takes the live revision at the
  confirmation and not at the review (`web/src/server-credentials.tsx:207-248`).
  The other forms send the revision their draft was made from or their author
  reviewed; `ReviewedRevision` does not claim these two.
- `grant update` reports any problem, and `credential replace` and the rotation
  of a Git credential an unavailable keyring, as a definite failure, although
  the change may have been made; `OutcomeIsHonest` leaves out those three
  (`Misjudges`).
- In the console an appended page clears the notice of updates, and an
  invalidation that arrives during a read is dropped by a pause; panels wait for
  the stream; some reads take a lost session for a plain failure.

## 4. What is proved

All proofs are for every value of the constants that satisfies the named
assumptions of the modules: processes are finite and distinct, limits are natural
numbers, a value that stands for nothing is none of the others, and the forms and
commands are among those of the tables.

`AuthorityProofs` proves `TypeOK`, `GateAccounting`, `StaleLeaseUnusable`,
`AdmissionIsCurrent`, `DoneClosedOnce` and `NoLeakedLease`. `StaleLeaseUnusable`
is not inductive: between the commit of a mutation and the cancellation of the
leases it affects there are pending leases that are stale. The invariant
therefore says (`PendingIsCurrent`) that a pending lease is current or an
administrator who owns the gate is bound to cancel it (`CancelIsDue`), that a
pending lease can always be found (`PendingIsTracked`), and for admission that
what a candidate saw is in force as long as the authorization revision has not
moved (`CandidateIsSound`) and that a binding read under the gate stays current
until it is used (`ReadIsCurrent`).

For `GrantRequests` it proves `StartupAccepts` and `SettledOnce`, for any
principals, servers, policies and limits and for a clock that goes anywhere.
`RequestInv` is stated of a database, not of the state, so that it can be shown of
what a transaction would commit before the outcome is known: the store may latch
with either database. `RowsFit` is what startup reads of a row; `Limits` counts
rows, pending requests and evidence, which retention must free before a row is
inserted; `GrantsFit` ties a grant to the one request it was approved for, whose
sequence number is never given out again.

`AdminSessionsProofs` proves `TypeOK`, `SlotsAccounted`, `RevokedHasNoSession`,
`NoSessionWhileShutting` and `AuthorityRemains`, for any number of credentials,
sign-ins, streams and changes. `RevokedHasNoSession` needs `Progress`: callbacks
are pending only while a change notifies, and a manager that no longer hears of
invalidations has shut down, hence has no session; the third authentication of
a sign-in under the manager's lock is what makes `Install` preserve it.

`CustodyProofs` proves `DurableState`, `NothingStale` and `SlotSpec`: every step
of a cutover, of a reconciliation, of a request and of a crash is a step of
`SecretSlot` or leaves the readable generation alone, so a generation once
withdrawn is never served again. `CustodyInv` adds to the types who may hold the
permits and the writer (`Holding`), what the tables may contain whoever crashes
(`DbSafe`), and for an editor and a request at each position what they know of
the tables (`EditorAt`, `RequestAt`): an editor past its fence is the only one
who can select a generation, and its candidate is not yet selected.

Of `KeyRotation` it proves `KeyOpensCustody`, for any number of keys and of power
losses. The property quantifies over every directory that may survive a loss of
power, so it is inductive only together with what each position of a rotation
has already written and synced: `InPhase` says so, position by position.
`SlotFits`, `SlotHoldsOne` and `EmptySlotOpens` say of what is and of what may come
back: the slot holds at most one bundle, which names the key the database is
sealed under, and while the slot may come back empty every key file that may
come back opens the database; `PartsKeep` that a key that was ever bound is in
every combination of key file and bundles that may survive; `UnboundIsFresh`
that an unbound database was never sealed.

Of `Installation` it proves `InstallationIsWhole` for any set of commands. The
property speaks of every directory that a loss of power may leave; `Kept` reduces
it to what `survives` may hold of each file (`Only`: one content and no other).
Syncs, endings and losses of power only make the possible contents fewer, and then
`Kept` stays (`Shrinking`). A write makes them more; that it harms nothing needs
`OwnerAt`, what the owner of the lock has made durable before each step (plan and
input before the database, the key before it is bound, the bearer before it is
enrolled, the certificate before the last receipt), and `StageAt`, how far the file
of the step has got: a command that fails discards only a file whose absence is
among what may survive.

`IngressProofs` proves `SessionsAccounted` and `SessionKeepsLease` for any number
of requests, permits and slots. The invariant follows one session: before it
exists nothing refers to it (`Unborn`); while it is installed only its timers do
(`OnceInstalled`); from then on a current lease is published or being closed
(`LeaseFollowed`), and a request that still owns the lease leaves only when its
session is closed (`OwnerWaits`). `PublishedOnce` keeps a session under its own
id; `ClosersAreHere` ties each of the up to five closers to its goroutine;
`CloseOnceOnce` lets one of them pass the once, `ClosedAfterRemoval` after the
removal; `ShutdownSees` has every session that is published during the shutdown
noted by it; `SlotsHeld` and `Capacity` are the counting.

Of `Invocation` it proves `OneStory` and `ResourcesAreOwned`, for any number of
calls, publications, objects and tokens, and `RecoveryIsCurrent`, which is a part
of `HistoryIsTrue`. The three parts of the module share no variable that matters
here, so there are three invariants. `CallInv` says of one call, place by place,
what it has told and been told (`Told`: only a call that was handed over can have
reached the server, and a success is the server's answer to this call, not a late
frame for another one), that the cancellation of a call that is over has been sent
(`Notified`), and what it occupies (`Occupied`); `CallsCounted` that the counts of
the dispatcher are the numbers of calls that hold a token, use the server's object
and hold a slot, and that all of them use the same object: a publication makes no
second object while one is in use, which is why the limit holds across
publications. `Leased` keeps a withdrawal from cancelling a call that has not got
its lease yet. `NegotiationInv` says which process the negotiator has and that the
other one is not there yet or has been waited for; `StoreInv` that a generation
of the history which is not faulted was validated at its own failure revision.

`OAuthProofs` proves `TokensAreFenced` and `FlowAndTokensAgree` for any number of
flows, refreshes, generations and crashes. The argument: a fence is lifted only by
disarming it before the handoff and by activating new tokens; only the holder of
the keyring's permit changes the selected generation (`PermitHeld`); a generation
is fresh until it is selected (`Fresh`, `Lineage`); one flow is active at a time
(`OneActive`), and what a worker does it does for that flow (`ServesFlow`). So a
refresh token that was sent (`spent`) belongs to tokens that are fenced or
replaced (`SpentIsFenced`), whoever crashed between the two, and tokens that can
be read come from a flow or refresh that is recorded as having succeeded
(`ReadableAgrees`, `Committed`).

`AdministrationProofs` proves `OnceOnly`, `ClientIsHonest` and `NeverLockedOut`, for
any choice of the forms and commands and any number of requests, revisions, reads
and sessions. `WriteInv` holds of the requests whoever sends them: a request
belongs to one attempt (`Linked`) and a key to one attempt on a route that looks
its records up (`Keyed`); what was carried out was asked for at the revision it
names (`CarriedFits`), at most once while the record is kept (`AtMostOne`); a
record, an answer and what a client was told agree with it (`RecordsFit`,
`AnswersFit`, `ToldFits`); the old credential is revoked only by a completed
rotation (`RevokedBy`). To this a form adds that its controller serves the form on
the page and its sink the session (`Serving`), a command that it has one decision
under way (`Deciding`) and that it completes a rotation only after the new secret
is durable (`Storing`). The tables of routes, forms and commands enter through
lemmas that state what the proofs need of an entry.
Of `EventHub` it proves `TypeOK`, `NothingLost`, `NoEarlierHint` and
`TimerJoined`, for any number of streams and kinds. The strengthening relates
the shutdown to the flags it sets (`Closing`) and says that a coalesced hint
concerns streams that exist and that a closed stream has no history (`Tidy`).

`ProxyProofs` proves `DispatchIsPermitted` and `RecordsAreTrue`, for any number of
requests, origins, grants, revisions and limits. What an evaluation has found is
not a property of the state once the policy has changed, so the invariant says
(`Sealed`): the candidate of a handler is of a revision that is past, or what it
found is what the stored authority still permits; a confirmation that compares the
revision and the agent's binding under the gate then admits only the latter. The
grants it speaks of are those that had not expired at the evaluation. `Pinned` ties a stream to the
CONNECT whose credential it uses, `Routed` a Git request to the repository its
path named, `Counted` and `Fenced` the count of opaque tunnels to those that live
and to the routing profile; `Local` says what each position of a handler may have
recorded.

`RuntimesProofs` proves `RoutesAreSound` and `OperationsSettleOnce`, for any number
of servers, edits, callbacks, runtimes and failures and any limits. Besides types
and the numbering of candidates (`Numbered`, `Distinct`), `ManagerInv` says of a
server how far its worker is (`Underway`) and what it may rely on. Almost all of it
holds only while the generation of the worker is still that of the entry: then its
candidate keeps its place and its ownership and no other goroutine stops it
(`Placed`, `Held`), the active runtime is owned (`Active`), and neither a timer nor
the goroutine of a lost runtime starts anything beside it (`Timed`, `Lost`). An
operation under way stands for the stored revision (`Standing`, `Entrusted`), which
makes a recorded success a true one. `Routed` names, for a route that is served,
who answers for it: the worker that published it, a stopper or a trigger that has
yet to withdraw it, or the entry, at rest, whose active runtime it is; `Locked`
that a publication holds the registry, and that none does after the drain.

Only model-checked: every liveness property (the prover does not handle
fairness); `NothingForgotten` of `Runtimes`, whose proof would have to follow each
unconfirmed stop through the single slot described in section 3; the rest of
`HistoryIsTrue`, where a batch is applied by a fold; the safety of `Console`
(`PageIsTrue`, `PauseHolds`); and the walks: `WalksComplete` and `WalksAreWhole`
speak of sequences built page by page. What a fold or a page-by-page walk yields
would need induction over data.

## 5. Not modelled

SQL text and schema migrations, file formats (configuration export and import,
backups), what a certificate says, HTTP, MCP and Git wire parsing, rendering, text and
layout of the browser interface, performance and rate limits, counters and log
events. These are pure functions, I/O or constants: there is no order of steps
for a model to explore. `PROJECT.json` lists the components with the reason for
each, and for a component that is partly modelled what is left out.

Of the parts with an order of steps, left out for size: two servers that compete
for one reconciliation, the handoff and polling of a catalog, the replay of a
call after an OAuth challenge, the offline commands other than `init` and the key
rotation, and several secrets, principals or repositories at once.

## 6. Plan

1. Proofs: `HandleIsOwned` of `Runtimes` from `ManagerInv`; then `SessionIsFenced`
   of `Console`.
2. Models: the parts left out for size above.
