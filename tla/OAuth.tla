------------------------------- MODULE OAuth -------------------------------
(***************************************************************************)
(* The OAuth authority of one downstream server: the foreground flows that *)
(* obtain tokens (internal/oauth/flows.go, callback.go), the background    *)
(* refresh (refresh.go), the client registration (registration.go), the    *)
(* disconnection (disconnect.go), the discovery of the issuer (trust.go),  *)
(* and the tables they share (internal/servers/auth_flows.go,              *)
(* oauth_refresh.go, registration.go, authority.go).                       *)
(*                                                                         *)
(* The database changes by whole transactions.  A transaction commits, or  *)
(* fails without a trace, or commits with its acknowledgement lost, which  *)
(* latches the store.  A crash forgets everything else.  The external      *)
(* issuer may have acted on a request whose answer never came back: `spent`*)
(* holds the generations whose refresh token was handed to it.             *)
(*                                                                         *)
(* The in-memory removal that follows a transaction (removeFlowIDs,        *)
(* FenceServer) is one step with it: the only reader of that memory is a   *)
(* callback, and one that consumes its entry between the two could as well *)
(* have consumed it before the transaction.                                *)
(***************************************************************************)
EXTENDS Naturals, Sequences, FiniteSets

CONSTANTS
  Flows,          \* the foreground flows, each created by one administrative call
  Callbacks,      \* deliveries of an authorization response to the gateway
  Refreshers,     \* callers of the refresh service
  Owned,          \* those that answer a challenge of a runtime they own
  Issuers,        \* authorization servers
  Home,           \* the one with the origin of the resource
  Scopes,
  MaxCallbackWork,\* oauth_callback_work
  MaxGenerations, \* bound: token generations ever issued
  MaxEdits,       \* bound: edits of the server
  MaxCrashes,     \* bound: crashes
  None

Work == Callbacks \cup Refreshers
Procs == Flows \cup Work

ASSUME ProcsAreDistinct ==
  /\ Flows \cap Work = {} /\ Callbacks \cap Refreshers = {} /\ None \notin Procs \cup Issuers
  /\ Owned \subseteq Refreshers
ASSUME HomeIsAnIssuer == Home \in Issuers
ASSUME OAuthBounds ==
  /\ MaxCallbackWork \in Nat \ {0} /\ MaxGenerations \in Nat \ {0}
  /\ MaxEdits \in Nat /\ MaxCrashes \in Nat

VARIABLES
  db,        \* servers, server_auth_flows, the registration, credentials and fences
  latched,   \* the store refuses every transaction
  config,    \* [public, listener]: the client has no secret; the callback has its own listener
  byState,   \* FlowService.byState: the one-time bundle of a flow's state, or None
  leases,    \* FlowService.leases: flows with a callback listener
  draining,  \* Shutdown was called
  operation, \* who holds the keyring coordinator's permit
  calls,     \* RefreshService.calls: the refresher that works, or None
  pc,
  own,       \* what a process captured
  due,       \* flows past their five minutes
  gens,      \* the token generations issued, in order
  spent,     \* those whose refresh token was handed to the issuer
  crashes

vars == <<db, latched, config, byState, leases, draining, operation, calls, pc, own, due,
          gens, spent, crashes>>
memory  == <<byState, leases>>
service == <<draining, operation, calls>>
issuer  == <<gens, spent>>
world   == <<config, due, crashes>>

Nonterminal == {"preparing", "awaiting", "exchanging"}
Terminal == {"succeeded", "failed", "expired", "cancelled", "superseded", "interrupted"}

Fence(desired, registration, client, tokens) ==
  [desired |-> desired, registration |-> registration, client |-> client, tokens |-> tokens]
Bundle(fence, issuerOf, scopes) == [fence |-> fence, issuer |-> issuerOf, scopes |-> scopes]
Generation(issuerOf, registration, scopes, flow) ==
  [issuer |-> issuerOf, registration |-> registration, scopes |-> scopes, flow |-> flow]
\* What a process captured: its fence, the issuer, the scopes it may be given,
\* the flow it serves and the generation it holds (0: none).
Captured(fence, issuerOf, scopes, flow, generation) ==
  [fence |-> fence, issuer |-> issuerOf, scopes |-> scopes, flow |-> flow, generation |-> generation]

NoFence == Fence(0, 0, 0, 0)
Nothing == Captured(NoFence, None, {}, None, 0)

\* The fence of the current rows (authorityTx, PrepareOAuthRefresh).
Current(d) == Fence(d.desired, d.registration, d.client, d.tokens)

\* Operation.ReadActive on the token namespace: the generation in force, or 0.
ReadActive(d) == IF d.fenced THEN 0 ELSE d.selected

Exchanging(d) == \E f \in Flows : d.flows[f].state = "exchanging"

Goto(p, label) == pc' = [pc EXCEPT ![p] = label]
Capture(p, what) == own' = [own EXCEPT ![p] = what]

SetFlow(d, f, state) == [d EXCEPT !.flows[f].state = state]
SetFlows(d, which, state) ==
  [d EXCEPT !.flows = [f \in Flows |-> IF f \in which THEN [@[f] EXCEPT !.state = state] ELSE @[f]]]

\* removeFlowIDs: the bundles of these flows and their listeners are dropped.
removeFlowIDs(which) ==
  /\ byState' = [f \in Flows |-> IF f \in which THEN None ELSE byState[f]]
  /\ leases' = leases \ which

\* The server has a registered client and tokens of an earlier authorization.
Init ==
  /\ config \in [public : BOOLEAN, listener : BOOLEAN]
  /\ db = [desired |-> 1, deleted |-> FALSE, pin |-> None,
           registration |-> 1, issuer |-> Home,
           client |-> IF config.public THEN 0 ELSE 1, held |-> ~config.public, lapsed |-> FALSE,
           tokens |-> 1, handle |-> 1, selected |-> 1, fenced |-> FALSE,
           flows |-> [f \in Flows |-> [state |-> "absent", desired |-> 0, registration |-> 0]]]
  /\ latched = FALSE
  /\ byState = [f \in Flows |-> None] /\ leases = {}
  /\ draining = FALSE /\ operation = None /\ calls = None
  /\ pc = [p \in Procs |-> "idle"]
  /\ own = [p \in Procs |-> Nothing]
  /\ due = {}
  /\ gens = <<Generation(Home, 1, Scopes, None)>>
  /\ spent = {} /\ crashes = 0
-----------------------------------------------------------------------------
(* Transactions.                                                           *)

Tx(p, allowed, new, ok, bad) ==
  \/ /\ allowed /\ ~latched /\ db' = new
     /\ \/ latched' = FALSE /\ Goto(p, ok)
        \/ latched' = TRUE /\ Goto(p, bad)
  \/ db' = db /\ latched' \in {latched, TRUE} /\ Goto(p, bad)

\* A transaction of a call that returns at once.
Once(allowed, new) == allowed /\ ~latched /\ db' = new /\ latched' \in BOOLEAN
-----------------------------------------------------------------------------
(* Discovery (trust.go).                                                   *)

\* selectIssuer: a pinned issuer must be advertised; without a pin the only
\* advertised one must have the origin of the resource.
selectIssuer(advertised, pin) ==
  IF pin # None THEN (IF pin \in advertised THEN pin ELSE None)
  ELSE IF advertised = {Home} THEN Home ELSE None

\* discoverProtected: the protected resource may not answer, and advertises
\* some authorization servers when it does.
Advertised == SUBSET Issuers

\* Discover: the issuer of the graph, or None when any document is missing,
\* malformed or does not name that issuer.
Discover(pin) == {None} \cup {selectIssuer(advertised, pin) : advertised \in Advertised}
-----------------------------------------------------------------------------
(* Creating a flow: FlowService.Create.                                    *)

\* validateAuthFlowAuthority with authFlowConfiguration: the server exists.  The
\* client is registered dynamically, which asks for no material of it.
Configured(d) == ~d.deleted

\* CreateAuthFlow: one active flow per server; the older ones are superseded.
Prepare(f) ==
  /\ pc[f] = "idle"
  /\ Configured(db) /\ ~Exchanging(db)
  /\ Once(TRUE,
          [SetFlows(db, {g \in Flows : db.flows[g].state \in {"preparing", "awaiting"}}, "superseded")
             EXCEPT !.flows[f] = [state |-> "preparing", desired |-> db.desired,
                                  registration |-> db.registration]])
  /\ removeFlowIDs({g \in Flows : db.flows[g].state \in {"preparing", "awaiting"}})
  /\ Capture(f, Captured(Current(db), db.pin, Scopes, f, 0))
  /\ Goto(f, IF latched' THEN "closed" ELSE "prepared")
  /\ UNCHANGED <<service, issuer, world>>

\* AcquireCallback: the flow's listener, which its own timer closes.
AcquireCallback(f) == f \notin due /\ leases' = leases \cup {f}

\* Discovery answers; a callback with a listener of its own acquires it; the
\* flow must still be preparing.
Discovered(f) ==
  /\ pc[f] = "prepared"
  /\ \E found \in Discover(own[f].issuer) :
       IF found # None /\ ~draining /\ db.flows[f].state = "preparing"
       THEN /\ Capture(f, [own[f] EXCEPT !.issuer = found])
            /\ \/ ~config.listener /\ Goto(f, "register") /\ UNCHANGED leases
               \/ config.listener /\ AcquireCallback(f) /\ Goto(f, "register")
               \/ config.listener /\ Goto(f, "failing") /\ UNCHANGED leases
       ELSE Goto(f, "failing") /\ UNCHANGED <<own, leases>>
  /\ UNCHANGED <<db, latched, byState, service, issuer, world>>

\* registrationUsable: the stored registration serves this request.
registrationUsable(f) ==
  /\ db.registration = own[f].fence.registration /\ db.registration # 0
  /\ db.issuer = own[f].issuer /\ ~db.lapsed

\* validateRegistrationCurrent: the fence of a registration that is published.
\* A confidential dynamic client must not hold a secret yet.
RegistrationCurrent(d, f) ==
  /\ ~d.deleted /\ d.desired = own[f].fence.desired
  /\ d.registration = own[f].fence.registration /\ d.client = own[f].fence.client
  /\ ~d.held
  /\ (d.pin # None => d.pin = own[f].issuer)
  /\ d.flows[f].state = "preparing" /\ d.flows[f].desired = own[f].fence.desired

\* updateRegistration and, for a confidential client, the secret it got.
Registered(d, f) ==
  [d EXCEPT !.registration = @ + 1, !.issuer = own[f].issuer, !.lapsed = FALSE,
            !.client = IF config.public THEN @ ELSE @ + 1, !.held = ~config.public]

\* Registrar.Register: reuse, or register with the issuer and publish.
Register(f) ==
  /\ pc[f] = "register"
  /\ \/ registrationUsable(f) /\ Goto(f, "bind") /\ UNCHANGED <<db, latched>>
     \/ /\ ~registrationUsable(f)
        /\ (~config.public => operation = None)
        /\ Tx(f, RegistrationCurrent(db, f), Registered(db, f), "bind", "failing")
     \/ /\ ~registrationUsable(f) /\ ~config.public /\ operation # None
        /\ Goto(f, "failing") /\ UNCHANGED <<db, latched>>
  /\ Capture(f, [own[f] EXCEPT !.fence.registration = db'.registration])
  /\ UNCHANGED <<memory, service, issuer, world>>

\* The registration is read again with the authority it is bound to; the state
\* and its bundle become known to the callback.
Bind(f) ==
  /\ pc[f] = "bind"
  /\ IF db.registration = own[f].fence.registration
     THEN /\ byState' = [byState EXCEPT ![f] =
                Bundle([Current(db) EXCEPT !.desired = own[f].fence.desired], own[f].issuer, Scopes)]
          /\ Goto(f, "await")
     ELSE Goto(f, "failing") /\ UNCHANGED byState
  /\ UNCHANGED <<db, latched, leases, service, own, issuer, world>>

\* MarkAuthFlowAwaiting; an error returns without failing the row.
Await(f) ==
  /\ pc[f] = "await"
  /\ Tx(f, /\ db.flows[f].state = "preparing" /\ db.desired = own[f].fence.desired
           /\ ~db.deleted /\ db.registration = own[f].fence.registration,
        [db EXCEPT !.flows[f].state = "awaiting", !.flows[f].registration = db.registration],
        "publish", "dropped")
  /\ UNCHANGED <<memory, service, own, issuer, world>>

Dropped(f) ==
  /\ pc[f] = "dropped" /\ Goto(f, "closed") /\ removeFlowIDs({f})
  /\ UNCHANGED <<db, latched, service, own, issuer, world>>

\* The authorization URL is returned when the bundle is still there; the audit
\* of the attempt may fail instead, which drops the bundle.
Publish(f) ==
  /\ pc[f] = "publish"
  /\ \/ ~draining /\ byState[f] # None /\ Goto(f, "open") /\ UNCHANGED memory
     \/ (draining \/ byState[f] = None) /\ Goto(f, "failing") /\ UNCHANGED memory
     \/ Goto(f, "closed") /\ removeFlowIDs({f})
  /\ UNCHANGED <<db, latched, service, own, issuer, world>>

\* FlowService.fail: FailAuthFlow, whose error is ignored, and the removal.
FailCreate(f) ==
  /\ pc[f] = "failing"
  /\ Tx(f, db.flows[f].state \in Nonterminal, SetFlow(db, f, "failed"), "closed", "closed")
  /\ removeFlowIDs({f})
  /\ UNCHANGED <<service, own, issuer, world>>
-----------------------------------------------------------------------------
(* What ends a flow from outside.                                          *)

\* CancelAuthFlow: an exchange is never cancelled.
Cancel(f) ==
  /\ db.flows[f].state \in {"preparing", "awaiting"}
  /\ Once(TRUE, SetFlow(db, f, "cancelled"))
  /\ removeFlowIDs({f})
  /\ UNCHANGED <<service, pc, own, issuer, world>>

\* The clock.
Elapse(f) ==
  /\ f \notin due /\ (db.flows[f].state \in {"preparing", "awaiting"} \/ f \in leases)
  /\ due' = due \cup {f}
  /\ UNCHANGED <<db, latched, config, memory, service, pc, own, issuer, crashes>>

\* expire: the sweep that every read and every creation begins with.
Expire ==
  LET over == {f \in due : db.flows[f].state \in {"preparing", "awaiting"}}
  IN /\ over # {}
     /\ Once(TRUE, SetFlows(db, over, "expired"))
     /\ removeFlowIDs(over)
     /\ UNCHANGED <<service, pc, own, issuer, world>>

\* The listener's own timer (composition/oauth_callbacks.go).
ListenerTimeout(f) ==
  /\ f \in leases /\ f \in due
  /\ leases' = leases \ {f}
  /\ UNCHANGED <<db, latched, byState, service, pc, own, issuer, world>>
-----------------------------------------------------------------------------
(* The callback: HandleCallbackAt.                                         *)

Working == Cardinality({c \in Callbacks : pc[c] \notin {"idle", "done"}})

\* acquireCallback, and the state is consumed before anything else is read.  A
\* response may be delivered twice.
Arrive(c, f) ==
  /\ pc[c] = "idle" /\ pc[f] = "open"
  /\ (config.listener => f \in leases)
  /\ IF draining \/ Working >= MaxCallbackWork \/ byState[f] = None
     THEN Goto(c, "done") /\ UNCHANGED <<byState, own>>
     ELSE /\ byState' = [byState EXCEPT ![f] = None]
          /\ Capture(c, Captured(byState[f].fence, byState[f].issuer, byState[f].scopes, f, 0))
          /\ Goto(c, "consumed")
  /\ UNCHANGED <<db, latched, leases, service, issuer, world>>

\* validateOAuthTokenFenceTx.
FlowCurrent(d, captured, state, tokens) ==
  /\ ~d.deleted /\ ~d.lapsed
  /\ d.flows[captured.flow].state = state
  /\ d.flows[captured.flow].desired = captured.fence.desired
  /\ d.flows[captured.flow].registration = captured.fence.registration
  /\ d.desired = captured.fence.desired /\ d.registration = captured.fence.registration
  /\ d.client = captured.fence.client /\ d.tokens = tokens

\* An error or a foreign issuer fails the flow; a code begins the exchange.
\* BeginAuthFlowExchange fences the tokens in force in the same transaction.
BeginAuthFlowExchange(c) ==
  LET f == own[c].flow
  IN /\ pc[c] = "consumed"
     /\ Tx(c, f \notin due /\ FlowCurrent(db, own[c], "awaiting", own[c].fence.tokens),
           [SetFlow(db, f, "exchanging") EXCEPT !.fenced = TRUE], "exchanging", "failing")
     /\ UNCHANGED <<memory, service, own, gens, spent, world>>

\* The client secret is read (which needs the permit of the keyring), every
\* fence is checked again, and the attempt is recorded.
ValidateAuthFlowExchange(c) ==
  /\ pc[c] = "exchanging"
  /\ \/ /\ (~config.public => operation = None /\ db.held)
        /\ FlowCurrent(db, own[c], "exchanging", own[c].fence.tokens)
        /\ Goto(c, "sending")
     \/ Goto(c, "failing")
  /\ UNCHANGED <<db, latched, memory, service, own, issuer, world>>

\* parseTokenResponse: the granted scopes may not exceed what was requested,
\* and an answer that names none grants all of them.
Granted(requested) == (SUBSET Scopes) \cap SUBSET requested

Issued(p, registration, flow) ==
  /\ Len(gens) < MaxGenerations
  /\ \E scopes \in Granted(own[p].scopes) :
       gens' = Append(gens, Generation(own[p].issuer, registration, scopes, flow))
  /\ Capture(p, [own[p] EXCEPT !.generation = Len(gens) + 1])

\* The code goes to the token endpoint; the answer may be lost or unusable.
SendCode(c) ==
  /\ pc[c] = "sending"
  /\ \/ Issued(c, own[c].fence.registration, own[c].flow) /\ Goto(c, "install")
     \/ Goto(c, "failing") /\ UNCHANGED <<gens, own>>
  /\ UNCHANGED <<db, latched, memory, service, spent, world>>

\* failConsumed: FailAuthFlow under the context of the request, so that it
\* may fail when the browser is gone.
FailConsumed(c) ==
  /\ pc[c] = "failing"
  /\ Tx(c, db.flows[own[c].flow].state \in Nonterminal, SetFlow(db, own[c].flow, "failed"),
        "leaving", "leaving")
  /\ UNCHANGED <<memory, service, own, issuer, world>>

\* Mutant: the callback leaves without releasing the permit.
LeaveHolding(c) ==
  /\ pc[c] = "leaving"
  /\ removeFlowIDs({own[c].flow})
  /\ Goto(c, "done")
  /\ UNCHANGED <<db, latched, service, own, issuer, world>>

\* The deferred releases.
Leave(c) ==
  /\ pc[c] = "leaving"
  /\ removeFlowIDs({own[c].flow})
  /\ operation' = IF operation = c THEN None ELSE operation
  /\ Goto(c, "done")
  /\ UNCHANGED <<db, latched, draining, calls, own, issuer, world>>
-----------------------------------------------------------------------------
(* Installing tokens: Operation.ReplaceFencedAfterAuthorizationSuccess, with*)
(* the authority callback of a flow or of a refresh.                       *)

Ending(p) == IF p \in Callbacks THEN "failing" ELSE "ending"

\* OAuthRefreshAuthorityCallback.
RefreshCurrent(d, captured, tokens) ==
  /\ ~Exchanging(d) /\ ~d.lapsed
  /\ d.desired = captured.fence.desired /\ d.registration = captured.fence.registration
  /\ d.client = captured.fence.client /\ d.tokens = tokens

AuthorityCurrent(p, tokens) ==
  IF p \in Callbacks THEN FlowCurrent(db, own[p], "exchanging", tokens)
                     ELSE RefreshCurrent(db, own[p], tokens)

\* A callback acquires the permit here; a refresh has held it from the start.
TakeOperation(c) ==
  /\ pc[c] = "install" /\ c \in Callbacks
  /\ \/ operation = None /\ operation' = c /\ Goto(c, "fence")
     \/ operation # None /\ Goto(c, "failing") /\ UNCHANGED operation
  /\ UNCHANGED <<db, latched, memory, draining, calls, own, issuer, world>>

\* fenceAuthority.
FenceAuthority(p) ==
  /\ pc[p] = "fence"
  /\ Tx(p, AuthorityCurrent(p, own[p].fence.tokens),
        [db EXCEPT !.selected = 0, !.fenced = TRUE], "commit", "retract")
  /\ UNCHANGED <<memory, service, own, issuer, world>>

\* Mutant: the commit lifts the fence itself.
CommitTokensUnfenced(p) ==
  /\ pc[p] = "commit"
  /\ Tx(p, AuthorityCurrent(p, own[p].fence.tokens) /\ ~db.deleted,
        [db EXCEPT !.tokens = @ + 1, !.handle = own[p].generation, !.selected = own[p].generation,
                   !.fenced = FALSE], "activate", "retract")
  /\ UNCHANGED <<memory, service, own, issuer, world>>

\* commitCandidate with keepFenced.
CommitTokens(p) ==
  /\ pc[p] = "commit"
  /\ Tx(p, AuthorityCurrent(p, own[p].fence.tokens) /\ ~db.deleted,
        [db EXCEPT !.tokens = @ + 1, !.handle = own[p].generation, !.selected = own[p].generation],
        "activate", "retract")
  /\ UNCHANGED <<memory, service, own, issuer, world>>

\* activateAuthority: the fence goes and the flow succeeds, in one transaction.
Activated(p) ==
  IF p \in Callbacks THEN [SetFlow(db, own[p].flow, "succeeded") EXCEPT !.fenced = FALSE]
                     ELSE [db EXCEPT !.fenced = FALSE]
ActivateTokens(p) ==
  /\ pc[p] = "activate"
  /\ Tx(p, AuthorityCurrent(p, own[p].fence.tokens + 1) /\ db.fenced, Activated(p),
        IF p \in Callbacks THEN "leaving" ELSE "ending", "undo")
  /\ UNCHANGED <<memory, service, own, issuer, world>>

\* invalidateAuthority(exact): the captured revision, or the one published, is
\* withdrawn; a flow that no longer exchanges refuses it.
Retract(p, expected) ==
  /\ Tx(p, db.tokens = expected /\ (p \in Callbacks => db.flows[own[p].flow].state = "exchanging"),
        [(IF p \in Callbacks THEN SetFlow(db, own[p].flow, "failed") ELSE db)
           EXCEPT !.tokens = @ + 1, !.handle = 0, !.selected = 0],
        Ending(p), Ending(p))
  /\ UNCHANGED <<memory, service, own, issuer, world>>
Invalidate(p) ==
  \/ pc[p] = "retract" /\ Retract(p, own[p].fence.tokens)
  \/ pc[p] = "undo" /\ Retract(p, own[p].fence.tokens + 1)
-----------------------------------------------------------------------------
(* Refreshing: RefreshService.                                             *)

\* A runtime that was challenged remembers the authority it was built from.
Challenge(r) ==
  /\ pc[r] = "idle" /\ r \in Owned
  /\ Capture(r, Captured(Current(db), None, {}, None, 0))
  /\ Goto(r, "challenged")
  /\ UNCHANGED <<db, latched, memory, service, issuer, world>>

\* runRefresh: one call per server; the others join it, but an owned call
\* neither joins nor is joined.
RunRefresh(r) ==
  /\ pc[r] = IF r \in Owned THEN "challenged" ELSE "idle"
  /\ \/ draining /\ Goto(r, "done") /\ UNCHANGED calls
     \/ ~draining /\ calls = None /\ calls' = r /\ Goto(r, "prepare")
     \/ /\ ~draining /\ calls # None
        /\ Goto(r, IF r \in Owned \/ calls \in Owned THEN "done" ELSE "joined")
        /\ UNCHANGED calls
  /\ UNCHANGED <<db, latched, memory, draining, operation, own, issuer, world>>

\* The joined call ended, or the joiner's own context did.
Joined(r) ==
  /\ pc[r] = "joined"
  /\ (~draining => calls = None)
  /\ Goto(r, "done")
  /\ UNCHANGED <<db, latched, memory, service, own, issuer, world>>

\* PrepareOAuthRefresh; an owned call accepts only the fence it was given.  The
\* rest runs under the permit of the keyring.
PrepareRefresh(r) ==
  /\ pc[r] = "prepare"
  /\ IF /\ ~db.deleted /\ db.handle # 0 /\ db.tokens # 0 /\ db.registration # 0
        /\ (r \in Owned => own[r].fence = Current(db))
        /\ operation = None
     THEN /\ operation' = r /\ Goto(r, "read")
          /\ Capture(r, Captured(Current(db), db.issuer, {}, None, 0))
     ELSE Goto(r, "ending") /\ UNCHANGED <<own, operation>>
  /\ UNCHANGED <<db, latched, memory, draining, calls, issuer, world>>

\* refreshBindingMatches.
refreshBindingMatches(g, fence, issuerOf) ==
  gens[g].issuer = issuerOf /\ gens[g].registration = fence.registration

\* ReadActive of the tokens and of the client, the binding, the eligibility and
\* the discovery of the registered issuer.
ReadTokens(r) ==
  LET g == ReadActive(db)
  IN /\ pc[r] = "read"
     /\ \/ /\ g # 0 /\ ~latched /\ db.tokens = own[r].fence.tokens
           /\ refreshBindingMatches(g, own[r].fence, own[r].issuer)
           /\ (~config.public => db.held /\ db.client = own[r].fence.client)
           /\ own[r].issuer \in Discover(own[r].issuer)
           /\ Capture(r, [own[r] EXCEPT !.generation = g, !.scopes = gens[g].scopes])
           /\ Goto(r, "arm")
        \/ Goto(r, "ending") /\ UNCHANGED own
     /\ UNCHANGED <<db, latched, memory, service, issuer, world>>

\* FenceOAuthHandoff(pending): the fence row must be new.
Arm(r) ==
  /\ pc[r] = "arm"
  /\ Tx(r, RefreshCurrent(db, own[r], own[r].fence.tokens) /\ ~db.fenced,
        [db EXCEPT !.fenced = TRUE], "handoff", "ending")
  /\ UNCHANGED <<memory, service, own, issuer, world>>

\* Mutant: a lost answer is treated like a request that was never sent.
SendRefreshDisarms(r) ==
  /\ pc[r] = "handoff"
  /\ \/ spent' = spent /\ Goto(r, "disarm") /\ UNCHANGED <<gens, own>>
     \/ /\ spent' = spent \cup {own[r].generation}
        /\ \/ Goto(r, "disarm") /\ UNCHANGED <<gens, own>>
           \/ Issued(r, own[r].fence.registration, gens[own[r].generation].flow) /\ Goto(r, "fence")
  /\ UNCHANGED <<db, latched, memory, service, world>>

\* The request fails before it is handed to the network, or its answer is lost
\* or unusable, or new tokens come back.  A public client needs a new token.
SendRefresh(r) ==
  /\ pc[r] = "handoff"
  /\ \/ Goto(r, "disarm") /\ UNCHANGED <<gens, spent, own>>
     \/ /\ spent' = spent \cup {own[r].generation}
        /\ \/ Goto(r, "retract") /\ UNCHANGED <<gens, own>>
           \/ Issued(r, own[r].fence.registration, gens[own[r].generation].flow) /\ Goto(r, "fence")
  /\ UNCHANGED <<db, latched, memory, service, world>>

\* FenceOAuthHandoff(not pending), under the same authority callback.
Disarm(r) ==
  /\ pc[r] = "disarm"
  /\ Tx(r, RefreshCurrent(db, own[r], own[r].fence.tokens), [db EXCEPT !.fenced = FALSE],
        "ending", "ending")
  /\ UNCHANGED <<memory, service, own, issuer, world>>

EndRefresh(r) ==
  /\ pc[r] = "ending" /\ r \in Refreshers
  /\ calls' = None /\ operation' = IF operation = r THEN None ELSE operation
  /\ Goto(r, "done")
  /\ UNCHANGED <<db, latched, memory, draining, own, issuer, world>>
-----------------------------------------------------------------------------
(* The server is edited, disconnected or deleted; the process stops.       *)

\* A behavioural edit supersedes every flow, an exchange too, and fences the
\* server's bundles (supersedeAuthFlowsTx, FenceServer).  One that is not
\* compatible (callback, metadata, scopes) also advances the registration.
Edit(pin, deleted) ==
  /\ db.desired <= MaxEdits /\ ~db.deleted
  /\ \E compatible \in BOOLEAN :
       /\ deleted => compatible
       /\ Once(TRUE, [SetFlows(db, {f \in Flows : db.flows[f].state \in Nonterminal}, "superseded")
                        EXCEPT !.desired = @ + 1, !.pin = pin, !.deleted = deleted,
                               !.registration = IF compatible \/ @ = 0 THEN @ ELSE @ + 1])
  /\ removeFlowIDs(Flows)
  /\ UNCHANGED <<service, pc, own, issuer, world>>

\* The request of a disconnection, and the replacement of a credential, supersede
\* the flows and leave their bundles and listeners to time out.
Supersede ==
  LET over == {f \in Flows : db.flows[f].state \in Nonterminal}
  IN /\ over # {} /\ ~db.deleted
     /\ Once(TRUE, SetFlows(db, over, "superseded"))
     /\ UNCHANGED <<memory, service, pc, own, issuer, world>>

\* DisconnectService.disconnect: the tokens are withdrawn locally under the
\* permit, then revoked; a deletion also withdraws the client and registration,
\* here in the same step: nobody begins anything with a deleted server.
Disconnect ==
  /\ operation = None /\ (db.handle # 0 \/ db.deleted) /\ db.tokens <= MaxGenerations
  /\ Once(TRUE, IF db.deleted
                THEN [db EXCEPT !.tokens = IF db.handle # 0 THEN @ + 1 ELSE @, !.handle = 0,
                                !.selected = 0, !.client = IF db.held THEN @ + 1 ELSE @,
                                !.held = FALSE,
                                !.registration = IF @ # 0 /\ db.issuer # None THEN @ + 1 ELSE @,
                                !.issuer = None]
                ELSE [db EXCEPT !.tokens = @ + 1, !.handle = 0, !.selected = 0])
  /\ db' # db
  /\ spent' = spent \cup ({ReadActive(db)} \ {0})
  /\ UNCHANGED <<memory, service, pc, own, gens, world>>

\* The secret of a dynamic client expires.
Lapse ==
  /\ ~config.public /\ db.held /\ ~db.lapsed
  /\ db' = [db EXCEPT !.lapsed = TRUE]
  /\ UNCHANGED <<latched, memory, service, pc, own, issuer, world>>

\* FlowService.Shutdown, RefreshService.Shutdown and the listeners'.
Shutdown ==
  /\ ~draining /\ draining' = TRUE
  /\ byState' = [f \in Flows |-> None] /\ leases' = {}
  /\ UNCHANGED <<db, latched, operation, calls, pc, own, issuer, world>>

\* The process dies at any point; Start interrupts every nonterminal flow.
Crash ==
  /\ crashes < MaxCrashes /\ crashes' = crashes + 1
  /\ db' = SetFlows(db, {f \in Flows : db.flows[f].state \in Nonterminal}, "interrupted")
  /\ latched' = FALSE /\ draining' = FALSE /\ operation' = None /\ calls' = None
  /\ byState' = [f \in Flows |-> None] /\ leases' = {}
  /\ pc' = [p \in Procs |-> IF pc[p] = "idle" THEN "idle" ELSE IF p \in Flows THEN "closed" ELSE "done"]
  /\ own' = [p \in Procs |-> Nothing]
  /\ UNCHANGED <<config, due, issuer>>
-----------------------------------------------------------------------------
FlowStep(f) ==
  \/ Prepare(f) \/ Discovered(f) \/ Register(f) \/ Bind(f) \/ Await(f) \/ Dropped(f)
  \/ Publish(f) \/ FailCreate(f)
CallbackStep(c) ==
  \/ BeginAuthFlowExchange(c) \/ ValidateAuthFlowExchange(c) \/ SendCode(c)
  \/ TakeOperation(c) \/ FailConsumed(c) \/ Leave(c)
RefreshStep(r) ==
  \/ RunRefresh(r) \/ Joined(r) \/ PrepareRefresh(r) \/ ReadTokens(r) \/ Arm(r) \/ SendRefresh(r)
  \/ Disarm(r) \/ EndRefresh(r)
InstallStep(p) == FenceAuthority(p) \/ CommitTokens(p) \/ ActivateTokens(p) \/ Invalidate(p)

Environment ==
  \/ \E f \in Flows : Cancel(f) \/ Elapse(f) \/ ListenerTimeout(f)
  \/ Expire
  \/ \E c \in Callbacks, f \in Flows : Arrive(c, f)
  \/ \E r \in Refreshers : Challenge(r)
  \/ \E pin \in Issuers \cup {None}, deleted \in BOOLEAN : Edit(pin, deleted)
  \/ Supersede \/ Disconnect \/ Lapse \/ Shutdown \/ Crash

Next ==
  \/ \E f \in Flows : FlowStep(f)
  \/ \E c \in Callbacks : CallbackStep(c)
  \/ \E r \in Refreshers : RefreshStep(r)
  \/ \E p \in Work : InstallStep(p)
  \/ Environment

Spec == Init /\ [][Next]_vars

\* The browser and the operator need never act, and nothing obliges an
\* administrator to read the flows; the handlers run to their end and time passes.
Progress ==
  \/ \E f \in Flows : pc[f] # "idle" /\ FlowStep(f)
  \/ \E c \in Callbacks : CallbackStep(c)
  \/ \E r \in Refreshers : pc[r] # "idle" /\ RefreshStep(r)
  \/ \E p \in Work : InstallStep(p)
  \/ \E f \in leases : Elapse(f) \/ ListenerTimeout(f)
FairSpec == Spec /\ WF_vars(Progress)
-----------------------------------------------------------------------------
\* A token generation whose refresh token may have reached the issuer is never
\* read again (a confidential client may get the same token in its next
\* generation): neither a crash, a lost acknowledgement, an abandoned code exchange nor an edit makes
\* its generation active (refresh.go:304, keyring/cutover.go FenceOAuthHandoff).
NoReplay == ReadActive(db) \notin spent

\* While a code exchange is under way the tokens it replaces are denied; a
\* refresh that runs beside it cannot lift that (servers/oauth_refresh.go:84).
ExchangeIsFenced == Exchanging(db) => db.fenced

\* What may have been used elsewhere is not used here.
TokensAreFenced == NoReplay /\ ExchangeIsFenced

\* Tokens and the flow that obtained them become effective together: tokens that
\* can be read belong to a flow that succeeded, whatever step the process died at
\* and whichever answer was lost (callback.go:195, cutover.go activateAuthority).
FlowAndTokensAgree ==
  LET g == ReadActive(db)
  IN g # 0 => (gens[g].flow # None => db.flows[gens[g].flow].state = "succeeded")

\* Every authorization ends: no handler is stuck, the permit of the keyring and
\* the refresh slot come back, and no callback listener outlives its flow's time
\* (callback.go:45, refresh.go:169, composition/oauth_callbacks.go).
AuthorizationEnds ==
  []<>( /\ \A p \in Procs : pc[p] \in {"idle", "open", "closed", "challenged", "done"}
        /\ operation = None /\ calls = None /\ leases = {} )
=============================================================================
