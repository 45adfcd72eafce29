-------------------------------- MODULE Proxy --------------------------------
(* The HTTP proxy engine with the authority behind it: connections, CONNECT   *)
(* tunnels, intercepted streams, Git requests, the sealed evaluation and its  *)
(* confirmation, changes of policy meanwhile, and shutdown.                   *)
EXTENDS ProxyPolicy

CONSTANTS Requests,      \* requests and CONNECTs, each handled once
          Origins,       \* HTTPS origins
          Repository,    \* the origin of the one Git repository
          GrantPool,     \* HTTP grants the principal may have
          GitGrantPool,  \* Git grants the principal may have
          Push,          \* the <<ref, action>> pairs of a push
          Addresses,     \* sets of address classes an origin may resolve to
          WorkLimit, PrincipalLimit, ConnectionLimit,
          MaxRevision    \* bound: the revisions of the authority and of the principal

ASSUME RequestsAssumption == IsFiniteSet(Requests)
\* HTTPPolicyKind is one of four.
ASSUME GrantsAssumption ==
    \A g \in GrantPool : g.kind \in {"block_destination", "block_requests", "allow_requests", "allow_tunnel"}

VARIABLES
    engine,       \* Engine: draining, work, the principal's work, streams, tunnels
    connections,  \* Engine.connections, named by the request that came on them
    request,      \* per request: where its handler is and what it holds
    authority,    \* the persisted authority of the principal
    opaque        \* authorityRegistry.opaqueGitOrigins

vars == <<engine, connections, request, authority, opaque>>

NoCandidate == [revision |-> 0, generation |-> 0, opaque |-> FALSE, private |-> FALSE, expired |-> {}]
NoBinding == [principal |-> 0, credential |-> 0]
NoRoute == [profile |-> 0, repository |-> 0, alias |-> 0]

\* "bound" is the binding of the lease: the revisions of the principal and of its
\* credential.  The streams of an intercepted CONNECT are pinned to the latter.
Idle == [pc |-> "idle", kind |-> "request", inside |-> None, origin |-> None, base |-> "plain", operation |-> "read",
         gone |-> FALSE, working |-> FALSE, held |-> FALSE, streaming |-> FALSE, lease |-> "none", bound |-> NoBinding,
         git |-> FALSE, route |-> NoRoute, classes |-> {}, candidate |-> NoCandidate,
         upstream |-> "none", up |-> "none", down |-> "none", outcome |-> "none"]

Init ==
    /\ engine = [draining |-> FALSE, work |-> 0, principal |-> 0, streams |-> 0, tunnels |-> 0]
    /\ connections = {}
    /\ request = [q \in Requests |-> Idle]
    /\ authority \in [revision : {1}, draining : {FALSE}, enabled : {TRUE}, active : {TRUE}, agent : [principal : {1}, credential : {1}], default : {"allow", "block"},
                      grants : SUBSET GrantPool, gitGrants : SUBSET GitGrantPool, expired : {{}}, generation : {1}, available : BOOLEAN,
                      profile : [revision : {1}, origins : SUBSET Origins],
                      repository : [revision : {1}, alias : {1}, aliased : BOOLEAN, deleted : BOOLEAN]]
    /\ opaque = [o \in Origins |-> 0]

At(q, pc) == request[q].pc = pc
Goto(q, pc) == request' = [request EXCEPT ![q].pc = pc]
Connection(q) == IF request[q].inside = None THEN q ELSE request[q].inside
\* r.Context() ends with the client's connection.
Gone(q) == request[Connection(q)].gone

-----------------------------------------------------------------------------
(* Accepting and authenticating                                               *)

\* boundListener.Accept; what the client will ask is chosen here.
Accept(q) ==
    /\ At(q, "idle")
    /\ ~engine.draining /\ Cardinality(connections) < ConnectionLimit
    /\ connections' = connections \cup {q}
    /\ \E kind \in {"connect", "request"}, origin \in Origins :
          request' = [request EXCEPT ![q].pc = "accepted", ![q].kind = kind, ![q].origin = origin]
    /\ UNCHANGED <<engine, authority, opaque>>

\* A stream inside an intercepted CONNECT; it goes to the CONNECT's origin.
AcceptStream(q, c) ==
    /\ At(q, "idle") /\ At(c, "serving") /\ c \in connections
    /\ \E base \in {"plain", "url", "alias", "unknown"}, operation \in {"read", "push_discovery", "push"} :
          /\ base = "plain" => operation = "read"
          /\ request' = [request EXCEPT ![q].pc = "accepted", ![q].inside = c, ![q].origin = request[c].origin,
                                        ![q].base = base, ![q].operation = operation]
    /\ UNCHANGED <<engine, connections, authority, opaque>>

\* The server runs the handler; a slot is refused while draining and when full.
Begin(q) ==
    /\ At(q, "accepted")
    /\ IF engine.draining \/ engine.work >= WorkLimit
       THEN Goto(q, "ended") /\ UNCHANGED engine
       ELSE /\ request' = [request EXCEPT ![q].pc = "working", ![q].working = TRUE]
            /\ engine' = [engine EXCEPT !.work = @ + 1]
    /\ UNCHANGED <<connections, authority, opaque>>

\* The bearer, unless it is no agent's, becomes a lease; a stream must still be the
\* CONNECT's credential.
Authenticate(q) ==
    /\ At(q, "working")
    /\ \/ Goto(q, "unwind")
       \/ /\ ~authority.draining /\ authority.active /\ ~Gone(q)
          /\ LET inside == request[q].inside
                 pinned == inside # None => request[inside].bound.credential = authority.agent.credential
             IN  request' = [request EXCEPT ![q].pc = IF pinned THEN "leased" ELSE "unwind",
                                            ![q].lease = "pending", ![q].bound = authority.agent]
    /\ UNCHANGED <<engine, connections, authority, opaque>>

AcquirePrincipal(q) ==
    /\ At(q, "leased")
    /\ IF engine.draining \/ engine.principal >= PrincipalLimit
       THEN Goto(q, "unwind") /\ UNCHANGED engine
       ELSE /\ request' = [request EXCEPT ![q].pc = "held", ![q].held = TRUE]
            /\ engine' = [engine EXCEPT !.principal = @ + 1]
    /\ UNCHANGED <<connections, authority, opaque>>

\* Headers, form and target; what is invalid is recorded and rejected.
Validate(q) ==
    /\ At(q, "held")
    /\ \/ Goto(q, "unwind") /\ UNCHANGED engine
       \/ request[q].kind = "connect" /\ Goto(q, "address") /\ UNCHANGED engine
       \/ /\ request[q].kind = "request"
          /\ request' = [request EXCEPT ![q].pc = "route", ![q].streaming = TRUE]
          /\ engine' = [engine EXCEPT !.streams = @ + 1]
    /\ UNCHANGED <<connections, authority, opaque>>

\* A Git-shaped request of an enabled origin; only streams are https.
Shaped(q) == request[q].inside # None /\ request[q].base # "plain" /\ request[q].origin \in authority.profile.origins

Names(base) ==
    /\ ~authority.repository.deleted
    /\ base = "url" \/ (base = "alias" /\ authority.repository.aliased)

\* ResolveGitRequest: the profile and the repositories of one snapshot.
Route(q) ==
    /\ At(q, "route")
    /\ IF ~Shaped(q) THEN Goto(q, "address")
       ELSE IF request[q].origin = Repository /\ Names(request[q].base)
       THEN request' = [request EXCEPT ![q].pc = "address", ![q].git = TRUE,
                            ![q].route = [profile |-> authority.profile.revision, repository |-> authority.repository.revision,
                                          alias |-> authority.repository.alias]]
       ELSE Goto(q, "unwind")
    /\ UNCHANGED <<engine, connections, authority, opaque>>

\* ProxyAddress: the complete answer, resolved once and pinned.
ResolveProxy(origin) == Addresses

\* The destination is resolved; of a Git request the commands are read next.
Resolve(q) ==
    /\ At(q, "address")
    /\ \/ Goto(q, "unwind")
       \/ \E classes \in ResolveProxy(request[q].origin) :
             request' = [request EXCEPT ![q].pc = IF request[q].git THEN "parse" ELSE "evaluate", ![q].classes = classes]
    /\ UNCHANGED <<engine, connections, authority, opaque>>

\* gitwire.New under one absolute deadline.
Parse(q) ==
    /\ At(q, "parse")
    /\ Goto(q, "unwind") \/ Goto(q, "evaluateGit")
    /\ UNCHANGED <<engine, connections, authority, opaque>>

-----------------------------------------------------------------------------
(* Evaluation, material and confirmation                                      *)

\* WithAdmission and VerifyBindingOnlyTx.
Admissible(q) == request[q].lease = "pending" /\ request[q].bound = authority.agent /\ ~authority.draining /\ ~Gone(q)

Actions(q) == IF request[q].operation = "push" THEN Push ELSE {}

\* The credentials with material; all share one generation here.
Available == IF authority.available THEN {g.credential : g \in GrantPool} \ {None} ELSE {}

\* The grants that count are those that have not expired at the time of the evaluation.
Unexpired == authority.grants \ authority.expired
UnexpiredGit == authority.gitGrants \ authority.expired

Seal(q, decision, generation, isOpaque) ==
    request' = [request EXCEPT ![q].pc = IF generation = 0 THEN "confirm" ELSE "material",
                    ![q].candidate = [revision |-> authority.revision, generation |-> generation, opaque |-> isOpaque,
                                      private |-> decision.private, expired |-> authority.expired]]

EvaluateHTTPAdmission(q) ==
    /\ At(q, "evaluate")
    /\ LET connect == request[q].kind = "connect"
           decision == IF connect THEN Connect(Unexpired, request[q].origin, request[q].classes)
                       ELSE Request(Unexpired, authority.default, Available, request[q].origin, request[q].classes)
           opaqueTunnel == connect /\ decision.transport = "tunnel"
           refused == (opaqueTunnel /\ request[q].origin \in authority.profile.origins) \/ Shaped(q)
       IN  IF ~Admissible(q) \/ refused THEN Goto(q, "unwind")
           ELSE IF decision.allowed
           THEN Seal(q, decision, IF decision.credential = None THEN 0 ELSE authority.generation, opaqueTunnel)
           ELSE Goto(q, IF connect /\ decision.reason = "intercept" THEN "intercept" ELSE "unwind")
    /\ UNCHANGED <<engine, connections, authority, opaque>>

\* The repository, its aliases and the profile are those the request was routed by.
EvaluateGitAdmission(q) ==
    /\ At(q, "evaluateGit")
    /\ LET route == request[q].route
           current == /\ ~authority.repository.deleted
                      /\ route = [profile |-> authority.profile.revision, repository |-> authority.repository.revision,
                                  alias |-> authority.repository.alias]
                      /\ Repository \in authority.profile.origins
           allowed == /\ authority.available
                      /\ EvaluateGit(UnexpiredGit, Actions(q))
                      /\ request[q].operation = "push_discovery" => PushCapable(UnexpiredGit)
                      /\ GitDestination(Unexpired, request[q].origin, request[q].classes)
       IN  IF Admissible(q) /\ current /\ allowed
           THEN Seal(q, [private |-> "private" \in request[q].classes], authority.generation, FALSE)
           ELSE Goto(q, "unwind")
    /\ UNCHANGED <<engine, connections, authority, opaque>>

\* Materials.Acquire, and its generation is the sealed one.
AcquireMaterial(q) ==
    /\ At(q, "material")
    /\ Goto(q, IF authority.generation = request[q].candidate.generation THEN "confirm" ELSE "unwind")
    /\ UNCHANGED <<engine, connections, authority, opaque>>

\* Mutant: the evaluation is still current, but nobody asks whose it was.
ConfirmableByRevision(q) ==
    /\ ~authority.draining /\ ~Gone(q)
    /\ request[q].candidate.revision = authority.revision
    /\ request[q].candidate.generation \in {0, authority.generation}

\* The lease and its binding, the revision of the evaluation and the generation of the
\* material; a grant that has expired meanwhile is not looked at.
Confirmable(q) ==
    /\ Admissible(q)
    /\ request[q].candidate.revision = authority.revision
    /\ request[q].candidate.generation \in {0, authority.generation}

\* ConfirmHTTP and ConfirmGit, under the authority gate.
Confirm(q) ==
    /\ At(q, "confirm")
    /\ IF Confirmable(q)
       THEN /\ request' = [request EXCEPT ![q].pc = "admitted", ![q].lease = "admitted", ![q].outcome = "prestart_failure"]
            /\ opaque' = IF request[q].candidate.opaque THEN [opaque EXCEPT ![request[q].origin] = @ + 1] ELSE opaque
       ELSE Goto(q, "unwind") /\ UNCHANGED opaque
    /\ UNCHANGED <<engine, connections, authority>>

-----------------------------------------------------------------------------
(* Tunnels                                                                    *)

\* Expired already, or the outcome is unknown from the dial on.
BeginTunnel(q) ==
    /\ At(q, "admitted") /\ request[q].candidate.opaque
    /\ engine' = [engine EXCEPT !.tunnels = @ + 1]
    /\ \/ Goto(q, "settle")
       \/ request' = [request EXCEPT ![q].pc = "dial", ![q].outcome = "outcome_unknown"]
    /\ UNCHANGED <<connections, authority, opaque>>

\* Dial checks the pinned addresses again, with the permission it was admitted by.
Dialable(q) == checkAddresses(request[q].classes, request[q].candidate.private) = ""

Dial(q) ==
    /\ At(q, "dial")
    /\ \/ Goto(q, "settle")
       \/ Dialable(q) /\ request' = [request EXCEPT ![q].pc = "hijack", ![q].upstream = "open"]
    /\ UNCHANGED <<engine, connections, authority, opaque>>

\* Hijack, the lifetime timer and the 200; any of them can fail.
Connected(q) ==
    /\ At(q, "hijack")
    /\ \/ Goto(q, "close")
       \/ ~Gone(q) /\ request' = [request EXCEPT ![q].pc = "copying", ![q].up = "copying", ![q].down = "copying"]
    /\ UNCHANGED <<engine, connections, authority, opaque>>

\* One direction ends: cleanly, when its source ended, or with an error, which
\* closes both connections.
SideEnds(q, side) ==
    /\ At(q, "copying") /\ request[q][side] = "copying"
    /\ \/ /\ ~Gone(q) /\ request[q].upstream = "open"
          /\ request' = [request EXCEPT ![q][side] = "clean"]
          /\ UNCHANGED connections
       \/ /\ request' = [request EXCEPT ![q][side] = "failed", ![q].gone = TRUE, ![q].upstream = "closed"]
          /\ connections' = connections \ {q}
    /\ UNCHANGED <<engine, authority, opaque>>

\* The lifetime of an hour from the admission, never renewed.
LifetimeExpires(q) ==
    /\ At(q, "copying") /\ ~request[q].gone
    /\ request' = [request EXCEPT ![q].gone = TRUE, ![q].upstream = "closed"]
    /\ connections' = connections \ {q}
    /\ UNCHANGED <<engine, authority, opaque>>

TunnelEnds(q) ==
    /\ At(q, "copying") /\ "copying" \notin {request[q].up, request[q].down}
    /\ request' = [request EXCEPT ![q].pc = "close",
                       ![q].outcome = IF request[q].up = "clean" /\ request[q].down = "clean" THEN "succeeded" ELSE @]
    /\ UNCHANGED <<engine, connections, authority, opaque>>

\* The deferred Close of both connections.
CloseBoth(q) ==
    /\ At(q, "close")
    /\ request' = [request EXCEPT ![q].pc = IF request[q].outcome = "none" THEN "unwind" ELSE "settle",
                                  ![q].gone = TRUE, ![q].upstream = IF @ = "open" THEN "closed" ELSE @]
    /\ connections' = connections \ {q}
    /\ UNCHANGED <<engine, authority, opaque>>

-----------------------------------------------------------------------------
(* Interception, exchanges and the end of a handler                           *)

\* Certificate, hijack and handshake; then the CONNECT's lease is given up.
Intercept(q) ==
    /\ At(q, "intercept")
    /\ \/ Goto(q, "unwind")
       \/ Goto(q, "close")
       \/ ~Gone(q) /\ request' = [request EXCEPT ![q].pc = "serving", ![q].lease = "released"]
    /\ UNCHANGED <<engine, connections, authority, opaque>>

\* Streams are served until the connection is closed, or idle for too long.
ServingEnds(q) ==
    /\ At(q, "serving")
    /\ Goto(q, "close")
    /\ UNCHANGED <<engine, connections, authority, opaque>>

\* The material's headers, then the outcome is unknown from the exchange on.
BeginExchange(q) ==
    /\ At(q, "admitted") /\ ~request[q].candidate.opaque /\ ~request[q].git
    /\ \/ Goto(q, "settle")
       \/ request' = [request EXCEPT ![q].pc = "exchange", ![q].outcome = "outcome_unknown"]
    /\ UNCHANGED <<engine, connections, authority, opaque>>

\* A Git request: the credential and the one body it may send.
BeginGit(q) ==
    /\ At(q, "admitted") /\ request[q].git
    /\ \/ Goto(q, "settle")
       \/ request' = [request EXCEPT ![q].pc = "exchange", ![q].outcome = "outcome_unknown"]
    /\ UNCHANGED <<engine, connections, authority, opaque>>

\* ProxyExchange: nothing was dialed, or the request may have arrived, or a
\* response did.
Exchange(q) ==
    /\ At(q, "exchange")
    /\ \/ Goto(q, "settle")
       \/ /\ Dialable(q)
          /\ \E pc \in {"settle", "responding"} : request' = [request EXCEPT ![q].pc = pc, ![q].upstream = "sent"]
    /\ UNCHANGED <<engine, connections, authority, opaque>>

\* The response is copied to its end, or the copy breaks and the handler panics.
Respond(q) ==
    /\ At(q, "responding") /\ ~request[q].git
    /\ \/ Goto(q, "settle")
       \/ ~Gone(q) /\ request' = [request EXCEPT ![q].pc = "settle", ![q].upstream = "answered", ![q].outcome = "succeeded"]
    /\ UNCHANGED <<engine, connections, authority, opaque>>

\* A Git answer is complete only when the upload is too; only what is no push
\* can then be called without effect.
RespondGit(q) ==
    /\ At(q, "responding") /\ request[q].git
    /\ \/ Goto(q, "settle")
       \/ /\ ~Gone(q)
          /\ \E uploaded \in BOOLEAN :
                request' = [request EXCEPT ![q].pc = "settle", ![q].upstream = IF uploaded THEN "answered" ELSE @,
                                ![q].outcome = IF uploaded /\ request[q].operation # "push" THEN "nonmutation" ELSE @]
    /\ UNCHANGED <<engine, connections, authority, opaque>>

\* Mutant: the last owner is forgotten with the first.
ReleaseOpaqueAll(q) == IF request[q].candidate.opaque THEN [opaque EXCEPT ![request[q].origin] = 0] ELSE opaque

\* ReleaseOpaque settles the owner of a tunnel once.
ReleaseOpaque(q) == IF request[q].candidate.opaque THEN [opaque EXCEPT ![request[q].origin] = @ - 1] ELSE opaque

\* The deferred completion; a tunnel is counted until then.
Settle(q) ==
    /\ At(q, "settle")
    /\ opaque' = ReleaseOpaque(q)
    /\ engine' = [engine EXCEPT !.tunnels = IF request[q].candidate.opaque THEN @ - 1 ELSE @]
    /\ Goto(q, "unwind")
    /\ UNCHANGED <<connections, authority>>

\* Mutant: the work slot of a request without a principal slot is kept.
UnwindLeaks(q) ==
    /\ At(q, "unwind")
    /\ request' = [request EXCEPT ![q].pc = "ended", ![q].working = FALSE, ![q].held = FALSE, ![q].streaming = FALSE,
                                  ![q].lease = IF @ = "none" THEN @ ELSE "released"]
    /\ engine' = [engine EXCEPT !.work = IF request[q].held THEN @ - 1 ELSE @, !.principal = IF request[q].held THEN @ - 1 ELSE @,
                                !.streams = IF request[q].streaming THEN @ - 1 ELSE @]
    /\ UNCHANGED <<connections, authority, opaque>>

\* The handler's other defers: stream, principal, lease and work.
Unwind(q) ==
    /\ At(q, "unwind")
    /\ request' = [request EXCEPT ![q].pc = "ended", ![q].working = FALSE, ![q].held = FALSE, ![q].streaming = FALSE,
                                  ![q].lease = IF @ = "none" THEN @ ELSE "released"]
    /\ engine' = [engine EXCEPT !.work = @ - 1, !.principal = IF request[q].held THEN @ - 1 ELSE @,
                                !.streams = IF request[q].streaming THEN @ - 1 ELSE @]
    /\ UNCHANGED <<connections, authority, opaque>>

\* The server closes a connection it still owns.
CloseConnection(q) ==
    /\ At(q, "ended") /\ q \in connections
    /\ connections' = connections \ {q}
    /\ request' = [request EXCEPT ![q].gone = TRUE]
    /\ UNCHANGED <<engine, authority, opaque>>

ClientLeaves(q) ==
    /\ q \in connections /\ ~request[q].gone
    /\ request' = [request EXCEPT ![q].gone = TRUE]
    /\ UNCHANGED <<engine, connections, authority, opaque>>

-----------------------------------------------------------------------------
(* Authority                                                                  *)

\* A change of policy advances the shared authorization revision under the gate.
Advance(changed) ==
    /\ authority.revision < MaxRevision
    /\ authority' = [changed EXCEPT !.revision = @ + 1]
    /\ UNCHANGED <<engine, connections, request, opaque>>

Occupied(origins) == \E o \in origins : opaque[o] # 0

\* Refused while a listed origin has an unsettled opaque tunnel.
PutGitRoutingProfile(origins) ==
    /\ ~authority.draining
    /\ ~Occupied(origins)
    /\ Advance([authority EXCEPT !.profile = [revision |-> @.revision + 1, origins |-> origins]])

\* A grant that is put expires later than now, one that had expired included.
PutHTTPGrant(g) ==
    /\ ~authority.draining /\ g \notin Unexpired
    /\ Advance([authority EXCEPT !.grants = @ \cup {g}, !.expired = @ \ {g}])
DeleteHTTPGrant(g) ==
    /\ ~authority.draining /\ g \in authority.grants
    /\ Advance([authority EXCEPT !.grants = @ \ {g}, !.expired = @ \ {g}])

PutGitGrant(g) ==
    /\ ~authority.draining /\ ~authority.repository.deleted /\ g \notin UnexpiredGit
    /\ Advance([authority EXCEPT !.gitGrants = @ \cup {g}, !.expired = @ \ {g}])
DeleteGitGrant(g) ==
    /\ ~authority.draining /\ g \in authority.gitGrants
    /\ Advance([authority EXCEPT !.gitGrants = @ \ {g}, !.expired = @ \ {g}])

\* Time passes the expires_at of a grant; nothing is written.
Expire(g) ==
    /\ g \in Unexpired \cup UnexpiredGit
    /\ authority' = [authority EXCEPT !.expired = @ \cup {g}]
    /\ UNCHANGED <<engine, connections, request, opaque>>

\* An edit of the aliases advances their revision as well.
PutGitRepository ==
    /\ ~authority.draining /\ ~authority.repository.deleted
    /\ Advance([authority EXCEPT !.repository = [authority.repository EXCEPT !.revision = @ + 1, !.alias = @ + 1, !.aliased = ~@]])

DeleteGitRepository ==
    /\ ~authority.draining /\ ~authority.repository.deleted
    /\ Advance([authority EXCEPT !.repository = [authority.repository EXCEPT !.revision = @ + 1, !.deleted = TRUE]])

\* cancelPrincipal and cancelPending.
CancelPending ==
    request' = [q \in Requests |-> IF request[q].lease = "pending" THEN [request[q] EXCEPT !.lease = "cancelled"] ELSE request[q]]

\* Every change of the principal advances its own revision and cancels its pending
\* leases; the authorization revision advances only where "changed" says so.
MutateAgent(changed) ==
    /\ ~authority.draining
    /\ authority.agent.principal < MaxRevision /\ changed.revision <= MaxRevision
    /\ authority' = [changed EXCEPT !.agent.principal = @ + 1]
    /\ CancelPending
    /\ UNCHANGED <<engine, connections, opaque>>

\* The display name or the visibility; the HTTP default; the state (disabling takes the
\* credential away, enabling brings none).
PatchName == MutateAgent(authority)
PatchDefault == MutateAgent([authority EXCEPT !.revision = @ + 1, !.default = IF @ = "allow" THEN "block" ELSE "allow"])
Disable == authority.enabled /\ MutateAgent([authority EXCEPT !.revision = @ + 1, !.enabled = FALSE, !.active = FALSE, !.agent.credential = @ + 1])
Enable == ~authority.enabled /\ MutateAgent([authority EXCEPT !.revision = @ + 1, !.enabled = TRUE])

IssueCredential == authority.enabled /\ MutateAgent([authority EXCEPT !.active = TRUE, !.agent.credential = @ + 1])
RevokeCredential == authority.active /\ MutateAgent([authority EXCEPT !.active = FALSE, !.agent.credential = @ + 1])

\* New material of the same credential; the authorization revision stays.
ReplaceMaterial ==
    /\ authority.generation = 1
    /\ authority' = [authority EXCEPT !.generation = 2, !.available = TRUE]
    /\ UNCHANGED <<engine, connections, request, opaque>>

DrainAuthority ==
    /\ ~authority.draining
    /\ authority' = [authority EXCEPT !.draining = TRUE]
    /\ CancelPending
    /\ UNCHANGED <<engine, connections, opaque>>

\* Engine.BeginDrain closes every connection it finds.
BeginDrain ==
    /\ ~engine.draining
    /\ engine' = [engine EXCEPT !.draining = TRUE]
    /\ request' = [q \in Requests |-> IF q \in connections THEN [request[q] EXCEPT !.gone = TRUE] ELSE request[q]]
    /\ connections' = {}
    /\ UNCHANGED <<authority, opaque>>

-----------------------------------------------------------------------------
Handler(q) ==
    \/ Begin(q) \/ Authenticate(q) \/ AcquirePrincipal(q) \/ Validate(q) \/ Route(q) \/ Resolve(q) \/ Parse(q)
    \/ EvaluateHTTPAdmission(q) \/ EvaluateGitAdmission(q) \/ AcquireMaterial(q) \/ Confirm(q)
    \/ BeginTunnel(q) \/ Dial(q) \/ Connected(q) \/ TunnelEnds(q) \/ CloseBoth(q)
    \/ \E side \in {"up", "down"} : SideEnds(q, side)
    \/ Intercept(q) \/ BeginExchange(q) \/ BeginGit(q) \/ Exchange(q) \/ Respond(q) \/ RespondGit(q)
    \/ Settle(q) \/ Unwind(q) \/ CloseConnection(q)

Administration ==
    \/ \E origins \in SUBSET Origins : PutGitRoutingProfile(origins)
    \/ \E g \in GrantPool : PutHTTPGrant(g) \/ DeleteHTTPGrant(g)
    \/ \E g \in GitGrantPool : PutGitGrant(g) \/ DeleteGitGrant(g)
    \/ PutGitRepository \/ DeleteGitRepository \/ ReplaceMaterial
    \/ PatchName \/ PatchDefault \/ Disable \/ Enable \/ IssueCredential \/ RevokeCredential

Next ==
    \/ \E q \in Requests :
          \/ Accept(q) \/ \E c \in Requests : AcceptStream(q, c)
          \/ Handler(q) \/ ServingEnds(q) \/ LifetimeExpires(q) \/ ClientLeaves(q)
    \/ \E g \in GrantPool \cup GitGrantPool : Expire(g)
    \/ Administration \/ DrainAuthority \/ BeginDrain

Spec == Init /\ [][Next]_vars

-----------------------------------------------------------------------------
(* Properties                                                                 *)

Live(q) == request[q].candidate.opaque /\ request[q].pc \in {"admitted", "dial", "hijack", "copying", "close", "settle"}

\* PutGitRoutingProfile and ConfirmHTTP: bytes of an opaque tunnel never flow to
\* an origin of the stored Git routing profile, and the owners counted for an
\* origin are exactly its unsettled tunnels.
OpaqueIsFenced ==
    /\ \A q \in Requests : Live(q) => request[q].origin \notin authority.profile.origins
    /\ \A o \in Origins : opaque[o] = Cardinality({q \in Requests : Live(q) /\ request[q].origin = o})

\* What the stored authority permits, said once and without an order: by the grants that
\* are stored and had not expired when the request was evaluated.
Granted(q) == authority.grants \ request[q].candidate.expired
GrantedGit(q) == authority.gitGrants \ request[q].candidate.expired

PermittedTunnel(q) ==
    LET origin == request[q].origin
    IN  /\ origin \notin authority.profile.origins
        /\ \E g \in Granted(q) : g.kind = "allow_tunnel" /\ origin \in g.origins
        /\ ~\E g \in Granted(q) : g.kind = "block_destination" /\ origin \in g.origins
PermittedRequest(q) ==
    LET applies == {g \in Granted(q) : request[q].origin \in g.origins /\ g.kind # "allow_tunnel"}
        needed == {g.credential : g \in {h \in applies : h.kind = "allow_requests"}} \ {None}
    IN  /\ \A g \in applies : g.kind = "allow_requests"
        /\ applies # {} \/ authority.default = "allow"
        /\ Cardinality(needed) <= 1
        /\ needed # {} => request[q].candidate.generation = authority.generation
        /\ ~Shaped(q)
PermittedGit(q) ==
    /\ request[q].origin \in authority.profile.origins /\ Names(request[q].base)
    /\ \A a \in Actions(q) : \E g \in GrantedGit(q) : a \in g.refs
    /\ Actions(q) = {} => \E g \in GrantedGit(q) : g.read
    /\ ~\E g \in Granted(q) : g.kind = "block_destination" /\ request[q].origin \in g.origins
    /\ request[q].candidate.generation = authority.generation

\* ConfirmHTTP and ConfirmGit: at the moment work is admitted it is the agent that is
\* stored who asks, with the credential that opened the CONNECT, and what is stored
\* permits it - the grants, the default, the routing profile, the repository and the
\* material - although they were read earlier; only a grant that has expired since the
\* evaluation still counts.  Nothing forbidden or, without permission, private is contacted.
DispatchIsPermitted ==
    [][\A q \in Requests : request'[q].pc = "admitted" /\ request[q].pc # "admitted" =>
          /\ authority.active /\ request[q].bound = authority.agent
          /\ request[q].inside # None => request[request[q].inside].bound.credential = authority.agent.credential
          /\ "forbidden" \notin request[q].classes
          /\ "private" \in request[q].classes =>
                \E g \in Granted(q) : g.private /\ request[q].origin \in g.origins /\ g.kind \in {"allow_tunnel", "allow_requests"}
          /\ IF request[q].kind = "connect" THEN PermittedTunnel(q)
             ELSE IF request[q].git THEN PermittedGit(q) ELSE PermittedRequest(q)]_vars

\* Engine.complete: a completion that says nothing was started is of work that
\* never reached the upstream, one that says it succeeded of a complete answer, and
\* a push is never recorded as without effect.
HonestCompletion ==
    \A q \in Requests :
       /\ request[q].outcome = "prestart_failure" => request[q].upstream = "none"
       /\ request[q].outcome \in {"succeeded", "nonmutation"} =>
             request[q].upstream = "answered" \/ (request[q].up = "clean" /\ request[q].down = "clean")
       /\ request[q].outcome = "nonmutation" => request[q].git /\ request[q].operation # "push"

\* Engine.Wait: once BeginDrain was called everything ends: no work, no slot, no
\* connection, no tunnel and no opaque owner is left.
ProxyDrains ==
    engine.draining ~> /\ connections = {} /\ engine = [draining |-> TRUE, work |-> 0, principal |-> 0, streams |-> 0, tunnels |-> 0]
                       /\ \A o \in Origins : opaque[o] = 0

\* What the registry counts and what a completion says is what the proxy does.
RecordsAreTrue == OpaqueIsFenced /\ HonestCompletion
=============================================================================
