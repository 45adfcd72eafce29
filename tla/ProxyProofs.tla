----------------------------- MODULE ProxyProofs -----------------------------
(* The HTTP proxy admits only what the stored authority permits, fences the Git    *)
(* routing profile from opaque tunnels and records completions that are true: for  *)
(* any number of requests, origins, grants, revisions and limits.                  *)
EXTENDS Proxy, FiniteSetTheorems, TLAPS

-----------------------------------------------------------------------------
(* The inductive invariant.                                                   *)

\* The fields of a request's record.
Fields == {"pc", "kind", "inside", "origin", "base", "operation", "gone", "working", "held", "streaming", "lease",
           "bound", "git", "route", "classes", "candidate", "upstream", "up", "down", "outcome"}
Shape == DOMAIN request = Requests /\ \A q \in Requests : DOMAIN request[q] = Fields

AgentSet == [principal : Nat, credential : Nat]
ProfileSet == [revision : Nat, origins : SUBSET Origins]
RepositorySet == [revision : Nat, alias : Nat, aliased : BOOLEAN, deleted : BOOLEAN]
AuthoritySet ==
    [revision : Nat, draining : BOOLEAN, enabled : BOOLEAN, active : BOOLEAN, agent : AgentSet, default : {"allow", "block"},
     grants : SUBSET GrantPool, gitGrants : SUBSET GitGrantPool, expired : SUBSET (GrantPool \cup GitGrantPool), generation : {1, 2}, available : BOOLEAN,
     profile : ProfileSet, repository : RepositorySet]

\* Where a handler holds a lease that it has not confirmed, and where it has sealed
\* an evaluation under it.
Sealing == {"material", "confirm"}
Unrouted == {"idle", "accepted", "working", "leased", "held", "route"}
Unsealed == Unrouted \cup {"address", "parse", "evaluate", "evaluateGit", "intercept", "serving"}
Holding == {"leased", "held", "route", "address", "parse", "evaluate", "evaluateGit"} \cup Sealing
\* Where a CONNECT can be once it has served streams.
Served == {"serving", "close", "settle", "unwind", "ended"}
Tunnelling == {"admitted", "dial", "hijack", "copying", "close", "settle"}
Started == {"dial", "hijack", "copying", "exchange", "responding"}

\* A completion says what happened.
Honest(r) ==
    /\ r.outcome = "prestart_failure" => r.upstream = "none"
    /\ r.outcome \in {"succeeded", "nonmutation"} => r.upstream = "answered" \/ (r.up = "clean" /\ r.down = "clean")
    /\ r.outcome = "nonmutation" => r.git /\ r.operation # "push"

\* What the place of a handler says of its own record.
Local(r) ==
    /\ r.pc = "idle" => r.kind = "request"
    /\ r.pc # "idle" => r.origin \in Origins
    /\ r.pc = "route" => r.kind = "request"
    /\ r.pc \in Unrouted \cup {"evaluate", "intercept", "serving"} => ~r.git
    /\ r.pc \in {"parse", "evaluateGit"} => r.git
    /\ r.git => r.kind = "request"
    /\ r.pc \in Unsealed => ~r.candidate.opaque
    /\ r.pc \in Unsealed \cup Sealing => r.outcome = "none" /\ r.upstream = "none"
    /\ r.pc = "admitted" => r.outcome = "prestart_failure"
    /\ r.pc \in Started => r.outcome = "outcome_unknown"
    /\ r.pc = "close" /\ r.outcome = "none" => ~r.candidate.opaque
    /\ r.pc \in {"exchange", "responding"} => ~r.candidate.opaque
    /\ Honest(r)

\* A stream belongs to a CONNECT that serves or has served, with the credential of
\* the stream's lease.
Pinned(r) ==
    r.inside # None => /\ r.inside \in Requests
                       /\ request[r.inside].pc \in Served
                       /\ r.pc \in Holding => request[r.inside].bound.credential = r.bound.credential

\* A Git request names the repository by what its aliases are, unless they changed.
Routed(r, a) ==
    r.git => /\ r.origin = Repository
             /\ r.route.alias \in Nat /\ r.route.alias <= a.repository.alias
             /\ r.route.alias = a.repository.alias => r.base = "url" \/ (r.base = "alias" /\ a.repository.aliased)

\* What a sealed evaluation has found, the generation of its material apart, by the grants
\* that had not expired then.
Counting(r, a) == a.grants \ r.candidate.expired
Allows(r, a) == {g \in Counting(r, a) : r.origin \in g.origins /\ g.kind = "allow_requests"}
Blocks(r, a, kind) == {g \in Counting(r, a) : r.origin \in g.origins /\ g.kind = kind}
PrivatePermitted(r, a) == \E g \in Counting(r, a) : g.private /\ r.origin \in g.origins /\ g.kind \in {"allow_tunnel", "allow_requests"}
TunnelPermitted(r, a) ==
    /\ r.origin \notin a.profile.origins
    /\ Blocks(r, a, "allow_tunnel") # {} /\ Blocks(r, a, "block_destination") = {}
RequestPermitted(r, a) ==
    LET needed == {g.credential : g \in Allows(r, a)} \ {None}
    IN  /\ Blocks(r, a, "block_destination") = {} /\ Blocks(r, a, "block_requests") = {}
        /\ Allows(r, a) # {} \/ a.default = "allow"
        /\ Cardinality(needed) <= 1
        /\ needed # {} => r.candidate.generation # 0
        /\ ~(r.inside # None /\ r.base # "plain" /\ r.origin \in a.profile.origins)
Refs(r) == IF r.operation = "push" THEN Push ELSE {}
GitPermitted(r, a) ==
    /\ Repository \in a.profile.origins /\ r.origin = Repository /\ ~a.repository.deleted
    /\ r.base = "url" \/ (r.base = "alias" /\ a.repository.aliased)
    /\ EvaluateGit(a.gitGrants \ r.candidate.expired, Refs(r))
    /\ Blocks(r, a, "block_destination") = {}
    /\ r.candidate.generation # 0
Permitted(r, a) ==
    /\ "forbidden" \notin r.classes
    /\ "private" \in r.classes => PrivatePermitted(r, a)
    /\ IF r.kind = "connect" THEN TunnelPermitted(r, a) ELSE IF r.git THEN GitPermitted(r, a) ELSE RequestPermitted(r, a)
    /\ r.candidate.opaque => r.kind = "connect"

\* It is of a revision that is past, or it is what the authority still permits.
Sealed(r, a) ==
    r.pc \in Sealing => /\ r.candidate.revision \in Nat /\ r.candidate.revision <= a.revision
                        /\ r.candidate.revision = a.revision => Permitted(r, a)

Pending(r, a) == r.lease = "pending" => a.active

Owners(o) == {q \in Requests : Live(q) /\ request[q].origin = o}
Counted == DOMAIN opaque = Origins /\ \A o \in Origins : opaque[o] = Cardinality(Owners(o))
Fenced == \A q \in Requests : Live(q) => request[q].origin \notin authority.profile.origins

ProxyInv ==
    /\ Shape /\ authority \in AuthoritySet
    /\ \A q \in Requests : /\ Local(request[q]) /\ Pinned(request[q])
                           /\ Routed(request[q], authority)
                           /\ Sealed(request[q], authority) /\ Pending(request[q], authority)
    /\ Counted /\ Fenced

-----------------------------------------------------------------------------
(* What an evaluation that allows has found.                                  *)

\* An evaluation that allows has found its addresses in order.
LEMMA Finished ==
    ASSUME NEW d, NEW classes, "allowed" \in DOMAIN d, finishAddress(d, classes).allowed
    PROVE  finishAddress(d, classes) = d /\ d.allowed /\ checkAddresses(classes, d.private) = ""
BY DEF finishAddress

\* An opaque tunnel is allowed by a grant and blocked by none.
LEMMA ConnectAllowed ==
    ASSUME NEW grants, NEW origin, NEW classes, Connect(grants, origin, classes).allowed
    PROVE  /\ Connect(grants, origin, classes).transport = "tunnel" /\ Connect(grants, origin, classes).credential = None
           /\ Matching(grants, "block_destination", origin) = {}
           /\ Matching(grants, "allow_tunnel", origin) # {}
           /\ "forbidden" \notin classes
           /\ "private" \in classes => \E g \in Matching(grants, "allow_tunnel", origin) : g.private
<1> DEFINE d == ConnectPolicy(grants, origin)
<1>1. "allowed" \in DOMAIN d
  BY DEF ConnectPolicy, Decision
<1>2. Connect(grants, origin, classes) = finishAddress(d, classes)
  BY DEF Connect
<1>3. Connect(grants, origin, classes) = d /\ d.allowed /\ checkAddresses(classes, d.private) = ""
  <2> HIDE DEF d
  <2>1. finishAddress(d, classes).allowed
    BY <1>2
  <2> QED BY <1>1, <1>2, <2>1, Finished
<1>4. /\ Matching(grants, "block_destination", origin) = {}
      /\ Matching(grants, "allow_tunnel", origin) # {}
      /\ d.transport = "tunnel" /\ d.credential = None
      /\ d.private = \E g \in Matching(grants, "allow_tunnel", origin) : g.private
  BY <1>3 DEF ConnectPolicy, Decision, destinationBlock
<1>5. "forbidden" \notin classes /\ ("private" \in classes => d.private)
  <2> HIDE DEF d
  <2> QED BY <1>3 DEF checkAddresses
<1> QED BY <1>3, <1>4, <1>5

\* Grants that do not conflict name at most one credential.
LEMMA OneCredential ==
    ASSUME NEW allows, ~selectCredential(allows).conflict
    PROVE  LET needed == {g.credential : g \in allows} \ {None}
           IN  Cardinality(needed) <= 1 /\ (needed # {} => selectCredential(allows).credential # None)
<1> DEFINE needed == {g.credential : g \in allows} \ {None}
<1> DEFINE credential == selectCredential(allows).credential
<1>1. \A g \in allows : g.credential # None => g.credential = credential
  BY DEF selectCredential
<1>2. needed \subseteq {credential}
  BY <1>1
<1>3. needed # {} => credential # None
  BY <1>1
<1>4. needed = {} \/ needed = {credential}
  BY <1>2
<1> HIDE DEF needed, credential
<1>5. Cardinality({}) = 0 /\ Cardinality({credential}) = 1
  BY FS_EmptySet, FS_Singleton
<1>6. Cardinality(needed) <= 1
  BY <1>4, <1>5
<1> QED BY <1>3, <1>6 DEF needed, credential

\* A request is blocked by no grant, allowed by one or by default, and needs at most
\* one credential, which is the one selected.
LEMMA RequestAllowed ==
    ASSUME NEW grants, NEW default, NEW available, NEW origin, NEW classes,
           Request(grants, default, available, origin, classes).allowed
    PROVE  LET allows == Matching(grants, "allow_requests", origin)
               needed == {g.credential : g \in allows} \ {None}
           IN  /\ Matching(grants, "block_destination", origin) = {} /\ Matching(grants, "block_requests", origin) = {}
               /\ allows # {} \/ default = "allow"
               /\ Cardinality(needed) <= 1
               /\ needed # {} => Request(grants, default, available, origin, classes).credential # None
               /\ "forbidden" \notin classes
               /\ "private" \in classes => \E g \in allows : g.private
<1> DEFINE d == RequestPolicy(grants, default, available, origin)
<1> DEFINE allows == Matching(grants, "allow_requests", origin)
<1>1. "allowed" \in DOMAIN d
  BY DEF RequestPolicy, Decision
<1>2. Request(grants, default, available, origin, classes) = finishAddress(d, classes)
  BY DEF Request
<1>3. /\ Request(grants, default, available, origin, classes) = d /\ d.allowed
      /\ checkAddresses(classes, d.private) = ""
  <2> HIDE DEF d
  <2>1. finishAddress(d, classes).allowed
    BY <1>2
  <2> QED BY <1>1, <1>2, <2>1, Finished
<1>4. /\ Matching(grants, "block_destination", origin) = {}
      /\ Matching(grants, "block_requests", origin) = {}
      /\ allows # {} \/ default = "allow"
      /\ ~selectCredential(allows).conflict
  BY <1>3 DEF RequestPolicy, Decision, destinationBlock
<1>5. d.credential = selectCredential(allows).credential /\ (d.private <=> \E g \in allows : g.private)
  BY <1>3, <1>4 DEF RequestPolicy, Decision
<1>6. "forbidden" \notin classes /\ ("private" \in classes => d.private)
  <2> HIDE DEF d
  <2> QED BY <1>3 DEF checkAddresses
<1> HIDE DEF d, allows
<1>7. LET needed == {g.credential : g \in allows} \ {None}
      IN  Cardinality(needed) <= 1 /\ (needed # {} => d.credential # None)
  BY <1>4, <1>5, OneCredential
<1> QED BY <1>3, <1>4, <1>5, <1>6, <1>7 DEF allows

-----------------------------------------------------------------------------
(* The steps of one handler.                                                  *)

\* Only the handler of q moves, and the authority stays.
Only(q) ==
    /\ DOMAIN request' = Requests /\ DOMAIN request'[q] = Fields
    /\ \A p \in Requests : p # q => request'[p] = request[p]
    /\ authority' = authority

\* The fields that an evaluation is about.
Core == {"kind", "inside", "origin", "base", "operation", "bound", "git", "route", "classes", "candidate"}
Keeps(q, S) == \A f \in S : request'[q][f] = request[q][f]

\* A step of a handler that reads and writes none of them.
Quiet(q) ==
    /\ Only(q) /\ Keeps(q, Core)
    /\ opaque' = opaque
    /\ Local(request'[q])
    /\ request'[q].pc \in Sealing => request[q].pc \in Sealing
    /\ request'[q].pc \in Holding => request[q].pc \in Holding
    /\ request[q].pc \in Served => request'[q].pc \in Served
    /\ request[q].candidate.opaque => (request'[q].pc \in Tunnelling <=> request[q].pc \in Tunnelling)
    /\ request'[q].lease = "pending" => request[q].lease = "pending"
    /\ request'[q].pc = "admitted" => request[q].pc = "admitted"

USE RequestsAssumption

\* A step of one handler keeps the invariant of the others, whose CONNECT stays what it was.
LEMMA StepOfOne ==
    ASSUME ProxyInv, NEW q \in Requests, Only(q), Local(request'[q]), Pinned(request[q])',
           request[q].pc \in Served => request'[q].pc \in Served /\ request'[q].bound = request[q].bound,
           Routed(request'[q], authority), Sealed(request'[q], authority), Pending(request'[q], authority),
           Counted', Fenced'
    PROVE  ProxyInv'
<1>1. Shape' /\ (authority \in AuthoritySet)'
  BY DEF ProxyInv, Shape, Only
<1>2. ASSUME NEW p \in Requests
      PROVE  /\ Local(request'[p]) /\ Pinned(request[p])' /\ Routed(request'[p], authority')
             /\ Sealed(request'[p], authority') /\ Pending(request'[p], authority')
  <2>0. authority' = authority
    BY DEF Only
  <2>1. CASE p = q
    BY <2>0, <2>1
  <2>2. CASE p # q
    <3>1. request'[p] = request[p]
      BY <2>2 DEF Only
    <3>2. Local(request[p]) /\ Pinned(request[p]) /\ Routed(request[p], authority) /\ Sealed(request[p], authority)
          /\ Pending(request[p], authority)
      BY DEF ProxyInv
    <3>3. Pinned(request[p])'
      <4> SUFFICES ASSUME request[p].inside # None
                   PROVE  /\ request[p].inside \in Requests /\ request'[request[p].inside].pc \in Served
                          /\ request[p].pc \in Holding => request'[request[p].inside].bound.credential = request[p].bound.credential
        BY <3>1 DEF Pinned
      <4> DEFINE c == request[p].inside
      <4>1. /\ c \in Requests /\ request[c].pc \in Served
            /\ (request[p].pc \in Holding => request[c].bound.credential = request[p].bound.credential)
        BY <3>2 DEF Pinned
      <4>2. request'[c].pc \in Served /\ request'[c].bound = request[c].bound
        <5>1. CASE c = q
          BY <4>1, <5>1
        <5>2. CASE c # q
          BY <4>1, <5>2 DEF Only
        <5> QED BY <5>1, <5>2
      <4> QED BY <4>1, <4>2
    <3> QED BY <2>0, <3>1, <3>2, <3>3
  <2> QED BY <2>1, <2>2
<1> QED BY <1>1, <1>2 DEF ProxyInv

\* The registry's count and the fence stay when no tunnel begins or ends.
LEMMA OwnersStay ==
    ASSUME ProxyInv, opaque' = opaque, authority'.profile = authority.profile,
           \A p \in Requests : (Live(p)' <=> Live(p)) /\ (Live(p) => request'[p].origin = request[p].origin)
    PROVE  Counted' /\ Fenced'
<1>1. ASSUME NEW o \in Origins PROVE Owners(o)' = Owners(o)
  <2>1. \A p \in Requests : (Live(p) /\ request[p].origin = o)' <=> (Live(p) /\ request[p].origin = o)
    OBVIOUS
  <2> QED BY <2>1 DEF Owners
<1>2. Counted'
  BY <1>1 DEF ProxyInv, Counted
<1>3. Fenced'
  BY DEF ProxyInv, Fenced
<1> QED BY <1>2, <1>3

\* A quiet step keeps the invariant.
LEMMA QuietStep == ASSUME ProxyInv, NEW q \in Requests, Quiet(q) PROVE ProxyInv'
<1> DEFINE r == request[q]
<1> DEFINE s == request'[q]
<1>1. /\ Only(q) /\ authority' = authority /\ Local(s)
      /\ \A p \in Requests : p # q => request'[p] = request[p]
  BY DEF Quiet, Only
<1>2. /\ s.kind = r.kind /\ s.inside = r.inside /\ s.origin = r.origin /\ s.base = r.base
      /\ s.operation = r.operation
      /\ s.bound = r.bound /\ s.git = r.git /\ s.route = r.route /\ s.classes = r.classes
      /\ s.candidate = r.candidate
  BY DEF Quiet, Keeps, Core
<1>3. Local(r) /\ Pinned(r) /\ Routed(r, authority) /\ Sealed(r, authority) /\ Pending(r, authority)
  BY DEF ProxyInv
<1>4. Pinned(request[q])'
  <2> SUFFICES ASSUME r.inside # None
               PROVE  /\ r.inside \in Requests /\ request'[r.inside].pc \in Served
                      /\ s.pc \in Holding => request'[r.inside].bound.credential = r.bound.credential
    BY <1>2 DEF Pinned
  <2>1. /\ r.inside \in Requests /\ request[r.inside].pc \in Served
        /\ r.pc \in Holding => request[r.inside].bound.credential = r.bound.credential
    BY <1>3 DEF Pinned
  <2>2. request'[r.inside].pc \in Served /\ request'[r.inside].bound = request[r.inside].bound
    <3>1. CASE r.inside = q
      BY <1>2, <2>1, <3>1 DEF Quiet
    <3>2. CASE r.inside # q
      BY <1>1, <2>1, <3>2
    <3> QED BY <3>1, <3>2
  <2>3. s.pc \in Holding => r.pc \in Holding
    BY DEF Quiet
  <2> QED BY <2>1, <2>2, <2>3
<1>5. Routed(s, authority)
  BY <1>2, <1>3 DEF Routed
<1>6. Permitted(r, authority) => Permitted(s, authority)
  BY <1>2 DEF Permitted, PrivatePermitted, TunnelPermitted, RequestPermitted, GitPermitted, Allows, Blocks, Counting, Refs
<1>7. Sealed(s, authority)
  BY <1>2, <1>3, <1>6 DEF Sealed, Quiet
<1>8. Pending(s, authority)
  BY <1>3 DEF Pending, Quiet
<1>9. ASSUME NEW p \in Requests
      PROVE  (Live(p)' <=> Live(p)) /\ request'[p].origin = request[p].origin
  <2>1. CASE p = q
    BY <1>2, <2>1 DEF Live, Quiet, Tunnelling
  <2>2. CASE p # q
    BY <1>1, <2>2 DEF Live
  <2> QED BY <2>1, <2>2
<1>10. Counted' /\ Fenced'
  BY <1>1, <1>9, OwnersStay DEF Quiet
<1>11. r.pc \in Served => s.pc \in Served /\ s.bound = r.bound
  BY <1>2 DEF Quiet
<1> HIDE DEF r, s
<1> QED BY <1>1, <1>4, <1>5, <1>7, <1>8, <1>10, <1>11, StepOfOne DEF r, s
\* The steps of a handler that are quiet.
QuietStepOf(q) ==
    \/ Begin(q) \/ AcquirePrincipal(q) \/ Validate(q) \/ Parse(q) \/ AcquireMaterial(q)
    \/ BeginTunnel(q) \/ Dial(q) \/ Connected(q) \/ TunnelEnds(q) \/ CloseBoth(q) \/ LifetimeExpires(q)
    \/ \E side \in {"up", "down"} : SideEnds(q, side)
    \/ Intercept(q) \/ ServingEnds(q) \/ BeginExchange(q) \/ BeginGit(q) \/ Exchange(q) \/ Respond(q) \/ RespondGit(q)
    \/ Unwind(q) \/ CloseConnection(q) \/ ClientLeaves(q)

\* Most steps of a handler are quiet.
LEMMA QuietSteps == ASSUME ProxyInv, NEW q \in Requests, QuietStepOf(q) PROVE Quiet(q)
<1>0. Shape /\ Local(request[q])
  BY DEF ProxyInv
<1> USE DEF Quiet, Only, Keeps, Core, Fields, Local, Honest, Shape, At, Goto, Unrouted,
            Unsealed, Sealing, Holding, Served, Tunnelling, Started
<1>1. CASE Begin(q)
  BY <1>0, <1>1 DEF Begin
<1>2. CASE AcquirePrincipal(q)
  BY <1>0, <1>2 DEF AcquirePrincipal
<1>3. CASE Validate(q)
  BY <1>0, <1>3 DEF Validate
<1>4. CASE Parse(q)
  BY <1>0, <1>4 DEF Parse
<1>5. CASE AcquireMaterial(q)
  BY <1>0, <1>5 DEF AcquireMaterial
<1>6. CASE BeginTunnel(q)
  BY <1>0, <1>6 DEF BeginTunnel
<1>7. CASE Dial(q)
  BY <1>0, <1>7 DEF Dial
<1>8. CASE Connected(q)
  BY <1>0, <1>8 DEF Connected
<1>9. CASE TunnelEnds(q)
  BY <1>0, <1>9 DEF TunnelEnds
<1>10. CASE CloseBoth(q)
  BY <1>0, <1>10 DEF CloseBoth
<1>11. CASE LifetimeExpires(q)
  BY <1>0, <1>11 DEF LifetimeExpires
<1>12. CASE Intercept(q)
  BY <1>0, <1>12 DEF Intercept
<1>13. CASE ServingEnds(q)
  BY <1>0, <1>13 DEF ServingEnds
<1>14. CASE BeginExchange(q)
  BY <1>0, <1>14 DEF BeginExchange
<1>15. CASE BeginGit(q)
  BY <1>0, <1>15 DEF BeginGit
<1>16. CASE Exchange(q)
  BY <1>0, <1>16 DEF Exchange
<1>17. CASE Respond(q)
  BY <1>0, <1>17 DEF Respond
<1>18. CASE RespondGit(q)
  <2>1. CASE Goto(q, "settle")
    BY <1>0, <1>18, <2>1 DEF RespondGit
  <2>2. ASSUME NEW uploaded \in BOOLEAN,
               request' = [request EXCEPT ![q].pc = "settle", ![q].upstream = IF uploaded THEN "answered" ELSE @,
                               ![q].outcome = IF uploaded /\ request[q].operation # "push" THEN "nonmutation" ELSE @]
        PROVE  Quiet(q)
    <3>0. request[q].pc = "responding" /\ authority' = authority /\ opaque' = opaque
      BY <1>18 DEF RespondGit
    <3>1. Only(q) /\ Keeps(q, Core) /\ request'[q].pc = "settle" /\ request'[q].lease = request[q].lease
      BY <1>0, <2>2, <3>0
    <3>2. /\ request'[q].outcome \in {"nonmutation", "outcome_unknown"}
          /\ request'[q].outcome = "nonmutation" => request'[q].upstream = "answered" /\ request[q].operation # "push"
      BY <1>0, <2>2, <3>0
    <3>3. request[q].git
      BY <1>18 DEF RespondGit
    <3> QED BY <1>0, <3>0, <3>1, <3>2, <3>3
  <2> QED BY <1>18, <2>1, <2>2 DEF RespondGit
<1>19. CASE Unwind(q)
  BY <1>0, <1>19 DEF Unwind
<1>20. CASE CloseConnection(q)
  BY <1>0, <1>20 DEF CloseConnection
<1>21. CASE ClientLeaves(q)
  BY <1>0, <1>21 DEF ClientLeaves
<1>22. CASE SideEnds(q, "up")
  <2>1. request[q].pc = "copying" /\ authority' = authority /\ opaque' = opaque
    BY <1>22 DEF SideEnds
  <2>2. /\ Only(q) /\ Keeps(q, Core) /\ request'[q].pc = "copying"
        /\ request'[q].lease = request[q].lease
        /\ request'[q].outcome = request[q].outcome
    <3>1. CASE request' = [request EXCEPT ![q]["up"] = "clean"]
      BY <1>0, <2>1, <3>1
    <3>2. CASE request' = [request EXCEPT ![q]["up"] = "failed", ![q].gone = TRUE, ![q].upstream = "closed"]
      BY <1>0, <2>1, <3>2
    <3> QED BY <1>22, <3>1, <3>2 DEF SideEnds
  <2> QED BY <1>0, <2>1, <2>2
<1>23. CASE SideEnds(q, "down")
  <2>1. request[q].pc = "copying" /\ authority' = authority /\ opaque' = opaque
    BY <1>23 DEF SideEnds
  <2>2. /\ Only(q) /\ Keeps(q, Core) /\ request'[q].pc = "copying"
        /\ request'[q].lease = request[q].lease
        /\ request'[q].outcome = request[q].outcome
    <3>1. CASE request' = [request EXCEPT ![q]["down"] = "clean"]
      BY <1>0, <2>1, <3>1
    <3>2. CASE request' = [request EXCEPT ![q]["down"] = "failed", ![q].gone = TRUE, ![q].upstream = "closed"]
      BY <1>0, <2>1, <3>2
    <3> QED BY <1>23, <3>1, <3>2 DEF SideEnds
  <2> QED BY <1>0, <2>1, <2>2
<1> QED BY <1>1, <1>2, <1>3, <1>4, <1>5, <1>6, <1>7, <1>8, <1>9, <1>10, <1>11, <1>12,
           <1>13, <1>14, <1>15, <1>16, <1>17, <1>18, <1>19, <1>20, <1>21, <1>22, <1>23 DEF QuietStepOf

\* A step of a handler that has neither served streams nor a tunnel.
Loud(q) ==
    /\ Only(q) /\ opaque' = opaque
    /\ request[q].pc \notin Served \cup Tunnelling /\ request'[q].pc \notin Tunnelling
    /\ Local(request'[q]) /\ Pinned(request'[q]) /\ Routed(request'[q], authority)
    /\ Sealed(request'[q], authority) /\ Pending(request'[q], authority)

\* Such a step keeps the invariant when its own record is in order.
LEMMA LoudStep == ASSUME ProxyInv, NEW q \in Requests, Loud(q) PROVE ProxyInv'
<1> DEFINE s == request'[q]
<1>1. Only(q) /\ authority' = authority /\ \A p \in Requests : p # q => request'[p] = request[p]
  BY DEF Loud, Only
<1>2. Pinned(request[q])'
  <2> SUFFICES ASSUME s.inside # None
               PROVE  /\ s.inside \in Requests /\ request'[s.inside].pc \in Served
                      /\ s.pc \in Holding => request'[s.inside].bound.credential = s.bound.credential
    BY DEF Pinned
  <2>1. /\ s.inside \in Requests /\ request[s.inside].pc \in Served
        /\ s.pc \in Holding => request[s.inside].bound.credential = s.bound.credential
    BY DEF Loud, Pinned
  <2>2. s.inside # q
    BY <2>1 DEF Loud
  <2> QED BY <1>1, <2>1, <2>2
<1>3. ASSUME NEW p \in Requests
      PROVE  (Live(p)' <=> Live(p)) /\ (Live(p) => request'[p].origin = request[p].origin)
  <2>1. CASE p = q
    BY <2>1 DEF Live, Loud, Tunnelling
  <2>2. CASE p # q
    BY <1>1, <2>2 DEF Live
  <2> QED BY <2>1, <2>2
<1>4. Counted' /\ Fenced'
  BY <1>1, <1>3, OwnersStay DEF Loud
<1> HIDE DEF s
<1> QED BY <1>1, <1>2, <1>4, StepOfOne DEF Loud

\* A handler that gives up.
LEMMA GivesUp ==
    ASSUME ProxyInv, NEW q \in Requests, Goto(q, "unwind"), request[q].pc \notin Served \cup Tunnelling \cup {"idle"},
           authority' = authority, opaque' = opaque
    PROVE  ProxyInv'
<1>0. Shape /\ Local(request[q])
  BY DEF ProxyInv
<1>1. Quiet(q)
  BY <1>0 DEF Quiet, Only, Keeps, Core, Fields, Local, Honest, Shape, Goto, Unrouted, Unsealed,
     Sealing, Holding, Served,
              Tunnelling, Started
<1> QED BY <1>1, QuietStep

\* A new connection.
LEMMA AcceptInv == ASSUME ProxyInv, NEW q \in Requests, Accept(q) PROVE ProxyInv'
<1> DEFINE r == request[q]
<1> DEFINE s == request'[q]
<1>0. Shape /\ Local(r) /\ Pinned(r) /\ Pending(r, authority) /\ r.pc = "idle"
  BY DEF ProxyInv, Accept, At
<1>1. PICK kind \in {"connect", "request"}, origin \in Origins :
         request' = [request EXCEPT ![q].pc = "accepted", ![q].kind = kind, ![q].origin = origin]
  BY DEF Accept
<1>2. Only(q) /\ opaque' = opaque
  BY <1>0, <1>1 DEF Only, Shape, Fields, Accept
<1>3. /\ s.pc = "accepted" /\ s.kind = kind /\ s.origin = origin
      /\ \A f \in Fields \ {"pc", "kind", "origin"} : s[f] = r[f]
  BY <1>0, <1>1 DEF Shape, Fields
<1>4. Local(s) /\ Routed(s, authority) /\ Sealed(s, authority) /\ Pending(s, authority)
  BY <1>0, <1>3 DEF Fields, Local, Honest, Routed, Sealed, Pending, Unrouted, Unsealed,
     Sealing, Started
<1>5. Pinned(s)
  BY <1>0, <1>3 DEF Fields, Pinned, Holding, Sealing
<1>6. Loud(q)
  BY <1>0, <1>2, <1>3, <1>4, <1>5 DEF Loud, Served, Tunnelling
<1> QED BY <1>6, LoudStep

\* A new stream belongs to a CONNECT that serves.
LEMMA AcceptStreamInv == ASSUME ProxyInv, NEW q \in Requests, NEW c \in Requests, AcceptStream(q, c) PROVE ProxyInv'
<1> DEFINE r == request[q]
<1> DEFINE s == request'[q]
<1>0. /\ Shape /\ Local(r) /\ Pending(r, authority) /\ r.pc = "idle"
      /\ request[c].pc = "serving" /\ request[c].origin \in Origins
  BY DEF ProxyInv, AcceptStream, At, Local
<1>1. PICK base \in {"plain", "url", "alias", "unknown"}, operation \in {"read", "push_discovery", "push"} :
         request' = [request EXCEPT ![q].pc = "accepted", ![q].inside = c, ![q].origin = request[c].origin,
                                    ![q].base = base, ![q].operation = operation]
  BY DEF AcceptStream
<1>2. Only(q) /\ opaque' = opaque
  BY <1>0, <1>1 DEF Only, Shape, Fields, AcceptStream
<1>3. /\ s.pc = "accepted" /\ s.inside = c /\ s.origin = request[c].origin
      /\ \A f \in Fields \ {"pc", "inside", "origin", "base", "operation"} : s[f] = r[f]
  BY <1>0, <1>1 DEF Shape, Fields
<1>4. Local(s) /\ Routed(s, authority) /\ Sealed(s, authority) /\ Pending(s, authority)
  BY <1>0, <1>3 DEF Fields, Local, Honest, Routed, Sealed, Pending, Unrouted, Unsealed,
     Sealing, Started
<1>5. Pinned(s)
  BY <1>0, <1>3 DEF Pinned, Holding, Sealing, Served
<1>6. Loud(q)
  BY <1>0, <1>2, <1>3, <1>4, <1>5 DEF Loud, Served, Tunnelling
<1> QED BY <1>6, LoudStep

\* A lease is pending only while the agent is active, and pins a stream.
LEMMA AuthenticateInv == ASSUME ProxyInv, NEW q \in Requests, Authenticate(q) PROVE ProxyInv'
<1> DEFINE r == request[q]
<1> DEFINE s == request'[q]
<1>0. Shape /\ Local(r) /\ Pinned(r) /\ r.pc = "working" /\ authority' = authority /\ opaque' = opaque
  BY DEF ProxyInv, Authenticate, At
<1>1. CASE Goto(q, "unwind")
  BY <1>0, <1>1, GivesUp DEF Served, Tunnelling
<1>2. CASE ~Goto(q, "unwind")
  <2> DEFINE pinned == r.inside # None => request[r.inside].bound.credential = authority.agent.credential
  <2> DEFINE pc == IF pinned THEN "leased" ELSE "unwind"
  <2>1. /\ request' = [request EXCEPT ![q].pc = pc, ![q].lease = "pending", ![q].bound = authority.agent]
        /\ authority.active
    BY <1>2 DEF Authenticate
  <2>2. pc \in {"leased", "unwind"} /\ (pc = "leased" => pinned)
    OBVIOUS
  <2> HIDE DEF pc
  <2>3. Only(q)
    BY <1>0, <2>1 DEF Only, Shape, Fields
  <2>4. /\ s.pc = pc /\ s.lease = "pending" /\ s.bound = authority.agent
        /\ \A f \in Fields \ {"pc", "lease", "bound"} : s[f] = r[f]
    BY <1>0, <2>1 DEF Shape, Fields
  <2>5. Local(s) /\ Routed(s, authority) /\ Sealed(s, authority) /\ Pending(s, authority)
    BY <1>0, <2>1, <2>2, <2>4 DEF Fields, Local, Honest, Routed, Sealed, Pending, Unrouted,
       Unsealed, Sealing, Started
  <2>6. Pinned(s)
    BY <1>0, <2>2, <2>4 DEF Fields, Pinned, Holding, Sealing, Served
  <2>7. Loud(q)
    BY <1>0, <2>2, <2>3, <2>4, <2>5, <2>6 DEF Loud, Served, Tunnelling
  <2> QED BY <2>7, LoudStep
<1> QED BY <1>1, <1>2 DEF Authenticate

\* A Git request is routed by the aliases that are stored.
LEMMA RouteInv == ASSUME ProxyInv, NEW q \in Requests, Route(q) PROVE ProxyInv'
<1> DEFINE r == request[q]
<1> DEFINE s == request'[q]
<1>0. /\ Shape /\ Local(r) /\ Pinned(r) /\ Pending(r, authority) /\ r.pc = "route"
      /\ authority \in AuthoritySet /\ authority' = authority /\ opaque' = opaque
  BY DEF ProxyInv, Route, At
<1>1. CASE Goto(q, "unwind")
  BY <1>0, <1>1, GivesUp DEF Served, Tunnelling
<1>2. CASE Goto(q, "address")
  <2>1. Quiet(q)
    BY <1>0, <1>2 DEF Quiet, Only, Keeps, Core, Fields, Local, Honest, Shape, Goto, Unrouted,
       Unsealed, Sealing, Holding,
                      Served, Tunnelling, Started
  <2> QED BY <2>1, QuietStep
<1>3. CASE /\ request[q].origin = Repository /\ Names(request[q].base)
           /\ request' = [request EXCEPT ![q].pc = "address", ![q].git = TRUE,
                            ![q].route = [profile |-> authority.profile.revision, repository |-> authority.repository.revision,
                                          alias |-> authority.repository.alias]]
  <2> DEFINE route == [profile |-> authority.profile.revision, repository |-> authority.repository.revision,
                       alias |-> authority.repository.alias]
  <2>1. route.alias = authority.repository.alias /\ authority.repository.alias \in Nat
    BY <1>0 DEF AuthoritySet, RepositorySet
  <2> HIDE DEF route
  <2>2. request' = [request EXCEPT ![q].pc = "address", ![q].git = TRUE, ![q].route = route]
    BY <1>3 DEF route
  <2>3. Only(q)
    BY <1>0, <2>2 DEF Only, Shape, Fields
  <2>4. s.pc = "address" /\ s.git = TRUE /\ s.route = route /\ \A f \in Fields \ {"pc", "git", "route"} : s[f] = r[f]
    BY <1>0, <2>2 DEF Shape, Fields
  <2>5. Local(s) /\ Sealed(s, authority) /\ Pending(s, authority)
    BY <1>0, <2>4 DEF Fields, Local, Honest, Sealed, Pending, Unrouted, Unsealed, Sealing,
       Started
  <2>6. Routed(s, authority)
    <3>1. s.origin = r.origin /\ s.base = r.base
      BY <2>4 DEF Fields
    <3>2. r.origin = Repository /\ (r.base = "url" \/ (r.base = "alias" /\ authority.repository.aliased))
      BY <1>3 DEF Names
    <3> QED BY <2>1, <2>4, <3>1, <3>2 DEF Routed
  <2>7. Pinned(s)
    BY <1>0, <2>4 DEF Fields, Pinned, Holding
  <2>8. Loud(q)
    BY <1>0, <2>3, <2>4, <2>5, <2>6, <2>7 DEF Loud, Served, Tunnelling
  <2> QED BY <2>8, LoudStep
<1> QED BY <1>1, <1>2, <1>3 DEF Route

\* What a request is, is known when its addresses are.
LEMMA ResolveInv == ASSUME ProxyInv, NEW q \in Requests, Resolve(q) PROVE ProxyInv'
<1> DEFINE r == request[q]
<1> DEFINE s == request'[q]
<1>0. /\ Shape /\ Local(r) /\ Pinned(r) /\ Pending(r, authority) /\ Routed(r, authority)
      /\ r.pc = "address"
      /\ authority' = authority /\ opaque' = opaque
  BY DEF ProxyInv, Resolve, At
<1>1. CASE Goto(q, "unwind")
  BY <1>0, <1>1, GivesUp DEF Served, Tunnelling
<1>2. ASSUME NEW classes \in ResolveProxy(request[q].origin),
             request' = [request EXCEPT ![q].pc = IF request[q].git THEN "parse" ELSE "evaluate", ![q].classes = classes]
      PROVE  ProxyInv'
  <2> DEFINE pc == IF request[q].git THEN "parse" ELSE "evaluate"
  <2>1. (pc = "parse" /\ r.git) \/ (pc = "evaluate" /\ ~r.git)
    OBVIOUS
  <2>2. request' = [request EXCEPT ![q].pc = pc, ![q].classes = classes]
    BY <1>2
  <2> HIDE DEF pc
  <2>3. Only(q)
    BY <1>0, <2>2 DEF Only, Shape, Fields
  <2>4. s.pc = pc /\ \A f \in Fields \ {"pc", "classes"} : s[f] = r[f]
    BY <1>0, <2>2 DEF Shape, Fields
  <2>5. Local(s) /\ Sealed(s, authority) /\ Pending(s, authority) /\ Routed(s, authority)
    BY <1>0, <2>1, <2>4 DEF Fields, Local, Honest, Sealed, Pending, Routed, Unrouted, Unsealed,
       Sealing, Started
  <2>6. Pinned(s)
    BY <1>0, <2>1, <2>4 DEF Fields, Pinned, Holding
  <2>7. Loud(q)
    BY <1>0, <2>1, <2>3, <2>4, <2>5, <2>6 DEF Loud, Served, Tunnelling
  <2> QED BY <2>7, LoudStep
<1> QED BY <1>1, <1>2 DEF Resolve

\* A sealed evaluation that the authority permits keeps the invariant.
LEMMA SealInv ==
    ASSUME ProxyInv, NEW q \in Requests, NEW d, NEW generation, NEW isOpaque \in BOOLEAN,
           request[q].pc \in {"evaluate", "evaluateGit"}, Seal(q, d, generation, isOpaque),
           authority' = authority, opaque' = opaque,
           \A s : /\ \A f \in Core \ {"candidate"} : s[f] = request[q][f]
                  /\ s.candidate.generation = generation /\ (s.candidate.opaque <=> isOpaque)
                  /\ s.candidate.expired = authority.expired
                  => Permitted(s, authority)
    PROVE  ProxyInv'
<1> DEFINE r == request[q]
<1> DEFINE s == request'[q]
<1> DEFINE pc == IF generation = 0 THEN "confirm" ELSE "material"
<1> DEFINE candidate == [revision |-> authority.revision, generation |-> generation, opaque |-> isOpaque, private |-> d.private,
                         expired |-> authority.expired]
<1>0. /\ Shape /\ Local(r) /\ Pinned(r) /\ Pending(r, authority) /\ Routed(r, authority)
      /\ authority \in AuthoritySet
  BY DEF ProxyInv
<1>1. pc \in Sealing
  BY DEF Sealing
<1>2. candidate.revision = authority.revision /\ candidate.generation = generation /\ (candidate.opaque <=> isOpaque)
      /\ candidate.expired = authority.expired
  OBVIOUS
<1>3. request' = [request EXCEPT ![q].pc = pc, ![q].candidate = candidate]
  BY DEF Seal
<1> HIDE DEF pc, candidate
<1>4. Only(q)
  BY <1>0, <1>3 DEF Only, Shape, Fields
<1>5. s.pc = pc /\ s.candidate = candidate /\ \A f \in Fields \ {"pc", "candidate"} : s[f] = r[f]
  BY <1>0, <1>3 DEF Shape, Fields
<1>6. Local(s) /\ Pending(s, authority) /\ Routed(s, authority)
  BY <1>0, <1>1, <1>5 DEF Fields, Local, Honest, Pending, Routed, Unrouted, Unsealed, Sealing,
     Started
<1>7. Permitted(s, authority)
  <2>1. \A f \in Core \ {"candidate"} : s[f] = r[f]
    BY <1>5 DEF Core, Fields
  <2>2. s.candidate.generation = generation /\ (s.candidate.opaque <=> isOpaque) /\ s.candidate.expired = authority.expired
    BY <1>2, <1>5
  <2> HIDE DEF s
  <2> QED BY <2>1, <2>2
<1>8. Sealed(s, authority)
  BY <1>0, <1>2, <1>5, <1>7 DEF Sealed, AuthoritySet
<1>9. Pinned(s)
  BY <1>0, <1>1, <1>5 DEF Fields, Pinned, Holding, Sealing
<1>10. Loud(q)
  BY <1>0, <1>1, <1>4, <1>5, <1>6, <1>8, <1>9 DEF Loud, Served, Tunnelling, Sealing
<1> QED BY <1>10, LoudStep

\* What EvaluateHTTPAdmission seals is permitted under the revision it reads.
LEMMA EvaluateHTTPInv == ASSUME ProxyInv, NEW q \in Requests, EvaluateHTTPAdmission(q) PROVE ProxyInv'
<1> DEFINE r == request[q]
<1> DEFINE connect == r.kind = "connect"
<1> DEFINE decision == IF connect THEN Connect(Unexpired, r.origin, r.classes)
                       ELSE Request(Unexpired, authority.default, Available, r.origin, r.classes)
<1> DEFINE opaqueTunnel == connect /\ decision.transport = "tunnel"
<1> DEFINE generation == IF decision.credential = None THEN 0 ELSE authority.generation
<1>0. /\ Shape /\ Local(r) /\ r.pc = "evaluate" /\ authority \in AuthoritySet
      /\ authority' = authority /\ opaque' = opaque
  BY DEF ProxyInv, EvaluateHTTPAdmission, At
<1>1. CASE Goto(q, "unwind")
  BY <1>0, <1>1, GivesUp DEF Served, Tunnelling
<1>2. CASE Goto(q, "intercept")
  <2>1. Quiet(q)
    BY <1>0, <1>2 DEF Quiet, Only, Keeps, Core, Fields, Local, Honest, Shape, Goto, Unrouted,
       Unsealed, Sealing, Holding,
                      Served, Tunnelling, Started
  <2> QED BY <2>1, QuietStep
<1>3. CASE /\ decision.allowed /\ Seal(q, decision, generation, opaqueTunnel)
           /\ ~(opaqueTunnel /\ r.origin \in authority.profile.origins) /\ ~Shaped(q)
  <2>0. authority.generation # 0 /\ authority.grants \subseteq GrantPool /\ ~r.git
    BY <1>0 DEF AuthoritySet, Local
  <2>1. ASSUME NEW s, \A f \in Core \ {"candidate"} : s[f] = r[f],
               s.candidate.generation = generation, s.candidate.opaque <=> opaqueTunnel, s.candidate.expired = authority.expired
        PROVE  Permitted(s, authority)
    <3>0. /\ s.kind = r.kind /\ s.inside = r.inside /\ s.origin = r.origin /\ s.base = r.base
          /\ s.classes = r.classes
          /\ s.git = r.git /\ Counting(s, authority) = Unexpired
      BY <2>1 DEF Core, Counting, Unexpired
    <3>1. CASE connect
      <4>1. /\ decision.transport = "tunnel"
            /\ Matching(Unexpired, "block_destination", r.origin) = {}
            /\ Matching(Unexpired, "allow_tunnel", r.origin) # {}
            /\ "forbidden" \notin r.classes
            /\ "private" \in r.classes => \E g \in Matching(Unexpired, "allow_tunnel", r.origin) : g.private
        BY <1>3, <3>1, ConnectAllowed
      <4>2. opaqueTunnel /\ r.origin \notin authority.profile.origins
        BY <1>3, <3>1, <4>1
      <4>3. TunnelPermitted(s, authority)
        BY <3>0, <4>1, <4>2 DEF TunnelPermitted, Blocks, Matching
      <4>4. "private" \in s.classes => PrivatePermitted(s, authority)
        BY <3>0, <4>1 DEF Matching, PrivatePermitted
      <4> QED BY <3>0, <3>1, <4>1, <4>3, <4>4 DEF Permitted
    <3>2. CASE ~connect
      <4> DEFINE allows == Matching(Unexpired, "allow_requests", r.origin)
      <4> DEFINE needed == {g.credential : g \in allows} \ {None}
      <4> DEFINE made == Request(Unexpired, authority.default, Available, r.origin, r.classes)
      <4>0. decision = made /\ made.allowed
        BY <1>3, <3>2
      <4> HIDE DEF decision
      <4>1. /\ Matching(Unexpired, "block_destination", r.origin) = {}
            /\ Matching(Unexpired, "block_requests", r.origin) = {}
            /\ allows # {} \/ authority.default = "allow"
            /\ Cardinality(needed) <= 1
            /\ needed # {} => decision.credential # None
            /\ "forbidden" \notin r.classes
            /\ "private" \in r.classes => \E g \in allows : g.private
        <5> DEFINE G == Unexpired
        <5> DEFINE D == authority.default
        <5> DEFINE V == Available
        <5> DEFINE O == r.origin
        <5> DEFINE C == r.classes
        <5>1. Request(G, D, V, O, C).allowed
          BY <4>0
        <5> HIDE DEF G, D, V, O, C
        <5> DEFINE matching == Matching(G, "allow_requests", O)
        <5> DEFINE credentials == {g.credential : g \in matching} \ {None}
        <5>2. /\ Matching(G, "block_destination", O) = {} /\ Matching(G, "block_requests", O) = {}
              /\ matching # {} \/ D = "allow"
              /\ Cardinality(credentials) <= 1
              /\ credentials # {} => Request(G, D, V, O, C).credential # None
              /\ "forbidden" \notin C
              /\ "private" \in C => \E g \in matching : g.private
          BY <5>1, RequestAllowed
        <5> QED BY <4>0, <5>2 DEF G, D, V, O, C
      <4>2. Allows(s, authority) = allows
        BY <3>0 DEF Allows, Matching
      <4>3. needed # {} => s.candidate.generation # 0
        BY <2>0, <2>1, <4>1
      <4>4. ~(s.inside # None /\ s.base # "plain" /\ s.origin \in authority.profile.origins)
        BY <1>3, <3>0 DEF Shaped
      <4>5. /\ Blocks(s, authority, "block_destination") = {}
            /\ Blocks(s, authority, "block_requests") = {}
        BY <3>0, <4>1 DEF Blocks, Matching
      <4>6. "private" \in s.classes => PrivatePermitted(s, authority)
        BY <3>0, <4>1 DEF Matching, PrivatePermitted
      <4> HIDE DEF allows
      <4>7. RequestPermitted(s, authority)
        BY <4>1, <4>2, <4>3, <4>4, <4>5 DEF RequestPermitted
      <4>8. ~opaqueTunnel /\ s.kind # "connect" /\ ~s.git
        BY <2>0, <3>0, <3>2
      <4> QED BY <2>1, <3>0, <4>1, <4>6, <4>7, <4>8 DEF Permitted
    <3> QED BY <3>1, <3>2
  <2>2. opaqueTunnel \in BOOLEAN
    OBVIOUS
  <2> HIDE DEF generation, opaqueTunnel, decision
  <2> QED BY <1>0, <1>3, <2>1, <2>2, SealInv
<1> QED BY <1>1, <1>2, <1>3 DEF EvaluateHTTPAdmission

\* What EvaluateGitAdmission seals is permitted: the route is of the stored aliases.
LEMMA EvaluateGitInv == ASSUME ProxyInv, NEW q \in Requests, EvaluateGitAdmission(q) PROVE ProxyInv'
<1> DEFINE r == request[q]
<1>0. /\ Shape /\ Local(r) /\ Routed(r, authority) /\ r.pc = "evaluateGit" /\ authority \in AuthoritySet
      /\ authority' = authority /\ opaque' = opaque
  BY DEF ProxyInv, EvaluateGitAdmission, At
<1>1. CASE Goto(q, "unwind")
  BY <1>0, <1>1, GivesUp DEF Served, Tunnelling
<1>2. CASE ~Goto(q, "unwind")
  <2> DEFINE d == [private |-> "private" \in r.classes]
  <2>1. /\ ~authority.repository.deleted
        /\ r.route = [profile |-> authority.profile.revision, repository |-> authority.repository.revision,
                      alias |-> authority.repository.alias]
        /\ Repository \in authority.profile.origins
        /\ EvaluateGit(UnexpiredGit, Actions(q))
        /\ GitDestination(Unexpired, r.origin, r.classes)
        /\ Seal(q, d, authority.generation, FALSE)
    BY <1>2 DEF EvaluateGitAdmission
  <2>2. r.route.alias = authority.repository.alias
    BY <2>1
  <2>3. /\ Matching(Unexpired, "block_destination", r.origin) = {}
        /\ "forbidden" \notin r.classes
        /\ "private" \in r.classes => \E g \in Matching(Unexpired, "allow_requests", r.origin) : g.private
    BY <2>1 DEF GitDestination, checkAddresses, destinationBlock
  <2>4. /\ r.git /\ r.kind = "request" /\ r.origin = Repository
        /\ (r.base = "url" \/ (r.base = "alias" /\ authority.repository.aliased))
    BY <1>0, <2>2 DEF Local, Routed
  <2>5. authority.generation # 0
    BY <1>0 DEF AuthoritySet
  <2>6. ASSUME NEW s, \A f \in Core \ {"candidate"} : s[f] = r[f],
               s.candidate.generation = authority.generation, s.candidate.opaque <=> FALSE, s.candidate.expired = authority.expired
        PROVE  Permitted(s, authority)
    <3>0. /\ s.kind = r.kind /\ s.origin = r.origin /\ s.base = r.base /\ s.classes = r.classes
          /\ s.git = r.git /\ s.operation = r.operation
          /\ Counting(s, authority) = Unexpired /\ authority.gitGrants \ s.candidate.expired = UnexpiredGit
      BY <2>6 DEF Core, Counting, Unexpired, UnexpiredGit
    <3>1. Refs(s) = Actions(q)
      BY <3>0 DEF Refs, Actions
    <3>2. Blocks(s, authority, "block_destination") = {}
      BY <2>3, <3>0 DEF Blocks, Matching
    <3>3. GitPermitted(s, authority)
      BY <2>1, <2>4, <2>5, <2>6, <3>0, <3>1, <3>2 DEF GitPermitted
    <3>4. "private" \in s.classes => PrivatePermitted(s, authority)
      BY <2>3, <3>0 DEF Matching, PrivatePermitted
    <3>5. s.kind # "connect" /\ s.git /\ "forbidden" \notin s.classes
      BY <2>3, <2>4, <3>0
    <3> QED BY <2>6, <3>3, <3>4, <3>5 DEF Permitted
  <2> HIDE DEF d
  <2> QED BY <1>0, <2>1, <2>6, SealInv
<1> QED BY <1>1, <1>2

\* The owners of an origin are finitely many.
LEMMA OwnersFinite == ASSUME NEW o PROVE IsFiniteSet(Owners(o)) /\ Cardinality(Owners(o)) \in Nat
<1>1. Owners(o) \subseteq Requests
  BY DEF Owners
<1>2. IsFiniteSet(Owners(o))
  BY <1>1, FS_Subset
<1> QED BY <1>2, FS_CardinalityType

\* A confirmed opaque tunnel is counted, at an origin outside the profile.
LEMMA ConfirmInv == ASSUME ProxyInv, NEW q \in Requests, Confirm(q) PROVE ProxyInv'
<1> DEFINE r == request[q]
<1> DEFINE s == request'[q]
<1>0. /\ Shape /\ Local(r) /\ Pinned(r) /\ Routed(r, authority) /\ Sealed(r, authority)
      /\ r.pc = "confirm"
      /\ Counted /\ Fenced /\ authority' = authority
  BY DEF ProxyInv, Confirm, At
<1>1. CASE ~Confirmable(q)
  <2>1. Goto(q, "unwind") /\ opaque' = opaque
    BY <1>1 DEF Confirm
  <2> QED BY <1>0, <2>1, GivesUp DEF Served, Tunnelling
<1>2. CASE Confirmable(q)
  <2>1. /\ request' = [request EXCEPT ![q].pc = "admitted", ![q].lease = "admitted", ![q].outcome = "prestart_failure"]
        /\ opaque' = IF r.candidate.opaque THEN [opaque EXCEPT ![r.origin] = @ + 1] ELSE opaque
    BY <1>2 DEF Confirm
  <2>2. Only(q)
    BY <1>0, <2>1 DEF Only, Shape, Fields
  <2>3. /\ s.pc = "admitted" /\ s.lease = "admitted" /\ s.outcome = "prestart_failure"
        /\ \A f \in Fields \ {"pc", "lease", "outcome"} : s[f] = r[f]
    BY <1>0, <2>1 DEF Shape, Fields
  <2>4. Local(s) /\ Routed(s, authority) /\ Sealed(s, authority) /\ Pending(s, authority)
    BY <1>0, <2>3 DEF Fields, Local, Honest, Routed, Sealed, Pending, Unrouted, Unsealed,
       Sealing, Started
  <2>5. Pinned(request[q])'
    <3> SUFFICES ASSUME r.inside # None PROVE r.inside \in Requests /\ request'[r.inside].pc \in Served
      BY <2>3 DEF Pinned, Fields, Holding, Sealing
    <3>1. r.inside \in Requests /\ request[r.inside].pc \in Served /\ r.inside # q
      BY <1>0 DEF Pinned, Served
    <3> QED BY <2>2, <3>1 DEF Only
  <2>6. s.candidate = r.candidate /\ s.origin = r.origin /\ r.origin \in Origins
    BY <1>0, <2>3 DEF Fields, Local
  <2>7. Counted' /\ Fenced'
    <3>1. CASE ~r.candidate.opaque
      <4>1. ASSUME NEW p \in Requests PROVE (Live(p)' <=> Live(p)) /\ request'[p].origin = request[p].origin
        <5>1. CASE p = q
          BY <2>6, <3>1, <5>1 DEF Live
        <5>2. CASE p # q
          BY <2>2, <5>2 DEF Live, Only
        <5> QED BY <5>1, <5>2
      <4>2. opaque' = opaque /\ authority'.profile = authority.profile
        BY <1>0, <2>1, <3>1
      <4> QED BY <4>1, <4>2, OwnersStay
    <3>2. CASE r.candidate.opaque
      <4>1. ~Live(q) /\ Live(q)'
        BY <1>0, <2>3, <2>6, <3>2 DEF Live
      <4>2. \A p \in Requests : p # q => (Live(p)' <=> Live(p)) /\ request'[p].origin = request[p].origin
        BY <2>2 DEF Live, Only
      <4>3. r.origin \notin authority.profile.origins
        BY <1>0, <1>2, <3>2 DEF Sealed, Sealing, Confirmable, Permitted, TunnelPermitted
      <4>4. Fenced'
        BY <1>0, <2>6, <4>2, <4>3 DEF Fenced
      <4>5. Owners(r.origin)' = Owners(r.origin) \cup {q} /\ q \notin Owners(r.origin)
        BY <2>6, <4>1, <4>2 DEF Owners
      <4>6. \A o \in Origins : o # r.origin => Owners(o)' = Owners(o)
        BY <2>6, <4>1, <4>2 DEF Owners
      <4>7. Cardinality(Owners(r.origin)') = Cardinality(Owners(r.origin)) + 1
        <5> DEFINE S == Owners(r.origin)
        <5>1. IsFiniteSet(S) /\ q \notin S
          BY <4>5, OwnersFinite
        <5> HIDE DEF S
        <5>2. Cardinality(S \cup {q}) = Cardinality(S) + 1
          BY <5>1, FS_AddElement
        <5> QED BY <4>5, <5>2 DEF S
      <4>8. opaque' = [opaque EXCEPT ![r.origin] = @ + 1]
        BY <2>1, <3>2
      <4>9. /\ DOMAIN opaque' = Origins /\ opaque'[r.origin] = opaque[r.origin] + 1
            /\ \A o \in Origins : o # r.origin => opaque'[o] = opaque[o]
        BY <1>0, <2>6, <4>8 DEF Counted
      <4>10. Counted'
        BY <1>0, <2>6, <4>6, <4>7, <4>9 DEF Counted
      <4> QED BY <4>4, <4>10
    <3> QED BY <3>1, <3>2
  <2>8. r.pc \notin Served
    BY <1>0 DEF Served
  <2> HIDE DEF s
  <2> QED BY <2>2, <2>4, <2>5, <2>7, <2>8, StepOfOne DEF s
<1> QED BY <1>1, <1>2

\* A settled tunnel is counted no more.
LEMMA SettleInv == ASSUME ProxyInv, NEW q \in Requests, Settle(q) PROVE ProxyInv'
<1> DEFINE r == request[q]
<1> DEFINE s == request'[q]
<1>0. /\ Shape /\ Local(r) /\ Pinned(r) /\ Routed(r, authority) /\ Sealed(r, authority)
      /\ Pending(r, authority) /\ r.pc = "settle"
      /\ Counted /\ Fenced /\ authority' = authority
  BY DEF ProxyInv, Settle, At
<1>1. request' = [request EXCEPT ![q].pc = "unwind"]
  BY DEF Settle, Goto
<1>2. Only(q)
  BY <1>0, <1>1 DEF Only, Shape, Fields
<1>3. s.pc = "unwind" /\ \A f \in Fields \ {"pc"} : s[f] = r[f]
  BY <1>0, <1>1 DEF Shape, Fields
<1>4. Local(s) /\ Routed(s, authority) /\ Sealed(s, authority) /\ Pending(s, authority)
  BY <1>0, <1>3 DEF Fields, Local, Honest, Routed, Sealed, Pending, Unrouted, Unsealed,
     Sealing, Started
<1>5. Pinned(request[q])'
  <2> SUFFICES ASSUME r.inside # None PROVE r.inside \in Requests /\ request'[r.inside].pc \in Served
    BY <1>3 DEF Pinned, Fields, Holding, Sealing
  <2>1. r.inside \in Requests /\ request[r.inside].pc \in Served
    BY <1>0 DEF Pinned
  <2>2. CASE r.inside = q
    BY <1>3, <2>1, <2>2 DEF Served
  <2>3. CASE r.inside # q
    BY <1>2, <2>1, <2>3 DEF Only
  <2> QED BY <2>1, <2>2, <2>3
<1>6. s.candidate = r.candidate /\ s.origin = r.origin /\ r.origin \in Origins /\ s.bound = r.bound
  BY <1>0, <1>3 DEF Fields, Local
<1>7. Counted' /\ Fenced'
  <2>1. CASE ~r.candidate.opaque
    <3>1. ASSUME NEW p \in Requests PROVE (Live(p)' <=> Live(p)) /\ request'[p].origin = request[p].origin
      <4>1. CASE p = q
        BY <1>6, <2>1, <4>1 DEF Live
      <4>2. CASE p # q
        BY <1>2, <4>2 DEF Live, Only
      <4> QED BY <4>1, <4>2
    <3>2. opaque' = opaque /\ authority'.profile = authority.profile
      BY <1>0, <2>1 DEF Settle, ReleaseOpaque
    <3> QED BY <3>1, <3>2, OwnersStay
  <2>2. CASE r.candidate.opaque
    <3>1. Live(q) /\ ~Live(q)'
      BY <1>0, <1>3, <2>2 DEF Live
    <3>2. \A p \in Requests : p # q => (Live(p)' <=> Live(p)) /\ request'[p].origin = request[p].origin
      BY <1>2 DEF Live, Only
    <3>3. Fenced'
      BY <1>0, <3>1, <3>2 DEF Fenced
    <3>4. Owners(r.origin)' = Owners(r.origin) \ {q} /\ q \in Owners(r.origin)
      BY <1>6, <3>1, <3>2 DEF Owners
    <3>5. \A o \in Origins : o # r.origin => Owners(o)' = Owners(o)
      BY <3>1, <3>2 DEF Owners
    <3>6. Cardinality(Owners(r.origin)') = Cardinality(Owners(r.origin)) - 1
      <4> DEFINE S == Owners(r.origin)
      <4>1. IsFiniteSet(S) /\ q \in S
        BY <3>4, OwnersFinite
      <4> HIDE DEF S
      <4>2. Cardinality(S \ {q}) = Cardinality(S) - 1
        BY <4>1, FS_RemoveElement
      <4> QED BY <3>4, <4>2 DEF S
    <3>7. opaque' = [opaque EXCEPT ![r.origin] = @ - 1]
      BY <2>2 DEF Settle, ReleaseOpaque
    <3>8. /\ DOMAIN opaque' = Origins /\ opaque'[r.origin] = opaque[r.origin] - 1
          /\ \A o \in Origins : o # r.origin => opaque'[o] = opaque[o]
      BY <1>0, <1>6, <3>7 DEF Counted
    <3>9. Counted'
      BY <1>0, <1>6, <3>5, <3>6, <3>8 DEF Counted
    <3> QED BY <3>3, <3>9
  <2> QED BY <2>1, <2>2
<1>8. s.pc \in Served /\ s.bound = r.bound
  BY <1>3, <1>6 DEF Served
<1> HIDE DEF s
<1> QED BY <1>2, <1>4, <1>5, <1>7, <1>8, StepOfOne DEF s

-----------------------------------------------------------------------------
(* The authority.                                                             *)

\* A change of the authority advances its revision, and so every evaluation is of a
\* revision that is past.
Advanced ==
    /\ authority' \in AuthoritySet /\ authority'.revision = authority.revision + 1
    /\ authority'.repository.alias = authority.repository.alias + 1
       \/ (authority'.repository.alias = authority.repository.alias /\ authority'.repository.aliased = authority.repository.aliased)
    /\ authority'.profile = authority.profile \/ ~Occupied(authority'.profile.origins)
    /\ opaque' = opaque

\* What an advance leaves of a request that keeps its place and what it is about.
LEMMA AdvancedRequest ==
    ASSUME ProxyInv, Advanced, NEW q \in Requests, Keeps(q, Core \cup {"pc", "outcome", "upstream", "up", "down"})
    PROVE  Local(request'[q]) /\ Routed(request'[q], authority') /\ Sealed(request'[q], authority')
<1> DEFINE r == request[q]
<1> DEFINE s == request'[q]
<1>1. /\ s.kind = r.kind /\ s.inside = r.inside /\ s.origin = r.origin /\ s.base = r.base
      /\ s.operation = r.operation
      /\ s.bound = r.bound /\ s.git = r.git /\ s.route = r.route /\ s.classes = r.classes
      /\ s.candidate = r.candidate
      /\ s.pc = r.pc /\ s.outcome = r.outcome /\ s.upstream = r.upstream /\ s.up = r.up
      /\ s.down = r.down
  BY DEF Keeps, Core
<1>2. Local(r) /\ Routed(r, authority) /\ Sealed(r, authority) /\ authority \in AuthoritySet
  BY DEF ProxyInv
<1>3. Local(s)
  BY <1>1, <1>2 DEF Local, Honest
<1>4. authority.revision \in Nat /\ authority.repository.alias \in Nat
  BY <1>2 DEF AuthoritySet, RepositorySet
<1>5. Sealed(s, authority')
  BY <1>1, <1>2, <1>4 DEF Sealed, Advanced
<1>6. Routed(s, authority')
  <2> SUFFICES ASSUME r.git
               PROVE  /\ r.origin = Repository /\ r.route.alias <= authority'.repository.alias
                      /\ r.route.alias = authority'.repository.alias =>
                            r.base = "url" \/ (r.base = "alias" /\ authority'.repository.aliased)
    BY <1>1, <1>2 DEF Routed
  <2>1. /\ r.origin = Repository /\ r.route.alias \in Nat /\ r.route.alias <= authority.repository.alias
        /\ r.route.alias = authority.repository.alias => r.base = "url" \/ (r.base = "alias" /\ authority.repository.aliased)
    BY <1>2 DEF Routed
  <2>2. CASE authority'.repository.alias = authority.repository.alias + 1
    BY <1>4, <2>1, <2>2
  <2>3. CASE /\ authority'.repository.alias = authority.repository.alias
             /\ authority'.repository.aliased = authority.repository.aliased
    BY <1>4, <2>1, <2>3
  <2> QED BY <2>2, <2>3 DEF Advanced
<1> QED BY <1>3, <1>5, <1>6

\* The streams stay pinned when no handler moves.
LEMMA PinnedStay ==
    ASSUME ProxyInv, NEW q \in Requests, \A p \in Requests : Keeps(p, {"pc", "inside", "bound"})
    PROVE  Pinned(request[q])'
<1>1. Pinned(request[q])
  BY DEF ProxyInv
<1>2. \A p \in Requests : /\ request'[p].pc = request[p].pc
                          /\ request'[p].inside = request[p].inside
                          /\ request'[p].bound = request[p].bound
  BY DEF Keeps
<1> QED BY <1>1, <1>2 DEF Pinned

\* An advance changes no owner, and takes no occupied origin into the profile.
LEMMA AdvancedOwners ==
    ASSUME ProxyInv, Advanced, \A q \in Requests : Keeps(q, {"pc", "candidate", "origin"})
    PROVE  Counted' /\ Fenced'
<1>1. \A q \in Requests : /\ request'[q].pc = request[q].pc
                          /\ request'[q].candidate = request[q].candidate
                          /\ request'[q].origin = request[q].origin
  BY DEF Keeps
<1>2. \A q \in Requests : Live(q)' <=> Live(q)
  BY <1>1 DEF Live
<1>3. ASSUME NEW o \in Origins PROVE Owners(o)' = Owners(o)
  BY <1>1, <1>2 DEF Owners
<1>4. Counted'
  BY <1>3 DEF ProxyInv, Counted, Advanced
<1>5. Fenced'
  <2>1. CASE authority'.profile = authority.profile
    BY <1>1, <1>2, <2>1 DEF ProxyInv, Fenced
  <2>2. CASE ~Occupied(authority'.profile.origins)
    <3> SUFFICES ASSUME NEW q \in Requests, Live(q), request[q].origin \in authority'.profile.origins PROVE FALSE
      BY <1>1, <1>2 DEF Fenced
    <3> DEFINE o == request[q].origin
    <3>1. opaque[o] = 0
      BY <2>2 DEF Occupied
    <3>2. o \in Origins
      BY DEF Live, ProxyInv, Local
    <3>3. Cardinality(Owners(o)) = 0
      BY <3>1, <3>2 DEF ProxyInv, Counted
    <3>4. Owners(o) = {}
      BY <3>3, OwnersFinite, FS_EmptySet
    <3> QED BY <3>4 DEF Owners
  <2> QED BY <2>1, <2>2 DEF Advanced
<1> QED BY <1>4, <1>5

\* An advance that leaves the requests alone keeps the invariant.
LEMMA AdvancedInv == ASSUME ProxyInv, Advanced, request' = request, authority'.active = authority.active PROVE ProxyInv'
<1>2. ASSUME NEW q \in Requests
      PROVE  Local(request'[q]) /\ Routed(request'[q], authority') /\ Sealed(request'[q], authority')
  <2>1. Keeps(q, Core \cup {"pc", "outcome", "upstream", "up", "down"})
    BY DEF Keeps
  <2> QED BY <2>1, AdvancedRequest
<1>3. ASSUME NEW q \in Requests PROVE Pinned(request[q])' /\ Pending(request'[q], authority')
  BY DEF Pinned, Pending, ProxyInv
<1>4. \A q \in Requests : Keeps(q, {"pc", "candidate", "origin"})
  BY DEF Keeps
<1>5. Counted' /\ Fenced'
  BY <1>4, AdvancedOwners
<1>6. Shape' /\ authority' \in AuthoritySet
  BY DEF ProxyInv, Shape, Advanced
<1> QED BY <1>2, <1>3, <1>5, <1>6 DEF ProxyInv

\* The revision that Advance gives to a changed authority.
LEMMA AdvancedAuthority ==
    ASSUME NEW c \in AuthoritySet, NEW b, b = [c EXCEPT !.revision = @ + 1]
    PROVE  /\ b \in AuthoritySet /\ b.revision = c.revision + 1
           /\ b.repository = c.repository /\ b.profile = c.profile /\ b.active = c.active
<1> DEFINE n == c.revision + 1
<1>1. n \in Nat
  BY DEF AuthoritySet
<1>2. b = [c EXCEPT !.revision = n]
  OBVIOUS
<1> HIDE DEF n
<1>3. b.revision = n /\ b.repository = c.repository /\ b.profile = c.profile /\ b.active = c.active
  BY <1>2 DEF AuthoritySet
<1>4. b \in AuthoritySet
  BY <1>1, <1>2 DEF AuthoritySet
<1> QED BY <1>3, <1>4 DEF n

\* The changes of the authority that leave the leases alone.
LEMMA ChangeInv ==
    ASSUME ProxyInv,
           \/ \E origins \in SUBSET Origins : PutGitRoutingProfile(origins)
           \/ \E g \in GrantPool : PutHTTPGrant(g) \/ DeleteHTTPGrant(g)
           \/ \E g \in GitGrantPool : PutGitGrant(g) \/ DeleteGitGrant(g)
           \/ PutGitRepository \/ DeleteGitRepository
    PROVE  ProxyInv'
<1> DEFINE a == authority
<1> DEFINE b == authority'
<1>0. a \in AuthoritySet
  BY DEF ProxyInv
<1>1. ASSUME NEW origins \in SUBSET Origins, PutGitRoutingProfile(origins) PROVE ProxyInv'
  <2> DEFINE profile == [revision |-> a.profile.revision + 1, origins |-> origins]
  <2>1. profile \in ProfileSet /\ profile.origins = origins
    BY <1>0 DEF ProfileSet, AuthoritySet
  <2> DEFINE c == [a EXCEPT !.profile = profile]
  <2>2. /\ b = [c EXCEPT !.revision = @ + 1] /\ request' = request /\ opaque' = opaque
        /\ ~Occupied(origins)
    BY <1>0, <1>1 DEF PutGitRoutingProfile, Advance
  <2> HIDE DEF profile
  <2>c. /\ c \in AuthoritySet /\ c.profile = profile
        /\ c.revision = a.revision /\ c.repository = a.repository /\ c.active = a.active
    BY <1>0, <2>1 DEF AuthoritySet
  <2> HIDE DEF c
  <2>3. /\ b \in AuthoritySet /\ b.revision = a.revision + 1 /\ b.repository = a.repository
        /\ b.profile = profile /\ b.active = a.active
    BY <2>2, <2>c, AdvancedAuthority
  <2>4. Advanced
    BY <2>1, <2>2, <2>3 DEF Advanced
  <2> QED BY <2>2, <2>3, <2>4, AdvancedInv
<1>2. ASSUME NEW g \in GrantPool, PutHTTPGrant(g) \/ DeleteHTTPGrant(g) PROVE ProxyInv'
  <2>1. PICK grants \in SUBSET GrantPool, expired \in SUBSET (GrantPool \cup GitGrantPool) :
         b = [[a EXCEPT !.grants = grants, !.expired = expired] EXCEPT !.revision = @ + 1]
    <3>1. /\ a.grants \cup {g} \in SUBSET GrantPool /\ a.grants \ {g} \in SUBSET GrantPool
          /\ a.expired \ {g} \in SUBSET (GrantPool \cup GitGrantPool)
      BY <1>0 DEF AuthoritySet
    <3> QED BY <1>0, <1>2, <3>1 DEF PutHTTPGrant, DeleteHTTPGrant, Advance
  <2> DEFINE c == [a EXCEPT !.grants = grants, !.expired = expired]
  <2>c. /\ c \in AuthoritySet /\ c.revision = a.revision
        /\ c.repository = a.repository /\ c.profile = a.profile /\ c.active = a.active
    BY <1>0 DEF AuthoritySet
  <2>d. b = [c EXCEPT !.revision = @ + 1]
    BY <2>1
  <2> HIDE DEF c
  <2>2. request' = request /\ opaque' = opaque
    BY <1>2 DEF PutHTTPGrant, DeleteHTTPGrant, Advance
  <2>3. /\ b \in AuthoritySet /\ b.revision = a.revision + 1 /\ b.repository = a.repository
        /\ b.profile = a.profile /\ b.active = a.active
    BY <2>c, <2>d, AdvancedAuthority
  <2>4. Advanced
    BY <2>2, <2>3 DEF Advanced
  <2> QED BY <2>2, <2>3, <2>4, AdvancedInv
<1>3. ASSUME NEW g \in GitGrantPool, PutGitGrant(g) \/ DeleteGitGrant(g) PROVE ProxyInv'
  <2>1. PICK grants \in SUBSET GitGrantPool, expired \in SUBSET (GrantPool \cup GitGrantPool) :
         b = [[a EXCEPT !.gitGrants = grants, !.expired = expired] EXCEPT !.revision = @ + 1]
    <3>1. /\ a.gitGrants \cup {g} \in SUBSET GitGrantPool /\ a.gitGrants \ {g} \in SUBSET GitGrantPool
          /\ a.expired \ {g} \in SUBSET (GrantPool \cup GitGrantPool)
      BY <1>0 DEF AuthoritySet
    <3> QED BY <1>0, <1>3, <3>1 DEF PutGitGrant, DeleteGitGrant, Advance
  <2> DEFINE c == [a EXCEPT !.gitGrants = grants, !.expired = expired]
  <2>c. /\ c \in AuthoritySet /\ c.revision = a.revision
        /\ c.repository = a.repository /\ c.profile = a.profile /\ c.active = a.active
    BY <1>0 DEF AuthoritySet
  <2>d. b = [c EXCEPT !.revision = @ + 1]
    BY <2>1
  <2> HIDE DEF c
  <2>2. request' = request /\ opaque' = opaque
    BY <1>3 DEF PutGitGrant, DeleteGitGrant, Advance
  <2>3. /\ b \in AuthoritySet /\ b.revision = a.revision + 1 /\ b.repository = a.repository
        /\ b.profile = a.profile /\ b.active = a.active
    BY <2>c, <2>d, AdvancedAuthority
  <2>4. Advanced
    BY <2>2, <2>3 DEF Advanced
  <2> QED BY <2>2, <2>3, <2>4, AdvancedInv
<1>4. ASSUME NEW repository \in RepositorySet, NEW c, c = [a EXCEPT !.repository = repository], Advance(c),
             repository.alias = a.repository.alias + 1
             \/ (repository.alias = a.repository.alias /\ repository.aliased = a.repository.aliased)
      PROVE  ProxyInv'
  <2>1. /\ c \in AuthoritySet /\ c.revision = a.revision /\ c.repository = repository
        /\ c.profile = a.profile /\ c.active = a.active
    BY <1>0, <1>4 DEF AuthoritySet
  <2>2. b = [c EXCEPT !.revision = @ + 1] /\ request' = request /\ opaque' = opaque
    BY <1>4 DEF Advance
  <2>3. /\ b \in AuthoritySet /\ b.revision = a.revision + 1 /\ b.repository = repository
        /\ b.profile = a.profile /\ b.active = a.active
    BY <2>1, <2>2, AdvancedAuthority
  <2>4. Advanced
    BY <1>4, <2>2, <2>3 DEF Advanced
  <2> QED BY <2>2, <2>3, <2>4, AdvancedInv
<1>5. a.repository \in RepositorySet
  BY <1>0 DEF AuthoritySet
<1>6. CASE PutGitRepository
  <2> DEFINE n == a.repository.revision + 1
  <2> DEFINE m == a.repository.alias + 1
  <2> DEFINE x == ~a.repository.aliased
  <2> DEFINE repository == [a.repository EXCEPT !.revision = n, !.alias = m, !.aliased = x]
  <2>1. n \in Nat /\ m \in Nat /\ x \in BOOLEAN
    BY <1>5 DEF RepositorySet
  <2>2. Advance([a EXCEPT !.repository = repository])
    BY <1>0, <1>6 DEF PutGitRepository, Advance
  <2>3. m = a.repository.alias + 1
    OBVIOUS
  <2> HIDE DEF n, m, x
  <2>4. repository \in RepositorySet /\ repository.alias = m
    BY <1>5, <2>1 DEF RepositorySet
  <2> HIDE DEF repository
  <2> QED BY <1>4, <2>2, <2>3, <2>4
<1>7. CASE DeleteGitRepository
  <2> DEFINE n == a.repository.revision + 1
  <2> DEFINE repository == [a.repository EXCEPT !.revision = n, !.deleted = TRUE]
  <2>1. n \in Nat
    BY <1>5 DEF RepositorySet
  <2>2. Advance([a EXCEPT !.repository = repository])
    BY <1>0, <1>7 DEF DeleteGitRepository, Advance
  <2> HIDE DEF n
  <2>3. /\ repository \in RepositorySet /\ repository.alias = a.repository.alias
        /\ repository.aliased = a.repository.aliased
    BY <1>5, <2>1 DEF RepositorySet
  <2> HIDE DEF repository
  <2> QED BY <1>4, <2>2, <2>3
<1> QED BY <1>1, <1>2, <1>3, <1>6, <1>7

\* Afterwards no lease is pending, and nothing else has changed.
LEMMA CancelledFrame ==
    ASSUME ProxyInv, CancelPending
    PROVE  Shape' /\ \A q \in Requests : Keeps(q, Fields \ {"lease"}) /\ request'[q].lease # "pending"
<1>0. Shape
  BY DEF ProxyInv
<1>1. DOMAIN request' = Requests
  BY DEF CancelPending
<1>2. ASSUME NEW q \in Requests
      PROVE  DOMAIN request'[q] = Fields /\ Keeps(q, Fields \ {"lease"}) /\ request'[q].lease # "pending"
  <2>1. CASE request[q].lease = "pending"
    <3>1. request'[q] = [request[q] EXCEPT !.lease = "cancelled"]
      BY <2>1 DEF CancelPending
    <3> QED BY <1>0, <3>1 DEF Shape, Fields, Keeps
  <2>2. CASE request[q].lease # "pending"
    <3>1. request'[q] = request[q]
      BY <2>2 DEF CancelPending
    <3> QED BY <1>0, <2>2, <3>1 DEF Shape, Keeps
  <2> QED BY <2>1, <2>2
<1> QED BY <1>1, <1>2 DEF Shape

\* An advance that cancels the pending leases.
LEMMA CancellingInv == ASSUME ProxyInv, Advanced, CancelPending PROVE ProxyInv'
<1>1. Shape' /\ \A q \in Requests : Keeps(q, Fields \ {"lease"}) /\ request'[q].lease # "pending"
  BY CancelledFrame
<1>2. \A q \in Requests : /\ Keeps(q, Core \cup {"pc", "outcome", "upstream", "up", "down"})
                          /\ Keeps(q, {"pc", "inside", "bound"})
                          /\ Keeps(q, {"pc", "candidate", "origin"})
  BY <1>1 DEF Keeps, Core, Fields
<1>3. ASSUME NEW q \in Requests
      PROVE  /\ Local(request'[q]) /\ Routed(request'[q], authority') /\ Sealed(request'[q], authority')
             /\ Pinned(request[q])' /\ Pending(request'[q], authority')
  BY <1>1, <1>2, AdvancedRequest, PinnedStay DEF Pending
<1>4. Counted' /\ Fenced'
  BY <1>2, AdvancedOwners
<1>5. authority' \in AuthoritySet
  BY DEF Advanced
<1> QED BY <1>1, <1>3, <1>4, <1>5 DEF ProxyInv

\* What the permission of an evaluation rests on.
SamePolicy ==
    /\ authority' \in AuthoritySet
    /\ \A f \in {"revision", "default", "grants", "gitGrants", "profile", "repository"} : authority'[f] = authority[f]

\* A step that changes no policy keeps the invariant.
LEMMA SamePolicyInv ==
    ASSUME ProxyInv, SamePolicy, opaque' = opaque, Shape',
           \A q \in Requests : Keeps(q, Core \cup {"pc", "outcome", "upstream", "up", "down"})
                               /\ (request'[q].lease = "pending" => request[q].lease = "pending" /\ authority'.active = authority.active)
    PROVE  ProxyInv'
<1>1. /\ authority'.revision = authority.revision /\ authority'.default = authority.default
      /\ authority'.grants = authority.grants
      /\ authority'.gitGrants = authority.gitGrants /\ authority'.profile = authority.profile
      /\ authority'.repository = authority.repository
  BY DEF SamePolicy
<1>2. ASSUME NEW q \in Requests
      PROVE  /\ Local(request'[q]) /\ Routed(request'[q], authority') /\ Sealed(request'[q], authority')
             /\ Pinned(request[q])' /\ Pending(request'[q], authority')
             /\ (Live(q)' <=> Live(q)) /\ request'[q].origin = request[q].origin
  <2> DEFINE r == request[q]
  <2> DEFINE s == request'[q]
  <2>1. /\ s.kind = r.kind /\ s.inside = r.inside /\ s.origin = r.origin /\ s.base = r.base
        /\ s.operation = r.operation
        /\ s.bound = r.bound /\ s.git = r.git /\ s.route = r.route /\ s.classes = r.classes
        /\ s.candidate = r.candidate
        /\ s.pc = r.pc /\ s.outcome = r.outcome /\ s.upstream = r.upstream /\ s.up = r.up
        /\ s.down = r.down
    BY DEF Keeps, Core
  <2>2. Local(r) /\ Routed(r, authority) /\ Sealed(r, authority) /\ Pending(r, authority)
    BY DEF ProxyInv
  <2>3. Local(s) /\ Routed(s, authority')
    BY <1>1, <2>1, <2>2 DEF Local, Honest, Routed
  <2>4. Permitted(r, authority) => Permitted(s, authority')
    BY <1>1, <2>1 DEF Permitted, PrivatePermitted, TunnelPermitted, RequestPermitted,
       GitPermitted, Allows, Blocks, Counting, Refs
  <2>5. Sealed(s, authority')
    BY <1>1, <2>1, <2>2, <2>4 DEF Sealed
  <2>6. Pinned(request[q])'
    <3>1. \A p \in Requests : Keeps(p, {"pc", "inside", "bound"})
      BY DEF Keeps, Core
    <3> QED BY <3>1, PinnedStay
  <2>7. Pending(s, authority')
    BY <2>2 DEF Pending
  <2>8. Live(q)' <=> Live(q)
    BY <2>1 DEF Live
  <2> QED BY <2>1, <2>3, <2>5, <2>6, <2>7, <2>8
<1>3. Counted' /\ Fenced'
  BY <1>1, <1>2, OwnersStay
<1> QED BY <1>2, <1>3 DEF ProxyInv, SamePolicy

\* What a change of the agent makes of the authority that is otherwise changed.
LEMMA MutatedAuthority ==
    ASSUME NEW c \in AuthoritySet, MutateAgent(c)
    PROVE  /\ authority' \in AuthoritySet /\ CancelPending /\ opaque' = opaque
           /\ \A f \in {"revision", "default", "grants", "gitGrants", "profile", "repository"} : authority'[f] = c[f]
<1> DEFINE agent == [c.agent EXCEPT !.principal = @ + 1]
<1>1. c.agent \in AgentSet
  BY DEF AuthoritySet
<1>2. agent \in AgentSet
  BY <1>1 DEF AgentSet
<1>3. authority' = [c EXCEPT !.agent = agent] /\ CancelPending /\ opaque' = opaque
  BY DEF MutateAgent, AuthoritySet
<1> HIDE DEF agent
<1>4. authority' \in AuthoritySet
  BY <1>2, <1>3 DEF AuthoritySet
<1>5. \A f \in {"revision", "default", "grants", "gitGrants", "profile", "repository"} : authority'[f] = c[f]
  BY <1>3 DEF AuthoritySet
<1> QED BY <1>3, <1>4, <1>5

\* A change of the agent cancels its leases, and changes the policy only with the
\* authorization revision.
LEMMA AgentInv ==
    ASSUME ProxyInv, PatchName \/ PatchDefault \/ Disable \/ Enable \/ IssueCredential \/ RevokeCredential
    PROVE  ProxyInv'
<1> DEFINE a == authority
<1> DEFINE b == authority'
<1> DEFINE n == a.revision + 1
<1> DEFINE agent == [a.agent EXCEPT !.credential = @ + 1]
<1> DEFINE default == IF a.default = "allow" THEN "block" ELSE "allow"
<1>0. a \in AuthoritySet /\ a.agent \in AgentSet
  BY DEF ProxyInv, AuthoritySet
<1>1. n \in Nat /\ agent \in AgentSet /\ default \in {"allow", "block"} /\ n = a.revision + 1
  BY <1>0 DEF AuthoritySet, AgentSet
<1>2. /\ PatchName => MutateAgent(a)
      /\ PatchDefault => MutateAgent([a EXCEPT !.revision = n, !.default = default])
      /\ Disable => MutateAgent([a EXCEPT !.revision = n, !.enabled = FALSE, !.active = FALSE, !.agent = agent])
      /\ Enable => MutateAgent([a EXCEPT !.revision = n, !.enabled = TRUE])
      /\ IssueCredential => MutateAgent([a EXCEPT !.active = TRUE, !.agent = agent])
      /\ RevokeCredential => MutateAgent([a EXCEPT !.active = FALSE, !.agent = agent])
  BY <1>0 DEF PatchName, PatchDefault, Disable, Enable, IssueCredential, RevokeCredential, AuthoritySet
<1> HIDE DEF n, agent, default
<1>3. ASSUME NEW c \in AuthoritySet, MutateAgent(c),
             \A f \in {"revision", "default", "grants", "gitGrants", "profile", "repository"} : c[f] = a[f]
      PROVE  ProxyInv'
  <2>1. SamePolicy /\ CancelPending /\ opaque' = opaque
    BY <1>3, MutatedAuthority DEF SamePolicy
  <2>2. Shape' /\ \A q \in Requests : Keeps(q, Fields \ {"lease"}) /\ request'[q].lease # "pending"
    BY <2>1, CancelledFrame
  <2>3. \A q \in Requests : Keeps(q, Core \cup {"pc", "outcome", "upstream", "up", "down"})
    BY <2>2 DEF Keeps, Core, Fields
  <2> QED BY <2>1, <2>2, <2>3, SamePolicyInv
<1>4. ASSUME NEW c \in AuthoritySet, MutateAgent(c), c.revision = n, c.profile = a.profile, c.repository = a.repository
      PROVE  ProxyInv'
  <2>1. /\ b \in AuthoritySet /\ CancelPending /\ opaque' = opaque
        /\ b.revision = n /\ b.profile = a.profile /\ b.repository = a.repository
    BY <1>4, MutatedAuthority
  <2>2. Advanced
    BY <1>1, <2>1 DEF Advanced
  <2> QED BY <2>1, <2>2, CancellingInv
<1>5. CASE PatchName
  BY <1>0, <1>2, <1>3, <1>5
<1>6. CASE PatchDefault
  <2> DEFINE c == [a EXCEPT !.revision = n, !.default = default]
  <2>1. c \in AuthoritySet /\ c.revision = n /\ c.profile = a.profile /\ c.repository = a.repository
    BY <1>0, <1>1 DEF AuthoritySet
  <2>2. MutateAgent(c)
    BY <1>2, <1>6
  <2> HIDE DEF c
  <2> QED BY <1>4, <2>1, <2>2
<1>7. CASE Disable
  <2> DEFINE c == [a EXCEPT !.revision = n, !.enabled = FALSE, !.active = FALSE, !.agent = agent]
  <2>1. c \in AuthoritySet /\ c.revision = n /\ c.profile = a.profile /\ c.repository = a.repository
    BY <1>0, <1>1 DEF AuthoritySet
  <2>2. MutateAgent(c)
    BY <1>2, <1>7
  <2> HIDE DEF c
  <2> QED BY <1>4, <2>1, <2>2
<1>8. CASE Enable
  <2> DEFINE c == [a EXCEPT !.revision = n, !.enabled = TRUE]
  <2>1. c \in AuthoritySet /\ c.revision = n /\ c.profile = a.profile /\ c.repository = a.repository
    BY <1>0, <1>1 DEF AuthoritySet
  <2>2. MutateAgent(c)
    BY <1>2, <1>8
  <2> HIDE DEF c
  <2> QED BY <1>4, <2>1, <2>2
<1>9. ASSUME NEW active \in BOOLEAN, MutateAgent([a EXCEPT !.active = active, !.agent = agent]) PROVE ProxyInv'
  <2> DEFINE c == [a EXCEPT !.active = active, !.agent = agent]
  <2>1. /\ c \in AuthoritySet
        /\ \A f \in {"revision", "default", "grants", "gitGrants", "profile", "repository"} : c[f] = a[f]
    BY <1>0, <1>1 DEF AuthoritySet
  <2>2. MutateAgent(c)
    BY <1>9
  <2> HIDE DEF c
  <2> QED BY <1>3, <2>1, <2>2
<1> QED BY <1>2, <1>5, <1>6, <1>7, <1>8, <1>9

\* A grant expires: the evaluations keep what had expired when they were made.
LEMMA ExpireInv == ASSUME ProxyInv, NEW g \in GrantPool \cup GitGrantPool, Expire(g) PROVE ProxyInv'
<1> DEFINE expired == authority.expired \cup {g}
<1>0. Shape /\ authority \in AuthoritySet
  BY DEF ProxyInv
<1>1. expired \in SUBSET (GrantPool \cup GitGrantPool)
  BY <1>0 DEF AuthoritySet
<1>2. authority' = [authority EXCEPT !.expired = expired] /\ request' = request /\ opaque' = opaque
  BY DEF Expire
<1> HIDE DEF expired
<1>3. authority' \in AuthoritySet /\ SamePolicy /\ authority'.active = authority.active
  BY <1>0, <1>1, <1>2 DEF SamePolicy, AuthoritySet
<1>4. Shape' /\ \A q \in Requests : Keeps(q, Core \cup {"pc", "outcome", "upstream", "up", "down"})
  BY <1>0, <1>2 DEF Shape, Keeps
<1> QED BY <1>2, <1>3, <1>4, SamePolicyInv

\* New material and the two drains are such steps.
LEMMA OtherInv == ASSUME ProxyInv, ReplaceMaterial \/ DrainAuthority \/ BeginDrain PROVE ProxyInv'
<1>0. Shape /\ authority \in AuthoritySet
  BY DEF ProxyInv
<1>1. CASE ReplaceMaterial
  <2>1. authority' \in AuthoritySet /\ SamePolicy /\ authority'.active = authority.active
    BY <1>0, <1>1 DEF ReplaceMaterial, SamePolicy, AuthoritySet
  <2>2. request' = request /\ opaque' = opaque
    BY <1>1 DEF ReplaceMaterial
  <2>3. Shape' /\ \A q \in Requests : Keeps(q, Core \cup {"pc", "outcome", "upstream", "up", "down"})
    BY <1>0, <2>2 DEF Shape, Keeps
  <2> QED BY <2>1, <2>2, <2>3, SamePolicyInv
<1>2. CASE DrainAuthority
  <2>1. authority' \in AuthoritySet /\ SamePolicy
    BY <1>0, <1>2 DEF DrainAuthority, SamePolicy, AuthoritySet
  <2>2. opaque' = opaque /\ CancelPending
    BY <1>2 DEF DrainAuthority
  <2>3. Shape' /\ \A q \in Requests : Keeps(q, Fields \ {"lease"}) /\ request'[q].lease # "pending"
    BY <2>2, CancelledFrame
  <2>4. \A q \in Requests : Keeps(q, Core \cup {"pc", "outcome", "upstream", "up", "down"})
    BY <2>3 DEF Keeps, Core, Fields
  <2> QED BY <2>1, <2>2, <2>3, <2>4, SamePolicyInv
<1>3. CASE BeginDrain
  <2>1. SamePolicy /\ authority' = authority /\ opaque' = opaque
    BY <1>0, <1>3 DEF BeginDrain, SamePolicy
  <2>2. DOMAIN request' = Requests
    BY <1>3 DEF BeginDrain
  <2>3. ASSUME NEW q \in Requests
        PROVE  /\ DOMAIN request'[q] = Fields /\ request'[q].lease = request[q].lease
               /\ Keeps(q, Core \cup {"pc", "outcome", "upstream", "up", "down"})
    <3>1. CASE q \in connections
      <4>1. request'[q] = [request[q] EXCEPT !.gone = TRUE]
        BY <1>3, <3>1 DEF BeginDrain
      <4> QED BY <1>0, <4>1 DEF Shape, Fields, Keeps, Core
    <3>2. CASE q \notin connections
      <4>1. request'[q] = request[q]
        BY <1>3, <3>2 DEF BeginDrain
      <4> QED BY <1>0, <4>1 DEF Shape, Keeps
    <3> QED BY <3>1, <3>2
  <2>4. Shape'
    BY <2>2, <2>3 DEF Shape
  <2> QED BY <2>1, <2>3, <2>4, SamePolicyInv
<1> QED BY <1>1, <1>2, <1>3

-----------------------------------------------------------------------------
(* The theorems.                                                              *)

\* The initial state satisfies the invariant.
LEMMA InitInv == Init => ProxyInv
<1> SUFFICES ASSUME Init PROVE ProxyInv
  OBVIOUS
<1>1. DOMAIN request = Requests /\ \A q \in Requests : request[q] = Idle
  BY DEF Init
<1>2. Shape
  BY <1>1 DEF Shape, Idle, Fields
<1>3. authority \in AuthoritySet
  <2> DEFINE agents == [principal : {1}, credential : {1}]
  <2> DEFINE profiles == [revision : {1}, origins : SUBSET Origins]
  <2> DEFINE repositories == [revision : {1}, alias : {1}, aliased : BOOLEAN, deleted : BOOLEAN]
  <2>1. /\ agents \subseteq AgentSet /\ profiles \subseteq ProfileSet
        /\ repositories \subseteq RepositorySet
    BY DEF AgentSet, ProfileSet, RepositorySet
  <2>2. authority \in [revision : {1}, draining : {FALSE}, enabled : {TRUE}, active : {TRUE}, agent : agents, default : {"allow", "block"},
                      grants : SUBSET GrantPool, gitGrants : SUBSET GitGrantPool, expired : {{}}, generation : {1}, available : BOOLEAN,
                      profile : profiles, repository : repositories]
    BY DEF Init
  <2> HIDE DEF agents, profiles, repositories
  <2> DEFINE a == authority
  <2>3. a = [revision |-> a.revision, draining |-> a.draining, enabled |-> a.enabled, active |-> a.active, agent |-> a.agent, default |-> a.default,
             grants |-> a.grants, gitGrants |-> a.gitGrants, expired |-> a.expired, generation |-> a.generation, available |-> a.available,
             profile |-> a.profile, repository |-> a.repository]
    BY <2>2
  <2>4. a.agent \in AgentSet /\ a.profile \in ProfileSet /\ a.repository \in RepositorySet
    BY <2>1, <2>2
  <2>5. a.revision \in Nat /\ a.generation \in {1, 2}
    BY <2>2
  <2>6. a.draining \in BOOLEAN /\ a.enabled \in BOOLEAN /\ a.active \in BOOLEAN
    BY <2>2
  <2>7. a.available \in BOOLEAN
    BY <2>2
  <2>8. /\ a.default \in {"allow", "block"} /\ a.grants \in SUBSET GrantPool
        /\ a.gitGrants \in SUBSET GitGrantPool /\ a.expired \in SUBSET (GrantPool \cup GitGrantPool)
    BY <2>2
  <2> HIDE DEF a
  <2>9. a \in AuthoritySet
    BY <2>3, <2>4, <2>5, <2>6, <2>7, <2>8, Zenon DEF AuthoritySet
  <2> QED BY <2>9 DEF a
<1>4. Local(Idle) /\ Pinned(Idle) /\ Routed(Idle, authority) /\ Sealed(Idle, authority)
  BY DEF Idle, NoCandidate, Local, Honest, Pinned, Routed, Sealed, Unrouted, Unsealed, Sealing,
     Started
<1>5. Pending(Idle, authority)
  BY DEF Idle, Pending
<1>6. \A q \in Requests : ~Live(q)
  BY <1>1 DEF Live, Idle, NoCandidate
<1>7. \A o \in Origins : Owners(o) = {}
  BY <1>6 DEF Owners
<1>8. Cardinality({}) = 0
  BY FS_EmptySet
<1>9. Counted
  BY <1>7, <1>8 DEF Init, Counted
<1>10. Fenced
  BY <1>6 DEF Fenced
<1> QED BY <1>1, <1>2, <1>3, <1>4, <1>5, <1>9, <1>10 DEF ProxyInv

\* The steps of one request.
StepOf(q) ==
    \/ Accept(q) \/ \E c \in Requests : AcceptStream(q, c)
    \/ Handler(q) \/ ServingEnds(q) \/ LifetimeExpires(q) \/ ClientLeaves(q)

\* Every step of one request keeps the invariant.
LEMMA StepOfInv == ASSUME ProxyInv, NEW q \in Requests, StepOf(q) PROVE ProxyInv'
<1>1. CASE QuietStepOf(q)
  BY <1>1, QuietSteps, QuietStep
<1>2. CASE Accept(q) \/ Authenticate(q) \/ Route(q) \/ Resolve(q)
  BY <1>2, AcceptInv, AuthenticateInv, RouteInv, ResolveInv
<1>3. CASE EvaluateHTTPAdmission(q) \/ EvaluateGitAdmission(q) \/ Confirm(q) \/ Settle(q)
  BY <1>3, EvaluateHTTPInv, EvaluateGitInv, ConfirmInv, SettleInv
<1>4. CASE \E c \in Requests : AcceptStream(q, c)
  BY <1>4, AcceptStreamInv
<1> QED BY <1>1, <1>2, <1>3, <1>4, Zenon DEF StepOf, Handler, QuietStepOf

\* Every step keeps the invariant.
LEMMA NextInv == ASSUME ProxyInv, [Next]_vars PROVE ProxyInv'
<1>1. ASSUME NEW q \in Requests, StepOf(q) PROVE ProxyInv'
  BY <1>1, StepOfInv
<1>2. CASE Administration
  <2>1. CASE PatchName \/ PatchDefault \/ Disable \/ Enable \/ IssueCredential \/ RevokeCredential
    BY <2>1, AgentInv
  <2>2. CASE ReplaceMaterial
    BY <2>2, OtherInv
  <2> QED BY <1>2, <2>1, <2>2, ChangeInv, Zenon DEF Administration
<1>3. CASE DrainAuthority \/ BeginDrain \/ \E g \in GrantPool \cup GitGrantPool : Expire(g)
  BY <1>3, OtherInv, ExpireInv
<1>4. CASE UNCHANGED vars
  <2>1. SamePolicy
    BY <1>4 DEF vars, SamePolicy, ProxyInv
  <2>2. request' = request /\ opaque' = opaque /\ authority' = authority
    BY <1>4 DEF vars
  <2>3. Shape' /\ \A q \in Requests : Keeps(q, Core \cup {"pc", "outcome", "upstream", "up", "down"})
    BY <2>2 DEF Shape, Keeps, ProxyInv
  <2> QED BY <2>1, <2>2, <2>3, SamePolicyInv
<1> QED BY <1>1, <1>2, <1>3, <1>4, Zenon DEF Next, StepOf

\* The invariant of the proxy.
THEOREM ProxyInvariant == Spec => []ProxyInv
BY InitInv, NextInv, PTL DEF Spec

\* Of the registry and the completions.
THEOREM RecordsOfTheProxyAreTrue == Spec => []RecordsAreTrue
<1>1. ProxyInv => RecordsAreTrue
  <2> SUFFICES ASSUME ProxyInv PROVE RecordsAreTrue
    OBVIOUS
  <2>1. OpaqueIsFenced
    BY DEF ProxyInv, Counted, Fenced, Owners, OpaqueIsFenced
  <2>2. HonestCompletion
    BY DEF ProxyInv, Local, Honest, HonestCompletion
  <2> QED BY <2>1, <2>2 DEF RecordsAreTrue
<1> QED BY <1>1, ProxyInvariant, PTL

\* What a request must be to be admitted.
Admission(q) ==
    /\ authority.active /\ request[q].bound = authority.agent
    /\ request[q].inside # None => request[request[q].inside].bound.credential = authority.agent.credential
    /\ "forbidden" \notin request[q].classes
    /\ "private" \in request[q].classes =>
          \E g \in Granted(q) : g.private /\ request[q].origin \in g.origins /\ g.kind \in {"allow_tunnel", "allow_requests"}
    /\ IF request[q].kind = "connect" THEN PermittedTunnel(q)
       ELSE IF request[q].git THEN PermittedGit(q) ELSE PermittedRequest(q)

\* A confirmation finds what was sealed still permitted.
LEMMA ConfirmPermitted == ASSUME ProxyInv, NEW q \in Requests, At(q, "confirm"), Confirmable(q) PROVE Admission(q)
<1> DEFINE r == request[q]
<1> DEFINE a == authority
<1>0. Pinned(r) /\ Sealed(r, a) /\ Pending(r, a) /\ r.pc = "confirm" /\ a \in AuthoritySet
  BY DEF ProxyInv, At
<1>1. /\ r.lease = "pending" /\ r.bound = a.agent /\ r.candidate.revision = a.revision
      /\ r.candidate.generation \in {0, a.generation}
  BY DEF Confirmable, Admissible
<1>2. Permitted(r, a)
  BY <1>0, <1>1 DEF Sealed, Sealing
<1>g. Granted(q) = Counting(r, a) /\ GrantedGit(q) = a.gitGrants \ r.candidate.expired
  BY DEF Granted, GrantedGit, Counting
<1>3. a.active /\ (r.inside # None => request[r.inside].bound.credential = a.agent.credential)
  BY <1>0, <1>1 DEF Pending, Pinned, Holding, Sealing
<1>4. CASE r.kind = "connect"
  <2>1. TunnelPermitted(r, a)
    BY <1>2, <1>4 DEF Permitted
  <2>2. PermittedTunnel(q)
    BY <1>g, <2>1 DEF TunnelPermitted, Blocks, PermittedTunnel
  <2> QED BY <1>g, <1>1, <1>2, <1>3, <1>4, <2>2 DEF Admission, Permitted, PrivatePermitted
<1>5. CASE r.kind # "connect" /\ r.git
  <2>1. GitPermitted(r, a)
    BY <1>2, <1>5 DEF Permitted
  <2>2. Refs(r) = Actions(q)
    BY DEF Refs, Actions
  <2>3. PermittedGit(q)
    BY <1>g, <1>1, <2>1, <2>2 DEF GitPermitted, Blocks, PermittedGit, Names, EvaluateGit
  <2> QED BY <1>g, <1>1, <1>2, <1>3, <1>5, <2>3 DEF Admission, Permitted, PrivatePermitted
<1>6. CASE r.kind # "connect" /\ ~r.git
  <2> DEFINE applies == {g \in Counting(r, a) : r.origin \in g.origins /\ g.kind # "allow_tunnel"}
  <2> DEFINE needed == {g.credential : g \in {h \in applies : h.kind = "allow_requests"}} \ {None}
  <2>1. RequestPermitted(r, a)
    BY <1>2, <1>6 DEF Permitted
  <2>2. \A g \in applies : g.kind = "allow_requests"
    BY <1>0, <2>1, GrantsAssumption DEF RequestPermitted, Blocks, Counting, AuthoritySet
  <2>3. {h \in applies : h.kind = "allow_requests"} = Allows(r, a)
    BY DEF Allows
  <2>4. applies # {} \/ a.default = "allow"
    BY <2>1, <2>3 DEF RequestPermitted
  <2>5. Cardinality(needed) <= 1 /\ (needed # {} => r.candidate.generation # 0)
    BY <2>1, <2>3 DEF RequestPermitted
  <2>6. ~Shaped(q)
    BY <2>1 DEF RequestPermitted, Shaped
  <2>7. PermittedRequest(q)
    BY <1>g, <1>1, <2>2, <2>4, <2>5, <2>6 DEF PermittedRequest
  <2> QED BY <1>g, <1>1, <1>2, <1>3, <1>6, <2>7 DEF Admission, Permitted, PrivatePermitted
<1> QED BY <1>4, <1>5, <1>6

\* Only a confirmation admits.
LEMMA OnlyConfirmAdmits ==
    ASSUME ProxyInv, [Next]_vars, NEW q \in Requests, request'[q].pc = "admitted", request[q].pc # "admitted"
    PROVE  At(q, "confirm") /\ Confirmable(q)
<1>0. Shape
  BY DEF ProxyInv
<1>1. ASSUME NEW p \in Requests, StepOf(p) PROVE At(q, "confirm") /\ Confirmable(q)
  <2>1. CASE Confirm(p)
    <3>1. CASE Confirmable(p)
      <4>1. request' = [request EXCEPT ![p].pc = "admitted", ![p].lease = "admitted", ![p].outcome = "prestart_failure"]
        BY <2>1, <3>1 DEF Confirm
      <4>2. p = q
        BY <1>0, <4>1 DEF Shape
      <4> QED BY <2>1, <3>1, <4>2 DEF Confirm
    <3>2. CASE ~Confirmable(p)
      BY <1>0, <2>1, <3>2 DEF Confirm, Goto, Shape, Fields
    <3> QED BY <3>1, <3>2
  <2>2. CASE ~Confirm(p)
    <3> SUFFICES request'[q] = request[q] \/ request'[q].pc # "admitted"
      OBVIOUS
    <3>1. CASE QuietStepOf(p)
      BY <3>1, QuietSteps DEF Quiet, Only
    <3>2. CASE Accept(p)
      BY <1>0, <3>2 DEF Accept, At, Goto, Shape, Fields
    <3>3. CASE Authenticate(p)
      BY <1>0, <3>3 DEF Authenticate, At, Goto, Shape, Fields
    <3>4. CASE Route(p)
      BY <1>0, <3>4 DEF Route, At, Goto, Shape, Fields
    <3>5. CASE Resolve(p)
      BY <1>0, <3>5 DEF Resolve, At, Goto, Shape, Fields
    <3>6. CASE EvaluateHTTPAdmission(p)
      BY <1>0, <3>6 DEF EvaluateHTTPAdmission, At, Goto, Shape, Fields, Seal
    <3>7. CASE EvaluateGitAdmission(p)
      BY <1>0, <3>7 DEF EvaluateGitAdmission, At, Goto, Shape, Fields, Seal
    <3>8. CASE Settle(p)
      BY <1>0, <3>8 DEF Settle, At, Goto, Shape, Fields
    <3>9. CASE \E c \in Requests : AcceptStream(p, c)
      BY <1>0, <3>9 DEF AcceptStream, Shape, Fields
    <3> QED BY <1>1, <2>2, <3>1, <3>2, <3>3, <3>4, <3>5, <3>6, <3>7, <3>8, <3>9, Zenon
               DEF StepOf, Handler, QuietStepOf
  <2> QED BY <2>1, <2>2
<1>2. CASE \/ Administration \/ DrainAuthority \/ BeginDrain \/ UNCHANGED vars
           \/ \E g \in GrantPool \cup GitGrantPool : Expire(g)
  <2>1. CASE request' = request
    BY <2>1
  <2>2. CASE CancelPending
    BY <2>2, CancelledFrame DEF Keeps, Fields
  <2>3. CASE BeginDrain
    BY <1>0, <2>3 DEF BeginDrain, Shape, Fields
  <2>4. ASSUME Administration PROVE request' = request \/ CancelPending
    BY <2>4 DEF Administration, PutGitRoutingProfile, PutHTTPGrant, DeleteHTTPGrant,
       PutGitGrant, DeleteGitGrant, PutGitRepository,
                DeleteGitRepository, ReplaceMaterial, MutateAgent, Advance, PatchName,
                PatchDefault, Disable, Enable, IssueCredential, RevokeCredential
  <2>5. ASSUME DrainAuthority PROVE CancelPending
    BY <2>5 DEF DrainAuthority
  <2>6. ASSUME UNCHANGED vars PROVE request' = request
    BY <2>6 DEF vars
  <2>7. ASSUME NEW g, Expire(g) PROVE request' = request
    BY <2>7 DEF Expire
  <2> QED BY <1>2, <2>1, <2>2, <2>3, <2>4, <2>5, <2>6, <2>7
<1> QED BY <1>1, <1>2, Zenon DEF Next, StepOf

\* At the moment work is admitted the stored authority permits it, a grant that has expired
\* since the evaluation apart: a confirmation is the only step that admits, what it
\* confirms was sealed under the authorization revision that is stored, and the changes
\* of the agent that leave that revision alone cancel the lease and change its binding.
THEOREM DispatchesArePermitted == Spec => DispatchIsPermitted
<1>1. ASSUME ProxyInv, [Next]_vars, NEW q \in Requests, request'[q].pc = "admitted" /\ request[q].pc # "admitted"
      PROVE  Admission(q)
  BY <1>1, OnlyConfirmAdmits, ConfirmPermitted
<1>2. ProxyInv /\ [Next]_vars =>
         [\A q \in Requests : request'[q].pc = "admitted" /\ request[q].pc # "admitted" => Admission(q)]_vars
  BY <1>1
<1> QED BY <1>2, ProxyInvariant, PTL DEF Spec, DispatchIsPermitted, Admission
=============================================================================
