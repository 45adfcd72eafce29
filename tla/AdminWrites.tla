---------------------------- MODULE AdminWrites ----------------------------
(* The administrative API as its clients' writes meet it: what each route checks and
   in which order, what it changes in one transaction, which idempotency records it
   keeps, and the answers a client can get.  Requests are carried by a network that may
   fail at any moment: a request whose client has given up may still be served later.

   One resource, with its revision, stands for the resource a client acts on; other
   administrators edit it too.  The revision of the administrators' credentials plays
   the same part for the rotation of an administrator's credential. *)
EXTENDS Integers, Sequences, FiniteSets

CONSTANTS
  None,
  MaxRevision,   \* bound: revisions of the resource
  MaxRequests    \* bound: requests sent

ASSUME WriteBounds == MaxRevision \in Nat /\ MaxRequests \in Nat \ {0}
ASSUME NoneIsNoNumber == None \notin Nat

VARIABLES
  target,     \* [rev, gone, old, new]: the resource; the two credentials of a rotation
  records,    \* the idempotency records: key -> the precondition they were stored with
  lapsed,     \* keys whose record has passed its retention
  requests,   \* every request sent, with its stage and its answer
  attempts,   \* every decision taken by a client, with what it was based on
  carried,    \* history: what was carried out, for which attempt, replacing which revision
  latched     \* the store has latched after a commit of unknown outcome

writeVars == <<target, records, lapsed, requests, attempts, carried, latched>>

-----------------------------------------------------------------------------
(* Routes.  `handler` lists the checks before the repository is called, `repository`
   those of its transaction, both in the order of the code.  `reread`: the answer is
   built from a second read.  `custody`: a keyring is written beside the transaction. *)

Route(handler, repository, effect) ==
  [handler |-> handler, repository |-> repository, effect |-> effect, reread |-> FALSE, custody |-> FALSE]
Rereading(route) == [route EXCEPT !.reread = TRUE]
InCustody(route) == [route EXCEPT !.custody = TRUE]
\* The same handler without an identity: it creates, and needs no precondition.
Creating(route) == [route EXCEPT !.handler = <<"body">>, !.repository = <<"room">>, !.effect = "create"]

ServersCreate == <<"record", "room">>
CreateServer == Rereading(Route(<<"body", "key">>, ServersCreate, "create"))
ServersPatch == <<"revision", "exists", "state">>
PatchServer == Rereading(Route(<<"body", "etag", "body">>, ServersPatch, "edit"))
ServersDelete == <<"revision", "gone">>
DeleteServer == Rereading(Route(<<"body", "etag">>, ServersDelete, "delete"))
AdmitExplicitOperation == <<"state">>
ServersCreateOperation == <<"record", "revision", "exists">> \o AdmitExplicitOperation
CreateOperation == Route(<<"body", "etag", "key">>, ServersCreateOperation, "none")
\* A flow that is stored and fails at once, because it cannot be started, is answered as refused and never acts.
CreateAuthFlow == Route(<<"body", "etag">>, <<"revision", "exists", "state">>, "none")
DeleteAuthFlow == Route(<<"body">>, <<"exists", "state">>, "none")
\* The revision of the credential, sent in the body, and the server's are one revision here.
ReplaceCredential == InCustody(Route(<<"body", "etag", "body">>, <<"exists", "revision", "state">>, "edit"))

CreatePrincipal == Route(<<"body">>, <<"room">>, "create")
PatchPrincipal == Route(<<"body", "etag">>, <<"exists", "revision">>, "edit")
PrincipalCredential == Route(<<"body", "etag">>, <<"exists", "revision", "state">>, "edit")
CreateGrant == Route(<<"body">>, <<"exists", "room">>, "create")
PatchGrant == Route(<<"body", "etag">>, <<"exists", "revision">>, "edit")
DeleteGrant == Route(<<"body">>, <<"exists">>, "delete")
GrantRequestMember == Route(<<"etag", "body">>, <<"exists", "revision", "state">>, "edit")

HTTPGrants == Route(<<"etag", "body">>, <<"exists", "revision">>, "edit")
HTTPCredentialMember == Route(<<"etag", "body">>, <<"exists", "revision", "state">>, "edit")
RotateHTTPCredential == InCustody(HTTPCredentialMember)
CreateHTTPCredential == Creating(RotateHTTPCredential)
GitRepositories == Route(<<"etag", "body">>, <<"exists", "revision", "state">>, "edit")
GitGrants == Route(<<"etag", "body">>, <<"exists", "revision">>, "edit")
GitProfile == Route(<<"etag", "body">>, <<"exists", "revision">>, "edit")
GitCredential == Route(<<"etag", "body">>, <<"exists", "revision", "state">>, "edit")
RotateGitCredential == InCustody(GitCredential)

CreateAdminCredential == Route(<<"body">>, <<"room">>, "create")
RevokeAdminCredential == Route(<<"body">>, <<"exists", "state">>, "none")
CreateRotationCredential == Route(<<"body", "etag">>, <<"revision", "room">>, "replacement")
CompleteRotation == Route(<<"body", "etag">>, <<"revision", "replaced">>, "revoke")

Routes ==
  [create_server |-> CreateServer, patch_server |-> PatchServer, delete_server |-> DeleteServer,
   create_operation |-> CreateOperation, create_flow |-> CreateAuthFlow, delete_flow |-> DeleteAuthFlow,
   replace_credential |-> ReplaceCredential, create_principal |-> CreatePrincipal, patch_principal |-> PatchPrincipal,
   principal_credential |-> PrincipalCredential, create_grant |-> CreateGrant, patch_grant |-> PatchGrant,
   delete_grant |-> DeleteGrant, adjudicate |-> GrantRequestMember, http_grant |-> HTTPGrants,
   create_http_credential |-> CreateHTTPCredential, edit_http_credential |-> HTTPCredentialMember,
   rotate_http_credential |-> RotateHTTPCredential, git_repository |-> GitRepositories, git_grant |-> GitGrants,
   git_profile |-> GitProfile, edit_git_credential |-> GitCredential, rotate_git_credential |-> RotateGitCredential,
   create_git_credential |-> Creating(RotateGitCredential), create_policy |-> Creating(HTTPGrants),
   create_admin |-> CreateAdminCredential, revoke_admin |-> RevokeAdminCredential,
   rotation_create |-> CreateRotationCredential, rotation_complete |-> CompleteRotation]

-----------------------------------------------------------------------------
(* What each check may say of a request: "pass", the code of a problem, or "replay". *)

\* DecodeTransport and the validators: whether the body is acceptable is the client's choice.
Body(x) == IF x.valid THEN {"pass"} ELSE {"invalid"}

\* serverPrecondition and its like: the header must be there; the clients send it well formed.
Precondition(x) == IF x.etag = None THEN {"stale"} ELSE {"pass"}
IdempotencyKey(x) == IF x.key = None THEN {"invalid"} ELSE {"pass"}

\* Mutant: the record is found only for the state it was stored in.
LookupIdempotencyWhileUnchanged(x) ==
  IF x.key \notin DOMAIN records \/ target.rev > 1 THEN {"pass"}
  ELSE IF records[x.key] # x.etag THEN {"conflict"} ELSE {"replay"}

\* A record past its retention is absent; another precondition under the same key is a conflict.
LookupIdempotency(x) ==
  IF x.key \notin DOMAIN records THEN {"pass"}
  ELSE IF records[x.key] # x.etag THEN {"conflict"} ELSE {"replay"}

Revision(x) == IF x.etag = target.rev THEN {"pass"} ELSE {"stale"}

\* The rest of a resource's state is not modelled: "room" and "state" may pass or refuse.
Verdicts(check, x) ==
  CASE check = "body" -> Body(x)
    [] check = "etag" -> Precondition(x)
    [] check = "key" -> IdempotencyKey(x)
    [] check = "record" -> LookupIdempotency(x)
    [] check = "exists" -> IF target.gone THEN {"missing"} ELSE {"pass"}
    [] check = "revision" -> Revision(x)
    [] check = "gone" -> IF target.gone THEN {"replay"} ELSE {"pass"}
    [] check = "replaced" -> IF target.new = "active" /\ target.old = "active" THEN {"pass"} ELSE {"conflict"}
    [] OTHER -> {"pass", "conflict"}

\* The verdicts that can end a request: of the first check that does not pass, or none.
Ends(route, x) ==
  LET checks == route.handler \o route.repository
      Passes(n) == \A k \in 1 .. n : "pass" \in Verdicts(checks[k], x)
  IN  (UNION {Verdicts(checks[k], x) \ {"pass"} : k \in {n \in 1 .. Len(checks) : Passes(n - 1)}})
      \union (IF Passes(Len(checks)) THEN {"commit"} ELSE {})

Problem(code) == [kind |-> "problem", code |-> code, rev |-> 0]
Success(rev) == [kind |-> "ok", code |-> "ok", rev |-> rev]
Answered(x, answer) == [x EXCEPT !.stage = "answered", !.answer = answer]

StorageUnavailable == Problem("storage_unavailable")

\* writeServerError, writeGrantError and their like: an error the repository does not name is
\* storage_unavailable, but authorization_unavailable on the routes of the authorization policy.
Policies ==
  {"create_principal", "patch_principal", "principal_credential", "create_grant", "patch_grant", "delete_grant",
   "adjudicate", "http_grant", "create_policy", "git_repository", "git_grant", "git_profile"}
Unnamed(route) == IF route \in Policies THEN "authorization_unavailable" ELSE "storage_unavailable"

\* RecordAuthenticatedProblem: a problem is recorded before it is answered, on the routes
\* auditMutationTarget lists, none of them a Git route; when the record fails, as it must on
\* a latched store, the answer is storage_unavailable instead.
Unaudited == {"git_repository", "git_grant", "git_profile", "edit_git_credential", "rotate_git_credential", "create_git_credential"}
RecordProblem(route, code, broken) ==
  CASE route \in Unaudited -> {Problem(code)}
    [] route \notin Unaudited /\ broken -> {StorageUnavailable}
    [] OTHER -> {Problem(code), StorageUnavailable}

\* Where a keyring is written beside the transaction, it may fail before or after the commit.
KeyringUnavailable(x) ==
  IF Routes[x.route].custody THEN RecordProblem(x.route, "keyring_unavailable", latched) ELSE {}

-----------------------------------------------------------------------------
(* Requests and their service. *)

Init ==
  /\ target = [rev |-> 1, gone |-> FALSE, old |-> "active", new |-> "none"]
  /\ records = <<>> /\ lapsed = {} /\ requests = <<>> /\ attempts = <<>> /\ carried = {} /\ latched = FALSE

CarriedOut(a) == {c \in carried : c.attempt = a}
RequestsOf(a) == {n \in DOMAIN requests : requests[n].attempt = a}
Request(attempt, route, etag, key, valid) ==
  [attempt |-> attempt, route |-> route, etag |-> etag, key |-> key, valid |-> valid, stage |-> "sent", answer |-> None]

\* A client sends its decision: a new attempt, with the revision its maker was shown.
Send(by, route, etag, key, shows) ==
  /\ Len(requests) < MaxRequests
  /\ attempts' = Append(attempts, [by |-> by, route |-> route, shows |-> shows, etag |-> etag, key |-> key, told |-> "nothing"])
  /\ \E valid \in BOOLEAN : requests' = Append(requests, Request(Len(attempts'), route, etag, key, valid))

\* The same request under the same key: not a new decision.
SendAgain(attempt, etag) ==
  /\ Len(requests) < MaxRequests
  /\ \E n \in RequestsOf(attempt) :
       requests' = Append(requests, Request(attempt, attempts[attempt].route, etag, attempts[attempt].key, requests[n].valid))

Effect(route) ==
  CASE route.effect \in {"create", "none"} -> target
    [] route.effect = "edit" -> [target EXCEPT !.rev = @ + 1]
    [] route.effect = "delete" -> [target EXCEPT !.rev = @ + 1, !.gone = TRUE]
    [] route.effect = "replacement" -> [target EXCEPT !.rev = @ + 1, !.new = "active"]
    [] route.effect = "revoke" -> [target EXCEPT !.rev = @ + 1, !.old = "revoked"]

\* insertIdempotencyTx, in the transaction that carries the request out.
InsertIdempotency(x) ==
  records' = IF x.key = None THEN records ELSE [k \in DOMAIN records \union {x.key} |-> IF k = x.key THEN x.etag ELSE records[k]]

Refuse(n) ==
  LET x == requests[n]
      ends == Ends(Routes[x.route], x) \ {"commit", "replay"}
  IN  /\ x.stage = "sent"
      /\ \E code \in ends : \E answer \in RecordProblem(x.route, code, latched) :
           requests' = [requests EXCEPT ![n] = Answered(x, answer)]
      /\ UNCHANGED <<target, records, lapsed, attempts, carried, latched>>

\* A stored result is answered; the server routes build the answer from a new read.
ReplayStored(n) ==
  LET x == requests[n] IN
  /\ x.stage = "sent" /\ ~latched
  /\ "replay" \in Ends(Routes[x.route], x)
  /\ requests' = [requests EXCEPT ![n] = IF Routes[x.route].reread THEN [x EXCEPT !.stage = "committed"]
                                         ELSE Answered(x, Success(target.rev))]
  /\ UNCHANGED <<target, records, lapsed, attempts, carried, latched>>

\* The transaction commits; the answer may still be a failure of the keyring, or an error
\* nobody names when the commit itself reports one and the store latches.
Commit(n) ==
  LET x == requests[n]
      route == Routes[x.route]
  IN  /\ x.stage = "sent" /\ ~latched
      /\ "commit" \in Ends(route, x)
      /\ target.rev < MaxRevision
      /\ target' = Effect(route)
      /\ carried' = carried \union {[attempt |-> x.attempt, request |-> n, rev |-> target.rev]}
      /\ InsertIdempotency(x)
      /\ \/ /\ \E answer \in RecordProblem(x.route, Unnamed(x.route), TRUE) :
                 requests' = [requests EXCEPT ![n] = Answered(x, answer)]
            /\ latched' = TRUE
         \/ /\ IF route.reread THEN requests' = [requests EXCEPT ![n].stage = "committed"]
               ELSE \E answer \in {Success(Effect(route).rev)} \union KeyringUnavailable(x) : requests' = [requests EXCEPT ![n] = Answered(x, answer)]
            /\ UNCHANGED latched
      /\ UNCHANGED <<lapsed, attempts>>

\* Nothing is stored: the store is latched or fails now, or the keyring refuses the secret first.
FailUncommitted(n) ==
  LET x == requests[n] IN
  /\ x.stage = "sent"
  /\ "commit" \in Ends(Routes[x.route], x)
  /\ \/ /\ latched' \in {latched, TRUE}
        /\ \E answer \in RecordProblem(x.route, Unnamed(x.route), latched') :
             requests' = [requests EXCEPT ![n] = Answered(x, answer)]
     \/ /\ \E answer \in KeyringUnavailable(x) : requests' = [requests EXCEPT ![n] = Answered(x, answer)]
        /\ UNCHANGED latched
  /\ UNCHANGED <<target, records, lapsed, attempts, carried>>

\* serverResource: the answer shows the resource as it is by then; when the read fails the
\* caller is told so although its request was carried out.
ServerResource(n) ==
  LET x == requests[n] IN
  /\ x.stage = "committed"
  /\ \E answer \in {Success(target.rev), StorageUnavailable} : requests' = [requests EXCEPT ![n] = Answered(x, answer)]
  /\ UNCHANGED <<target, records, lapsed, attempts, carried, latched>>

Serve == \E n \in DOMAIN requests : Refuse(n) \/ ReplayStored(n) \/ Commit(n) \/ FailUncommitted(n) \/ ServerResource(n)

\* Another administrator edits the resource, through a client of his own.
OtherEdit ==
  /\ target.rev < MaxRevision /\ ~latched
  /\ target' = [target EXCEPT !.rev = @ + 1]
  /\ UNCHANGED <<records, lapsed, requests, attempts, carried, latched>>

\* admitIdempotencyTx: records past their retention are pruned.
Lapse ==
  /\ DOMAIN records # {}
  /\ records' = <<>> /\ lapsed' = lapsed \union DOMAIN records
  /\ UNCHANGED <<target, requests, attempts, carried, latched>>

\* The gateway is started again, on a store that is sound.
Restart == latched /\ latched' = FALSE /\ UNCHANGED <<target, records, lapsed, requests, attempts, carried>>

Server == Serve \/ OtherEdit \/ Lapse \/ Restart

-----------------------------------------------------------------------------
(* What clients rely on. *)

(* A decision is carried out at most once, however often its request is sent again under
   its idempotency key and in whatever order the copies arrive, as long as its record is kept. *)
OnceOnly == \A a \in DOMAIN attempts : attempts[a].key \notin lapsed => Cardinality(CarriedOut(a)) <= 1

\* Some clients report as a failure what they cannot know to be one: an update of a grant
\* takes every answer it cannot use for one, two commands do so when the keyring was
\* unavailable, and every client of the Git policy when the outcome of a commit was unknown.
Misjudges(attempt, code) ==
  \/ attempt.by = "grant_update" /\ code \in {"storage_unavailable", "ok"}
  \/ attempt.by \in {"credential_replace", "git_credential_rotate"} /\ code = "keyring_unavailable"
  \/ attempt.route \in Policies \intersect Unaudited /\ code = "authorization_unavailable"
Misjudged(a) ==
  \E n \in RequestsOf(a) : requests[n].stage = "answered" /\ Misjudges(attempts[a], requests[n].answer.code)

(* What a client tells its user is true: an acknowledged request was carried out, and one
   that was rejected was not and never will be, unless it was sent more than once or its
   answer is one of those this client misjudges. *)
OutcomeIsHonest ==
  \A a \in DOMAIN attempts :
    /\ attempts[a].told = "acknowledged" => CarriedOut(a) # {} \/ target.gone
    /\ (attempts[a].told = "rejected" /\ Cardinality(RequestsOf(a)) = 1 /\ ~Misjudged(a)) => CarriedOut(a) = {}
=============================================================================
