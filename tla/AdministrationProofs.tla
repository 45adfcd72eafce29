------------------------ MODULE AdministrationProofs ------------------------
(* What the clients of the administrative API can rely on, proved for every number of
   requests, revisions, reads and sessions, and for every choice of forms and commands. *)
EXTENDS MCMutations, EventHub, FiniteSetTheorems, TLAPS

-----------------------------------------------------------------------------
(* The types. *)

Revs == Nat \union {None}
Keys == Nat \union {None}
Codes == {"ok", "invalid", "stale", "conflict", "missing", "storage_unavailable", "keyring_unavailable", "authorization_unavailable"}
AnswerSet == [kind : {"ok", "problem"}, code : Codes, rev : Nat]
RequestSet ==
  [attempt : Nat, route : DOMAIN Routes, etag : Revs, key : Keys, valid : BOOLEAN,
   stage : {"sent", "committed", "answered"}, answer : AnswerSet \union {None}]
AttemptSet ==
  [by : Forms \union Names, route : DOMAIN Routes, shows : Revs, etag : Revs, key : Keys,
   told : {"nothing", "acknowledged", "rejected", "uncertain"}]
TargetSet == [rev : Nat, gone : BOOLEAN, old : {"active", "revoked"}, new : {"none", "active", "revoked"}]
CarriedSet == [attempt : Nat, request : Nat, rev : Nat]

WriteType ==
  /\ target \in TargetSet
  /\ DOMAIN records \subseteq Nat /\ lapsed \subseteq Nat
  /\ requests \in Seq(RequestSet) /\ attempts \in Seq(AttemptSet)
  /\ carried \subseteq CarriedSet
  /\ latched \in BOOLEAN

-----------------------------------------------------------------------------
(* What holds of the requests whatever client sends them. *)

\* The transaction of a route makes a check.
Has(r, check) == \E k \in 1 .. Len(Routes[r].repository) : Routes[r].repository[k] = check

\* A request belongs to an attempt; only a keyed one may change its precondition.
LinkedAt(n) ==
  LET x == requests[n]  a == attempts[x.attempt] IN
  /\ x.attempt \in DOMAIN attempts
  /\ x.route = a.route /\ x.key = a.key
  /\ x.key = None => x.etag = a.etag
  /\ x.stage = "answered" => x.answer \in AnswerSet
Linked == \A n \in DOMAIN requests : LinkedAt(n)

\* A key is the number of its attempt, on a route that looks its records up.
Keyed == \A a \in DOMAIN attempts : attempts[a].key # None => attempts[a].key = a /\ Has(attempts[a].route, "record")

\* An attempt without a key is sent once.
SentOnce ==
  \A m, n \in DOMAIN requests : requests[m].attempt = requests[n].attempt /\ requests[n].key = None => m = n

\* What was carried out was asked for; a keyed request left a record, an unkeyed one met its revision.
CarriedAt(c) ==
  /\ c.request \in DOMAIN requests
  /\ LET x == requests[c.request] IN
     /\ x.attempt = c.attempt /\ x.stage # "sent"
     /\ x.key # None => x.key \in DOMAIN records \union lapsed
     /\ x.key = None /\ Has(x.route, "revision") => c.rev = x.etag
CarriedFits == \A c \in carried : CarriedAt(c)

AtMostOne == \A c, d \in carried : c.attempt = d.attempt /\ attempts[c.attempt].key \notin lapsed => c = d
RecordsFit == \A k \in DOMAIN records : \E c \in carried : c.attempt = k

\* An answer that says what became of its request says the truth.
Definite(x) ==
  /\ x.stage = "answered" /\ x.answer.kind = "problem" /\ x.answer.code \notin {"storage_unavailable", "keyring_unavailable"}
  /\ x.answer.code = "authorization_unavailable" => x.route \notin Policies \intersect Unaudited
Succeeded(x) == x.stage = "committed" \/ (x.stage = "answered" /\ x.answer.kind = "ok")
AnswerAt(n) ==
  LET x == requests[n] IN
  /\ Succeeded(x) => (\E c \in carried : c.attempt = x.attempt) \/ target.gone
  /\ Definite(x) => \A c \in carried : c.request # n
  /\ x.stage = "answered" /\ x.answer.code = "keyring_unavailable" => Routes[x.route].custody
  /\ x.stage = "answered" => (x.answer.code = "ok" <=> x.answer.kind = "ok")
AnswersFit == \A n \in DOMAIN requests : AnswerAt(n)

\* What a user was told comes from such an answer, or from one his client misjudges.
Ground(attempt, x) == Definite(x) \/ (x.stage = "answered" /\ Misjudges(attempt, x.answer.code))
ToldAt(a) ==
  /\ attempts[a].told = "acknowledged" => (\E c \in carried : c.attempt = a) \/ target.gone
  /\ attempts[a].told = "rejected" => \E n \in DOMAIN requests : requests[n].attempt = a /\ Ground(attempts[a], requests[n])
ToldFits == \A a \in DOMAIN attempts : ToldAt(a)

\* The old credential is revoked by the completion of a rotation, with a replacement there.
RevokedBy == target.old = "revoked" => target.new # "none" /\ \E c \in carried : requests[c.request].route = "rotation_complete"

WriteInv ==
  /\ WriteType /\ Linked /\ Keyed /\ SentOnce
  /\ CarriedFits /\ AtMostOne /\ RecordsFit /\ AnswersFit /\ ToldFits /\ RevokedBy

-----------------------------------------------------------------------------
(* The forms. *)

CtlSet ==
  [state : {"editing", "confirming", "submitting", "rejected", "uncertain"}, request : Nat, attempt : Nat,
   etag : Revs, seen : Nat, refresh : BOOLEAN]
FormType ==
  /\ form \in Forms \union {None}
  /\ page \in [rev : Nat, version : Nat, ok : BOOLEAN]
  /\ draft \in [shows : Nat, expected : Nat, dirty : BOOLEAN]
  /\ ctl \in CtlSet
  /\ sink \in [kind : {"none", "oauth", "one_time"}, epoch : Nat, dialog : {"closed", "awaiting", "shown", "lost"}]
  /\ session \in [epoch : Nat, in : BOOLEAN]
  /\ form # None => phase \in DOMAIN Shown.routes

\* A draft requires the revision it was made from; what is being confirmed is what was reviewed.
Reviewing ==
  /\ draft.shows = draft.expected
  /\ ctl.state = "confirming" =>
       /\ Shown.expected = "live" /\ form # "edit_server" => ctl.seen = ctl.etag
       /\ Shown.expected = "held" => draft.dirty /\ ctl.seen = draft.shows

\* The controller serves the form on the page, and the sink its session.
Serving ==
  /\ ctl.state \in {"submitting", "uncertain"} =>
       Here /\ ctl.attempt \in DOMAIN attempts /\ attempts[ctl.attempt].route = RouteNow
  /\ ctl.state = "submitting" => ctl.request \in DOMAIN requests /\ requests[ctl.request].attempt = ctl.attempt
  /\ ctl.state # "editing" => Here
  /\ sink = NoSink \/ (Here /\ sink.epoch = session.epoch /\ Shown.sink # "none")
  /\ Reviewing

\* What a form sends is what its author saw, on a route that compares it.
Reviewed(f) == f \notin {"edit_server", "replace_credential"}
FromForm(a) ==
  /\ a.by \in Forms /\ a.route # "rotation_complete"
  /\ (Reviewed(a.by) /\ a.etag # None) => a.shows = a.etag /\ Has(a.route, "revision")
FormAttempts == \A a \in DOMAIN attempts : FromForm(attempts[a])

FormInv == WriteInv /\ FormType /\ Serving /\ FormAttempts

-----------------------------------------------------------------------------
(* The commands. *)

Steps == Now.steps
CommandSet ==
  [name : Names, pc : Nat, etag : Revs, key : Keys, attempt : Nat, request : Nat,
   exit : {"running", "ok", "failed", "uncertain", "recovering", "lost", "killed"}]
FileSet == {"none", "open", "written", "synced", "durable"}
CommandType == command \in CommandSet /\ command.pc \in 1 .. Len(Steps) /\ file \in FileSet

Rotating == command.name = "admin_credential_rotate"
Completing(a) == attempts[a].route = "rotation_complete"

\* The command has one decision under way: its key is the attempt's, and it submits it once more only with a key.
Deciding ==
  /\ command.attempt # 0 => /\ command.attempt \in DOMAIN attempts
                            /\ attempts[command.attempt].key = command.key
                            /\ attempts[command.attempt].by = command.name
                            /\ attempts[command.attempt].route \in {Now.routes[1], "rotation_complete"}
  /\ command.key # None => command.name \in {"server_create", "operation_start"}
  /\ command.key # None /\ command.attempt = 0 => command.key = Len(attempts) + 1
  /\ command.request # 0 =>
       /\ command.request \in DOMAIN requests /\ command.attempt # 0
       /\ requests[command.request].attempt = command.attempt
       /\ Running => Steps[command.pc] \in {"submit", "complete"}
  /\ Running /\ command.attempt # 0 /\ command.key = None /\ command.request = 0 =>
       \A i \in 1 .. Len(Steps) : i >= command.pc => Steps[i] # "submit"

\* A rotation completes with its replacement on disk, once.
Storing ==
  /\ Rotating /\ Running /\ command.pc >= 11 => file = "durable"
  /\ \A a \in DOMAIN attempts : Completing(a) =>
       /\ Rotating /\ file = "durable" /\ a = command.attempt
       /\ Running => command.pc >= 13
       /\ Running /\ command.request = 0 => command.pc = 14
  /\ Running /\ command.request # 0 /\ Steps[command.pc] = "complete" => Completing(command.attempt)
  /\ command.exit = "recovering" => command.attempt \in DOMAIN attempts /\ Completing(command.attempt)

CommandAttempts == \A a \in DOMAIN attempts : attempts[a].by \in Names

CommandInv == WriteInv /\ CommandType /\ Deciding /\ Storing /\ CommandAttempts

-----------------------------------------------------------------------------
(* The tables of routes, commands and forms: what the proofs need of each entry. *)

CheckNames == {"body", "etag", "key", "record", "room", "revision", "exists", "state", "gone", "replaced"}
EffectNames == {"create", "none", "edit", "delete", "replacement", "revoke"}

SoundRoute(r) ==
  /\ Routes[r].handler \in Seq(CheckNames) /\ Routes[r].repository \in Seq(CheckNames)
  /\ Routes[r].effect \in EffectNames /\ (Routes[r].effect = "revoke" => r = "rotation_complete")
  /\ Routes[r].custody \in BOOLEAN /\ Routes[r].reread \in BOOLEAN

\* The names of the routes.
LEMMA RouteNames ==
  DOMAIN Routes = {
    "create_server", "patch_server", "delete_server", "create_operation", "create_flow",
    "delete_flow", "replace_credential", "create_principal", "patch_principal",
    "principal_credential", "create_grant", "patch_grant", "delete_grant", "adjudicate",
    "http_grant", "create_http_credential", "edit_http_credential", "rotate_http_credential",
    "git_repository", "git_grant", "git_profile", "edit_git_credential", "rotate_git_credential",
    "create_git_credential", "create_policy", "create_admin", "revoke_admin", "rotation_create",
    "rotation_complete"}
BY DEF Routes

\* Every route of handler.go has checks, one effect, and only the completion of a rotation revokes.
LEMMA EveryRouteIsSound == \A r \in DOMAIN Routes : SoundRoute(r)
<1>1. SoundRoute("create_server")
  <2>1. /\ Routes["create_server"].handler = <<"body", "key">>
        /\ Routes["create_server"].repository = <<"record", "room">>
        /\ Routes["create_server"].effect = "create" /\ Routes["create_server"].reread = TRUE
        /\ Routes["create_server"].custody = FALSE
    BY DEF Routes, Route, Rereading, CreateServer, ServersCreate
  <2>2. <<"body", "key">> \in Seq(CheckNames) /\ <<"record", "room">> \in Seq(CheckNames)
    BY DEF CheckNames
  <2> QED
    BY <2>1, <2>2 DEF SoundRoute, EffectNames
<1>2. SoundRoute("patch_server")
  <2>1. /\ Routes["patch_server"].handler = <<"body", "etag", "body">>
        /\ Routes["patch_server"].repository = <<"revision", "exists", "state">>
        /\ Routes["patch_server"].effect = "edit" /\ Routes["patch_server"].reread = TRUE
        /\ Routes["patch_server"].custody = FALSE
    BY DEF Routes, Route, Rereading, PatchServer, ServersPatch
  <2>2. /\ <<"body", "etag", "body">> \in Seq(CheckNames)
        /\ <<"revision", "exists", "state">> \in Seq(CheckNames)
    BY DEF CheckNames
  <2> QED
    BY <2>1, <2>2 DEF SoundRoute, EffectNames
<1>3. SoundRoute("delete_server")
  <2>1. /\ Routes["delete_server"].handler = <<"body", "etag">>
        /\ Routes["delete_server"].repository = <<"revision", "gone">>
        /\ Routes["delete_server"].effect = "delete" /\ Routes["delete_server"].reread = TRUE
        /\ Routes["delete_server"].custody = FALSE
    BY DEF Routes, Route, Rereading, DeleteServer, ServersDelete
  <2>2. <<"body", "etag">> \in Seq(CheckNames) /\ <<"revision", "gone">> \in Seq(CheckNames)
    BY DEF CheckNames
  <2> QED
    BY <2>1, <2>2 DEF SoundRoute, EffectNames
<1>4. SoundRoute("create_operation")
  <2>1. /\ Routes["create_operation"].handler = <<"body", "etag", "key">>
        /\ Routes["create_operation"].repository = <<"record", "revision", "exists", "state">>
        /\ Routes["create_operation"].effect = "none"
        /\ Routes["create_operation"].reread = FALSE
        /\ Routes["create_operation"].custody = FALSE
    BY DEF Routes, Route, CreateOperation, ServersCreateOperation, AdmitExplicitOperation
  <2>2. /\ <<"body", "etag", "key">> \in Seq(CheckNames)
        /\ <<"record", "revision", "exists", "state">> \in Seq(CheckNames)
    BY DEF CheckNames
  <2> QED
    BY <2>1, <2>2 DEF SoundRoute, EffectNames
<1>5. SoundRoute("create_flow")
  <2>1. /\ Routes["create_flow"].handler = <<"body", "etag">>
        /\ Routes["create_flow"].repository = <<"revision", "exists", "state">>
        /\ Routes["create_flow"].effect = "none" /\ Routes["create_flow"].reread = FALSE
        /\ Routes["create_flow"].custody = FALSE
    BY DEF Routes, Route, CreateAuthFlow
  <2>2. <<"body", "etag">> \in Seq(CheckNames) /\ <<"revision", "exists", "state">> \in Seq(CheckNames)
    BY DEF CheckNames
  <2> QED
    BY <2>1, <2>2 DEF SoundRoute, EffectNames
<1>6. SoundRoute("delete_flow")
  <2>1. /\ Routes["delete_flow"].handler = <<"body">>
        /\ Routes["delete_flow"].repository = <<"exists", "state">>
        /\ Routes["delete_flow"].effect = "none" /\ Routes["delete_flow"].reread = FALSE
        /\ Routes["delete_flow"].custody = FALSE
    BY DEF Routes, Route, DeleteAuthFlow
  <2>2. <<"body">> \in Seq(CheckNames) /\ <<"exists", "state">> \in Seq(CheckNames)
    BY DEF CheckNames
  <2> QED
    BY <2>1, <2>2 DEF SoundRoute, EffectNames
<1>7. SoundRoute("replace_credential")
  <2>1. /\ Routes["replace_credential"].handler = <<"body", "etag", "body">>
        /\ Routes["replace_credential"].repository = <<"exists", "revision", "state">>
        /\ Routes["replace_credential"].effect = "edit"
        /\ Routes["replace_credential"].reread = FALSE
        /\ Routes["replace_credential"].custody = TRUE
    BY DEF Routes, Route, InCustody, ReplaceCredential
  <2>2. /\ <<"body", "etag", "body">> \in Seq(CheckNames)
        /\ <<"exists", "revision", "state">> \in Seq(CheckNames)
    BY DEF CheckNames
  <2> QED
    BY <2>1, <2>2 DEF SoundRoute, EffectNames
<1>8. SoundRoute("create_principal")
  <2>1. /\ Routes["create_principal"].handler = <<"body">>
        /\ Routes["create_principal"].repository = <<"room">>
        /\ Routes["create_principal"].effect = "create"
        /\ Routes["create_principal"].reread = FALSE
        /\ Routes["create_principal"].custody = FALSE
    BY DEF Routes, Route, CreatePrincipal
  <2>2. <<"body">> \in Seq(CheckNames) /\ <<"room">> \in Seq(CheckNames)
    BY DEF CheckNames
  <2> QED
    BY <2>1, <2>2 DEF SoundRoute, EffectNames
<1>9. SoundRoute("patch_principal")
  <2>1. /\ Routes["patch_principal"].handler = <<"body", "etag">>
        /\ Routes["patch_principal"].repository = <<"exists", "revision">>
        /\ Routes["patch_principal"].effect = "edit" /\ Routes["patch_principal"].reread = FALSE
        /\ Routes["patch_principal"].custody = FALSE
    BY DEF Routes, Route, PatchPrincipal
  <2>2. <<"body", "etag">> \in Seq(CheckNames) /\ <<"exists", "revision">> \in Seq(CheckNames)
    BY DEF CheckNames
  <2> QED
    BY <2>1, <2>2 DEF SoundRoute, EffectNames
<1>10. SoundRoute("principal_credential")
  <2>1. /\ Routes["principal_credential"].handler = <<"body", "etag">>
        /\ Routes["principal_credential"].repository = <<"exists", "revision", "state">>
        /\ Routes["principal_credential"].effect = "edit"
        /\ Routes["principal_credential"].reread = FALSE
        /\ Routes["principal_credential"].custody = FALSE
    BY DEF Routes, Route, PrincipalCredential
  <2>2. <<"body", "etag">> \in Seq(CheckNames) /\ <<"exists", "revision", "state">> \in Seq(CheckNames)
    BY DEF CheckNames
  <2> QED
    BY <2>1, <2>2 DEF SoundRoute, EffectNames
<1>11. SoundRoute("create_grant")
  <2>1. /\ Routes["create_grant"].handler = <<"body">>
        /\ Routes["create_grant"].repository = <<"exists", "room">>
        /\ Routes["create_grant"].effect = "create" /\ Routes["create_grant"].reread = FALSE
        /\ Routes["create_grant"].custody = FALSE
    BY DEF Routes, Route, CreateGrant
  <2>2. <<"body">> \in Seq(CheckNames) /\ <<"exists", "room">> \in Seq(CheckNames)
    BY DEF CheckNames
  <2> QED
    BY <2>1, <2>2 DEF SoundRoute, EffectNames
<1>12. SoundRoute("patch_grant")
  <2>1. /\ Routes["patch_grant"].handler = <<"body", "etag">>
        /\ Routes["patch_grant"].repository = <<"exists", "revision">>
        /\ Routes["patch_grant"].effect = "edit" /\ Routes["patch_grant"].reread = FALSE
        /\ Routes["patch_grant"].custody = FALSE
    BY DEF Routes, Route, PatchGrant
  <2>2. <<"body", "etag">> \in Seq(CheckNames) /\ <<"exists", "revision">> \in Seq(CheckNames)
    BY DEF CheckNames
  <2> QED
    BY <2>1, <2>2 DEF SoundRoute, EffectNames
<1>13. SoundRoute("delete_grant")
  <2>1. /\ Routes["delete_grant"].handler = <<"body">>
        /\ Routes["delete_grant"].repository = <<"exists">>
        /\ Routes["delete_grant"].effect = "delete" /\ Routes["delete_grant"].reread = FALSE
        /\ Routes["delete_grant"].custody = FALSE
    BY DEF Routes, Route, DeleteGrant
  <2>2. <<"body">> \in Seq(CheckNames) /\ <<"exists">> \in Seq(CheckNames)
    BY DEF CheckNames
  <2> QED
    BY <2>1, <2>2 DEF SoundRoute, EffectNames
<1>14. SoundRoute("adjudicate")
  <2>1. /\ Routes["adjudicate"].handler = <<"etag", "body">>
        /\ Routes["adjudicate"].repository = <<"exists", "revision", "state">>
        /\ Routes["adjudicate"].effect = "edit" /\ Routes["adjudicate"].reread = FALSE
        /\ Routes["adjudicate"].custody = FALSE
    BY DEF Routes, Route, GrantRequestMember
  <2>2. <<"etag", "body">> \in Seq(CheckNames) /\ <<"exists", "revision", "state">> \in Seq(CheckNames)
    BY DEF CheckNames
  <2> QED
    BY <2>1, <2>2 DEF SoundRoute, EffectNames
<1>15. SoundRoute("http_grant")
  <2>1. /\ Routes["http_grant"].handler = <<"etag", "body">>
        /\ Routes["http_grant"].repository = <<"exists", "revision">>
        /\ Routes["http_grant"].effect = "edit" /\ Routes["http_grant"].reread = FALSE
        /\ Routes["http_grant"].custody = FALSE
    BY DEF Routes, Route, HTTPGrants
  <2>2. <<"etag", "body">> \in Seq(CheckNames) /\ <<"exists", "revision">> \in Seq(CheckNames)
    BY DEF CheckNames
  <2> QED
    BY <2>1, <2>2 DEF SoundRoute, EffectNames
<1>16. SoundRoute("create_http_credential")
  <2>1. /\ Routes["create_http_credential"].handler = <<"body">>
        /\ Routes["create_http_credential"].repository = <<"room">>
        /\ Routes["create_http_credential"].effect = "create"
        /\ Routes["create_http_credential"].reread = FALSE
        /\ Routes["create_http_credential"].custody = TRUE
    BY DEF Routes, Route, Creating, CreateHTTPCredential, InCustody, RotateHTTPCredential,
       HTTPCredentialMember
  <2>2. <<"body">> \in Seq(CheckNames) /\ <<"room">> \in Seq(CheckNames)
    BY DEF CheckNames
  <2> QED
    BY <2>1, <2>2 DEF SoundRoute, EffectNames
<1>17. SoundRoute("edit_http_credential")
  <2>1. /\ Routes["edit_http_credential"].handler = <<"etag", "body">>
        /\ Routes["edit_http_credential"].repository = <<"exists", "revision", "state">>
        /\ Routes["edit_http_credential"].effect = "edit"
        /\ Routes["edit_http_credential"].reread = FALSE
        /\ Routes["edit_http_credential"].custody = FALSE
    BY DEF Routes, Route, HTTPCredentialMember
  <2>2. <<"etag", "body">> \in Seq(CheckNames) /\ <<"exists", "revision", "state">> \in Seq(CheckNames)
    BY DEF CheckNames
  <2> QED
    BY <2>1, <2>2 DEF SoundRoute, EffectNames
<1>18. SoundRoute("rotate_http_credential")
  <2>1. /\ Routes["rotate_http_credential"].handler = <<"etag", "body">>
        /\ Routes["rotate_http_credential"].repository = <<"exists", "revision", "state">>
        /\ Routes["rotate_http_credential"].effect = "edit"
        /\ Routes["rotate_http_credential"].reread = FALSE
        /\ Routes["rotate_http_credential"].custody = TRUE
    BY DEF Routes, Route, InCustody, RotateHTTPCredential, HTTPCredentialMember
  <2>2. <<"etag", "body">> \in Seq(CheckNames) /\ <<"exists", "revision", "state">> \in Seq(CheckNames)
    BY DEF CheckNames
  <2> QED
    BY <2>1, <2>2 DEF SoundRoute, EffectNames
<1>19. SoundRoute("git_repository")
  <2>1. /\ Routes["git_repository"].handler = <<"etag", "body">>
        /\ Routes["git_repository"].repository = <<"exists", "revision", "state">>
        /\ Routes["git_repository"].effect = "edit" /\ Routes["git_repository"].reread = FALSE
        /\ Routes["git_repository"].custody = FALSE
    BY DEF Routes, Route, GitRepositories
  <2>2. <<"etag", "body">> \in Seq(CheckNames) /\ <<"exists", "revision", "state">> \in Seq(CheckNames)
    BY DEF CheckNames
  <2> QED
    BY <2>1, <2>2 DEF SoundRoute, EffectNames
<1>20. SoundRoute("git_grant")
  <2>1. /\ Routes["git_grant"].handler = <<"etag", "body">>
        /\ Routes["git_grant"].repository = <<"exists", "revision">>
        /\ Routes["git_grant"].effect = "edit" /\ Routes["git_grant"].reread = FALSE
        /\ Routes["git_grant"].custody = FALSE
    BY DEF Routes, Route, GitGrants
  <2>2. <<"etag", "body">> \in Seq(CheckNames) /\ <<"exists", "revision">> \in Seq(CheckNames)
    BY DEF CheckNames
  <2> QED
    BY <2>1, <2>2 DEF SoundRoute, EffectNames
<1>21. SoundRoute("git_profile")
  <2>1. /\ Routes["git_profile"].handler = <<"etag", "body">>
        /\ Routes["git_profile"].repository = <<"exists", "revision">>
        /\ Routes["git_profile"].effect = "edit" /\ Routes["git_profile"].reread = FALSE
        /\ Routes["git_profile"].custody = FALSE
    BY DEF Routes, Route, GitProfile
  <2>2. <<"etag", "body">> \in Seq(CheckNames) /\ <<"exists", "revision">> \in Seq(CheckNames)
    BY DEF CheckNames
  <2> QED
    BY <2>1, <2>2 DEF SoundRoute, EffectNames
<1>22. SoundRoute("edit_git_credential")
  <2>1. /\ Routes["edit_git_credential"].handler = <<"etag", "body">>
        /\ Routes["edit_git_credential"].repository = <<"exists", "revision", "state">>
        /\ Routes["edit_git_credential"].effect = "edit"
        /\ Routes["edit_git_credential"].reread = FALSE
        /\ Routes["edit_git_credential"].custody = FALSE
    BY DEF Routes, Route, GitCredential
  <2>2. <<"etag", "body">> \in Seq(CheckNames) /\ <<"exists", "revision", "state">> \in Seq(CheckNames)
    BY DEF CheckNames
  <2> QED
    BY <2>1, <2>2 DEF SoundRoute, EffectNames
<1>23. SoundRoute("rotate_git_credential")
  <2>1. /\ Routes["rotate_git_credential"].handler = <<"etag", "body">>
        /\ Routes["rotate_git_credential"].repository = <<"exists", "revision", "state">>
        /\ Routes["rotate_git_credential"].effect = "edit"
        /\ Routes["rotate_git_credential"].reread = FALSE
        /\ Routes["rotate_git_credential"].custody = TRUE
    BY DEF Routes, Route, InCustody, RotateGitCredential, GitCredential
  <2>2. <<"etag", "body">> \in Seq(CheckNames) /\ <<"exists", "revision", "state">> \in Seq(CheckNames)
    BY DEF CheckNames
  <2> QED
    BY <2>1, <2>2 DEF SoundRoute, EffectNames
<1>24. SoundRoute("create_git_credential")
  <2>1. /\ Routes["create_git_credential"].handler = <<"body">>
        /\ Routes["create_git_credential"].repository = <<"room">>
        /\ Routes["create_git_credential"].effect = "create"
        /\ Routes["create_git_credential"].reread = FALSE
        /\ Routes["create_git_credential"].custody = TRUE
    BY DEF Routes, Route, Creating, InCustody, RotateGitCredential, GitCredential
  <2>2. <<"body">> \in Seq(CheckNames) /\ <<"room">> \in Seq(CheckNames)
    BY DEF CheckNames
  <2> QED
    BY <2>1, <2>2 DEF SoundRoute, EffectNames
<1>25. SoundRoute("create_policy")
  <2>1. /\ Routes["create_policy"].handler = <<"body">>
        /\ Routes["create_policy"].repository = <<"room">>
        /\ Routes["create_policy"].effect = "create" /\ Routes["create_policy"].reread = FALSE
        /\ Routes["create_policy"].custody = FALSE
    BY DEF Routes, Route, Creating, HTTPGrants
  <2>2. <<"body">> \in Seq(CheckNames) /\ <<"room">> \in Seq(CheckNames)
    BY DEF CheckNames
  <2> QED
    BY <2>1, <2>2 DEF SoundRoute, EffectNames
<1>26. SoundRoute("create_admin")
  <2>1. /\ Routes["create_admin"].handler = <<"body">> /\ Routes["create_admin"].repository = <<"room">>
        /\ Routes["create_admin"].effect = "create" /\ Routes["create_admin"].reread = FALSE
        /\ Routes["create_admin"].custody = FALSE
    BY DEF Routes, Route, CreateAdminCredential
  <2>2. <<"body">> \in Seq(CheckNames) /\ <<"room">> \in Seq(CheckNames)
    BY DEF CheckNames
  <2> QED
    BY <2>1, <2>2 DEF SoundRoute, EffectNames
<1>27. SoundRoute("revoke_admin")
  <2>1. /\ Routes["revoke_admin"].handler = <<"body">>
        /\ Routes["revoke_admin"].repository = <<"exists", "state">>
        /\ Routes["revoke_admin"].effect = "none" /\ Routes["revoke_admin"].reread = FALSE
        /\ Routes["revoke_admin"].custody = FALSE
    BY DEF Routes, Route, RevokeAdminCredential
  <2>2. <<"body">> \in Seq(CheckNames) /\ <<"exists", "state">> \in Seq(CheckNames)
    BY DEF CheckNames
  <2> QED
    BY <2>1, <2>2 DEF SoundRoute, EffectNames
<1>28. SoundRoute("rotation_create")
  <2>1. /\ Routes["rotation_create"].handler = <<"body", "etag">>
        /\ Routes["rotation_create"].repository = <<"revision", "room">>
        /\ Routes["rotation_create"].effect = "replacement"
        /\ Routes["rotation_create"].reread = FALSE /\ Routes["rotation_create"].custody = FALSE
    BY DEF Routes, Route, CreateRotationCredential
  <2>2. <<"body", "etag">> \in Seq(CheckNames) /\ <<"revision", "room">> \in Seq(CheckNames)
    BY DEF CheckNames
  <2> QED
    BY <2>1, <2>2 DEF SoundRoute, EffectNames
<1>29. SoundRoute("rotation_complete")
  <2>1. /\ Routes["rotation_complete"].handler = <<"body", "etag">>
        /\ Routes["rotation_complete"].repository = <<"revision", "replaced">>
        /\ Routes["rotation_complete"].effect = "revoke"
        /\ Routes["rotation_complete"].reread = FALSE
        /\ Routes["rotation_complete"].custody = FALSE
    BY DEF Routes, Route, CompleteRotation
  <2>2. <<"body", "etag">> \in Seq(CheckNames) /\ <<"revision", "replaced">> \in Seq(CheckNames)
    BY DEF CheckNames
  <2> QED
    BY <2>1, <2>2 DEF SoundRoute, EffectNames
<1> QED
  BY RouteNames, <1>1, <1>2, <1>3, <1>4, <1>5, <1>6, <1>7, <1>8, <1>9, <1>10, <1>11, <1>12,
     <1>13, <1>14, <1>15, <1>16, <1>17, <1>18, <1>19, <1>20, <1>21, <1>22, <1>23, <1>24, <1>25,
     <1>26, <1>27, <1>28, <1>29

\* The routes that look for an idempotency record.
LEMMA KeyedRoutes == Has("create_server", "record") /\ Has("create_operation", "record")
<1>1. Routes["create_server"].repository = <<"record", "room">>
  BY DEF Routes, Route, Rereading, CreateServer, ServersCreate
<1>2. Routes["create_operation"].repository = <<"record", "revision", "exists", "state">>
  BY DEF Routes, Route, CreateOperation, ServersCreateOperation, AdmitExplicitOperation
<1> QED
  BY <1>1, <1>2 DEF Has

\* The routes on which forms send a precondition compare it in their transaction.
RevisionRoutes == {
    "delete_server", "create_operation", "create_flow", "replace_credential", "patch_server",
    "patch_principal", "principal_credential", "git_profile", "rotate_git_credential",
    "http_grant", "rotate_http_credential", "adjudicate"}
\* Each of those routes compares the revision in its transaction (repository.go, `stale`).
LEMMA RevisionRoutesCompare == \A r \in RevisionRoutes : Has(r, "revision")
<1>1. Has("delete_server", "revision")
  <2>1. Routes["delete_server"].repository = <<"revision", "gone">>
    BY DEF Routes, Route, Rereading, DeleteServer, ServersDelete
  <2> QED
    BY <2>1 DEF Has
<1>2. Has("create_operation", "revision")
  <2>1. Routes["create_operation"].repository = <<"record", "revision", "exists", "state">>
    BY DEF Routes, Route, CreateOperation, ServersCreateOperation, AdmitExplicitOperation
  <2> QED
    BY <2>1 DEF Has
<1>3. Has("create_flow", "revision")
  <2>1. Routes["create_flow"].repository = <<"revision", "exists", "state">>
    BY DEF Routes, Route, CreateAuthFlow
  <2> QED
    BY <2>1 DEF Has
<1>4. Has("replace_credential", "revision")
  <2>1. Routes["replace_credential"].repository = <<"exists", "revision", "state">>
    BY DEF Routes, Route, InCustody, ReplaceCredential
  <2> QED
    BY <2>1 DEF Has
<1>5. Has("patch_server", "revision")
  <2>1. Routes["patch_server"].repository = <<"revision", "exists", "state">>
    BY DEF Routes, Route, Rereading, PatchServer, ServersPatch
  <2> QED
    BY <2>1 DEF Has
<1>6. Has("patch_principal", "revision")
  <2>1. Routes["patch_principal"].repository = <<"exists", "revision">>
    BY DEF Routes, Route, PatchPrincipal
  <2> QED
    BY <2>1 DEF Has
<1>7. Has("principal_credential", "revision")
  <2>1. Routes["principal_credential"].repository = <<"exists", "revision", "state">>
    BY DEF Routes, Route, PrincipalCredential
  <2> QED
    BY <2>1 DEF Has
<1>8. Has("git_profile", "revision")
  <2>1. Routes["git_profile"].repository = <<"exists", "revision">>
    BY DEF Routes, Route, GitProfile
  <2> QED
    BY <2>1 DEF Has
<1>9. Has("rotate_git_credential", "revision")
  <2>1. Routes["rotate_git_credential"].repository = <<"exists", "revision", "state">>
    BY DEF Routes, Route, InCustody, RotateGitCredential, GitCredential
  <2> QED
    BY <2>1 DEF Has
<1>10. Has("http_grant", "revision")
  <2>1. Routes["http_grant"].repository = <<"exists", "revision">>
    BY DEF Routes, Route, HTTPGrants
  <2> QED
    BY <2>1 DEF Has
<1>11. Has("rotate_http_credential", "revision")
  <2>1. Routes["rotate_http_credential"].repository = <<"exists", "revision", "state">>
    BY DEF Routes, Route, InCustody, RotateHTTPCredential, HTTPCredentialMember
  <2> QED
    BY <2>1 DEF Has
<1>12. Has("adjudicate", "revision")
  <2>1. Routes["adjudicate"].repository = <<"exists", "revision", "state">>
    BY DEF Routes, Route, GrantRequestMember
  <2> QED
    BY <2>1 DEF Has
<1> QED
  BY <1>1, <1>2, <1>3, <1>4, <1>5, <1>6, <1>7, <1>8, <1>9, <1>10, <1>11, <1>12
     DEF RevisionRoutes

\* The completion of a rotation asks for an active replacement.
LEMMA CompletionReplaces == Has("rotation_complete", "replaced") /\ Routes["rotation_complete"].custody = FALSE
<1>1. /\ Routes["rotation_complete"].repository = <<"revision", "replaced">>
      /\ Routes["rotation_complete"].custody = FALSE
  BY DEF Routes, Route, CompleteRotation
<1> QED
  BY <1>1 DEF Has

SubmitsOnce(s) == \A i, j \in 1 .. Len(s) : s[i] = "submit" /\ s[j] = "submit" => i = j
KeyFirst(s) == \A i \in 1 .. Len(s) : s[i] = "key" => \E j \in 1 .. Len(s) : j >= i /\ s[j] = "submit"
Never(s, step) == \A i \in 1 .. Len(s) : s[i] # step
KeyedCommands == {"server_create", "operation_start"}

SoundSteps(n) ==
  LET s == CommandOf[n].steps IN
  /\ DOMAIN s = 1 .. Len(s) /\ Len(s) \in Nat \ {0}
  /\ SubmitsOnce(s) /\ KeyFirst(s)
  /\ n \in KeyedCommands \/ Never(s, "key")
  /\ n = "admin_credential_rotate" \/ Never(s, "complete")
SoundAnswers(n) ==
  LET first == CommandOf[n].routes[1]  unsure == CommandOf[n].unsure IN
  /\ first \in DOMAIN Routes /\ first # "rotation_complete"
  /\ n \in KeyedCommands => Has(first, "record")
  /\ n # "grant_update" => Unclear \subseteq unsure
  /\ n \notin {"credential_replace", "git_credential_rotate"} => "keyring_unavailable" \in unsure \/ ~Routes[first].custody

\* The names of the commands.
LEMMA CommandNames ==
  DOMAIN CommandOf = {
    "server_create", "server_update", "server_delete", "operation_start", "auth_flow_start",
    "auth_flow_cancel", "credential_replace", "principal_create", "principal_update",
    "principal_credential_rotate", "principal_credential_revoke", "grant_create", "grant_update",
    "grant_delete", "grant_request_approve", "grant_request_reject", "http_credential_rotate",
    "http_grant_update", "git_repository_update", "git_credential_rotate",
    "admin_credential_create", "admin_credential_revoke", "admin_credential_rotate"}
BY DEF CommandOf

\* Every command submits one decision, under a key only where the route keeps records, and takes
\* no answer for a failure that may be a success, unless it is one of the three that misjudge some.
LEMMA CommandsAreSound == \A n \in DOMAIN CommandOf : SoundSteps(n) /\ SoundAnswers(n)
<1>1. SoundSteps("server_create") /\ SoundAnswers("server_create")
  <2> DEFINE s == CommandOf["server_create"].steps
  <2>1. s = <<"intent", "bearer", "input", "key", "submit">>
    BY DEF CommandOf, Command, RunServerCreate
  <2>2. /\ CommandOf["server_create"].routes[1] = "create_server"
        /\ CommandOf["server_create"].unsure = Unclear
    BY DEF CommandOf, Command, RunServerCreate
  <2>3. "create_server" \in DOMAIN Routes /\ Routes["create_server"].custody = FALSE
    BY DEF Routes, Route, Rereading, CreateServer, ServersCreate
  <2>4. SoundSteps("server_create")
    <3> HIDE DEF s
    <3>1. DOMAIN s = 1 .. Len(s) /\ Len(s) \in Nat \ {0}
      BY <2>1
    <3>2. SubmitsOnce(s)
      BY <2>1 DEF SubmitsOnce
    <3>3. KeyFirst(s)
      BY <2>1 DEF KeyFirst
    <3>4. Never(s, "complete")
      BY <2>1 DEF Never
    <3> QED
      BY <3>1, <3>2, <3>3, <3>4 DEF SoundSteps, s, KeyedCommands
  <2>5. SoundAnswers("server_create")
    BY <2>2, <2>3, KeyedRoutes DEF SoundAnswers, Unclear, KeyedCommands
  <2> QED
    BY <2>4, <2>5
<1>2. SoundSteps("server_update") /\ SoundAnswers("server_update")
  <2> DEFINE s == CommandOf["server_update"].steps
  <2>1. s = <<"intent", "bearer", "input", "confirm", "etag", "submit">>
    BY DEF CommandOf, Command, RunServerUpdate
  <2>2. /\ CommandOf["server_update"].routes[1] = "patch_server"
        /\ CommandOf["server_update"].unsure = Unclear
    BY DEF CommandOf, Command, RunServerUpdate
  <2>3. "patch_server" \in DOMAIN Routes /\ Routes["patch_server"].custody = FALSE
    BY DEF Routes, Route, Rereading, PatchServer, ServersPatch
  <2>4. SoundSteps("server_update")
    <3> HIDE DEF s
    <3>1. DOMAIN s = 1 .. Len(s) /\ Len(s) \in Nat \ {0}
      BY <2>1
    <3>2. SubmitsOnce(s)
      BY <2>1 DEF SubmitsOnce
    <3>3. KeyFirst(s)
      BY <2>1 DEF KeyFirst
    <3>4. Never(s, "key")
      BY <2>1 DEF Never
    <3>5. Never(s, "complete")
      BY <2>1 DEF Never
    <3> QED
      BY <3>1, <3>2, <3>3, <3>4, <3>5 DEF SoundSteps, s, KeyedCommands
  <2>5. SoundAnswers("server_update")
    BY <2>2, <2>3 DEF SoundAnswers, Unclear, KeyedCommands
  <2> QED
    BY <2>4, <2>5
<1>3. SoundSteps("server_delete") /\ SoundAnswers("server_delete")
  <2> DEFINE s == CommandOf["server_delete"].steps
  <2>1. s = <<"intent", "bearer", "confirm", "etag", "submit">>
    BY DEF CommandOf, Command, RunServerDelete
  <2>2. /\ CommandOf["server_delete"].routes[1] = "delete_server"
        /\ CommandOf["server_delete"].unsure = Unclear
    BY DEF CommandOf, Command, RunServerDelete
  <2>3. "delete_server" \in DOMAIN Routes /\ Routes["delete_server"].custody = FALSE
    BY DEF Routes, Route, Rereading, DeleteServer, ServersDelete
  <2>4. SoundSteps("server_delete")
    <3> HIDE DEF s
    <3>1. DOMAIN s = 1 .. Len(s) /\ Len(s) \in Nat \ {0}
      BY <2>1
    <3>2. SubmitsOnce(s)
      BY <2>1 DEF SubmitsOnce
    <3>3. KeyFirst(s)
      BY <2>1 DEF KeyFirst
    <3>4. Never(s, "key")
      BY <2>1 DEF Never
    <3>5. Never(s, "complete")
      BY <2>1 DEF Never
    <3> QED
      BY <3>1, <3>2, <3>3, <3>4, <3>5 DEF SoundSteps, s, KeyedCommands
  <2>5. SoundAnswers("server_delete")
    BY <2>2, <2>3 DEF SoundAnswers, Unclear, KeyedCommands
  <2> QED
    BY <2>4, <2>5
<1>4. SoundSteps("operation_start") /\ SoundAnswers("operation_start")
  <2> DEFINE s == CommandOf["operation_start"].steps
  <2>1. s = <<"intent", "bearer", "input", "confirm", "key", "etag", "submit">>
    BY DEF CommandOf, Command, RunServerOperationStart
  <2>2. /\ CommandOf["operation_start"].routes[1] = "create_operation"
        /\ CommandOf["operation_start"].unsure = Unclear
    BY DEF CommandOf, Command, RunServerOperationStart
  <2>3. "create_operation" \in DOMAIN Routes /\ Routes["create_operation"].custody = FALSE
    BY DEF Routes, Route, CreateOperation, ServersCreateOperation, AdmitExplicitOperation
  <2>4. SoundSteps("operation_start")
    <3> HIDE DEF s
    <3>1. DOMAIN s = 1 .. Len(s) /\ Len(s) \in Nat \ {0}
      BY <2>1
    <3>2. SubmitsOnce(s)
      BY <2>1 DEF SubmitsOnce
    <3>3. KeyFirst(s)
      BY <2>1 DEF KeyFirst
    <3>4. Never(s, "complete")
      BY <2>1 DEF Never
    <3> QED
      BY <3>1, <3>2, <3>3, <3>4 DEF SoundSteps, s, KeyedCommands
  <2>5. SoundAnswers("operation_start")
    BY <2>2, <2>3, KeyedRoutes DEF SoundAnswers, Unclear, KeyedCommands
  <2> QED
    BY <2>4, <2>5
<1>5. SoundSteps("auth_flow_start") /\ SoundAnswers("auth_flow_start")
  <2> DEFINE s == CommandOf["auth_flow_start"].steps
  <2>1. s = <<"intent", "bearer", "sink", "etag", "submit", "publish">>
    BY DEF CommandOf, Command, RunAuthFlowStart
  <2>2. /\ CommandOf["auth_flow_start"].routes[1] = "create_flow"
        /\ CommandOf["auth_flow_start"].unsure = Unclear
    BY DEF CommandOf, Command, RunAuthFlowStart
  <2>3. "create_flow" \in DOMAIN Routes /\ Routes["create_flow"].custody = FALSE
    BY DEF Routes, Route, CreateAuthFlow
  <2>4. SoundSteps("auth_flow_start")
    <3> HIDE DEF s
    <3>1. DOMAIN s = 1 .. Len(s) /\ Len(s) \in Nat \ {0}
      BY <2>1
    <3>2. SubmitsOnce(s)
      BY <2>1 DEF SubmitsOnce
    <3>3. KeyFirst(s)
      BY <2>1 DEF KeyFirst
    <3>4. Never(s, "key")
      BY <2>1 DEF Never
    <3>5. Never(s, "complete")
      BY <2>1 DEF Never
    <3> QED
      BY <3>1, <3>2, <3>3, <3>4, <3>5 DEF SoundSteps, s, KeyedCommands
  <2>5. SoundAnswers("auth_flow_start")
    BY <2>2, <2>3 DEF SoundAnswers, Unclear, KeyedCommands
  <2> QED
    BY <2>4, <2>5
<1>6. SoundSteps("auth_flow_cancel") /\ SoundAnswers("auth_flow_cancel")
  <2> DEFINE s == CommandOf["auth_flow_cancel"].steps
  <2>1. s = <<"intent", "bearer", "item", "confirm", "submit">>
    BY DEF CommandOf, Command, RunAuthFlowCancel
  <2>2. /\ CommandOf["auth_flow_cancel"].routes[1] = "delete_flow"
        /\ CommandOf["auth_flow_cancel"].unsure = Unclear
    BY DEF CommandOf, Command, RunAuthFlowCancel
  <2>3. "delete_flow" \in DOMAIN Routes /\ Routes["delete_flow"].custody = FALSE
    BY DEF Routes, Route, DeleteAuthFlow
  <2>4. SoundSteps("auth_flow_cancel")
    <3> HIDE DEF s
    <3>1. DOMAIN s = 1 .. Len(s) /\ Len(s) \in Nat \ {0}
      BY <2>1
    <3>2. SubmitsOnce(s)
      BY <2>1 DEF SubmitsOnce
    <3>3. KeyFirst(s)
      BY <2>1 DEF KeyFirst
    <3>4. Never(s, "key")
      BY <2>1 DEF Never
    <3>5. Never(s, "complete")
      BY <2>1 DEF Never
    <3> QED
      BY <3>1, <3>2, <3>3, <3>4, <3>5 DEF SoundSteps, s, KeyedCommands
  <2>5. SoundAnswers("auth_flow_cancel")
    BY <2>2, <2>3 DEF SoundAnswers, Unclear, KeyedCommands
  <2> QED
    BY <2>4, <2>5
<1>7. SoundSteps("credential_replace") /\ SoundAnswers("credential_replace")
  <2> DEFINE s == CommandOf["credential_replace"].steps
  <2>1. s = <<"intent", "bearer", "input", "confirm", "etag", "submit">>
    BY DEF CommandOf, Command, RunCredentialReplace
  <2>2. /\ CommandOf["credential_replace"].routes[1] = "replace_credential"
        /\ CommandOf["credential_replace"].unsure = Unclear
    BY DEF CommandOf, Command, RunCredentialReplace
  <2>3. "replace_credential" \in DOMAIN Routes /\ Routes["replace_credential"].custody = TRUE
    BY DEF Routes, Route, InCustody, ReplaceCredential
  <2>4. SoundSteps("credential_replace")
    <3> HIDE DEF s
    <3>1. DOMAIN s = 1 .. Len(s) /\ Len(s) \in Nat \ {0}
      BY <2>1
    <3>2. SubmitsOnce(s)
      BY <2>1 DEF SubmitsOnce
    <3>3. KeyFirst(s)
      BY <2>1 DEF KeyFirst
    <3>4. Never(s, "key")
      BY <2>1 DEF Never
    <3>5. Never(s, "complete")
      BY <2>1 DEF Never
    <3> QED
      BY <3>1, <3>2, <3>3, <3>4, <3>5 DEF SoundSteps, s, KeyedCommands
  <2>5. SoundAnswers("credential_replace")
    BY <2>2, <2>3 DEF SoundAnswers, Unclear, KeyedCommands
  <2> QED
    BY <2>4, <2>5
<1>8. SoundSteps("principal_create") /\ SoundAnswers("principal_create")
  <2> DEFINE s == CommandOf["principal_create"].steps
  <2>1. s = <<"intent", "bearer", "input", "submit">>
    BY DEF CommandOf, Command, RunPrincipalCreate
  <2>2. /\ CommandOf["principal_create"].routes[1] = "create_principal"
        /\ CommandOf["principal_create"].unsure = Unclear
    BY DEF CommandOf, Command, RunPrincipalCreate
  <2>3. "create_principal" \in DOMAIN Routes /\ Routes["create_principal"].custody = FALSE
    BY DEF Routes, Route, CreatePrincipal
  <2>4. SoundSteps("principal_create")
    <3> HIDE DEF s
    <3>1. DOMAIN s = 1 .. Len(s) /\ Len(s) \in Nat \ {0}
      BY <2>1
    <3>2. SubmitsOnce(s)
      BY <2>1 DEF SubmitsOnce
    <3>3. KeyFirst(s)
      BY <2>1 DEF KeyFirst
    <3>4. Never(s, "key")
      BY <2>1 DEF Never
    <3>5. Never(s, "complete")
      BY <2>1 DEF Never
    <3> QED
      BY <3>1, <3>2, <3>3, <3>4, <3>5 DEF SoundSteps, s, KeyedCommands
  <2>5. SoundAnswers("principal_create")
    BY <2>2, <2>3 DEF SoundAnswers, Unclear, KeyedCommands
  <2> QED
    BY <2>4, <2>5
<1>9. SoundSteps("principal_update") /\ SoundAnswers("principal_update")
  <2> DEFINE s == CommandOf["principal_update"].steps
  <2>1. s = <<"intent", "bearer", "input", "confirm", "etag", "submit">>
    BY DEF CommandOf, Command, RunPrincipalUpdate
  <2>2. /\ CommandOf["principal_update"].routes[1] = "patch_principal"
        /\ CommandOf["principal_update"].unsure = Unclear
    BY DEF CommandOf, Command, RunPrincipalUpdate
  <2>3. "patch_principal" \in DOMAIN Routes /\ Routes["patch_principal"].custody = FALSE
    BY DEF Routes, Route, PatchPrincipal
  <2>4. SoundSteps("principal_update")
    <3> HIDE DEF s
    <3>1. DOMAIN s = 1 .. Len(s) /\ Len(s) \in Nat \ {0}
      BY <2>1
    <3>2. SubmitsOnce(s)
      BY <2>1 DEF SubmitsOnce
    <3>3. KeyFirst(s)
      BY <2>1 DEF KeyFirst
    <3>4. Never(s, "key")
      BY <2>1 DEF Never
    <3>5. Never(s, "complete")
      BY <2>1 DEF Never
    <3> QED
      BY <3>1, <3>2, <3>3, <3>4, <3>5 DEF SoundSteps, s, KeyedCommands
  <2>5. SoundAnswers("principal_update")
    BY <2>2, <2>3 DEF SoundAnswers, Unclear, KeyedCommands
  <2> QED
    BY <2>4, <2>5
<1>10. SoundSteps("principal_credential_rotate") /\ SoundAnswers("principal_credential_rotate")
  <2> DEFINE s == CommandOf["principal_credential_rotate"].steps
  <2>1. s = <<"intent", "bearer", "confirm", "sink", "item", "submit", "publish">>
    BY DEF CommandOf, Command, RunPrincipalCredential
  <2>2. /\ CommandOf["principal_credential_rotate"].routes[1] = "principal_credential"
        /\ CommandOf["principal_credential_rotate"].unsure = Unclear
    BY DEF CommandOf, Command, RunPrincipalCredential
  <2>3. "principal_credential" \in DOMAIN Routes /\ Routes["principal_credential"].custody = FALSE
    BY DEF Routes, Route, PrincipalCredential
  <2>4. SoundSteps("principal_credential_rotate")
    <3> HIDE DEF s
    <3>1. DOMAIN s = 1 .. Len(s) /\ Len(s) \in Nat \ {0}
      BY <2>1
    <3>2. SubmitsOnce(s)
      BY <2>1 DEF SubmitsOnce
    <3>3. KeyFirst(s)
      BY <2>1 DEF KeyFirst
    <3>4. Never(s, "key")
      BY <2>1 DEF Never
    <3>5. Never(s, "complete")
      BY <2>1 DEF Never
    <3> QED
      BY <3>1, <3>2, <3>3, <3>4, <3>5 DEF SoundSteps, s, KeyedCommands
  <2>5. SoundAnswers("principal_credential_rotate")
    BY <2>2, <2>3 DEF SoundAnswers, Unclear, KeyedCommands
  <2> QED
    BY <2>4, <2>5
<1>11. SoundSteps("principal_credential_revoke") /\ SoundAnswers("principal_credential_revoke")
  <2> DEFINE s == CommandOf["principal_credential_revoke"].steps
  <2>1. s = <<"intent", "bearer", "confirm", "etag", "submit">>
    BY DEF CommandOf, Command, RunPrincipalCredentialRevoke
  <2>2. /\ CommandOf["principal_credential_revoke"].routes[1] = "principal_credential"
        /\ CommandOf["principal_credential_revoke"].unsure = Unclear
    BY DEF CommandOf, Command, RunPrincipalCredentialRevoke
  <2>3. "principal_credential" \in DOMAIN Routes /\ Routes["principal_credential"].custody = FALSE
    BY DEF Routes, Route, PrincipalCredential
  <2>4. SoundSteps("principal_credential_revoke")
    <3> HIDE DEF s
    <3>1. DOMAIN s = 1 .. Len(s) /\ Len(s) \in Nat \ {0}
      BY <2>1
    <3>2. SubmitsOnce(s)
      BY <2>1 DEF SubmitsOnce
    <3>3. KeyFirst(s)
      BY <2>1 DEF KeyFirst
    <3>4. Never(s, "key")
      BY <2>1 DEF Never
    <3>5. Never(s, "complete")
      BY <2>1 DEF Never
    <3> QED
      BY <3>1, <3>2, <3>3, <3>4, <3>5 DEF SoundSteps, s, KeyedCommands
  <2>5. SoundAnswers("principal_credential_revoke")
    BY <2>2, <2>3 DEF SoundAnswers, Unclear, KeyedCommands
  <2> QED
    BY <2>4, <2>5
<1>12. SoundSteps("grant_create") /\ SoundAnswers("grant_create")
  <2> DEFINE s == CommandOf["grant_create"].steps
  <2>1. s = <<"intent", "bearer", "input", "submit">>
    BY DEF CommandOf, Command, RunGrantCreate
  <2>2. /\ CommandOf["grant_create"].routes[1] = "create_grant"
        /\ CommandOf["grant_create"].unsure = Unclear
    BY DEF CommandOf, Command, RunGrantCreate
  <2>3. "create_grant" \in DOMAIN Routes /\ Routes["create_grant"].custody = FALSE
    BY DEF Routes, Route, CreateGrant
  <2>4. SoundSteps("grant_create")
    <3> HIDE DEF s
    <3>1. DOMAIN s = 1 .. Len(s) /\ Len(s) \in Nat \ {0}
      BY <2>1
    <3>2. SubmitsOnce(s)
      BY <2>1 DEF SubmitsOnce
    <3>3. KeyFirst(s)
      BY <2>1 DEF KeyFirst
    <3>4. Never(s, "key")
      BY <2>1 DEF Never
    <3>5. Never(s, "complete")
      BY <2>1 DEF Never
    <3> QED
      BY <3>1, <3>2, <3>3, <3>4, <3>5 DEF SoundSteps, s, KeyedCommands
  <2>5. SoundAnswers("grant_create")
    BY <2>2, <2>3 DEF SoundAnswers, Unclear, KeyedCommands
  <2> QED
    BY <2>4, <2>5
<1>13. SoundSteps("grant_update") /\ SoundAnswers("grant_update")
  <2> DEFINE s == CommandOf["grant_update"].steps
  <2>1. s = <<"intent", "bearer", "input", "etag", "submit">>
    BY DEF CommandOf, Command, RunGrantUpdate
  <2>2. CommandOf["grant_update"].routes[1] = "patch_grant" /\ CommandOf["grant_update"].unsure = {}
    BY DEF CommandOf, Command, RunGrantUpdate
  <2>3. "patch_grant" \in DOMAIN Routes /\ Routes["patch_grant"].custody = FALSE
    BY DEF Routes, Route, PatchGrant
  <2>4. SoundSteps("grant_update")
    <3> HIDE DEF s
    <3>1. DOMAIN s = 1 .. Len(s) /\ Len(s) \in Nat \ {0}
      BY <2>1
    <3>2. SubmitsOnce(s)
      BY <2>1 DEF SubmitsOnce
    <3>3. KeyFirst(s)
      BY <2>1 DEF KeyFirst
    <3>4. Never(s, "key")
      BY <2>1 DEF Never
    <3>5. Never(s, "complete")
      BY <2>1 DEF Never
    <3> QED
      BY <3>1, <3>2, <3>3, <3>4, <3>5 DEF SoundSteps, s, KeyedCommands
  <2>5. SoundAnswers("grant_update")
    BY <2>2, <2>3 DEF SoundAnswers, Unclear, KeyedCommands
  <2> QED
    BY <2>4, <2>5
<1>14. SoundSteps("grant_delete") /\ SoundAnswers("grant_delete")
  <2> DEFINE s == CommandOf["grant_delete"].steps
  <2>1. s = <<"intent", "bearer", "confirm", "submit">>
    BY DEF CommandOf, Command, RunGrantDelete
  <2>2. /\ CommandOf["grant_delete"].routes[1] = "delete_grant"
        /\ CommandOf["grant_delete"].unsure = Unclear
    BY DEF CommandOf, Command, RunGrantDelete
  <2>3. "delete_grant" \in DOMAIN Routes /\ Routes["delete_grant"].custody = FALSE
    BY DEF Routes, Route, DeleteGrant
  <2>4. SoundSteps("grant_delete")
    <3> HIDE DEF s
    <3>1. DOMAIN s = 1 .. Len(s) /\ Len(s) \in Nat \ {0}
      BY <2>1
    <3>2. SubmitsOnce(s)
      BY <2>1 DEF SubmitsOnce
    <3>3. KeyFirst(s)
      BY <2>1 DEF KeyFirst
    <3>4. Never(s, "key")
      BY <2>1 DEF Never
    <3>5. Never(s, "complete")
      BY <2>1 DEF Never
    <3> QED
      BY <3>1, <3>2, <3>3, <3>4, <3>5 DEF SoundSteps, s, KeyedCommands
  <2>5. SoundAnswers("grant_delete")
    BY <2>2, <2>3 DEF SoundAnswers, Unclear, KeyedCommands
  <2> QED
    BY <2>4, <2>5
<1>15. SoundSteps("grant_request_approve") /\ SoundAnswers("grant_request_approve")
  <2> DEFINE s == CommandOf["grant_request_approve"].steps
  <2>1. s = <<"intent", "bearer", "input", "confirm", "item", "submit">>
    BY DEF CommandOf, Command, RunGrantRequestApprove
  <2>2. /\ CommandOf["grant_request_approve"].routes[1] = "adjudicate"
        /\ CommandOf["grant_request_approve"].unsure = Unclear \union {"keyring_unavailable"}
    BY DEF CommandOf, Command, RunGrantRequestApprove
  <2>3. "adjudicate" \in DOMAIN Routes /\ Routes["adjudicate"].custody = FALSE
    BY DEF Routes, Route, GrantRequestMember
  <2>4. SoundSteps("grant_request_approve")
    <3> HIDE DEF s
    <3>1. DOMAIN s = 1 .. Len(s) /\ Len(s) \in Nat \ {0}
      BY <2>1
    <3>2. SubmitsOnce(s)
      BY <2>1 DEF SubmitsOnce
    <3>3. KeyFirst(s)
      BY <2>1 DEF KeyFirst
    <3>4. Never(s, "key")
      BY <2>1 DEF Never
    <3>5. Never(s, "complete")
      BY <2>1 DEF Never
    <3> QED
      BY <3>1, <3>2, <3>3, <3>4, <3>5 DEF SoundSteps, s, KeyedCommands
  <2>5. SoundAnswers("grant_request_approve")
    BY <2>2, <2>3 DEF SoundAnswers, Unclear, KeyedCommands
  <2> QED
    BY <2>4, <2>5
<1>16. SoundSteps("grant_request_reject") /\ SoundAnswers("grant_request_reject")
  <2> DEFINE s == CommandOf["grant_request_reject"].steps
  <2>1. s = <<"intent", "bearer", "input", "confirm", "etag", "submit">>
    BY DEF CommandOf, Command, RunGrantRequestReject
  <2>2. /\ CommandOf["grant_request_reject"].routes[1] = "adjudicate"
        /\ CommandOf["grant_request_reject"].unsure = Unclear \union {"keyring_unavailable"}
    BY DEF CommandOf, Command, RunGrantRequestReject
  <2>3. "adjudicate" \in DOMAIN Routes /\ Routes["adjudicate"].custody = FALSE
    BY DEF Routes, Route, GrantRequestMember
  <2>4. SoundSteps("grant_request_reject")
    <3> HIDE DEF s
    <3>1. DOMAIN s = 1 .. Len(s) /\ Len(s) \in Nat \ {0}
      BY <2>1
    <3>2. SubmitsOnce(s)
      BY <2>1 DEF SubmitsOnce
    <3>3. KeyFirst(s)
      BY <2>1 DEF KeyFirst
    <3>4. Never(s, "key")
      BY <2>1 DEF Never
    <3>5. Never(s, "complete")
      BY <2>1 DEF Never
    <3> QED
      BY <3>1, <3>2, <3>3, <3>4, <3>5 DEF SoundSteps, s, KeyedCommands
  <2>5. SoundAnswers("grant_request_reject")
    BY <2>2, <2>3 DEF SoundAnswers, Unclear, KeyedCommands
  <2> QED
    BY <2>4, <2>5
<1>17. SoundSteps("http_credential_rotate") /\ SoundAnswers("http_credential_rotate")
  <2> DEFINE s == CommandOf["http_credential_rotate"].steps
  <2>1. s = <<"intent", "bearer", "input", "confirm", "etag", "submit">>
    BY DEF CommandOf, Command, RunHTTPCredential
  <2>2. /\ CommandOf["http_credential_rotate"].routes[1] = "rotate_http_credential"
        /\ CommandOf["http_credential_rotate"].unsure = Unclear \union {"keyring_unavailable"}
    BY DEF CommandOf, Command, RunHTTPCredential
  <2>3. "rotate_http_credential" \in DOMAIN Routes /\ Routes["rotate_http_credential"].custody = TRUE
    BY DEF Routes, Route, InCustody, RotateHTTPCredential, HTTPCredentialMember
  <2>4. SoundSteps("http_credential_rotate")
    <3> HIDE DEF s
    <3>1. DOMAIN s = 1 .. Len(s) /\ Len(s) \in Nat \ {0}
      BY <2>1
    <3>2. SubmitsOnce(s)
      BY <2>1 DEF SubmitsOnce
    <3>3. KeyFirst(s)
      BY <2>1 DEF KeyFirst
    <3>4. Never(s, "key")
      BY <2>1 DEF Never
    <3>5. Never(s, "complete")
      BY <2>1 DEF Never
    <3> QED
      BY <3>1, <3>2, <3>3, <3>4, <3>5 DEF SoundSteps, s, KeyedCommands
  <2>5. SoundAnswers("http_credential_rotate")
    BY <2>2, <2>3 DEF SoundAnswers, Unclear, KeyedCommands
  <2> QED
    BY <2>4, <2>5
<1>18. SoundSteps("http_grant_update") /\ SoundAnswers("http_grant_update")
  <2> DEFINE s == CommandOf["http_grant_update"].steps
  <2>1. s = <<"intent", "bearer", "input", "confirm", "etag", "submit">>
    BY DEF CommandOf, Command, RunHTTPPolicy
  <2>2. /\ CommandOf["http_grant_update"].routes[1] = "http_grant"
        /\ CommandOf["http_grant_update"].unsure = Unclear
    BY DEF CommandOf, Command, RunHTTPPolicy
  <2>3. "http_grant" \in DOMAIN Routes /\ Routes["http_grant"].custody = FALSE
    BY DEF Routes, Route, HTTPGrants
  <2>4. SoundSteps("http_grant_update")
    <3> HIDE DEF s
    <3>1. DOMAIN s = 1 .. Len(s) /\ Len(s) \in Nat \ {0}
      BY <2>1
    <3>2. SubmitsOnce(s)
      BY <2>1 DEF SubmitsOnce
    <3>3. KeyFirst(s)
      BY <2>1 DEF KeyFirst
    <3>4. Never(s, "key")
      BY <2>1 DEF Never
    <3>5. Never(s, "complete")
      BY <2>1 DEF Never
    <3> QED
      BY <3>1, <3>2, <3>3, <3>4, <3>5 DEF SoundSteps, s, KeyedCommands
  <2>5. SoundAnswers("http_grant_update")
    BY <2>2, <2>3 DEF SoundAnswers, Unclear, KeyedCommands
  <2> QED
    BY <2>4, <2>5
<1>19. SoundSteps("git_repository_update") /\ SoundAnswers("git_repository_update")
  <2> DEFINE s == CommandOf["git_repository_update"].steps
  <2>1. s = <<"intent", "bearer", "input", "confirm", "etag", "submit">>
    BY DEF CommandOf, Command, RunGitPolicy
  <2>2. /\ CommandOf["git_repository_update"].routes[1] = "git_repository"
        /\ CommandOf["git_repository_update"].unsure = Unclear
    BY DEF CommandOf, Command, RunGitPolicy
  <2>3. "git_repository" \in DOMAIN Routes /\ Routes["git_repository"].custody = FALSE
    BY DEF Routes, Route, GitRepositories
  <2>4. SoundSteps("git_repository_update")
    <3> HIDE DEF s
    <3>1. DOMAIN s = 1 .. Len(s) /\ Len(s) \in Nat \ {0}
      BY <2>1
    <3>2. SubmitsOnce(s)
      BY <2>1 DEF SubmitsOnce
    <3>3. KeyFirst(s)
      BY <2>1 DEF KeyFirst
    <3>4. Never(s, "key")
      BY <2>1 DEF Never
    <3>5. Never(s, "complete")
      BY <2>1 DEF Never
    <3> QED
      BY <3>1, <3>2, <3>3, <3>4, <3>5 DEF SoundSteps, s, KeyedCommands
  <2>5. SoundAnswers("git_repository_update")
    BY <2>2, <2>3 DEF SoundAnswers, Unclear, KeyedCommands
  <2> QED
    BY <2>4, <2>5
<1>20. SoundSteps("git_credential_rotate") /\ SoundAnswers("git_credential_rotate")
  <2> DEFINE s == CommandOf["git_credential_rotate"].steps
  <2>1. s = <<"intent", "bearer", "input", "confirm", "etag", "submit">>
    BY DEF CommandOf, Command, RunGitPolicy
  <2>2. /\ CommandOf["git_credential_rotate"].routes[1] = "rotate_git_credential"
        /\ CommandOf["git_credential_rotate"].unsure = Unclear
    BY DEF CommandOf, Command, RunGitPolicy
  <2>3. "rotate_git_credential" \in DOMAIN Routes /\ Routes["rotate_git_credential"].custody = TRUE
    BY DEF Routes, Route, InCustody, RotateGitCredential, GitCredential
  <2>4. SoundSteps("git_credential_rotate")
    <3> HIDE DEF s
    <3>1. DOMAIN s = 1 .. Len(s) /\ Len(s) \in Nat \ {0}
      BY <2>1
    <3>2. SubmitsOnce(s)
      BY <2>1 DEF SubmitsOnce
    <3>3. KeyFirst(s)
      BY <2>1 DEF KeyFirst
    <3>4. Never(s, "key")
      BY <2>1 DEF Never
    <3>5. Never(s, "complete")
      BY <2>1 DEF Never
    <3> QED
      BY <3>1, <3>2, <3>3, <3>4, <3>5 DEF SoundSteps, s, KeyedCommands
  <2>5. SoundAnswers("git_credential_rotate")
    BY <2>2, <2>3 DEF SoundAnswers, Unclear, KeyedCommands
  <2> QED
    BY <2>4, <2>5
<1>21. SoundSteps("admin_credential_create") /\ SoundAnswers("admin_credential_create")
  <2> DEFINE s == CommandOf["admin_credential_create"].steps
  <2>1. s = <<"intent", "bearer", "input", "sink", "submit", "publish">>
    BY DEF CommandOf, Command, RunAdminCredentialCreate
  <2>2. /\ CommandOf["admin_credential_create"].routes[1] = "create_admin"
        /\ CommandOf["admin_credential_create"].unsure = Unclear
    BY DEF CommandOf, Command, RunAdminCredentialCreate
  <2>3. "create_admin" \in DOMAIN Routes /\ Routes["create_admin"].custody = FALSE
    BY DEF Routes, Route, CreateAdminCredential
  <2>4. SoundSteps("admin_credential_create")
    <3> HIDE DEF s
    <3>1. DOMAIN s = 1 .. Len(s) /\ Len(s) \in Nat \ {0}
      BY <2>1
    <3>2. SubmitsOnce(s)
      BY <2>1 DEF SubmitsOnce
    <3>3. KeyFirst(s)
      BY <2>1 DEF KeyFirst
    <3>4. Never(s, "key")
      BY <2>1 DEF Never
    <3>5. Never(s, "complete")
      BY <2>1 DEF Never
    <3> QED
      BY <3>1, <3>2, <3>3, <3>4, <3>5 DEF SoundSteps, s, KeyedCommands
  <2>5. SoundAnswers("admin_credential_create")
    BY <2>2, <2>3 DEF SoundAnswers, Unclear, KeyedCommands
  <2> QED
    BY <2>4, <2>5
<1>22. SoundSteps("admin_credential_revoke") /\ SoundAnswers("admin_credential_revoke")
  <2> DEFINE s == CommandOf["admin_credential_revoke"].steps
  <2>1. s = <<"intent", "bearer", "confirm", "submit">>
    BY DEF CommandOf, Command, RunAdminCredentialRevoke
  <2>2. /\ CommandOf["admin_credential_revoke"].routes[1] = "revoke_admin"
        /\ CommandOf["admin_credential_revoke"].unsure = Unclear
    BY DEF CommandOf, Command, RunAdminCredentialRevoke
  <2>3. "revoke_admin" \in DOMAIN Routes /\ Routes["revoke_admin"].custody = FALSE
    BY DEF Routes, Route, RevokeAdminCredential
  <2>4. SoundSteps("admin_credential_revoke")
    <3> HIDE DEF s
    <3>1. DOMAIN s = 1 .. Len(s) /\ Len(s) \in Nat \ {0}
      BY <2>1
    <3>2. SubmitsOnce(s)
      BY <2>1 DEF SubmitsOnce
    <3>3. KeyFirst(s)
      BY <2>1 DEF KeyFirst
    <3>4. Never(s, "key")
      BY <2>1 DEF Never
    <3>5. Never(s, "complete")
      BY <2>1 DEF Never
    <3> QED
      BY <3>1, <3>2, <3>3, <3>4, <3>5 DEF SoundSteps, s, KeyedCommands
  <2>5. SoundAnswers("admin_credential_revoke")
    BY <2>2, <2>3 DEF SoundAnswers, Unclear, KeyedCommands
  <2> QED
    BY <2>4, <2>5
<1>23. SoundSteps("admin_credential_rotate") /\ SoundAnswers("admin_credential_rotate")
  <2> DEFINE s == CommandOf["admin_credential_rotate"].steps
  <2>1. s = <<"intent", "bearer", "old", "authority", "sink", "confirm", "submit", "write", "sync", "syncdir", "reopen", "verify", "complete", "final">>
    BY DEF CommandOf, Command, RunAdminCredentialRotate
  <2>2. /\ CommandOf["admin_credential_rotate"].routes[1] = "rotation_create"
        /\ CommandOf["admin_credential_rotate"].unsure = Unclear
    BY DEF CommandOf, Command, RunAdminCredentialRotate
  <2>3. "rotation_create" \in DOMAIN Routes /\ Routes["rotation_create"].custody = FALSE
    BY DEF Routes, Route, CreateRotationCredential
  <2>4. SoundSteps("admin_credential_rotate")
    <3> HIDE DEF s
    <3>1. DOMAIN s = 1 .. Len(s) /\ Len(s) \in Nat \ {0}
      BY <2>1
    <3>2. SubmitsOnce(s)
      BY <2>1 DEF SubmitsOnce
    <3>3. KeyFirst(s)
      BY <2>1 DEF KeyFirst
    <3>4. Never(s, "key")
      BY <2>1 DEF Never
    <3> QED
      BY <3>1, <3>2, <3>3, <3>4 DEF SoundSteps, s, KeyedCommands
  <2>5. SoundAnswers("admin_credential_rotate")
    BY <2>2, <2>3 DEF SoundAnswers, Unclear, KeyedCommands
  <2> QED
    BY <2>4, <2>5
<1> QED
  BY CommandNames, <1>1, <1>2, <1>3, <1>4, <1>5, <1>6, <1>7, <1>8, <1>9, <1>10, <1>11, <1>12,
     <1>13, <1>14, <1>15, <1>16, <1>17, <1>18, <1>19, <1>20, <1>21, <1>22, <1>23

\* The steps of a rotation, in their order.
LEMMA RotationSteps ==
  /\ CommandOf["admin_credential_rotate"].steps =
       <<"intent", "bearer", "old", "authority", "sink", "confirm", "submit",
         "write", "sync", "syncdir", "reopen", "verify", "complete", "final">>
  /\ CommandOf["admin_credential_rotate"].routes[2] = "rotation_complete"
BY DEF CommandOf, Command, RunAdminCredentialRotate

SoundForm(f) ==
  LET s == FormOf[f].routes IN
  /\ DOMAIN s = 1 .. Len(s) /\ Len(s) \in Nat \ {0}
  /\ \A i \in 1 .. Len(s) : /\ s[i] \in DOMAIN Routes /\ s[i] # "rotation_complete"
                            /\ FormOf[f].expected # "none" => Has(s[i], "revision")
  /\ FormOf[f].expected \in {"none", "live", "confirm", "held"} /\ (FormOf[f].expected = "confirm" => ~Reviewed(f))
  /\ FormOf[f].sink \in {"none", "oauth", "one_time"} /\ (FormOf[f].leaves => FormOf[f].sink = "none")

\* The names of the forms.
LEMMA FormNames ==
  DOMAIN FormOf = {
    "delete_server", "start_operation", "start_flow", "cancel_flow", "replace_credential",
    "create_server", "edit_server", "edit_principal", "issue_credential", "create_admin",
    "edit_routing", "rotate_git", "edit_http_grant", "rotate_http", "create_grant",
    "correct_grant", "adjudicate"}
BY DEF FormOf

\* Every form that holds a precondition sends it on a route that compares it; none that leaves its page shows a secret.
LEMMA FormsAreSound == \A f \in DOMAIN FormOf : SoundForm(f)
<1>1. SoundForm("delete_server")
  <2> DEFINE s == FormOf["delete_server"].routes
  <2>1. s = <<"delete_server">>
    BY DEF FormOf, Form, ServerDestructiveActions
  <2>2. /\ FormOf["delete_server"].expected = "live"
        /\ FormOf["delete_server"].leaves = TRUE /\ FormOf["delete_server"].sink = "none"
    BY DEF FormOf, Form, ServerDestructiveActions
  <2> HIDE DEF s
  <2>3. DOMAIN s = 1 .. Len(s) /\ Len(s) \in Nat \ {0}
    BY <2>1
  <2>4. \A i \in 1 .. Len(s) : s[i] \in DOMAIN Routes /\ s[i] # "rotation_complete"
    BY <2>1, RouteNames
  <2>5. \A i \in 1 .. Len(s) : Has(s[i], "revision")
    BY <2>1, RevisionRoutesCompare DEF RevisionRoutes
  <2> QED
    BY <2>2, <2>3, <2>4, <2>5 DEF SoundForm, s
<1>2. SoundForm("start_operation")
  <2> DEFINE s == FormOf["start_operation"].routes
  <2>1. s = <<"create_operation">>
    BY DEF FormOf, Form, OperationStarter
  <2>2. /\ FormOf["start_operation"].expected = "live"
        /\ FormOf["start_operation"].leaves = FALSE /\ FormOf["start_operation"].sink = "none"
    BY DEF FormOf, Form, OperationStarter
  <2> HIDE DEF s
  <2>3. DOMAIN s = 1 .. Len(s) /\ Len(s) \in Nat \ {0}
    BY <2>1
  <2>4. \A i \in 1 .. Len(s) : s[i] \in DOMAIN Routes /\ s[i] # "rotation_complete"
    BY <2>1, RouteNames
  <2>5. \A i \in 1 .. Len(s) : Has(s[i], "revision")
    BY <2>1, RevisionRoutesCompare DEF RevisionRoutes
  <2> QED
    BY <2>2, <2>3, <2>4, <2>5 DEF SoundForm, s
<1>3. SoundForm("start_flow")
  <2> DEFINE s == FormOf["start_flow"].routes
  <2>1. s = <<"create_flow">>
    BY DEF FormOf, Form, StartFlow
  <2>2. /\ FormOf["start_flow"].expected = "live"
        /\ FormOf["start_flow"].leaves = FALSE /\ FormOf["start_flow"].sink = "oauth"
    BY DEF FormOf, Form, StartFlow
  <2> HIDE DEF s
  <2>3. DOMAIN s = 1 .. Len(s) /\ Len(s) \in Nat \ {0}
    BY <2>1
  <2>4. \A i \in 1 .. Len(s) : s[i] \in DOMAIN Routes /\ s[i] # "rotation_complete"
    BY <2>1, RouteNames
  <2>5. \A i \in 1 .. Len(s) : Has(s[i], "revision")
    BY <2>1, RevisionRoutesCompare DEF RevisionRoutes
  <2> QED
    BY <2>2, <2>3, <2>4, <2>5 DEF SoundForm, s
<1>4. SoundForm("cancel_flow")
  <2> DEFINE s == FormOf["cancel_flow"].routes
  <2>1. s = <<"delete_flow">>
    BY DEF FormOf, Form, CancelFlow
  <2>2. /\ FormOf["cancel_flow"].expected = "none"
        /\ FormOf["cancel_flow"].leaves = FALSE /\ FormOf["cancel_flow"].sink = "none"
    BY DEF FormOf, Form, CancelFlow
  <2> HIDE DEF s
  <2>3. DOMAIN s = 1 .. Len(s) /\ Len(s) \in Nat \ {0}
    BY <2>1
  <2>4. \A i \in 1 .. Len(s) : s[i] \in DOMAIN Routes /\ s[i] # "rotation_complete"
    BY <2>1, RouteNames
  <2> QED
    BY <2>2, <2>3, <2>4 DEF SoundForm, s
<1>5. SoundForm("replace_credential")
  <2> DEFINE s == FormOf["replace_credential"].routes
  <2>1. s = <<"replace_credential">>
    BY DEF FormOf, Form, ReplacementForm
  <2>2. /\ FormOf["replace_credential"].expected = "confirm"
        /\ FormOf["replace_credential"].leaves = FALSE /\ FormOf["replace_credential"].sink = "none"
    BY DEF FormOf, Form, ReplacementForm
  <2> HIDE DEF s
  <2>3. DOMAIN s = 1 .. Len(s) /\ Len(s) \in Nat \ {0}
    BY <2>1
  <2>4. \A i \in 1 .. Len(s) : s[i] \in DOMAIN Routes /\ s[i] # "rotation_complete"
    BY <2>1, RouteNames
  <2>5. \A i \in 1 .. Len(s) : Has(s[i], "revision")
    BY <2>1, RevisionRoutesCompare DEF RevisionRoutes
  <2> QED
    BY <2>2, <2>3, <2>4, <2>5 DEF SoundForm, s, Reviewed
<1>6. SoundForm("create_server")
  <2> DEFINE s == FormOf["create_server"].routes
  <2>1. s = <<"create_server">>
    BY DEF FormOf, Form, ServerEditorCreate
  <2>2. /\ FormOf["create_server"].expected = "none"
        /\ FormOf["create_server"].leaves = TRUE /\ FormOf["create_server"].sink = "none"
    BY DEF FormOf, Form, ServerEditorCreate
  <2> HIDE DEF s
  <2>3. DOMAIN s = 1 .. Len(s) /\ Len(s) \in Nat \ {0}
    BY <2>1
  <2>4. \A i \in 1 .. Len(s) : s[i] \in DOMAIN Routes /\ s[i] # "rotation_complete"
    BY <2>1, RouteNames
  <2> QED
    BY <2>2, <2>3, <2>4 DEF SoundForm, s
<1>7. SoundForm("edit_server")
  <2> DEFINE s == FormOf["edit_server"].routes
  <2>1. s = <<"patch_server">>
    BY DEF FormOf, Form, ServerEditor
  <2>2. /\ FormOf["edit_server"].expected = "live"
        /\ FormOf["edit_server"].leaves = FALSE /\ FormOf["edit_server"].sink = "none"
    BY DEF FormOf, Form, ServerEditor
  <2> HIDE DEF s
  <2>3. DOMAIN s = 1 .. Len(s) /\ Len(s) \in Nat \ {0}
    BY <2>1
  <2>4. \A i \in 1 .. Len(s) : s[i] \in DOMAIN Routes /\ s[i] # "rotation_complete"
    BY <2>1, RouteNames
  <2>5. \A i \in 1 .. Len(s) : Has(s[i], "revision")
    BY <2>1, RevisionRoutesCompare DEF RevisionRoutes
  <2> QED
    BY <2>2, <2>3, <2>4, <2>5 DEF SoundForm, s
<1>8. SoundForm("edit_principal")
  <2> DEFINE s == FormOf["edit_principal"].routes
  <2>1. s = <<"patch_principal">>
    BY DEF FormOf, Form, PrincipalEditor
  <2>2. /\ FormOf["edit_principal"].expected = "held"
        /\ FormOf["edit_principal"].leaves = FALSE /\ FormOf["edit_principal"].sink = "none"
    BY DEF FormOf, Form, PrincipalEditor
  <2> HIDE DEF s
  <2>3. DOMAIN s = 1 .. Len(s) /\ Len(s) \in Nat \ {0}
    BY <2>1
  <2>4. \A i \in 1 .. Len(s) : s[i] \in DOMAIN Routes /\ s[i] # "rotation_complete"
    BY <2>1, RouteNames
  <2>5. \A i \in 1 .. Len(s) : Has(s[i], "revision")
    BY <2>1, RevisionRoutesCompare DEF RevisionRoutes
  <2> QED
    BY <2>2, <2>3, <2>4, <2>5 DEF SoundForm, s
<1>9. SoundForm("issue_credential")
  <2> DEFINE s == FormOf["issue_credential"].routes
  <2>1. s = <<"principal_credential">>
    BY DEF FormOf, Form, PrincipalCredentialActions
  <2>2. /\ FormOf["issue_credential"].expected = "live"
        /\ FormOf["issue_credential"].leaves = FALSE /\ FormOf["issue_credential"].sink = "one_time"
    BY DEF FormOf, Form, PrincipalCredentialActions
  <2> HIDE DEF s
  <2>3. DOMAIN s = 1 .. Len(s) /\ Len(s) \in Nat \ {0}
    BY <2>1
  <2>4. \A i \in 1 .. Len(s) : s[i] \in DOMAIN Routes /\ s[i] # "rotation_complete"
    BY <2>1, RouteNames
  <2>5. \A i \in 1 .. Len(s) : Has(s[i], "revision")
    BY <2>1, RevisionRoutesCompare DEF RevisionRoutes
  <2> QED
    BY <2>2, <2>3, <2>4, <2>5 DEF SoundForm, s
<1>10. SoundForm("create_admin")
  <2> DEFINE s == FormOf["create_admin"].routes
  <2>1. s = <<"create_admin">>
    BY DEF FormOf, Form, AdminCredentials
  <2>2. /\ FormOf["create_admin"].expected = "none"
        /\ FormOf["create_admin"].leaves = FALSE /\ FormOf["create_admin"].sink = "one_time"
    BY DEF FormOf, Form, AdminCredentials
  <2> HIDE DEF s
  <2>3. DOMAIN s = 1 .. Len(s) /\ Len(s) \in Nat \ {0}
    BY <2>1
  <2>4. \A i \in 1 .. Len(s) : s[i] \in DOMAIN Routes /\ s[i] # "rotation_complete"
    BY <2>1, RouteNames
  <2> QED
    BY <2>2, <2>3, <2>4 DEF SoundForm, s
<1>11. SoundForm("edit_routing")
  <2> DEFINE s == FormOf["edit_routing"].routes
  <2>1. s = <<"git_profile">>
    BY DEF FormOf, Form, RoutingEditor
  <2>2. /\ FormOf["edit_routing"].expected = "held"
        /\ FormOf["edit_routing"].leaves = FALSE /\ FormOf["edit_routing"].sink = "none"
    BY DEF FormOf, Form, RoutingEditor
  <2> HIDE DEF s
  <2>3. DOMAIN s = 1 .. Len(s) /\ Len(s) \in Nat \ {0}
    BY <2>1
  <2>4. \A i \in 1 .. Len(s) : s[i] \in DOMAIN Routes /\ s[i] # "rotation_complete"
    BY <2>1, RouteNames
  <2>5. \A i \in 1 .. Len(s) : Has(s[i], "revision")
    BY <2>1, RevisionRoutesCompare DEF RevisionRoutes
  <2> QED
    BY <2>2, <2>3, <2>4, <2>5 DEF SoundForm, s
<1>12. SoundForm("rotate_git")
  <2> DEFINE s == FormOf["rotate_git"].routes
  <2>1. s = <<"rotate_git_credential">>
    BY DEF FormOf, Form, GitEditor
  <2>2. /\ FormOf["rotate_git"].expected = "held"
        /\ FormOf["rotate_git"].leaves = FALSE /\ FormOf["rotate_git"].sink = "none"
    BY DEF FormOf, Form, GitEditor
  <2> HIDE DEF s
  <2>3. DOMAIN s = 1 .. Len(s) /\ Len(s) \in Nat \ {0}
    BY <2>1
  <2>4. \A i \in 1 .. Len(s) : s[i] \in DOMAIN Routes /\ s[i] # "rotation_complete"
    BY <2>1, RouteNames
  <2>5. \A i \in 1 .. Len(s) : Has(s[i], "revision")
    BY <2>1, RevisionRoutesCompare DEF RevisionRoutes
  <2> QED
    BY <2>2, <2>3, <2>4, <2>5 DEF SoundForm, s
<1>13. SoundForm("edit_http_grant")
  <2> DEFINE s == FormOf["edit_http_grant"].routes
  <2>1. s = <<"http_grant">>
    BY DEF FormOf, Form, GrantEditor, UsePolicyMutation
  <2>2. /\ FormOf["edit_http_grant"].expected = "held"
        /\ FormOf["edit_http_grant"].leaves = FALSE /\ FormOf["edit_http_grant"].sink = "none"
    BY DEF FormOf, Form, GrantEditor, UsePolicyMutation
  <2> HIDE DEF s
  <2>3. DOMAIN s = 1 .. Len(s) /\ Len(s) \in Nat \ {0}
    BY <2>1
  <2>4. \A i \in 1 .. Len(s) : s[i] \in DOMAIN Routes /\ s[i] # "rotation_complete"
    BY <2>1, RouteNames
  <2>5. \A i \in 1 .. Len(s) : Has(s[i], "revision")
    BY <2>1, RevisionRoutesCompare DEF RevisionRoutes
  <2> QED
    BY <2>2, <2>3, <2>4, <2>5 DEF SoundForm, s
<1>14. SoundForm("rotate_http")
  <2> DEFINE s == FormOf["rotate_http"].routes
  <2>1. s = <<"rotate_http_credential">>
    BY DEF FormOf, Form, CredentialEditor
  <2>2. /\ FormOf["rotate_http"].expected = "held"
        /\ FormOf["rotate_http"].leaves = FALSE /\ FormOf["rotate_http"].sink = "none"
    BY DEF FormOf, Form, CredentialEditor
  <2> HIDE DEF s
  <2>3. DOMAIN s = 1 .. Len(s) /\ Len(s) \in Nat \ {0}
    BY <2>1
  <2>4. \A i \in 1 .. Len(s) : s[i] \in DOMAIN Routes /\ s[i] # "rotation_complete"
    BY <2>1, RouteNames
  <2>5. \A i \in 1 .. Len(s) : Has(s[i], "revision")
    BY <2>1, RevisionRoutesCompare DEF RevisionRoutes
  <2> QED
    BY <2>2, <2>3, <2>4, <2>5 DEF SoundForm, s
<1>15. SoundForm("create_grant")
  <2> DEFINE s == FormOf["create_grant"].routes
  <2>1. s = <<"create_grant">>
    BY DEF FormOf, Form, GrantCreate
  <2>2. /\ FormOf["create_grant"].expected = "none"
        /\ FormOf["create_grant"].leaves = TRUE /\ FormOf["create_grant"].sink = "none"
    BY DEF FormOf, Form, GrantCreate
  <2> HIDE DEF s
  <2>3. DOMAIN s = 1 .. Len(s) /\ Len(s) \in Nat \ {0}
    BY <2>1
  <2>4. \A i \in 1 .. Len(s) : s[i] \in DOMAIN Routes /\ s[i] # "rotation_complete"
    BY <2>1, RouteNames
  <2> QED
    BY <2>2, <2>3, <2>4 DEF SoundForm, s
<1>16. SoundForm("correct_grant")
  <2> DEFINE s == FormOf["correct_grant"].routes
  <2>1. s = <<"create_grant", "delete_grant">>
    BY DEF FormOf, Form, GrantActions
  <2>2. /\ FormOf["correct_grant"].expected = "none"
        /\ FormOf["correct_grant"].leaves = FALSE /\ FormOf["correct_grant"].sink = "none"
    BY DEF FormOf, Form, GrantActions
  <2> HIDE DEF s
  <2>3. DOMAIN s = 1 .. Len(s) /\ Len(s) \in Nat \ {0}
    BY <2>1
  <2>4. \A i \in 1 .. Len(s) : s[i] \in DOMAIN Routes /\ s[i] # "rotation_complete"
    BY <2>1, RouteNames
  <2> QED
    BY <2>2, <2>3, <2>4 DEF SoundForm, s
<1>17. SoundForm("adjudicate")
  <2> DEFINE s == FormOf["adjudicate"].routes
  <2>1. s = <<"adjudicate">>
    BY DEF FormOf, Form, RequestActions
  <2>2. /\ FormOf["adjudicate"].expected = "live"
        /\ FormOf["adjudicate"].leaves = FALSE /\ FormOf["adjudicate"].sink = "none"
    BY DEF FormOf, Form, RequestActions
  <2> HIDE DEF s
  <2>3. DOMAIN s = 1 .. Len(s) /\ Len(s) \in Nat \ {0}
    BY <2>1
  <2>4. \A i \in 1 .. Len(s) : s[i] \in DOMAIN Routes /\ s[i] # "rotation_complete"
    BY <2>1, RouteNames
  <2>5. \A i \in 1 .. Len(s) : Has(s[i], "revision")
    BY <2>1, RevisionRoutesCompare DEF RevisionRoutes
  <2> QED
    BY <2>2, <2>3, <2>4, <2>5 DEF SoundForm, s
<1> QED
  BY FormNames, <1>1, <1>2, <1>3, <1>4, <1>5, <1>6, <1>7, <1>8, <1>9, <1>10, <1>11, <1>12,
     <1>13, <1>14, <1>15, <1>16, <1>17

\* No form has the name of a command.
LEMMA NamesDiffer == DOMAIN FormOf \cap DOMAIN CommandOf = {}
BY FormNames, CommandNames
-----------------------------------------------------------------------------
(* The service of a request. *)

\* What a check may say: lookupIdempotency and the tombstone of a deleted server are all that replays.
LEMMA VerdictFacts ==
  ASSUME NEW check, NEW x
  PROVE  /\ Verdicts(check, x) \subseteq {"pass", "invalid", "stale", "conflict", "replay", "missing"}
         /\ "replay" \in Verdicts(check, x) => x.key \in DOMAIN records \/ target.gone
BY DEF Verdicts, Body, Precondition, IdempotencyKey, LookupIdempotency, Revision

\* How a request can end; a commit has passed every check of its transaction.
LEMMA EndsFacts ==
  ASSUME NEW r \in DOMAIN Routes, NEW x
  PROVE  /\ Ends(Routes[r], x) \subseteq {"invalid", "stale", "conflict", "replay", "missing", "commit"}
         /\ "replay" \in Ends(Routes[r], x) => x.key \in DOMAIN records \/ target.gone
         /\ "commit" \in Ends(Routes[r], x) => \A check : Has(r, check) => "pass" \in Verdicts(check, x)
<1> DEFINE h == Routes[r].handler
           q == Routes[r].repository
           checks == h \o q
           Passes(n) == \A k \in 1 .. n : "pass" \in Verdicts(checks[k], x)
           reached == {n \in 1 .. Len(checks) : Passes(n - 1)}
           refusals == UNION {Verdicts(checks[k], x) \ {"pass"} : k \in reached}
<1>1. Ends(Routes[r], x) = refusals \union (IF Passes(Len(checks)) THEN {"commit"} ELSE {})
  BY DEF Ends
<1>2. \A e \in refusals : \E k \in reached : e \in Verdicts(checks[k], x) \ {"pass"}
  BY Zenon
<1>3. \A e \in refusals : e \in {"invalid", "stale", "conflict", "replay", "missing"}
  BY <1>2, VerdictFacts, Zenon
<1>4. "replay" \in refusals => x.key \in DOMAIN records \/ target.gone
  BY <1>2, VerdictFacts, Zenon
<1>5. ASSUME Passes(Len(checks)), NEW check, Has(r, check)
      PROVE  "pass" \in Verdicts(check, x)
  <2>1. h \in Seq(CheckNames) /\ q \in Seq(CheckNames)
    BY EveryRouteIsSound, Zenon DEF SoundRoute
  <2>2. PICK k \in 1 .. Len(q) : q[k] = check
    BY <1>5 DEF Has
  <2>3. Len(h) + k \in 1 .. Len(checks) /\ checks[Len(h) + k] = check
    <3> HIDE DEF h, q
    <3> QED
      BY <2>1, <2>2
  <2> HIDE DEF checks
  <2> QED
    BY <1>5, <2>3
<1>6. "commit" \notin refusals
  BY <1>3, Zenon
<1> HIDE DEF refusals, Passes
<1> QED
  BY <1>1, <1>3, <1>4, <1>5, <1>6, Zenon
\* What is known of a request and of its attempt.
LEMMA RequestFacts ==
  ASSUME WriteInv, NEW n \in DOMAIN requests
  PROVE  /\ requests[n] \in RequestSet /\ LinkedAt(n) /\ AnswerAt(n) /\ n \in Nat
         /\ requests[n].attempt \in DOMAIN attempts /\ attempts[requests[n].attempt] \in AttemptSet
<1>1. requests[n] \in RequestSet /\ n \in Nat
  BY DEF WriteInv, WriteType
<1>2. LinkedAt(n) /\ AnswerAt(n)
  BY DEF WriteInv, Linked, AnswersFit
<1>3. requests[n].attempt \in DOMAIN attempts
  BY <1>2 DEF LinkedAt
<1>4. attempts[requests[n].attempt] \in AttemptSet
  BY <1>3 DEF WriteInv, WriteType
<1> QED
  BY <1>1, <1>2, <1>3, <1>4

\* A request is answered, or found carried out, and nothing else changes.
LEMMA Answering ==
  ASSUME WriteInv, NEW n \in DOMAIN requests, NEW y \in RequestSet,
         requests[n].stage # "answered", y.stage # "sent",
         y.attempt = requests[n].attempt, y.route = requests[n].route,
         y.etag = requests[n].etag, y.key = requests[n].key,
         y.stage = "answered" => y.answer \in AnswerSet,
         Succeeded(y) => (\E c \in carried : c.attempt = y.attempt) \/ target.gone,
         Definite(y) => \A c \in carried : c.request # n,
         y.stage = "answered" /\ y.answer.code = "keyring_unavailable" => Routes[y.route].custody,
         y.stage = "answered" => (y.answer.code = "ok" <=> y.answer.kind = "ok"),
         requests' = [requests EXCEPT ![n] = y], latched' \in BOOLEAN,
         UNCHANGED <<target, records, lapsed, attempts, carried>>
  PROVE  WriteInv'
<1>1. requests' \in Seq(RequestSet) /\ DOMAIN requests' = DOMAIN requests /\ requests'[n] = y
      /\ \A m \in DOMAIN requests : m # n => requests'[m] = requests[m]
  BY DEF WriteInv, WriteType
<1>2. \A m \in DOMAIN requests : /\ requests'[m].attempt = requests[m].attempt /\ requests'[m].route = requests[m].route
                                 /\ requests'[m].etag = requests[m].etag
                                 /\ requests'[m].key = requests[m].key
                                 /\ requests[m].stage # "sent" => requests'[m].stage # "sent"
  BY <1>1
<1>3. WriteType'
  BY <1>1 DEF WriteInv, WriteType
<1>4. Linked'
  <2> SUFFICES ASSUME NEW m \in DOMAIN requests PROVE LinkedAt(m)'
    BY <1>1 DEF Linked
  <2>1. LinkedAt(m)
    BY DEF WriteInv, Linked
  <2> QED
    BY <2>1, <1>1, <1>2 DEF LinkedAt
<1>5. Keyed'
  BY DEF WriteInv, Keyed, Has
<1>6. SentOnce'
  BY <1>1, <1>2 DEF WriteInv, SentOnce
<1>7. CarriedFits'
  <2> SUFFICES ASSUME NEW c \in carried PROVE CarriedAt(c)'
    BY DEF CarriedFits
  <2>1. CarriedAt(c)
    BY DEF WriteInv, CarriedFits
  <2> QED
    BY <2>1, <1>1, <1>2 DEF CarriedAt, Has
<1>8. AtMostOne' /\ RecordsFit'
  BY DEF WriteInv, AtMostOne, RecordsFit
<1>9. AnswersFit'
  <2> SUFFICES ASSUME NEW m \in DOMAIN requests PROVE AnswerAt(m)'
    BY <1>1 DEF AnswersFit
  <2>1. CASE m = n
    BY <2>1, <1>1 DEF AnswerAt, Succeeded, Definite
  <2>2. CASE m # n
    <3>1. AnswerAt(m) /\ requests'[m] = requests[m]
      BY <2>2, <1>1 DEF WriteInv, AnswersFit
    <3> QED
      BY <3>1 DEF AnswerAt, Succeeded, Definite
  <2> QED
    BY <2>1, <2>2
<1>10. ToldFits'
  <2> SUFFICES ASSUME NEW a \in DOMAIN attempts PROVE ToldAt(a)'
    BY DEF ToldFits
  <2>1. ToldAt(a)
    BY DEF WriteInv, ToldFits
  <2>2. \A m \in DOMAIN requests : Ground(attempts[a], requests[m]) => requests'[m] = requests[m]
    BY <1>1 DEF Ground, Definite
  <2>3. \A m \in DOMAIN requests : requests[m].attempt = a /\ Ground(attempts[a], requests[m])
          => requests'[m].attempt = a /\ Ground(attempts[a], requests[m])'
    BY <2>2 DEF Ground, Definite, Misjudges
  <2> QED
    BY <2>1, <2>3, <1>1 DEF ToldAt
<1>11. RevokedBy'
  <2>1. \A c \in carried : c.request \in DOMAIN requests
    BY DEF WriteInv, CarriedFits, CarriedAt
  <2> QED
    BY <2>1, <1>2 DEF WriteInv, RevokedBy
<1> QED
  BY <1>3, <1>4, <1>5, <1>6, <1>7, <1>8, <1>9, <1>10, <1>11 DEF WriteInv

\* Only the resource changes, and no credential comes back.
LEMMA Retargeting ==
  ASSUME WriteInv, target' \in TargetSet, target'.gone = target.gone, target'.old = target.old,
         target.new # "none" => target'.new # "none",
         UNCHANGED <<records, lapsed, requests, attempts, carried, latched>>
  PROVE  WriteInv'
<1>1. WriteType' /\ Linked' /\ Keyed' /\ SentOnce'
  BY DEF WriteInv, WriteType, Linked, LinkedAt, Keyed, SentOnce, Has
<1>2. CarriedFits' /\ AtMostOne' /\ RecordsFit'
  BY DEF WriteInv, CarriedFits, CarriedAt, AtMostOne, RecordsFit, Has
<1>3. AnswersFit'
  BY DEF WriteInv, AnswersFit, AnswerAt, Succeeded, Definite
<1>4. ToldFits'
  BY DEF WriteInv, ToldFits, ToldAt, Ground, Definite, Misjudges
<1>5. RevokedBy'
  BY DEF WriteInv, RevokedBy
<1> QED
  BY <1>1, <1>2, <1>3, <1>4, <1>5 DEF WriteInv

\* Nothing of the gateway or of its clients' decisions changes.
LEMMA Stuttering ==
  ASSUME WriteInv, UNCHANGED writeVars
  PROVE  WriteInv'
<1>1. WriteType' /\ Linked' /\ Keyed' /\ SentOnce'
  BY DEF writeVars, WriteInv, WriteType, Linked, LinkedAt, Keyed, SentOnce, Has
<1>2. CarriedFits' /\ AtMostOne' /\ RecordsFit'
  BY DEF writeVars, WriteInv, CarriedFits, CarriedAt, AtMostOne, RecordsFit, Has
<1>3. AnswersFit'
  BY DEF writeVars, WriteInv, AnswersFit, AnswerAt, Succeeded, Definite
<1>4. ToldFits'
  BY DEF writeVars, WriteInv, ToldFits, ToldAt, Ground, Definite, Misjudges
<1>5. RevokedBy'
  BY DEF writeVars, WriteInv, RevokedBy
<1> QED
  BY <1>1, <1>2, <1>3, <1>4, <1>5 DEF WriteInv

\* The answers are well formed.
LEMMA AnswerFacts ==
  ASSUME NEW n \in DOMAIN requests, requests[n] \in RequestSet, NEW ans \in AnswerSet
  PROVE  LET y == Answered(requests[n], ans) IN
         /\ y \in RequestSet /\ y.stage = "answered" /\ y.answer = ans
         /\ y.attempt = requests[n].attempt /\ y.route = requests[n].route
         /\ y.etag = requests[n].etag /\ y.key = requests[n].key
BY DEF Answered, RequestSet

\* The answers that refuse, replay and fail: their kinds and codes.
LEMMA AnswerKinds ==
  /\ \A code \in Codes : Problem(code) \in AnswerSet /\ Problem(code).kind = "problem" /\ Problem(code).code = code
  /\ \A rev \in Nat : Success(rev) \in AnswerSet /\ Success(rev).kind = "ok" /\ Success(rev).code = "ok"
  /\ StorageUnavailable \in AnswerSet /\ StorageUnavailable.kind = "problem"
  /\ StorageUnavailable.code = "storage_unavailable"
BY DEF Problem, Success, StorageUnavailable, AnswerSet, Codes

\* What becomes of a problem that is recorded: itself or storage_unavailable.
LEMMA RecordedFacts ==
  ASSUME NEW r, NEW code \in Codes, NEW broken, NEW ans \in RecordProblem(r, code, broken)
  PROVE  /\ ans \in AnswerSet /\ ans.kind = "problem" /\ ans.code \in {code, "storage_unavailable"}
         /\ broken /\ r \notin Unaudited => ans.code = "storage_unavailable"
<1>1. ans \in {Problem(code), StorageUnavailable}
  BY Zenon DEF RecordProblem
<1>2. broken /\ r \notin Unaudited => ans = StorageUnavailable
  BY DEF RecordProblem
<1> QED
  BY <1>1, <1>2, AnswerKinds

\* An error nobody names, answered by a gateway whose store may have latched.
LEMMA UnnamedFacts ==
  ASSUME NEW r, NEW broken, NEW ans \in RecordProblem(r, Unnamed(r), broken)
  PROVE  /\ ans \in AnswerSet /\ ans.kind = "problem"
         /\ ans.code \in {"storage_unavailable", "authorization_unavailable"}
         /\ broken /\ ans.code = "authorization_unavailable" => r \in Policies \intersect Unaudited
<1>1. Unnamed(r) \in Codes /\ Unnamed(r) \in {"storage_unavailable", "authorization_unavailable"}
      /\ (Unnamed(r) = "authorization_unavailable" => r \in Policies)
  BY DEF Unnamed, Codes
<1>2. /\ ans \in AnswerSet /\ ans.kind = "problem" /\ ans.code \in {Unnamed(r), "storage_unavailable"}
      /\ broken /\ r \notin Unaudited => ans.code = "storage_unavailable"
  BY <1>1, RecordedFacts
<1> QED
  BY <1>1, <1>2

\* A failure of the keyring, where there is one.
LEMMA KeyringFacts ==
  ASSUME NEW x, NEW ans \in KeyringUnavailable(x)
  PROVE  /\ ans \in AnswerSet /\ ans.kind = "problem" /\ Routes[x.route].custody
         /\ ans.code \in {"storage_unavailable", "keyring_unavailable"}
<1>1. Routes[x.route].custody /\ ans \in RecordProblem(x.route, "keyring_unavailable", latched)
  BY DEF KeyringUnavailable
<1>2. "keyring_unavailable" \in Codes
  BY DEF Codes
<1> QED
  BY <1>1, <1>2, RecordedFacts

\* A check of the handler or of the transaction refuses the request.
LEMMA RefuseKeeps ==
  ASSUME WriteInv, NEW n \in DOMAIN requests, Refuse(n)
  PROVE  WriteInv'
<1> DEFINE x == requests[n]
<1>1. x \in RequestSet /\ x.stage = "sent" /\ x.route \in DOMAIN Routes
  BY RequestFacts DEF Refuse, RequestSet
<1>2. PICK code \in Ends(Routes[x.route], x) \ {"commit", "replay"} : \E ans \in RecordProblem(x.route, code, latched) :
        requests' = [requests EXCEPT ![n] = Answered(x, ans)]
  BY DEF Refuse
<1>3. code \in {"invalid", "stale", "conflict", "missing"}
  BY <1>1, <1>2, EndsFacts, Zenon
<1>4. code \in Codes
  BY <1>3 DEF Codes
<1>9. PICK ans \in RecordProblem(x.route, code, latched) : requests' = [requests EXCEPT ![n] = Answered(x, ans)]
  BY <1>2
<1> DEFINE y == Answered(x, ans)
<1>5. ans \in AnswerSet /\ ans.kind = "problem" /\ ans.code \in {code, "storage_unavailable"}
  <2> DEFINE r == x.route
  <2>1. ans \in RecordProblem(r, code, latched)
    BY <1>9
  <2> HIDE DEF r
  <2> QED
    BY <1>4, <2>1, RecordedFacts
<1>6. /\ y \in RequestSet /\ y.stage = "answered" /\ y.answer = ans
      /\ y.attempt = x.attempt /\ y.route = x.route /\ y.etag = x.etag /\ y.key = x.key
  BY <1>1, <1>5, AnswerFacts
<1>7. \A c \in carried : c.request # n
  BY <1>1 DEF WriteInv, CarriedFits, CarriedAt
<1>8. /\ requests' = [requests EXCEPT ![n] = y] /\ latched' \in BOOLEAN
      /\ UNCHANGED <<target, records, lapsed, attempts, carried>>
  BY <1>9 DEF Refuse, WriteInv, WriteType
<1> HIDE DEF y
<1> QED
  BY <1>1, <1>3, <1>5, <1>6, <1>7, <1>8, Answering DEF Succeeded, Definite

\* A request whose key has a record is answered from it.
LEMMA ReplayKeeps ==
  ASSUME WriteInv, NEW n \in DOMAIN requests, ReplayStored(n)
  PROVE  WriteInv'
<1> DEFINE x == requests[n]
<1>1. x \in RequestSet /\ x.stage = "sent" /\ x.route \in DOMAIN Routes /\ LinkedAt(n)
  BY RequestFacts DEF ReplayStored, RequestSet
<1>2. x.key \in DOMAIN records \/ target.gone
  BY <1>1, EndsFacts, Zenon DEF ReplayStored
<1>3. (\E c \in carried : c.attempt = x.attempt) \/ target.gone
  <2>1. CASE target.gone
    BY <2>1
  <2>2. CASE x.key \in DOMAIN records
    <3>1. x.key \in Nat
      BY <2>2 DEF WriteInv, WriteType
    <3>2. x.key # None
      BY <3>1, NoneIsNoNumber
    <3>3. x.key = x.attempt
      BY <3>2, <1>1 DEF LinkedAt, WriteInv, Keyed
    <3> QED
      BY <2>2, <3>3 DEF WriteInv, RecordsFit
  <2> QED
    BY <1>2, <2>1, <2>2
<1>4. target.rev \in Nat
  BY DEF WriteInv, WriteType, TargetSet
<1>5. latched' \in BOOLEAN /\ UNCHANGED <<target, records, lapsed, attempts, carried>>
  BY DEF ReplayStored, WriteInv, WriteType
<1>6. CASE Routes[x.route].reread
  <2> DEFINE y == [x EXCEPT !.stage = "committed"]
  <2>1. requests' = [requests EXCEPT ![n] = y]
    BY <1>6 DEF ReplayStored
  <2>2. /\ y \in RequestSet /\ y.stage = "committed"
        /\ y.attempt = x.attempt /\ y.route = x.route /\ y.etag = x.etag /\ y.key = x.key
    BY <1>1 DEF RequestSet
  <2> HIDE DEF y
  <2> QED
    BY <1>1, <1>3, <1>5, <2>1, <2>2, Answering DEF Succeeded, Definite
<1>7. CASE ~Routes[x.route].reread
  <2> DEFINE ans == Success(target.rev)
             y == Answered(x, ans)
  <2>1. requests' = [requests EXCEPT ![n] = y]
    BY <1>7 DEF ReplayStored
  <2>2. ans \in AnswerSet /\ ans.kind = "ok" /\ ans.code = "ok"
    BY <1>4, AnswerKinds
  <2> HIDE DEF ans
  <2>3. /\ y \in RequestSet /\ y.stage = "answered" /\ y.answer = ans
        /\ y.attempt = x.attempt /\ y.route = x.route /\ y.etag = x.etag /\ y.key = x.key
    BY <1>1, <2>2, AnswerFacts
  <2> HIDE DEF y
  <2> QED
    BY <1>1, <1>3, <1>5, <2>1, <2>2, <2>3, Answering DEF Succeeded, Definite
<1> QED
  BY <1>6, <1>7

\* Storage, or the secret store, fails before anything is committed.
LEMMA FailKeeps ==
  ASSUME WriteInv, NEW n \in DOMAIN requests, FailUncommitted(n)
  PROVE  WriteInv'
<1> DEFINE x == requests[n]
<1>1. x \in RequestSet /\ x.stage = "sent"
  BY RequestFacts DEF FailUncommitted
<1>2. UNCHANGED <<target, records, lapsed, attempts, carried>> /\ latched' \in BOOLEAN
  BY DEF FailUncommitted, WriteInv, WriteType
<1>3. PICK ans \in RecordProblem(x.route, Unnamed(x.route), latched') \union KeyringUnavailable(x) :
        requests' = [requests EXCEPT ![n] = Answered(x, ans)]
  BY DEF FailUncommitted
<1>4. /\ ans \in AnswerSet /\ ans.kind = "problem" /\ ans.code # "ok"
      /\ ans.code = "keyring_unavailable" => Routes[x.route].custody
  BY <1>3, UnnamedFacts, KeyringFacts
<1>7. \A c \in carried : c.request # n
  BY <1>1 DEF WriteInv, CarriedFits, CarriedAt
<1> DEFINE y == Answered(x, ans)
<1>5. /\ y \in RequestSet /\ y.stage = "answered" /\ y.answer = ans
      /\ y.attempt = x.attempt /\ y.route = x.route /\ y.etag = x.etag /\ y.key = x.key
  BY <1>1, <1>4, AnswerFacts
<1>6. requests' = [requests EXCEPT ![n] = y]
  BY <1>3
<1> HIDE DEF y
<1> QED
  BY <1>1, <1>2, <1>4, <1>5, <1>6, <1>7, Answering DEF Succeeded

\* A committed change is read again to answer it.
LEMMA RereadKeeps ==
  ASSUME WriteInv, NEW n \in DOMAIN requests, ServerResource(n)
  PROVE  WriteInv'
<1> DEFINE x == requests[n]
<1>1. x \in RequestSet /\ x.stage = "committed" /\ AnswerAt(n)
  BY RequestFacts DEF ServerResource
<1>2. UNCHANGED <<target, records, lapsed, attempts, carried>> /\ latched' \in BOOLEAN
  BY DEF ServerResource, WriteInv, WriteType
<1>3. PICK ans \in {Success(target.rev), StorageUnavailable} : requests' = [requests EXCEPT ![n] = Answered(x, ans)]
  BY DEF ServerResource
<1>4. target.rev \in Nat
  BY DEF WriteInv, WriteType, TargetSet
<1>5. /\ ans \in AnswerSet /\ (ans.kind = "problem" => ans.code = "storage_unavailable")
      /\ (ans.code = "ok" <=> ans.kind = "ok") /\ ans.code # "keyring_unavailable"
  BY <1>3, <1>4, AnswerKinds
<1> DEFINE y == Answered(x, ans)
<1>6. /\ y \in RequestSet /\ y.stage = "answered" /\ y.answer = ans
      /\ y.attempt = x.attempt /\ y.route = x.route /\ y.etag = x.etag /\ y.key = x.key
  BY <1>1, <1>5, AnswerFacts
<1>7. (\E c \in carried : c.attempt = x.attempt) \/ target.gone
  BY <1>1 DEF AnswerAt, Succeeded
<1>8. requests' = [requests EXCEPT ![n] = y]
  BY <1>3
<1> HIDE DEF y
<1> QED
  BY <1>1, <1>2, <1>5, <1>6, <1>7, <1>8, Answering DEF Succeeded, Definite

\* The record of a key is expired by retention.
LEMMA LapseKeeps ==
  ASSUME WriteInv, Lapse
  PROVE  WriteInv'
<1>1. /\ records' = <<>> /\ lapsed' = lapsed \union DOMAIN records
      /\ UNCHANGED <<target, requests, attempts, carried, latched>>
  BY DEF Lapse
<1>2. DOMAIN records' = {}
  BY <1>1
<1>3. WriteType' /\ Linked' /\ Keyed' /\ SentOnce'
  BY <1>1, <1>2 DEF WriteInv, WriteType, Linked, LinkedAt, Keyed, SentOnce, Has
<1>4. CarriedFits'
  BY <1>1 DEF WriteInv, CarriedFits, CarriedAt, Has
<1>5. AtMostOne' /\ RecordsFit'
  BY <1>1, <1>2 DEF WriteInv, AtMostOne, RecordsFit
<1>6. AnswersFit'
  BY <1>1 DEF WriteInv, AnswersFit, AnswerAt, Succeeded, Definite
<1>7. ToldFits'
  BY <1>1 DEF WriteInv, ToldFits, ToldAt, Ground, Definite, Misjudges
<1>8. RevokedBy'
  BY <1>1 DEF WriteInv, RevokedBy
<1> QED
  BY <1>3, <1>4, <1>5, <1>6, <1>7, <1>8 DEF WriteInv

\* A restart clears the latch of the writer and nothing else.
LEMMA RestartKeeps ==
  ASSUME WriteInv, Restart
  PROVE  WriteInv'
<1>1. WriteType' /\ Linked' /\ Keyed' /\ SentOnce'
  BY DEF Restart, WriteInv, WriteType, Linked, LinkedAt, Keyed, SentOnce, Has
<1>2. CarriedFits' /\ AtMostOne' /\ RecordsFit'
  BY DEF Restart, WriteInv, CarriedFits, CarriedAt, AtMostOne, RecordsFit, Has
<1>3. AnswersFit'
  BY DEF Restart, WriteInv, AnswersFit, AnswerAt, Succeeded, Definite
<1>4. ToldFits'
  BY DEF Restart, WriteInv, ToldFits, ToldAt, Ground, Definite, Misjudges
<1>5. RevokedBy'
  BY DEF Restart, WriteInv, RevokedBy
<1> QED
  BY <1>1, <1>2, <1>3, <1>4, <1>5 DEF WriteInv

\* Another administrator changes the resource.
LEMMA OtherEditKeeps ==
  ASSUME WriteInv, OtherEdit
  PROVE  WriteInv'
<1>1. /\ target' \in TargetSet /\ target'.gone = target.gone /\ target'.old = target.old
      /\ target'.new = target.new
      /\ UNCHANGED <<records, lapsed, requests, attempts, carried, latched>>
  BY DEF OtherEdit, WriteInv, WriteType, TargetSet
<1> QED
  BY <1>1, Retargeting

\* What a commit does to the resource and to the two credentials of a rotation.
LEMMA EffectFacts ==
  ASSUME WriteInv, NEW r \in DOMAIN Routes
  PROVE  LET t == Effect(Routes[r]) IN
         /\ t \in TargetSet /\ t.rev \in Nat
         /\ target.gone => t.gone
         /\ target.new # "none" => t.new # "none"
         /\ r # "rotation_complete" => t.old = target.old
         /\ r = "rotation_complete" => t.new = target.new \/ t.new # "none"
<1>1. target \in TargetSet
  BY DEF WriteInv, WriteType
<1>2. Routes[r].effect \in EffectNames /\ (Routes[r].effect = "revoke" => r = "rotation_complete")
  BY EveryRouteIsSound DEF SoundRoute
<1>3. CASE Routes[r].effect \in {"create", "none"}
  <2>1. Effect(Routes[r]) = target
    BY <1>3 DEF Effect
  <2> QED
    BY <1>1, <2>1 DEF TargetSet
<1>4. CASE Routes[r].effect = "edit"
  <2>1. Effect(Routes[r]) = [target EXCEPT !.rev = @ + 1]
    BY <1>4 DEF Effect
  <2> QED
    BY <1>1, <2>1 DEF TargetSet
<1>5. CASE Routes[r].effect = "delete"
  <2>1. Effect(Routes[r]) = [target EXCEPT !.rev = @ + 1, !.gone = TRUE]
    BY <1>5 DEF Effect
  <2>2. Effect(Routes[r]) = [rev |-> target.rev + 1, gone |-> TRUE, old |-> target.old, new |-> target.new]
    BY <1>1, <2>1 DEF TargetSet
  <2>3. /\ target.rev + 1 \in Nat /\ target.gone \in BOOLEAN
        /\ target.old \in {"active", "revoked"} /\ target.new \in {"none", "active", "revoked"}
    BY <1>1 DEF TargetSet
  <2> QED
    BY <2>2, <2>3 DEF TargetSet
<1>6. CASE Routes[r].effect = "replacement"
  <2>1. Effect(Routes[r]) = [target EXCEPT !.rev = @ + 1, !.new = "active"]
    BY <1>6 DEF Effect
  <2>2. Effect(Routes[r]) = [rev |-> target.rev + 1, gone |-> target.gone, old |-> target.old, new |-> "active"]
    BY <1>1, <2>1 DEF TargetSet
  <2>3. /\ target.rev + 1 \in Nat /\ target.gone \in BOOLEAN
        /\ target.old \in {"active", "revoked"} /\ target.new \in {"none", "active", "revoked"}
    BY <1>1 DEF TargetSet
  <2> QED
    BY <2>2, <2>3 DEF TargetSet
<1>7. CASE Routes[r].effect = "revoke"
  <2>1. Effect(Routes[r]) = [target EXCEPT !.rev = @ + 1, !.old = "revoked"]
    BY <1>7 DEF Effect
  <2>2. Effect(Routes[r]) = [rev |-> target.rev + 1, gone |-> target.gone, old |-> "revoked", new |-> target.new]
    BY <1>1, <2>1 DEF TargetSet
  <2>3. /\ target.rev + 1 \in Nat /\ target.gone \in BOOLEAN
        /\ target.old \in {"active", "revoked"} /\ target.new \in {"none", "active", "revoked"}
    BY <1>1 DEF TargetSet
  <2> QED
    BY <1>2, <1>7, <2>2, <2>3 DEF TargetSet
<1> QED
  BY <1>2, <1>3, <1>4, <1>5, <1>6, <1>7 DEF EffectNames

\* A request is carried out at most once for its attempt, with the record of its key in the same transaction.
LEMMA CommitKeeps ==
  ASSUME WriteInv, NEW n \in DOMAIN requests, Commit(n)
  PROVE  WriteInv'
<1> DEFINE x == requests[n]
           c0 == [attempt |-> x.attempt, request |-> n, rev |-> target.rev]
<1>1. /\ x \in RequestSet /\ x.stage = "sent" /\ x.route \in DOMAIN Routes /\ LinkedAt(n) /\ n \in Nat
      /\ x.attempt \in DOMAIN attempts /\ x.attempt \in Nat
  BY RequestFacts DEF Commit, RequestSet
<1>2. target.rev \in Nat
  BY DEF WriteInv, WriteType, TargetSet
<1>3. c0 \in CarriedSet /\ c0.attempt = x.attempt /\ c0.request = n /\ c0.rev = target.rev
  BY <1>1, <1>2 DEF CarriedSet
<1>4. /\ target' = Effect(Routes[x.route]) /\ carried' = carried \union {c0}
      /\ InsertIdempotency(x) /\ UNCHANGED <<lapsed, attempts>>
  BY DEF Commit
<1>5. \A check : Has(x.route, check) => "pass" \in Verdicts(check, x)
  BY <1>1, EndsFacts, Zenon DEF Commit
<1>6. PICK y \in RequestSet :
        /\ requests' = [requests EXCEPT ![n] = y] /\ y.stage # "sent"
        /\ y.attempt = x.attempt /\ y.route = x.route /\ y.etag = x.etag /\ y.key = x.key
        /\ y.stage = "answered" => y.answer \in AnswerSet
        /\ ~Definite(y)
        /\ y.stage = "answered" /\ y.answer.code = "keyring_unavailable" => Routes[y.route].custody
        /\ y.stage = "answered" => (y.answer.code = "ok" <=> y.answer.kind = "ok")
  <2> DEFINE route == Routes[x.route]
             good == Success(Effect(route).rev)
  <2>0. good \in AnswerSet /\ good.kind = "ok" /\ good.code = "ok"
    <3>1. Effect(route).rev \in Nat
      BY <1>1, EffectFacts
    <3> QED
      BY <3>1, AnswerKinds
  <2>1. \/ \E ans \in RecordProblem(x.route, Unnamed(x.route), TRUE) \union KeyringUnavailable(x) :
             requests' = [requests EXCEPT ![n] = Answered(x, ans)]
        \/ requests' = [requests EXCEPT ![n].stage = "committed"]
        \/ requests' = [requests EXCEPT ![n] = Answered(x, good)]
    BY DEF Commit
  <2>2. CASE \E ans \in RecordProblem(x.route, Unnamed(x.route), TRUE) \union KeyringUnavailable(x) :
               requests' = [requests EXCEPT ![n] = Answered(x, ans)]
    <3>3. PICK ans \in RecordProblem(x.route, Unnamed(x.route), TRUE) \union KeyringUnavailable(x) :
            requests' = [requests EXCEPT ![n] = Answered(x, ans)]
      BY <2>2
    <3> DEFINE y == Answered(x, ans)
    <3>0. /\ ans \in AnswerSet /\ ans.kind = "problem" /\ ans.code # "ok"
          /\ ans.code \in {"storage_unavailable", "keyring_unavailable", "authorization_unavailable"}
          /\ ans.code = "authorization_unavailable" => x.route \in Policies \intersect Unaudited
          /\ ans.code = "keyring_unavailable" => Routes[x.route].custody
      BY <3>3, UnnamedFacts, KeyringFacts
    <3>1. /\ y \in RequestSet /\ y.stage = "answered" /\ y.answer = ans
          /\ y.attempt = x.attempt /\ y.route = x.route /\ y.etag = x.etag /\ y.key = x.key
      BY <1>1, <3>0, AnswerFacts
    <3>2. requests' = [requests EXCEPT ![n] = y]
      BY <3>3
    <3> HIDE DEF y, good
    <3> QED
      BY <3>0, <3>1, <3>2 DEF Definite
  <2>3. CASE requests' = [requests EXCEPT ![n].stage = "committed"]
    <3> DEFINE y == [x EXCEPT !.stage = "committed"]
    <3>1. requests' = [requests EXCEPT ![n] = y]
      BY <2>3
    <3>2. /\ y \in RequestSet /\ y.stage = "committed"
          /\ y.attempt = x.attempt /\ y.route = x.route /\ y.etag = x.etag /\ y.key = x.key
      BY <1>1 DEF RequestSet
    <3> HIDE DEF y
    <3> QED
      BY <3>1, <3>2 DEF Definite
  <2>4. CASE requests' = [requests EXCEPT ![n] = Answered(x, good)]
    <3> DEFINE y == Answered(x, good)
    <3>1. /\ y \in RequestSet /\ y.stage = "answered" /\ y.answer = good
          /\ y.attempt = x.attempt /\ y.route = x.route /\ y.etag = x.etag /\ y.key = x.key
      BY <1>1, <2>0, AnswerFacts
    <3>2. requests' = [requests EXCEPT ![n] = y]
      BY <2>4
    <3> HIDE DEF y, good
    <3> QED
      BY <2>4, <3>1, <3>2, <2>0 DEF Definite
  <2> QED
    BY <2>1, <2>2, <2>3, <2>4
<1>7. requests' \in Seq(RequestSet) /\ DOMAIN requests' = DOMAIN requests /\ requests'[n] = y
      /\ \A m \in DOMAIN requests : m # n => requests'[m] = requests[m]
  BY <1>6 DEF WriteInv, WriteType
<1>8. \A m \in DOMAIN requests : /\ requests'[m].attempt = requests[m].attempt /\ requests'[m].route = requests[m].route
                                 /\ requests'[m].etag = requests[m].etag
                                 /\ requests'[m].key = requests[m].key
                                 /\ requests[m].stage # "sent" => requests'[m].stage # "sent"
  BY <1>6, <1>7
<1>9. /\ DOMAIN records' = IF x.key = None THEN DOMAIN records ELSE DOMAIN records \union {x.key}
  BY <1>4 DEF InsertIdempotency
<1>10. x.key # None => x.key = x.attempt /\ x.key \notin DOMAIN records /\ x.key \in Nat
  <2> SUFFICES ASSUME x.key # None PROVE x.key = x.attempt /\ x.key \notin DOMAIN records
    BY <1>1
  <2>1. attempts[x.attempt].key = x.key /\ attempts[x.attempt].route = x.route
    BY <1>1 DEF LinkedAt
  <2>2. x.key = x.attempt /\ Has(x.route, "record")
    BY <2>1, <1>1 DEF WriteInv, Keyed
  <2>3. "pass" \in Verdicts("record", x)
    BY <1>5, <2>2
  <2>4. x.key \notin DOMAIN records
    BY <2>3 DEF Verdicts, LookupIdempotency
  <2> QED
    BY <2>2, <2>4
<1>11. /\ target' \in TargetSet /\ (target.gone => target'.gone) /\ (target.new # "none" => target'.new # "none")
       /\ x.route # "rotation_complete" => target'.old = target.old
  BY <1>1, <1>4, EffectFacts
<1>12. WriteType'
  <2>1. latched' \in BOOLEAN
    BY DEF Commit, WriteInv, WriteType
  <2>2. DOMAIN records' \subseteq Nat
    BY <1>9, <1>10 DEF WriteInv, WriteType
  <2>3. carried' \subseteq CarriedSet
    BY <1>3, <1>4 DEF WriteInv, WriteType
  <2> QED
    BY <2>1, <2>2, <2>3, <1>4, <1>7, <1>11 DEF WriteInv, WriteType
<1>13. Linked'
  <2> SUFFICES ASSUME NEW m \in DOMAIN requests PROVE LinkedAt(m)'
    BY <1>7 DEF Linked
  <2>1. LinkedAt(m)
    BY DEF WriteInv, Linked
  <2> QED
    BY <2>1, <1>4, <1>6, <1>7, <1>8 DEF LinkedAt
<1>14. Keyed'
  BY <1>4 DEF WriteInv, Keyed, Has
<1>15. SentOnce'
  BY <1>7, <1>8 DEF WriteInv, SentOnce
<1>16. CarriedFits'
  <2> SUFFICES ASSUME NEW c \in carried' PROVE CarriedAt(c)'
    BY DEF CarriedFits
  <2>1. CASE c \in carried
    <3>1. CarriedAt(c)
      BY <2>1 DEF WriteInv, CarriedFits
    <3> QED
      BY <3>1, <1>4, <1>7, <1>8, <1>9 DEF CarriedAt, Has
  <2>2. CASE c = c0
    <3>1. x.key = None /\ Has(x.route, "revision") => target.rev = x.etag
      <4>1. Has(x.route, "revision") => "pass" \in Verdicts("revision", x)
        BY <1>5
      <4> QED
        BY <4>1 DEF Verdicts, Revision
    <3>2. c.request = n /\ c.attempt = x.attempt /\ c.rev = target.rev
      BY <2>2
    <3> QED
      BY <3>1, <3>2, <1>6, <1>7, <1>8, <1>9 DEF CarriedAt, Has
  <2> QED
    BY <2>1, <2>2, <1>4
<1>17. AtMostOne'
  <2>1. ASSUME NEW d \in carried, d.attempt = x.attempt
        PROVE  attempts[x.attempt].key \in lapsed
    <3>1. d.request \in DOMAIN requests /\ requests[d.request].attempt = x.attempt /\ requests[d.request].stage # "sent"
          /\ (requests[d.request].key # None => requests[d.request].key \in DOMAIN records \union lapsed)
      BY <2>1 DEF WriteInv, CarriedFits, CarriedAt
    <3>2. x.key # None
      BY <3>1, <1>1 DEF WriteInv, SentOnce
    <3>3. requests[d.request].key = x.key /\ attempts[x.attempt].key = x.key
      BY <3>1, <1>1 DEF WriteInv, Linked, LinkedAt
    <3> QED
      BY <3>1, <3>2, <3>3, <1>10
  <2>2. SUFFICES ASSUME NEW c \in carried', NEW d \in carried', c.attempt = d.attempt, attempts[c.attempt].key \notin lapsed
                 PROVE  c = d
    BY <1>4 DEF AtMostOne
  <2>3. CASE c \in carried /\ d \in carried
    BY <2>2, <2>3 DEF WriteInv, AtMostOne
  <2>4. CASE c = c0 /\ d \in carried
    BY <2>1, <2>2, <2>4
  <2>5. CASE c \in carried /\ d = c0
    BY <2>1, <2>2, <2>5
  <2> QED
    BY <2>3, <2>4, <2>5, <1>4
<1>18. RecordsFit'
  BY <1>3, <1>4, <1>9, <1>10 DEF WriteInv, RecordsFit
<1>19. AnswersFit'
  <2> SUFFICES ASSUME NEW m \in DOMAIN requests PROVE AnswerAt(m)'
    BY <1>7 DEF AnswersFit
  <2>1. CASE m = n
    <3>1. c0 \in carried' /\ c0.attempt = y.attempt
      BY <1>3, <1>4, <1>6
    <3> QED
      BY <2>1, <3>1, <1>6, <1>7 DEF AnswerAt, Succeeded, Definite
  <2>2. CASE m # n
    <3>1. AnswerAt(m) /\ requests'[m] = requests[m]
      BY <2>2, <1>7 DEF WriteInv, AnswersFit
    <3>2. \A c \in carried' : c \in carried \/ c.request = n
      BY <1>3, <1>4
    <3> QED
      BY <2>2, <3>1, <3>2, <1>4, <1>11 DEF AnswerAt, Succeeded, Definite
  <2> QED
    BY <2>1, <2>2
<1>20. ToldFits'
  <2> SUFFICES ASSUME NEW a \in DOMAIN attempts PROVE ToldAt(a)'
    BY <1>4 DEF ToldFits
  <2>1. ToldAt(a)
    BY DEF WriteInv, ToldFits
  <2>2. \A m \in DOMAIN requests : Ground(attempts[a], requests[m]) => requests'[m] = requests[m]
    BY <1>1, <1>7 DEF Ground, Definite
  <2>3. \A m \in DOMAIN requests : requests[m].attempt = a /\ Ground(attempts[a], requests[m])
          => requests'[m].attempt = a /\ Ground(attempts[a], requests[m])'
    BY <2>2, <1>4 DEF Ground, Definite, Misjudges
  <2> QED
    BY <2>1, <2>3, <1>4, <1>7, <1>11 DEF ToldAt
<1>21. RevokedBy'
  <2>1. \A c \in carried : c.request \in DOMAIN requests
    BY DEF WriteInv, CarriedFits, CarriedAt
  <2>2. CASE x.route # "rotation_complete"
    BY <2>1, <2>2, <1>4, <1>8, <1>11 DEF WriteInv, RevokedBy
  <2>3. CASE x.route = "rotation_complete"
    <3>1. "pass" \in Verdicts("replaced", x)
      BY <2>3, <1>5, CompletionReplaces
    <3>2. target.new = "active"
      BY <3>1 DEF Verdicts
    <3>3. c0 \in carried' /\ requests'[c0.request].route = "rotation_complete"
      BY <2>3, <1>3, <1>4, <1>8
    <3> QED
      BY <3>2, <3>3, <1>11 DEF RevokedBy
  <2> QED
    BY <2>2, <2>3
<1> QED
  BY <1>12, <1>13, <1>14, <1>15, <1>16, <1>17, <1>18, <1>19, <1>20, <1>21 DEF WriteInv

\* Whatever the gateway does keeps what is known of its clients' requests.
LEMMA ServerKeeps ==
  ASSUME WriteInv, Server
  PROVE  WriteInv'
BY RefuseKeeps, ReplayKeeps, CommitKeeps, FailKeeps, RereadKeeps, OtherEditKeeps, LapseKeeps,
   RestartKeeps DEF Server, Serve

-----------------------------------------------------------------------------
(* What clients do to the record of their decisions. *)

\* A new decision is sent, for the first time.
LEMMA Sending ==
  ASSUME WriteInv, NEW by \in Forms \union Names, NEW route \in DOMAIN Routes, NEW etag \in Revs, NEW key \in Keys, NEW shows \in Revs,
         Send(by, route, etag, key, shows),
         key # None => key = Len(attempts) + 1 /\ Has(route, "record"),
         UNCHANGED <<target, records, lapsed, carried, latched>>
  PROVE  /\ WriteInv'
         /\ Len(attempts') = Len(attempts) + 1
         /\ DOMAIN attempts' = DOMAIN attempts \union {Len(attempts')}
         /\ attempts'[Len(attempts')] = [by |-> by, route |-> route, shows |-> shows, etag |-> etag, key |-> key, told |-> "nothing"]
         /\ \A a \in DOMAIN attempts : attempts'[a] = attempts[a]
         /\ Len(requests') = Len(requests) + 1
         /\ DOMAIN requests' = DOMAIN requests \union {Len(requests')}
         /\ requests'[Len(requests')].attempt = Len(attempts')
         /\ requests'[Len(requests')].route = route
         /\ \A n \in DOMAIN requests : requests'[n] = requests[n]
<1> DEFINE new == [by |-> by, route |-> route, shows |-> shows, etag |-> etag, key |-> key, told |-> "nothing"]
           last == Len(attempts) + 1
           top == Len(requests) + 1
<1>0. /\ requests \in Seq(RequestSet) /\ attempts \in Seq(AttemptSet) /\ Len(attempts) \in Nat
      /\ Len(requests) \in Nat
      /\ DOMAIN attempts = 1 .. Len(attempts) /\ DOMAIN requests = 1 .. Len(requests)
  BY DEF WriteInv, WriteType
<1>1. /\ new \in AttemptSet /\ new.key = key /\ new.route = route /\ new.etag = etag
      /\ new.told = "nothing"
  BY DEF AttemptSet
<1>2. PICK valid \in BOOLEAN : requests' = Append(requests, Request(Len(attempts'), route, etag, key, valid))
  BY DEF Send
<1>3. attempts' = Append(attempts, new)
  BY DEF Send
<1> HIDE DEF new
<1>4. /\ attempts' \in Seq(AttemptSet) /\ Len(attempts') = last
      /\ DOMAIN attempts' = DOMAIN attempts \union {last}
      /\ attempts'[last] = new /\ last \notin DOMAIN attempts /\ last \in Nat
      /\ \A a \in DOMAIN attempts : attempts'[a] = attempts[a]
  BY <1>0, <1>1, <1>3
<1> DEFINE x == Request(last, route, etag, key, valid)
<1>5. /\ x \in RequestSet /\ x.attempt = last /\ x.route = route /\ x.etag = etag /\ x.key = key
      /\ x.stage = "sent"
  BY <1>4 DEF Request, RequestSet
<1>6. requests' = Append(requests, x)
  BY <1>2, <1>4
<1> HIDE DEF x
<1>7. /\ requests' \in Seq(RequestSet) /\ Len(requests') = top
      /\ DOMAIN requests' = DOMAIN requests \union {top}
      /\ requests'[top] = x /\ top \notin DOMAIN requests
      /\ \A n \in DOMAIN requests : requests'[n] = requests[n]
  BY <1>0, <1>5, <1>6
<1> HIDE DEF last, top
<1>8. \A n \in DOMAIN requests : requests[n].attempt \in DOMAIN attempts /\ requests[n].attempt # last
  BY <1>4 DEF WriteInv, Linked, LinkedAt
<1>9. \A c \in carried : c.request \in DOMAIN requests /\ c.attempt \in DOMAIN attempts /\ requests[c.request].attempt = c.attempt
  BY <1>8 DEF WriteInv, CarriedFits, CarriedAt
<1>10. WriteType'
  BY <1>4, <1>7 DEF WriteInv, WriteType
<1>11. Linked'
  <2> SUFFICES ASSUME NEW m \in DOMAIN requests' PROVE LinkedAt(m)'
    BY DEF Linked
  <2>1. CASE m \in DOMAIN requests
    <3>1. LinkedAt(m)
      BY <2>1 DEF WriteInv, Linked
    <3> QED
      BY <2>1, <3>1, <1>4, <1>7, <1>8 DEF LinkedAt
  <2>2. CASE m = top
    BY <2>2, <1>1, <1>4, <1>5, <1>7 DEF LinkedAt
  <2> QED
    BY <2>1, <2>2, <1>7
<1>12. Keyed'
  <2> SUFFICES ASSUME NEW a \in DOMAIN attempts', attempts'[a].key # None
               PROVE  attempts'[a].key = a /\ Has(attempts'[a].route, "record")
    BY DEF Keyed, Has
  <2>1. CASE a \in DOMAIN attempts
    BY <2>1, <1>4 DEF WriteInv, Keyed
  <2>2. CASE a = last
    BY <2>2, <1>1, <1>4 DEF last
  <2> QED
    BY <2>1, <2>2, <1>4
<1>13. SentOnce'
  BY <1>5, <1>7, <1>8 DEF WriteInv, SentOnce
<1>14. CarriedFits'
  BY <1>7 DEF WriteInv, CarriedFits, CarriedAt, Has
<1>15. AtMostOne'
  BY <1>4, <1>9 DEF WriteInv, AtMostOne
<1>16. RecordsFit'
  BY DEF WriteInv, RecordsFit
<1>17. AnswersFit'
  <2> SUFFICES ASSUME NEW m \in DOMAIN requests' PROVE AnswerAt(m)'
    BY DEF AnswersFit
  <2>1. CASE m \in DOMAIN requests
    <3>1. AnswerAt(m)
      BY <2>1 DEF WriteInv, AnswersFit
    <3> QED
      BY <2>1, <3>1, <1>7 DEF AnswerAt, Succeeded, Definite
  <2>2. CASE m = top
    BY <2>2, <1>5, <1>7 DEF AnswerAt, Succeeded, Definite
  <2> QED
    BY <2>1, <2>2, <1>7
<1>18. ToldFits'
  <2> SUFFICES ASSUME NEW a \in DOMAIN attempts' PROVE ToldAt(a)'
    BY DEF ToldFits
  <2>1. CASE a \in DOMAIN attempts
    <3>1. ToldAt(a) /\ attempts'[a] = attempts[a]
      BY <2>1, <1>4 DEF WriteInv, ToldFits
    <3> QED
      BY <3>1, <1>7 DEF ToldAt, Ground, Definite, Misjudges
  <2>2. CASE a = last
    BY <2>2, <1>1, <1>4 DEF ToldAt
  <2> QED
    BY <2>1, <2>2, <1>4
<1>19. RevokedBy'
  BY <1>7, <1>9 DEF WriteInv, RevokedBy
<1>20. WriteInv'
  BY <1>10, <1>11, <1>12, <1>13, <1>14, <1>15, <1>16, <1>17, <1>18, <1>19 DEF WriteInv
<1> QED
  BY <1>4, <1>5, <1>7, <1>20 DEF last, top, new

\* A keyed decision is sent again, perhaps with another precondition.
LEMMA SendingAgain ==
  ASSUME WriteInv, NEW a \in DOMAIN attempts, NEW etag \in Revs, attempts[a].key # None, SendAgain(a, etag),
         UNCHANGED <<target, records, lapsed, attempts, carried, latched>>
  PROVE  /\ WriteInv'
         /\ Len(requests') = Len(requests) + 1
         /\ DOMAIN requests' = DOMAIN requests \union {Len(requests')}
         /\ requests'[Len(requests')].attempt = a /\ requests'[Len(requests')].route = attempts[a].route
         /\ \A n \in DOMAIN requests : requests'[n] = requests[n]
<1> DEFINE top == Len(requests) + 1
<1>0. /\ requests \in Seq(RequestSet) /\ Len(requests) \in Nat /\ DOMAIN requests = 1 .. Len(requests)
      /\ attempts[a] \in AttemptSet /\ a \in Nat
  BY DEF WriteInv, WriteType
<1>1. PICK n0 \in DOMAIN requests :
        requests' = Append(requests, Request(a, attempts[a].route, etag, attempts[a].key, requests[n0].valid))
  BY DEF SendAgain, RequestsOf
<1>2. requests[n0].valid \in BOOLEAN
  <2>1. requests[n0] \in RequestSet
    BY <1>0, <1>1
  <2> QED
    BY <2>1 DEF RequestSet
<1> DEFINE x == Request(a, attempts[a].route, etag, attempts[a].key, requests[n0].valid)
<1>5. /\ x \in RequestSet /\ x.attempt = a /\ x.route = attempts[a].route /\ x.etag = etag
      /\ x.key = attempts[a].key /\ x.stage = "sent"
  BY <1>0, <1>2 DEF Request, RequestSet, AttemptSet
<1>6. requests' = Append(requests, x)
  BY <1>1
<1> HIDE DEF x
<1>7. /\ requests' \in Seq(RequestSet) /\ Len(requests') = top
      /\ DOMAIN requests' = DOMAIN requests \union {top}
      /\ requests'[top] = x /\ top \notin DOMAIN requests
      /\ \A n \in DOMAIN requests : requests'[n] = requests[n]
  BY <1>0, <1>5, <1>6
<1> HIDE DEF top
<1>9. \A c \in carried : c.request \in DOMAIN requests
  BY DEF WriteInv, CarriedFits, CarriedAt
<1>10. WriteType'
  BY <1>7 DEF WriteInv, WriteType
<1>11. Linked'
  <2> SUFFICES ASSUME NEW m \in DOMAIN requests' PROVE LinkedAt(m)'
    BY DEF Linked
  <2>1. CASE m \in DOMAIN requests
    <3>1. LinkedAt(m)
      BY <2>1 DEF WriteInv, Linked
    <3> QED
      BY <2>1, <3>1, <1>7 DEF LinkedAt
  <2>2. CASE m = top
    BY <2>2, <1>5, <1>7 DEF LinkedAt
  <2> QED
    BY <2>1, <2>2, <1>7
<1>12. Keyed' /\ AtMostOne' /\ RecordsFit'
  BY DEF WriteInv, Keyed, Has, AtMostOne, RecordsFit
<1>13. SentOnce'
  <2>1. \A n \in DOMAIN requests : requests[n].attempt = a => requests[n].key # None
    BY DEF WriteInv, Linked, LinkedAt
  <2> QED
    BY <2>1, <1>5, <1>7 DEF WriteInv, SentOnce
<1>14. CarriedFits'
  BY <1>7 DEF WriteInv, CarriedFits, CarriedAt, Has
<1>17. AnswersFit'
  <2> SUFFICES ASSUME NEW m \in DOMAIN requests' PROVE AnswerAt(m)'
    BY DEF AnswersFit
  <2>1. CASE m \in DOMAIN requests
    <3>1. AnswerAt(m)
      BY <2>1 DEF WriteInv, AnswersFit
    <3> QED
      BY <2>1, <3>1, <1>7 DEF AnswerAt, Succeeded, Definite
  <2>2. CASE m = top
    BY <2>2, <1>5, <1>7 DEF AnswerAt, Succeeded, Definite
  <2> QED
    BY <2>1, <2>2, <1>7
<1>18. ToldFits'
  <2> SUFFICES ASSUME NEW b \in DOMAIN attempts PROVE ToldAt(b)'
    BY DEF ToldFits
  <2>1. ToldAt(b)
    BY DEF WriteInv, ToldFits
  <2> QED
    BY <2>1, <1>7 DEF ToldAt, Ground, Definite, Misjudges
<1>19. RevokedBy'
  BY <1>7, <1>9 DEF WriteInv, RevokedBy
<1>20. WriteInv'
  BY <1>10, <1>11, <1>12, <1>13, <1>14, <1>17, <1>18, <1>19 DEF WriteInv
<1> QED
  BY <1>5, <1>7, <1>20 DEF top

\* A user is told what became of a decision, on good grounds.
LEMMA Telling ==
  ASSUME WriteInv, NEW a \in DOMAIN attempts, NEW what \in {"acknowledged", "rejected", "uncertain"},
         attempts' = [attempts EXCEPT ![a].told = what],
         what = "acknowledged" => (\E c \in carried : c.attempt = a) \/ target.gone,
         what = "rejected" => \E n \in DOMAIN requests : requests[n].attempt = a /\ Ground(attempts[a], requests[n]),
         UNCHANGED <<target, records, lapsed, requests, carried, latched>>
  PROVE  /\ WriteInv' /\ DOMAIN attempts' = DOMAIN attempts
         /\ \A b \in DOMAIN attempts :
              /\ attempts'[b].by = attempts[b].by /\ attempts'[b].route = attempts[b].route
              /\ attempts'[b].shows = attempts[b].shows /\ attempts'[b].etag = attempts[b].etag
              /\ attempts'[b].key = attempts[b].key
<1> DEFINE t == [attempts[a] EXCEPT !.told = what]
<1>1. attempts[a] \in AttemptSet /\ attempts \in Seq(AttemptSet)
  BY DEF WriteInv, WriteType
<1>2. /\ t \in AttemptSet /\ t.told = what /\ t.by = attempts[a].by /\ t.route = attempts[a].route
      /\ t.shows = attempts[a].shows /\ t.etag = attempts[a].etag /\ t.key = attempts[a].key
  BY <1>1 DEF AttemptSet
<1>3. attempts' = [attempts EXCEPT ![a] = t]
  OBVIOUS
<1> HIDE DEF t
<1>4. /\ attempts' \in Seq(AttemptSet) /\ DOMAIN attempts' = DOMAIN attempts /\ attempts'[a] = t
      /\ \A b \in DOMAIN attempts : b # a => attempts'[b] = attempts[b]
  BY <1>1, <1>2, <1>3
<1>5. \A b \in DOMAIN attempts :
        /\ attempts'[b].by = attempts[b].by /\ attempts'[b].route = attempts[b].route
        /\ attempts'[b].shows = attempts[b].shows /\ attempts'[b].etag = attempts[b].etag
        /\ attempts'[b].key = attempts[b].key
  BY <1>2, <1>4
<1>6. WriteType'
  BY <1>4 DEF WriteInv, WriteType
<1>7. Linked'
  <2> SUFFICES ASSUME NEW m \in DOMAIN requests PROVE LinkedAt(m)'
    BY DEF Linked
  <2>1. LinkedAt(m)
    BY DEF WriteInv, Linked
  <2> QED
    BY <2>1, <1>4, <1>5 DEF LinkedAt
<1>8. Keyed'
  <2> SUFFICES ASSUME NEW b \in DOMAIN attempts, attempts'[b].key # None
               PROVE  attempts'[b].key = b /\ Has(attempts'[b].route, "record")
    BY <1>4 DEF Keyed, Has
  <2>1. attempts[b].key = b /\ Has(attempts[b].route, "record")
    BY <1>5 DEF WriteInv, Keyed
  <2>2. attempts'[b].key = attempts[b].key /\ attempts'[b].route = attempts[b].route
    BY <1>5
  <2> QED
    BY <2>1, <2>2
<1>9. SentOnce' /\ CarriedFits' /\ RecordsFit' /\ RevokedBy'
  BY DEF WriteInv, SentOnce, CarriedFits, CarriedAt, RecordsFit, RevokedBy, Has
<1>10. AtMostOne'
  <2>1. \A c \in carried : c.attempt \in DOMAIN attempts
    BY DEF WriteInv, CarriedFits, CarriedAt, Linked, LinkedAt
  <2> QED
    BY <2>1, <1>4, <1>5 DEF WriteInv, AtMostOne
<1>11. AnswersFit'
  BY DEF WriteInv, AnswersFit, AnswerAt, Succeeded, Definite
<1>12. ToldFits'
  <2> SUFFICES ASSUME NEW b \in DOMAIN attempts PROVE ToldAt(b)'
    BY <1>4 DEF ToldFits
  <2>1. CASE b = a
    BY <2>1, <1>2, <1>4 DEF ToldAt, Ground, Definite, Misjudges
  <2>2. CASE b # a
    <3>1. ToldAt(b) /\ attempts'[b] = attempts[b]
      BY <2>2, <1>4 DEF WriteInv, ToldFits
    <3> QED
      BY <3>1 DEF ToldAt, Ground, Definite, Misjudges
  <2> QED
    BY <2>1, <2>2
<1>13. WriteInv'
  BY <1>6, <1>7, <1>8, <1>9, <1>10, <1>11, <1>12 DEF WriteInv
<1> QED
  BY <1>4, <1>5, <1>13

\* Nothing is asked for at first.
LEMMA WritesBegin ==
  ASSUME Init PROVE WriteInv
<1>1. target \in TargetSet /\ target.old = "active" /\ DOMAIN records = {} /\ DOMAIN requests = {} /\ DOMAIN attempts = {}
      /\ requests \in Seq(RequestSet) /\ attempts \in Seq(AttemptSet) /\ carried = {}
      /\ lapsed = {} /\ latched = FALSE
  BY DEF Init, TargetSet
<1> QED
  BY <1>1 DEF WriteInv, WriteType, Linked, Keyed, SentOnce, CarriedFits, AtMostOne, RecordsFit,
     AnswersFit, ToldFits, RevokedBy

-----------------------------------------------------------------------------
(* What follows for the users. *)

\* Requests that keep to the invariant carry a decision out once.
LEMMA DecidedOnce ==
  ASSUME WriteInv PROVE OnceOnly
<1> SUFFICES ASSUME NEW a \in DOMAIN attempts, attempts[a].key \notin lapsed
             PROVE  Cardinality(CarriedOut(a)) <= 1
  BY DEF OnceOnly
<1>1. CASE CarriedOut(a) = {}
  BY <1>1, FS_EmptySet
<1>2. CASE CarriedOut(a) # {}
  <2>1. PICK c \in CarriedOut(a) : TRUE
    BY <1>2
  <2>2. c \in carried /\ c.attempt = a
    BY <2>1 DEF CarriedOut
  <2>3. \A d \in CarriedOut(a) : d = c
    BY <2>2 DEF CarriedOut, WriteInv, AtMostOne
  <2>4. CarriedOut(a) = {c}
    BY <2>1, <2>3
  <2>5. Cardinality({c}) = 1
    BY FS_Singleton
  <2> QED
    BY <2>4, <2>5
<1> QED
  BY <1>1, <1>2

\* What the invariant says of answers is what OutcomeIsHonest promises a user.
LEMMA ToldTheTruth ==
  ASSUME WriteInv PROVE OutcomeIsHonest
<1> SUFFICES ASSUME NEW a \in DOMAIN attempts
             PROVE  /\ attempts[a].told = "acknowledged" => CarriedOut(a) # {} \/ target.gone
                    /\ (attempts[a].told = "rejected" /\ Cardinality(RequestsOf(a)) = 1 /\ ~Misjudged(a)) => CarriedOut(a) = {}
  BY DEF OutcomeIsHonest
<1>1. ToldAt(a)
  BY DEF WriteInv, ToldFits
<1>2. attempts[a].told = "acknowledged" => CarriedOut(a) # {} \/ target.gone
  BY <1>1 DEF ToldAt, CarriedOut
<1>3. ASSUME attempts[a].told = "rejected", Cardinality(RequestsOf(a)) = 1, ~Misjudged(a)
      PROVE  CarriedOut(a) = {}
  <2>1. PICK n \in DOMAIN requests : requests[n].attempt = a /\ Definite(requests[n])
    BY <1>1, <1>3 DEF ToldAt, Ground, Misjudged, RequestsOf
  <2>2. IsFiniteSet(RequestsOf(a))
    <3>1. IsFiniteSet(1 .. Len(requests)) /\ DOMAIN requests = 1 .. Len(requests)
      BY FS_Interval DEF WriteInv, WriteType
    <3> QED
      BY <3>1, FS_Subset DEF RequestsOf
  <2>3. PICK m : RequestsOf(a) = {m}
    BY <1>3, <2>2, FS_Singleton
  <2>4. \A c \in carried : c.attempt = a => c.request \in RequestsOf(a)
    BY DEF RequestsOf, WriteInv, CarriedFits, CarriedAt
  <2>5. n \in RequestsOf(a)
    BY <2>1 DEF RequestsOf
  <2>6. \A c \in carried : c.request # n
    BY <2>1 DEF WriteInv, AnswersFit, AnswerAt
  <2> QED
    BY <2>3, <2>4, <2>5, <2>6 DEF CarriedOut
<1> QED
  BY <1>2, <1>3

-----------------------------------------------------------------------------
(* The forms of the console. *)

\* What the gateway does leaves the decisions alone, and which request belongs to which.
LEMMA ServerFrame ==
  ASSUME WriteInv, Server
  PROVE  /\ UNCHANGED attempts /\ DOMAIN requests' = DOMAIN requests
         /\ \A m \in DOMAIN requests : requests'[m].attempt = requests[m].attempt /\ requests'[m].route = requests[m].route
<1>0. \A n \in DOMAIN requests : requests[n] \in RequestSet
  BY DEF WriteInv, WriteType
<1>1. ASSUME NEW n \in DOMAIN requests, Refuse(n) \/ ReplayStored(n) \/ FailUncommitted(n) \/ ServerResource(n)
      PROVE  /\ UNCHANGED attempts
             /\ \/ requests' = [requests EXCEPT ![n] = [requests[n] EXCEPT !.stage = "committed"]]
                \/ \E answer : requests' = [requests EXCEPT ![n] = [requests[n] EXCEPT !.stage = "answered", !.answer = answer]]
  BY <1>1 DEF Refuse, ReplayStored, FailUncommitted, ServerResource, Answered
<1>2. ASSUME NEW n \in DOMAIN requests, Commit(n)
      PROVE  /\ UNCHANGED attempts
             /\ \/ requests' = [requests EXCEPT ![n] = [requests[n] EXCEPT !.stage = "committed"]]
                \/ \E answer : requests' = [requests EXCEPT ![n] = [requests[n] EXCEPT !.stage = "answered", !.answer = answer]]
  BY <1>2 DEF Commit, Answered
<1>3. ASSUME NEW n \in DOMAIN requests, requests' = [requests EXCEPT ![n] = [requests[n] EXCEPT !.stage = "committed"]]
      PROVE  /\ DOMAIN requests' = DOMAIN requests
             /\ \A m \in DOMAIN requests : requests'[m].attempt = requests[m].attempt /\ requests'[m].route = requests[m].route
  BY <1>0, <1>3 DEF RequestSet
<1>4. ASSUME NEW n \in DOMAIN requests, NEW answer,
             requests' = [requests EXCEPT ![n] = [requests[n] EXCEPT !.stage = "answered", !.answer = answer]]
      PROVE  /\ DOMAIN requests' = DOMAIN requests
             /\ \A m \in DOMAIN requests : requests'[m].attempt = requests[m].attempt /\ requests'[m].route = requests[m].route
  BY <1>0, <1>4 DEF RequestSet
<1>5. CASE Serve
  BY <1>5, <1>1, <1>2, <1>3, <1>4 DEF Serve
<1>6. CASE OtherEdit \/ Lapse \/ Restart
  BY <1>6 DEF OtherEdit, Lapse, Restart
<1> QED
  BY <1>5, <1>6 DEF Server

\* The controller, its page and its sink stay as they are.
LEMMA ServingFrame ==
  ASSUME Serving, UNCHANGED <<ctl, form, session, phase, sink>>, Reviewing',
         DOMAIN attempts \subseteq DOMAIN attempts', \A a \in DOMAIN attempts : attempts'[a].route = attempts[a].route,
         DOMAIN requests \subseteq DOMAIN requests', \A n \in DOMAIN requests : requests'[n].attempt = requests[n].attempt
  PROVE  Serving'
BY DEF Serving, Here, Shown, RouteNow

\* A controller at rest, and a sink that is closed or stays.
LEMMA ServingIdle ==
  ASSUME ctl' = Idle, draft'.shows = draft'.expected,
         sink' = NoSink \/ (Here /\ sink.epoch = session.epoch /\ Shown.sink # "none")'
  PROVE  Serving'
<1>1. ctl'.state = "editing"
  BY DEF Idle
<1> QED
  BY <1>1 DEF Serving, Reviewing

\* What a form on the page is.
LEMMA FormFacts ==
  ASSUME FormType, form # None
  PROVE  /\ form \in Forms /\ SoundForm(form) /\ phase \in 1 .. Len(Shown.routes)
         /\ RouteNow \in DOMAIN Routes /\ RouteNow # "rotation_complete"
         /\ Shown.expected # "none" => Has(RouteNow, "revision")
         /\ Shown.expected \in {"none", "live", "confirm", "held"}
         /\ Shown.expected = "confirm" => ~Reviewed(form)
<1>1. form \in Forms /\ form \in DOMAIN FormOf
  BY FormsAssumption DEF FormType
<1>2. SoundForm(form)
  BY <1>1, FormsAreSound
<1>3. phase \in 1 .. Len(Shown.routes)
  BY <1>2 DEF FormType, SoundForm, Shown
<1> QED
  BY <1>1, <1>2, <1>3 DEF SoundForm, Shown, RouteNow

\* The types of what the page and the controller hold.
LEMMA FormTypes ==
  ASSUME FormType
  PROVE  /\ page.rev \in Nat /\ page.version \in Nat /\ draft.shows \in Nat /\ draft.expected \in Nat /\ draft.dirty \in BOOLEAN
         /\ ctl.state \in {"editing", "confirming", "submitting", "rejected", "uncertain"}
         /\ ctl.etag \in Revs /\ ctl.seen \in Nat
         /\ ctl.attempt \in Nat /\ ctl.request \in Nat /\ ctl.refresh \in BOOLEAN
         /\ session.epoch \in Nat /\ sink.epoch \in Nat
BY DEF FormType, CtlSet

\* An attempt that is only told its outcome is still the form's.
LEMMA FormAttemptsFrame ==
  ASSUME FormAttempts, DOMAIN attempts' = DOMAIN attempts,
         \A b \in DOMAIN attempts :
            /\ attempts'[b].by = attempts[b].by /\ attempts'[b].route = attempts[b].route
            /\ attempts'[b].shows = attempts[b].shows /\ attempts'[b].etag = attempts[b].etag
  PROVE  FormAttempts'
BY DEF FormAttempts, FromForm, Has

\* A form submits: what it sends is what its author saw.
LEMMA StartKeeps ==
  ASSUME FormInv, Here, NEW etag \in Revs, NEW looked \in Nat, Start(etag, looked),
         Shown.expected = "none" => etag = None,
         Reviewed(form) /\ etag # None => looked = etag,
         sink' = IF Shown.sink = "none" THEN sink ELSE Prepared(Shown.sink),
         UNCHANGED <<target, records, lapsed, carried, latched>>,
         UNCHANGED <<form, page, draft, review, blockedAt, late, neighbor, phase, session, webLatched>>
  PROVE  FormInv'
<1>0. WriteInv /\ FormType /\ Serving /\ FormAttempts /\ form # None /\ session.in
  BY DEF FormInv, Here
<1>1. /\ form \in Forms /\ RouteNow \in DOMAIN Routes /\ RouteNow # "rotation_complete"
      /\ Shown.expected # "none" => Has(RouteNow, "revision")
  BY <1>0, FormFacts
<1>2. Len(attempts) \in Nat
  BY <1>0 DEF WriteInv, WriteType
<1>3. Key \in Keys /\ (Key # None => Key = Len(attempts) + 1 /\ Has(RouteNow, "record"))
  BY <1>2, KeyedRoutes DEF Key, Keys
<1>4. looked \in Revs
  BY DEF Revs
<1>5. Send(form, RouteNow, etag, Key, looked)
  BY DEF Start
<1> DEFINE key == Key
           route == RouteNow
           shows == looked
           new == [by |-> form, route |-> route, shows |-> shows, etag |-> etag, key |-> key, told |-> "nothing"]
<1>6. /\ WriteInv'
      /\ Len(attempts') = Len(attempts) + 1
      /\ DOMAIN attempts' = DOMAIN attempts \union {Len(attempts')}
      /\ attempts'[Len(attempts')] = new
      /\ \A a \in DOMAIN attempts : attempts'[a] = attempts[a]
      /\ Len(requests') = Len(requests) + 1
      /\ DOMAIN requests' = DOMAIN requests \union {Len(requests')}
      /\ requests'[Len(requests')].attempt = Len(attempts')
      /\ \A n \in DOMAIN requests : requests'[n] = requests[n]
  <2>1. form \in Forms \union Names /\ route \in DOMAIN Routes /\ key \in Keys /\ shows \in Revs
        /\ (key # None => key = Len(attempts) + 1 /\ Has(route, "record"))
    BY <1>1, <1>3, <1>4
  <2>2. Send(form, route, etag, key, shows)
    BY <1>5
  <2>3. UNCHANGED <<target, records, lapsed, carried, latched>>
    OBVIOUS
  <2> HIDE DEF key, route, shows
  <2>4. WriteInv'
    BY <1>0, <2>1, <2>2, <2>3, Sending
  <2>5. Len(attempts') = Len(attempts) + 1 /\ DOMAIN attempts' = DOMAIN attempts \union {Len(attempts')}
    BY <1>0, <2>1, <2>2, <2>3, Sending
  <2>6. attempts'[Len(attempts')] = new
    BY <1>0, <2>1, <2>2, <2>3, Sending
  <2>7. \A a \in DOMAIN attempts : attempts'[a] = attempts[a]
    BY <1>0, <2>1, <2>2, <2>3, Sending
  <2>8. Len(requests') = Len(requests) + 1 /\ DOMAIN requests' = DOMAIN requests \union {Len(requests')}
    BY <1>0, <2>1, <2>2, <2>3, Sending
  <2>9. requests'[Len(requests')].attempt = Len(attempts')
    BY <1>0, <2>1, <2>2, <2>3, Sending
  <2>10. \A n \in DOMAIN requests : requests'[n] = requests[n]
    BY <1>0, <2>1, <2>2, <2>3, Sending
  <2> QED
    BY <2>4, <2>5, <2>6, <2>7, <2>8, <2>9, <2>10
<1>7. /\ ctl'.state = "submitting" /\ ctl'.request = Len(requests') /\ ctl'.attempt = Len(attempts')
      /\ ctl'.etag = etag /\ ctl'.refresh = FALSE
      /\ ctl' = [state |-> "submitting", request |-> Len(requests'), attempt |-> Len(attempts'), etag |-> etag, seen |-> 0,
                refresh |-> FALSE]
  BY DEF Start, Idle
<1>8. Len(requests') \in Nat /\ Len(attempts') \in Nat
  BY <1>6 DEF WriteInv, WriteType
<1>9. /\ sink' \in [kind : {"none", "oauth", "one_time"}, epoch : Nat, dialog : {"closed", "awaiting", "shown", "lost"}]
      /\ sink' = NoSink \/ (sink'.epoch = session.epoch /\ Shown.sink # "none")
  <2>1. CASE Shown.sink = "none"
    BY <2>1, <1>0 DEF FormType, Serving
  <2>2. CASE Shown.sink # "none"
    <3>1. Shown.sink \in {"none", "oauth", "one_time"} /\ session.epoch \in Nat
      BY <1>0, FormTypes, FormFacts DEF SoundForm, Shown
    <3> QED
      BY <2>2, <3>1 DEF Prepared
  <2> QED
    BY <2>1, <2>2
<1>10. FormType'
  <2>1. ctl' \in CtlSet
    BY <1>7, <1>8 DEF CtlSet
  <2> QED
    BY <2>1, <1>9, <1>0 DEF FormType, Shown
<1>11. Serving'
  <2>1. /\ ctl'.attempt \in DOMAIN attempts' /\ attempts'[ctl'.attempt].route = RouteNow
        /\ ctl'.request \in DOMAIN requests' /\ requests'[ctl'.request].attempt = ctl'.attempt
    BY <1>6, <1>7
  <2>2. Here' /\ RouteNow' = RouteNow /\ Shown' = Shown /\ session' = session
    BY DEF Here, RouteNow, Shown
  <2>3. draft'.shows = draft'.expected
    BY <1>0 DEF Serving, Reviewing
  <2> QED
    BY <2>1, <2>2, <2>3, <1>7, <1>9 DEF Serving, Reviewing
<1>12. FormAttempts'
  <2>1. \A a \in DOMAIN attempts : FromForm(attempts[a])
    BY <1>0 DEF FormAttempts
  <2>2. FromForm(new)
    <3>1. Reviewed(form) /\ etag # None => shows = etag
      OBVIOUS
    <3>2. etag # None => Has(route, "revision")
      BY <1>1
    <3>3. new.by = form /\ new.route = route /\ new.shows = shows /\ new.etag = etag
      OBVIOUS
    <3> HIDE DEF new, shows
    <3> QED
      BY <3>1, <3>2, <3>3, <1>1 DEF FromForm
  <2> HIDE DEF new
  <2>3. \A a \in DOMAIN attempts' : FromForm(attempts'[a])
    BY <2>1, <2>2, <1>6
  <2> QED
    BY <2>3 DEF FormAttempts, FromForm, Has
<1> QED
  BY <1>6, <1>10, <1>11, <1>12 DEF FormInv

\* A submission settles on good grounds.
LEMMA SettleKeeps ==
  ASSUME FormInv, Here, ctl.state = "submitting",
         NEW outcome \in {"acknowledged", "rejected", "uncertain"}, NEW code, NEW rev \in Nat, SettleAs(outcome, code, rev),
         outcome = "acknowledged" => (\E c \in carried : c.attempt = ctl.attempt) \/ target.gone,
         outcome = "rejected" => Ground(attempts[ctl.attempt], requests[ctl.request])
  PROVE  FormInv'
<1>0. WriteInv /\ FormType /\ Serving /\ FormAttempts /\ form # None /\ session.in
  BY DEF FormInv, Here
<1>1. /\ ctl.attempt \in DOMAIN attempts /\ attempts[ctl.attempt].route = RouteNow
      /\ ctl.request \in DOMAIN requests /\ requests[ctl.request].attempt = ctl.attempt
  BY <1>0 DEF Serving
<1>2. /\ attempts' = [attempts EXCEPT ![ctl.attempt].told = outcome]
      /\ UNCHANGED <<target, records, lapsed, requests, carried, latched>>
      /\ UNCHANGED <<page, late, neighbor, session>> /\ sink' = SinkAfter(outcome)
  BY DEF SettleAs
<1>3. /\ WriteInv' /\ DOMAIN attempts' = DOMAIN attempts
      /\ \A b \in DOMAIN attempts :
           /\ attempts'[b].by = attempts[b].by /\ attempts'[b].route = attempts[b].route
           /\ attempts'[b].shows = attempts[b].shows /\ attempts'[b].etag = attempts[b].etag
  <2> DEFINE a == ctl.attempt
  <2>1. outcome = "rejected" => \E n \in DOMAIN requests : requests[n].attempt = a /\ Ground(attempts[a], requests[n])
    BY <1>1
  <2>2. /\ a \in DOMAIN attempts /\ attempts' = [attempts EXCEPT ![a].told = outcome]
        /\ outcome = "acknowledged" => (\E c \in carried : c.attempt = a) \/ target.gone
    BY <1>1, <1>2
  <2> HIDE DEF a
  <2> QED
    BY <1>0, <1>2, <2>1, <2>2, Telling
<1>4. FormAttempts'
  BY <1>0, <1>3, FormAttemptsFrame
<1>5. /\ sink' \in [kind : {"none", "oauth", "one_time"}, epoch : Nat, dialog : {"closed", "awaiting", "shown", "lost"}]
      /\ sink' = NoSink \/ (sink'.epoch = session.epoch /\ Shown.sink # "none")
  <2>1. CASE Shown.sink = "none" \/ ~Matches
    <3>1. sink' = sink
      BY <2>1, <1>2 DEF SinkAfter
    <3> QED
      BY <3>1, <1>0 DEF FormType, Serving
  <2>2. CASE Shown.sink # "none" /\ Matches
    <3>1. sink' = NoSink \/ (\E dialog \in {"shown", "lost"} : sink' = [sink EXCEPT !.dialog = dialog])
      BY <2>2, <1>2 DEF SinkAfter
    <3>2. sink.epoch = session.epoch
      BY <2>2 DEF Matches
    <3> QED
      BY <2>2, <3>1, <3>2, <1>0 DEF FormType, NoSink
  <2> QED
    BY <2>1, <2>2
<1>6. SoundForm(form) /\ phase \in 1 .. Len(Shown.routes) /\ Len(Shown.routes) \in Nat
      /\ DOMAIN Shown.routes = 1 .. Len(Shown.routes)
  BY <1>0, FormFacts DEF SoundForm, Shown
<1>7. /\ draft' \in [shows : Nat, expected : Nat, dirty : BOOLEAN] /\ draft'.shows = draft'.expected
  <2>1. \/ draft' = Fresh(rev) \/ draft' = [draft EXCEPT !.dirty = FALSE] \/ draft' = draft
    BY DEF SettleAs
  <2>2. CASE draft' = Fresh(rev)
    BY <2>2 DEF Fresh
  <2>3. CASE draft' = [draft EXCEPT !.dirty = FALSE]
    BY <2>3, <1>0 DEF FormType, Serving, Reviewing
  <2>4. CASE draft' = draft
    BY <2>4, <1>0 DEF FormType, Serving, Reviewing
  <2> QED
    BY <2>1, <2>2, <2>3, <2>4
<1>8. CASE outcome = "acknowledged"
  <2>1. /\ ctl' = Idle /\ phase' = (IF phase < Len(Shown.routes) THEN phase + 1 ELSE 1)
        /\ form' = (IF Shown.leaves THEN None ELSE form)
    BY <1>8 DEF SettleAs
  <2>2. phase' \in 1 .. Len(Shown.routes)
    BY <2>1, <1>6
  <2>3. ctl' \in CtlSet
    BY <2>1 DEF Idle, CtlSet, Revs
  <2>4. FormType'
    <3>1. form' # None => form' = form
      BY <2>1
    <3>2. form' # None => (phase \in DOMAIN Shown.routes)'
      BY <3>1, <2>2, <1>6 DEF Shown
    <3> QED
      BY <1>0, <1>2, <1>5, <1>7, <2>1, <2>3, <3>2 DEF FormType
  <2>5. sink' = NoSink \/ (Here /\ sink.epoch = session.epoch /\ Shown.sink # "none")'
    <3>1. CASE sink' # NoSink
      <4>1. Shown.sink # "none" /\ sink'.epoch = session.epoch
        BY <3>1, <1>5
      <4>2. ~Shown.leaves
        BY <4>1, <1>6 DEF SoundForm, Shown
      <4>3. form' = form
        BY <4>2, <2>1
      <4> QED
        BY <4>1, <4>3, <1>0, <1>2 DEF Here, Shown
    <3> QED
      BY <3>1
  <2>6. Serving'
    BY <2>1, <2>5, <1>7, ServingIdle
  <2> QED
    BY <1>3, <1>4, <2>4, <2>6 DEF FormInv
<1>9. CASE outcome # "acknowledged"
  <2>1. UNCHANGED <<draft, phase, form>>
    BY <1>9 DEF SettleAs
  <2>2. Here' /\ Shown' = Shown /\ RouteNow' = RouteNow
    BY <2>1, <1>0, <1>2 DEF Here, Shown, RouteNow
  <2>3. \/ outcome = "rejected" /\ \E refresh \in BOOLEAN : ctl' = [Idle EXCEPT !.state = "rejected", !.refresh = refresh]
        \/ outcome = "uncertain" /\ ctl' = [ctl EXCEPT !.state = "uncertain", !.request = 0]
    BY <1>9 DEF SettleAs
  <2>4. /\ ctl' \in CtlSet /\ ctl'.state \in {"rejected", "uncertain"}
        /\ ctl'.state = "uncertain" => ctl'.attempt = ctl.attempt
    <3>1. CASE \E refresh \in BOOLEAN : ctl' = [Idle EXCEPT !.state = "rejected", !.refresh = refresh]
      <4>1. PICK refresh \in BOOLEAN : ctl' = [Idle EXCEPT !.state = "rejected", !.refresh = refresh]
        BY <3>1
      <4>2. ctl' = [state |-> "rejected", request |-> 0, attempt |-> 0, etag |-> None, seen |-> 0, refresh |-> refresh]
        BY <4>1 DEF Idle
      <4> QED
        BY <4>2 DEF CtlSet, Revs
    <3>2. CASE ctl' = [ctl EXCEPT !.state = "uncertain", !.request = 0]
      BY <3>2, <1>0 DEF FormType, CtlSet
    <3> QED
      BY <2>3, <3>1, <3>2
  <2>5. FormType'
    BY <1>0, <1>2, <1>5, <2>1, <2>4 DEF FormType, Shown
  <2>6. Serving'
    BY <1>0, <1>1, <1>2, <1>3, <1>5, <1>7, <2>2, <2>4 DEF Serving, Reviewing
  <2> QED
    BY <1>3, <1>4, <2>5, <2>6 DEF FormInv
<1> QED
  BY <1>8, <1>9

\* What a form may take from an answer.
LEMMA SettlesKeep ==
  ASSUME FormInv, Settle \/ NetworkFails
  PROVE  FormInv'
<1>0. WriteInv /\ FormType /\ Serving /\ Here /\ ctl.state = "submitting"
  BY DEF FormInv, Settle, NetworkFails
<1>1. /\ ctl.attempt \in DOMAIN attempts /\ attempts[ctl.attempt].route = RouteNow
      /\ ctl.request \in DOMAIN requests /\ requests[ctl.request].attempt = ctl.attempt
  BY <1>0 DEF Serving
<1>2. CASE NetworkFails
  <2>1. SettleAs("uncertain", "network", 0)
    BY <1>2 DEF NetworkFails
  <2> QED
    BY <1>0, <2>1, SettleKeeps
<1>3. CASE Settle
  <2> DEFINE x == requests[ctl.request]
             ans == x.answer
             outcome == OutcomeOf(ans, Routes[RouteNow].custody)
  <2>1. /\ x.stage = "answered" /\ LinkedAt(ctl.request) /\ AnswerAt(ctl.request) /\ x \in RequestSet
    BY <1>0, <1>1, <1>3, RequestFacts DEF Settle
  <2>2. x.answer \in AnswerSet /\ x.route = RouteNow
    BY <2>1, <1>1 DEF LinkedAt
  <2>3. ans.rev \in Nat /\ ans.kind \in {"ok", "problem"}
    BY <2>2 DEF AnswerSet
  <2>4. SettleAs(outcome, ans.code, ans.rev) \/ (ans.kind = "ok" /\ SettleAs("uncertain", "unreadable", 0))
    BY <1>3 DEF Settle
  <2>5. CASE SettleAs("uncertain", "unreadable", 0)
    BY <1>0, <2>5, SettleKeeps
  <2>6. CASE SettleAs(outcome, ans.code, ans.rev)
    <3>1. outcome \in {"acknowledged", "rejected", "uncertain"}
      BY DEF OutcomeOf
    <3>2. outcome = "acknowledged" => ans.kind = "ok"
      BY DEF OutcomeOf
    <3>3. outcome = "rejected" =>
            ans.kind # "ok" /\ ans.code # "storage_unavailable" /\ ~(ans.code = "keyring_unavailable" /\ Routes[RouteNow].custody)
      BY DEF OutcomeOf
    <3>4. outcome = "acknowledged" => (\E c \in carried : c.attempt = ctl.attempt) \/ target.gone
      BY <3>2, <2>1, <1>1 DEF AnswerAt, Succeeded
    <3>5. outcome = "rejected" => Ground(attempts[ctl.attempt], x)
      BY <3>3, <2>1, <2>2, <2>3, <1>1 DEF AnswerAt, Ground, Definite, Misjudges
    <3> HIDE DEF outcome, ans
    <3> QED
      BY <1>0, <2>3, <2>6, <3>1, <3>4, <3>5, SettleKeeps
  <2> QED
    BY <2>4, <2>5, <2>6
<1> QED
  BY <1>2, <1>3

\* Steps that change only the page and what the draft was made from.
LEMMA PageKeeps ==
  ASSUME FormInv, Edit \/ PageRead \/ StatusRead \/ Discard
  PROVE  FormInv'
<1>0. WriteInv /\ FormType /\ Serving /\ FormAttempts
  BY DEF FormInv
<1>1. UNCHANGED writeVars /\ UNCHANGED <<form, ctl, phase, sink, session>>
  BY DEF Edit, PageRead, StatusRead, Discard
<1>2. WriteInv' /\ UNCHANGED <<attempts, requests>>
  BY <1>0, <1>1, Stuttering DEF writeVars
<1>3. target.rev \in Nat
  BY <1>0 DEF WriteInv, WriteType, TargetSet
<1>4. /\ draft' \in [shows : Nat, expected : Nat, dirty : BOOLEAN] /\ draft'.shows = draft'.expected
      /\ ctl.state = "confirming" /\ draft.dirty => draft' = draft
  <2>1. \/ draft' = [draft EXCEPT !.dirty = TRUE] /\ ctl.state # "confirming"
        \/ draft' = draft
        \/ Rebased /\ draft' = Fresh(target.rev)
    BY DEF Edit, PageRead, StatusRead, Discard
  <2>2. CASE draft' = [draft EXCEPT !.dirty = TRUE] /\ ctl.state # "confirming"
    BY <2>2, <1>0 DEF FormType, Serving, Reviewing
  <2>3. CASE draft' = draft
    BY <2>3, <1>0 DEF FormType, Serving, Reviewing
  <2>4. CASE Rebased /\ draft' = Fresh(target.rev)
    <3>1. ~draft.dirty
      BY <2>4 DEF Rebased
    <3> QED
      BY <2>4, <3>1, <1>3 DEF Fresh
  <2> QED
    BY <2>1, <2>2, <2>3, <2>4
<1>5. page' \in [rev : Nat, version : Nat, ok : BOOLEAN]
  <2>1. \/ page' = page
        \/ page' = [rev |-> target.rev, version |-> page.version + 1, ok |-> TRUE]
        \/ page' = [page EXCEPT !.ok = FALSE]
    BY DEF Edit, PageRead, StatusRead, Discard
  <2>2. page.version + 1 \in Nat
    BY <1>0, FormTypes
  <2>3. CASE page' = [page EXCEPT !.ok = FALSE]
    BY <2>3, <1>0 DEF FormType
  <2>4. CASE page' = [rev |-> target.rev, version |-> page.version + 1, ok |-> TRUE]
    BY <2>4, <2>2, <1>3
  <2> QED
    BY <2>1, <2>3, <2>4, <1>0 DEF FormType
<1>6. FormType'
  BY <1>0, <1>1, <1>4, <1>5 DEF FormType, Shown
<1>7. Serving'
  <2>1. Reviewing'
    BY <1>0, <1>1, <1>4 DEF Serving, Reviewing, Shown
  <2> QED
    BY <1>0, <1>1, <1>2, <2>1, ServingFrame
<1>8. FormAttempts'
  BY <1>0, <1>2, FormAttemptsFrame
<1> QED
  BY <1>2, <1>6, <1>7, <1>8 DEF FormInv

\* Steps that end a submission, or a visit, without the gateway.
LEMMA RestKeeps ==
  ASSUME FormInv, Abandon \/ UseReviewed \/ Dismiss \/ SessionEnds \/ Leave
  PROVE  FormInv'
<1>0. WriteInv /\ FormType /\ Serving /\ FormAttempts
  BY DEF FormInv
<1>1. UNCHANGED writeVars /\ UNCHANGED <<page, phase>>
  BY DEF Abandon, UseReviewed, Dismiss, SessionEnds, Leave
<1>2. WriteInv' /\ UNCHANGED <<attempts, requests>>
  BY <1>0, <1>1, Stuttering DEF writeVars
<1>3. draft' \in [shows : Nat, expected : Nat, dirty : BOOLEAN] /\ draft'.shows = draft'.expected
  <2>1. CASE UseReviewed
    <3> DEFINE dirty == draft.dirty /\ ctl.state # "uncertain"
               rev == page.rev
    <3>1. draft' = [Fresh(rev) EXCEPT !.dirty = dirty]
      BY <2>1 DEF UseReviewed
    <3>2. dirty \in BOOLEAN /\ rev \in Nat
      BY <1>0, FormTypes
    <3> HIDE DEF dirty, rev
    <3> QED
      BY <3>1, <3>2 DEF Fresh
  <2>2. CASE draft' = draft
    BY <2>2, <1>0 DEF FormType, Serving, Reviewing
  <2> QED
    BY <2>1, <2>2 DEF Abandon, Dismiss, SessionEnds, Leave
<1>4. /\ Idle \in CtlSet
      /\ NoSink \in [kind : {"none", "oauth", "one_time"}, epoch : Nat, dialog : {"closed", "awaiting", "shown", "lost"}]
  BY DEF Idle, CtlSet, Revs, NoSink
<1>5. FormAttempts'
  BY <1>0, <1>2, FormAttemptsFrame
<1>6. CASE Abandon \/ UseReviewed
  <2>1. ctl' = Idle /\ UNCHANGED <<form, sink, session>>
    BY <1>6 DEF Abandon, UseReviewed
  <2>2. FormType'
    BY <1>0, <1>1, <1>3, <1>4, <2>1 DEF FormType, Shown
  <2>3. sink' = NoSink \/ (Here /\ sink.epoch = session.epoch /\ Shown.sink # "none")'
    BY <1>0, <2>1 DEF Serving, Here, Shown
  <2>4. Serving'
    BY <1>3, <2>1, <2>3, ServingIdle
  <2> QED
    BY <1>2, <1>5, <2>2, <2>4 DEF FormInv
<1>7. CASE Dismiss
  <2>1. sink' = NoSink /\ UNCHANGED <<form, ctl, session, draft>>
    BY <1>7 DEF Dismiss
  <2>2. FormType'
    BY <1>0, <1>1, <1>3, <1>4, <2>1 DEF FormType, Shown
  <2>3. Serving'
    BY <1>0, <1>1, <1>2, <1>3, <2>1 DEF Serving, Reviewing, Here, Shown, RouteNow
  <2> QED
    BY <1>2, <1>5, <2>2, <2>3 DEF FormInv
<1>8. CASE SessionEnds \/ Leave
  <2>1. ctl' = Idle /\ sink' = NoSink /\ form' \in {form, None}
    BY <1>8 DEF SessionEnds, Leave, ResetForEpoch
  <2>2. session' \in [epoch : Nat, in : BOOLEAN]
    <3>1. session.epoch + 1 \in Nat
      BY <1>0, FormTypes
    <3>2. CASE SessionEnds
      <4>1. session' = [epoch |-> session.epoch + 1, in |-> FALSE]
        BY <3>2 DEF SessionEnds
      <4> QED
        BY <3>1, <4>1
    <3>3. CASE Leave
      BY <1>0, <3>3 DEF Leave, FormType
    <3> QED
      BY <1>8, <3>2, <3>3
  <2>3. FormType'
    <3>1. (form # None => phase \in DOMAIN Shown.routes)'
      BY <1>0, <1>1, <2>1 DEF FormType, Shown
    <3> QED
      BY <1>0, <1>1, <1>3, <1>4, <2>1, <2>2, <3>1 DEF FormType
  <2>4. Serving'
    BY <1>3, <2>1, ServingIdle
  <2> QED
    BY <1>2, <1>5, <2>3, <2>4 DEF FormInv
<1> QED
  BY <1>6, <1>7, <1>8

\* A form is put on the page: its controller is at rest and its sink closed.
LEMMA MountKeeps ==
  ASSUME FormInv, SignIn \/ Return
  PROVE  FormInv'
<1>0. WriteInv /\ FormType /\ Serving /\ FormAttempts
  BY DEF FormInv
<1>1. UNCHANGED writeVars /\ UNCHANGED <<ctl, sink>> /\ Mount /\ form' \in Forms /\ session'.in
  BY <1>0 DEF SignIn, Return, FormType
<1>2. WriteInv' /\ UNCHANGED <<attempts, requests>>
  BY <1>0, <1>1, Stuttering DEF writeVars
<1>3. ~Here
  BY DEF SignIn, Return, Here
<1>4. ctl.state = "editing" /\ sink = NoSink
  BY <1>0, <1>3 DEF Serving
<1>5. target.rev \in Nat /\ page.version + 1 \in Nat
  BY <1>0, FormTypes DEF WriteInv, WriteType, TargetSet
<1>6. draft' \in [shows : Nat, expected : Nat, dirty : BOOLEAN] /\ draft'.shows = draft'.expected
  BY <1>1, <1>5 DEF Mount, Fresh
<1>7. page' \in [rev : Nat, version : Nat, ok : BOOLEAN] /\ phase' = 1
  BY <1>1, <1>5 DEF Mount
<1>8. session' \in [epoch : Nat, in : BOOLEAN]
  BY <1>0 DEF SignIn, Return, FormType
<1>9. form' # None => (phase \in DOMAIN Shown.routes)'
  <2>1. form' \in DOMAIN FormOf
    BY <1>1, FormsAssumption
  <2>2. 1 \in DOMAIN FormOf[form'].routes
    BY <2>1, FormsAreSound DEF SoundForm
  <2> QED
    BY <2>2, <1>7 DEF Shown
<1>10. FormType'
  BY <1>0, <1>1, <1>6, <1>7, <1>8, <1>9 DEF FormType
<1>11. Serving'
  BY <1>1, <1>4, <1>6 DEF Serving, Reviewing
<1>12. FormAttempts'
  BY <1>0, <1>2, FormAttemptsFrame
<1> QED
  BY <1>2, <1>10, <1>11, <1>12 DEF FormInv

\* A submission is begun, or asks for a confirmation first.
LEMMA SubmitKeeps ==
  ASSUME FormInv, Review \/ Confirm
  PROVE  FormInv'
<1>0. WriteInv /\ FormType /\ Serving /\ FormAttempts /\ Here /\ form # None
  BY DEF FormInv, Review, Confirm, Here
<1>1. Shown.expected \in {"none", "live", "confirm", "held"}
  BY <1>0, FormFacts
<1>2. /\ Expected \in Revs /\ (Shown.expected = "none" => Expected = None)
      /\ (Shown.expected = "held" => Expected = draft.expected)
  BY <1>0, <1>1, FormTypes DEF Expected, Revs
<1>3. UNCHANGED <<form, page, draft, review, blockedAt, late, neighbor, phase, session, webLatched>>
  BY DEF Review, Confirm
<1>4. ASSUME ctl' \in CtlSet, ctl'.state \in {"editing", "confirming"}, Reviewing', UNCHANGED <<writeVars, sink>>
      PROVE  FormInv'
  <2>1. WriteInv' /\ UNCHANGED <<attempts, requests>>
    BY <1>0, <1>4, Stuttering DEF writeVars
  <2>3. FormType'
    BY <1>0, <1>3, <1>4 DEF FormType, Shown
  <2>4. Here' /\ Shown' = Shown
    BY <1>0, <1>3 DEF Here, Shown
  <2>5. Serving'
    BY <1>0, <1>3, <1>4, <2>4 DEF Serving
  <2>6. FormAttempts'
    BY <1>0, <2>1, FormAttemptsFrame
  <2> QED
    BY <2>1, <2>3, <2>5, <2>6 DEF FormInv
<1>8. /\ Looking \in Nat /\ draft.shows = draft.expected
      /\ Shown.expected = "live" /\ form # "edit_server" => Looking = Expected
      /\ Shown.expected = "held" => Looking = draft.shows
      /\ Shown.expected = "confirm" => ~Reviewed(form)
  BY <1>0, FormTypes, FormFacts DEF Looking, Expected, Serving, Reviewing
<1>5. ASSUME NEW etag \in Revs, NEW looked \in Nat, Start(etag, looked),
             Shown.expected = "none" => etag = None, Reviewed(form) /\ etag # None => looked = etag,
             sink' = IF Shown.sink = "none" THEN sink ELSE Prepared(Shown.sink), UNCHANGEDServer
      PROVE  FormInv'
  <2>1. UNCHANGED <<target, records, lapsed, carried, latched>>
    BY <1>5 DEF UNCHANGEDServer
  <2> QED
    BY <1>0, <1>3, <1>5, <2>1, StartKeeps
<1>6. CASE Review
  <2> DEFINE etag == Expected
             looked == Looking
  <2>1. \/ ctl' = [Idle EXCEPT !.state = "confirming", !.etag = etag, !.seen = looked] /\ UNCHANGED <<writeVars, sink>>
        \/ Start(etag, looked) /\ sink' = (IF Shown.sink = "none" THEN sink ELSE Prepared(Shown.sink)) /\ UNCHANGEDServer
    BY <1>6 DEF Review
  <2>2. /\ etag \in Revs /\ looked \in Nat /\ (Shown.expected = "none" => etag = None)
        /\ Reviewed(form) /\ etag # None => looked = etag
        /\ Shown.expected = "live" /\ form # "edit_server" => looked = etag
        /\ Shown.expected = "held" => draft.dirty /\ looked = draft.shows
    BY <1>1, <1>2, <1>6, <1>8 DEF Reviewed, Review
  <2> HIDE DEF etag, looked
  <2>3. CASE ctl' = [Idle EXCEPT !.state = "confirming", !.etag = etag, !.seen = looked] /\ UNCHANGED <<writeVars, sink>>
    <3>1. ctl' \in CtlSet /\ ctl'.state = "confirming" /\ ctl'.etag = etag /\ ctl'.seen = looked
      <4>1. ctl' = [state |-> "confirming", request |-> 0, attempt |-> 0, etag |-> etag, seen |-> looked, refresh |-> FALSE]
        BY <2>3 DEF Idle
      <4> QED
        BY <2>2, <4>1 DEF CtlSet
    <3>2. Reviewing'
      BY <2>2, <3>1, <1>3, <1>8 DEF Reviewing, Shown
    <3> QED
      BY <2>3, <3>1, <3>2, <1>4
  <2> QED
    BY <2>1, <2>2, <2>3, <1>5
<1>7. CASE Confirm
  <2> DEFINE etag == IF Shown.expected = "live" THEN ctl.etag ELSE Expected
             looked == ctl.seen
  <2>1. \/ ctl' = Idle /\ UNCHANGED <<writeVars, sink>>
        \/ Start(etag, looked) /\ sink' = (IF Shown.sink = "none" THEN sink ELSE Prepared(Shown.sink)) /\ UNCHANGEDServer
    BY <1>7 DEF Confirm
  <2>2. /\ etag \in Revs /\ looked \in Nat /\ (Shown.expected = "none" => etag = None)
        /\ Reviewed(form) /\ etag # None => looked = etag
    <3>1. ctl.state = "confirming" /\ Reviewing
      BY <1>0, <1>7 DEF Confirm, Serving
    <3> QED
      BY <3>1, <1>0, <1>1, <1>2, <1>8, FormTypes DEF Reviewed, Reviewing
  <2>3. CASE ctl' = Idle /\ UNCHANGED <<writeVars, sink>>
    <3>1. ctl' \in CtlSet /\ ctl'.state = "editing"
      BY <2>3 DEF Idle, CtlSet, Revs
    <3>2. Reviewing'
      BY <3>1, <1>3, <1>8 DEF Reviewing
    <3> QED
      BY <2>3, <3>1, <3>2, <1>4
  <2> HIDE DEF etag, looked
  <2> QED
    BY <2>1, <2>2, <2>3, <1>5
<1> QED
  BY <1>6, <1>7

\* A keyed submission is sent again while its outcome is uncertain.
LEMMA ReplayAgainKeeps ==
  ASSUME FormInv, Replay
  PROVE  FormInv'
<1>0. WriteInv /\ FormType /\ Serving /\ FormAttempts /\ Here /\ ctl.state = "uncertain"
  BY DEF FormInv, Replay
<1>1. UNCHANGED <<form, page, draft, review, blockedAt, late, neighbor, phase, sink, session, webLatched>>
      /\ UNCHANGED <<target, records, lapsed, attempts, carried, latched>>
      /\ ctl' = [ctl EXCEPT !.state = "submitting", !.request = Len(requests')]
  BY DEF Replay, UNCHANGEDServer
<1>2. ctl.attempt \in DOMAIN attempts /\ attempts[ctl.attempt].route = RouteNow /\ ctl.etag \in Revs
      /\ attempts[ctl.attempt].key # None /\ SendAgain(ctl.attempt, ctl.etag)
  BY <1>0, FormTypes DEF Serving, Replay
<1> DEFINE a == ctl.attempt
           etag == ctl.etag
<1>3. /\ WriteInv' /\ Len(requests') = Len(requests) + 1
      /\ DOMAIN requests' = DOMAIN requests \union {Len(requests')}
      /\ requests'[Len(requests')].attempt = ctl.attempt
  <2>1. a \in DOMAIN attempts /\ etag \in Revs /\ attempts[a].key # None /\ SendAgain(a, etag)
    BY <1>2
  <2>2. /\ WriteInv' /\ Len(requests') = Len(requests) + 1
        /\ DOMAIN requests' = DOMAIN requests \union {Len(requests')}
        /\ requests'[Len(requests')].attempt = a
    <3> HIDE DEF a, etag
    <3> QED
      BY <1>0, <1>1, <2>1, SendingAgain
  <2> QED
    BY <2>2
<1>4. Len(requests') \in Nat
  BY <1>3 DEF WriteInv, WriteType
<1>5. /\ ctl' \in CtlSet /\ ctl'.state = "submitting" /\ ctl'.request = Len(requests')
      /\ ctl'.attempt = ctl.attempt
  BY <1>0, <1>1, <1>4 DEF FormType, CtlSet
<1>6. FormType'
  BY <1>0, <1>1, <1>5 DEF FormType, Shown
<1>7. Here' /\ Shown' = Shown /\ RouteNow' = RouteNow
  BY <1>0, <1>1 DEF Here, Shown, RouteNow
<1>8. Serving'
  BY <1>0, <1>1, <1>2, <1>3, <1>5, <1>7 DEF Serving, Reviewing
<1>9. FormAttempts'
  BY <1>0, <1>1, FormAttemptsFrame
<1> QED
  BY <1>3, <1>6, <1>8, <1>9 DEF FormInv

\* Another administrator acts beside the form.
LEMMA NeighborKeeps ==
  ASSUME FormInv, NeighborSaves
  PROVE  FormInv'
<1>0. WriteInv /\ FormType /\ Serving /\ FormAttempts
  BY DEF FormInv
<1>1. /\ target' = [target EXCEPT !.rev = @ + 1]
      /\ UNCHANGED <<records, lapsed, requests, attempts, carried, latched>>
      /\ UNCHANGED <<form, page, draft, ctl, phase, sink, session>>
  BY DEF NeighborSaves
<1>2. /\ target' \in TargetSet /\ target'.gone = target.gone /\ target'.old = target.old
      /\ target'.new = target.new
  BY <1>0, <1>1 DEF WriteInv, WriteType, TargetSet
<1>3. WriteInv'
  BY <1>0, <1>1, <1>2, Retargeting
<1>4. FormType'
  BY <1>0, <1>1 DEF FormType, Shown
<1>5. Reviewing'
  BY <1>0, <1>1 DEF Serving, Reviewing, Shown
<1>6. Serving'
  BY <1>0, <1>1, <1>5, ServingFrame
<1>7. FormAttempts'
  BY <1>0, <1>1, FormAttemptsFrame
<1> QED
  BY <1>3, <1>4, <1>6, <1>7 DEF FormInv

\* The gateway serves beside the form.
LEMMA FormServerKeeps ==
  ASSUME FormInv, Server, UNCHANGED formVars
  PROVE  FormInv'
<1>0. /\ WriteInv /\ FormType /\ Serving /\ FormAttempts
      /\ UNCHANGED <<form, page, draft, ctl, phase, sink, session>>
  BY DEF FormInv, formVars
<1>1. WriteInv'
  BY <1>0, ServerKeeps
<1>2. /\ UNCHANGED attempts /\ DOMAIN requests' = DOMAIN requests
      /\ \A m \in DOMAIN requests : requests'[m].attempt = requests[m].attempt
  BY <1>0, ServerFrame
<1>3. FormType'
  BY <1>0 DEF FormType, Shown
<1>4. Reviewing'
  BY <1>0 DEF Serving, Reviewing, Shown
<1>5. Serving'
  BY <1>0, <1>2, <1>4, ServingFrame
<1>6. FormAttempts'
  BY <1>0, <1>2, FormAttemptsFrame
<1> QED
  BY <1>1, <1>3, <1>5, <1>6 DEF FormInv

\* A page opens with nothing submitted.
LEMMA FormsBegin ==
  ASSUME Init, FormInit PROVE FormInv
<1>1. WriteInv
  BY WritesBegin
<1>2. form \in Forms /\ form \in DOMAIN FormOf /\ form # None
  BY FormsAssumption DEF FormInit
<1>3. 1 \in DOMAIN FormOf[form].routes
  BY <1>2, FormsAreSound DEF SoundForm
<1>4. FormType
  BY <1>2, <1>3 DEF FormType, FormInit, Fresh, Idle, CtlSet, Revs, NoSink, Shown
<1>5. Serving
  <2>1. ctl.state = "editing" /\ sink = NoSink /\ draft.shows = draft.expected
    BY DEF FormInit, Fresh, Idle
  <2> QED
    BY <2>1 DEF Serving, Reviewing
<1>6. FormAttempts
  BY DEF Init, FormAttempts
<1> QED
  BY <1>1, <1>4, <1>5, <1>6 DEF FormInv

\* No step of the forms or of the gateway breaks the forms' invariant.
LEMMA FormsKeep ==
  ASSUME FormInv, FormNext
  PROVE  FormInv'
BY SettlesKeep, PageKeeps, RestKeeps, MountKeeps, SubmitKeeps, ReplayAgainKeeps, NeighborKeeps,
   FormServerKeeps
   DEF FormNext, User, Browser

\* What the console promises follows.
LEMMA FormsFaithful ==
  ASSUME FormInv PROVE FormsAreFaithful
<1>1. ReviewedRevision
  <2> SUFFICES ASSUME NEW c \in carried, Reviewed(attempts[c.attempt].by),
                      attempts[c.attempt].etag # None, attempts[c.attempt].key = None
               PROVE  c.rev = attempts[c.attempt].shows
    BY DEF ReviewedRevision, Reviewed
  <2>1. CarriedAt(c) /\ LinkedAt(c.request)
    BY DEF FormInv, WriteInv, CarriedFits, CarriedAt, Linked
  <2>2. FromForm(attempts[c.attempt])
    BY <2>1 DEF FormInv, FormAttempts, CarriedAt, LinkedAt
  <2> QED
    BY <2>1, <2>2 DEF CarriedAt, LinkedAt, FromForm
<1>2. SecretStaysPut
  <2>1. NoSink.dialog = "closed"
    BY DEF NoSink
  <2> QED
    BY <2>1 DEF FormInv, Serving, SecretStaysPut, Here
<1> QED
  BY <1>1, <1>2 DEF FormsAreFaithful

-----------------------------------------------------------------------------
(* The commands. *)

\* What the table says of the command that runs.
LEMMA CommandFacts ==
  ASSUME CommandType
  PROVE  /\ command.name \in Names /\ command.name \in DOMAIN CommandOf
         /\ SoundSteps(command.name) /\ SoundAnswers(command.name)
         /\ command.pc \in 1 .. Len(Steps) /\ Len(Steps) \in Nat \ {0}
         /\ SubmitsOnce(Steps) /\ KeyFirst(Steps)
         /\ command.name \in KeyedCommands \/ Never(Steps, "key")
         /\ Rotating \/ Never(Steps, "complete")
         /\ Now.routes[1] \in DOMAIN Routes /\ Now.routes[1] # "rotation_complete"
<1>1. command.name \in Names /\ command.name \in DOMAIN CommandOf
  BY NamesAssumption DEF CommandType, CommandSet
<1>2. SoundSteps(command.name) /\ SoundAnswers(command.name)
  BY <1>1, CommandsAreSound
<1> QED
  BY <1>1, <1>2 DEF CommandType, SoundSteps, SoundAnswers, Steps, Now, Rotating

\* The numbered steps of a rotation.
LEMMA RotatingFacts ==
  ASSUME CommandType, Rotating
  PROVE  /\ Len(Steps) = 14 /\ Steps[7] = "submit" /\ Steps[13] = "complete" /\ Steps[14] = "final"
         /\ \A i \in 1 .. 14 : /\ Steps[i] = "submit" => i = 7
                               /\ Steps[i] = "complete" => i = 13
                               /\ Steps[i] = "final" => i = 14
                               /\ i >= 8 => (Steps[i] \in {"submit", "sink"} => FALSE)
         /\ Steps[8] = "write" /\ Steps[9] = "sync" /\ Steps[10] = "syncdir"
         /\ Steps[11] = "reopen" /\ Steps[12] = "verify"
         /\ Now.routes[2] = "rotation_complete" /\ command.key \in Keys
<1> DEFINE s == Steps
<1>1. s = <<"intent", "bearer", "old", "authority", "sink", "confirm", "submit",
            "write", "sync", "syncdir", "reopen", "verify", "complete", "final">>
      /\ Now.routes[2] = "rotation_complete"
  BY RotationSteps DEF Rotating, Steps, Now
<1>2. command.key \in Keys
  BY DEF CommandType, CommandSet
<1> HIDE DEF s
<1>3. Len(s) = 14 /\ s[7] = "submit" /\ s[13] = "complete" /\ s[14] = "final"
  BY <1>1
<1>4. s[8] = "write" /\ s[9] = "sync" /\ s[10] = "syncdir" /\ s[11] = "reopen" /\ s[12] = "verify"
  BY <1>1
<1>5. \A i \in 1 .. 14 : s[i] = "submit" => i = 7
  BY <1>1
<1>6. \A i \in 1 .. 14 : s[i] = "complete" => i = 13
  BY <1>1
<1>7. \A i \in 1 .. 14 : s[i] = "final" => i = 14
  BY <1>1
<1>8. \A i \in 1 .. 14 : i >= 8 => (s[i] \in {"submit", "sink"} => FALSE)
  BY <1>1
<1> QED
  BY <1>1, <1>2, <1>3, <1>4, <1>5, <1>6, <1>7, <1>8 DEF s

\* A command moves on, or ends with success at its last step.
LEMMA AdvancedFacts ==
  ASSUME NEW c \in CommandSet, c.pc \in 1 .. Len(Steps), Len(Steps) \in Nat, c.exit = "running"
  PROVE  LET d == Advanced(c) IN
         /\ d \in CommandSet /\ d.pc \in 1 .. Len(Steps)
         /\ d.name = c.name /\ d.etag = c.etag /\ d.key = c.key /\ d.attempt = c.attempt
         /\ d.request = c.request
         /\ \/ c.pc = Len(Steps) /\ d.exit = "ok" /\ d.pc = c.pc
            \/ c.pc # Len(Steps) /\ d.exit = "running" /\ d.pc = c.pc + 1
<1>1. CASE c.pc = Len(Steps)
  <2>1. Advanced(c) = [c EXCEPT !.exit = "ok"]
    BY <1>1 DEF Advanced, Steps
  <2> QED
    BY <1>1, <2>1 DEF CommandSet
<1>2. CASE c.pc # Len(Steps)
  <2>1. Advanced(c) = [c EXCEPT !.pc = c.pc + 1] /\ c.pc + 1 \in 1 .. Len(Steps) /\ c.pc + 1 \in Nat
    BY <1>2 DEF Advanced, Steps
  <2> QED
    BY <1>2, <2>1 DEF CommandSet
<1> QED
  BY <1>1, <1>2

\* While no completion was sent the file may still be lost.
NoCompletion == \A a \in DOMAIN attempts : ~Completing(a)

\* A command ends before its outcome is known, or without one.
LEMMA Stopping ==
  ASSUME CommandInv, Running, UNCHANGED writeVars, NEW e \in {"failed", "lost", "killed"},
         command' = [command EXCEPT !.exit = e], file' \in FileSet,
         NoCompletion \/ (file = "durable" => file' = "durable")
  PROVE  CommandInv'
<1>0. WriteInv /\ CommandType /\ Deciding /\ Storing /\ CommandAttempts /\ command \in CommandSet
  BY DEF CommandInv, CommandType
<1>1. WriteInv' /\ UNCHANGED <<attempts, requests>>
  BY <1>0, Stuttering DEF writeVars
<1>2. /\ command' \in CommandSet /\ command'.exit = e /\ command'.name = command.name
      /\ command'.pc = command.pc
      /\ command'.key = command.key /\ command'.attempt = command.attempt
      /\ command'.request = command.request
  BY <1>0 DEF CommandSet
<1>3. Steps' = Steps /\ Now' = Now /\ Rotating' = Rotating /\ ~Running' /\ command'.exit # "recovering"
  BY <1>2 DEF Steps, Now, Rotating, Running
<1>4. CommandType'
  BY <1>0, <1>2, <1>3 DEF CommandType
<1>5. Deciding'
  BY <1>0, <1>1, <1>2, <1>3 DEF Deciding
<1>6. Storing'
  BY <1>0, <1>1, <1>2, <1>3 DEF Storing, NoCompletion, Completing
<1>7. CommandAttempts'
  BY <1>0, <1>1 DEF CommandAttempts
<1> QED
  BY <1>1, <1>4, <1>5, <1>6, <1>7 DEF CommandInv

\* A command takes a step that submits nothing.
LEMMA Advancing ==
  ASSUME CommandInv, Running, UNCHANGED writeVars, Steps[command.pc] \notin {"submit", "complete"},
         command' \in CommandSet, command'.name = command.name, command'.attempt = command.attempt, command'.request = command.request,
         \/ command.pc = Len(Steps) /\ command'.exit = "ok" /\ command'.pc = command.pc
         \/ command.pc # Len(Steps) /\ command'.exit = "running" /\ command'.pc = command.pc + 1,
         \/ command'.key = command.key
         \/ command.key = None /\ Steps[command.pc] = "key" /\ command'.key = Len(attempts) + 1,
         file' \in FileSet,
         Steps[command.pc] = "final" => file' = file,
         Rotating /\ command.pc \in 10 .. 12 => file' = "durable"
  PROVE  CommandInv'
<1>0. WriteInv /\ CommandType /\ Deciding /\ Storing /\ CommandAttempts /\ command \in CommandSet
  BY DEF CommandInv, CommandType
<1>1. WriteInv' /\ UNCHANGED <<attempts, requests>>
  BY <1>0, Stuttering DEF writeVars
<1>2. command.pc \in 1 .. Len(Steps) /\ Len(Steps) \in Nat /\ command.pc \in Nat /\ command.request = 0
  BY <1>0, CommandFacts DEF Deciding
<1>3. Steps' = Steps /\ Now' = Now /\ Rotating' = Rotating
  BY DEF Steps, Now, Rotating
<1>4. CommandType'
  BY <1>0, <1>2, <1>3 DEF CommandType
<1>5. Deciding'
  <2>1. CASE command'.key = command.key
    BY <2>1, <1>0, <1>1, <1>2, <1>3 DEF Deciding, Running
  <2>2. CASE command.key = None /\ Steps[command.pc] = "key" /\ command'.key = Len(attempts) + 1
    <3>1. \E j \in 1 .. Len(Steps) : j >= command.pc /\ Steps[j] = "submit"
      BY <2>2, <1>0, <1>2, CommandFacts DEF KeyFirst
    <3>2. command.attempt = 0
      BY <3>1, <2>2, <1>0, <1>2 DEF Deciding
    <3>3. command.name \in KeyedCommands
      BY <2>2, <1>0, <1>2, CommandFacts DEF Never
    <3>4. Len(attempts) + 1 # None
      BY <1>0, NoneIsNoNumber DEF WriteInv, WriteType
    <3> QED
      BY <2>2, <3>2, <3>3, <3>4, <1>0, <1>1, <1>2, <1>3 DEF Deciding, Running, KeyedCommands
  <2> QED
    BY <2>1, <2>2
<1>6. Storing'
  <2>1. (Rotating /\ Running /\ command.pc >= 11)' => file' = "durable"
    <3> SUFFICES ASSUME Rotating, command'.exit = "running", command'.pc >= 11 PROVE file' = "durable"
      BY <1>3 DEF Running
    <3>1. Len(Steps) = 14 /\ Steps[13] = "complete"
      BY <1>0, RotatingFacts
    <3>2. command.pc \in 10 .. 12
      BY <3>1, <1>2
    <3> QED
      BY <3>2
  <2>2. ASSUME NEW a \in DOMAIN attempts, Completing(a)
        PROVE  Rotating /\ file' = "durable" /\ a = command'.attempt /\ command'.exit # "running"
    <3>1. Rotating /\ file = "durable" /\ a = command.attempt /\ command.pc = 14
      BY <2>2, <1>0, <1>2 DEF Storing
    <3>2. Len(Steps) = 14 /\ Steps[14] = "final"
      BY <3>1, <1>0, RotatingFacts
    <3> QED
      BY <3>1, <3>2
  <2>3. command'.exit # "recovering" /\ command'.request = 0
    BY <1>2
  <2> QED
    BY <2>1, <2>2, <2>3, <1>1, <1>3 DEF Storing, Running, Completing
<1>7. CommandAttempts'
  BY <1>0, <1>1 DEF CommandAttempts
<1> QED
  BY <1>1, <1>4, <1>5, <1>6, <1>7 DEF CommandInv

\* A failing command leaves a finished file alone.
LEMMA FailingKeeps ==
  ASSUME CommandInv, Running, UNCHANGED writeVars, command' = Failed(command), Cleanup \/ UNCHANGED file
  PROVE  CommandInv'
<1>1. command' = [command EXCEPT !.exit = "failed"]
  BY DEF Failed
<1>2. file' \in FileSet /\ (file = "durable" => file' = "durable")
  BY DEF Cleanup, CommandInv, CommandType, FileSet
<1> QED
  BY <1>1, <1>2, Stopping

\* The steps that read, ask or check, and those that write the file.
LEMMA QuietKeeps ==
  ASSUME CommandInv,
         \/ PrepareOnlineIntent \/ AcquireAdminBearer \/ ReadInput \/ RequireConfirmation \/ ResolveKey
         \/ ResolveMutationETag \/ LoadValidatedItem \/ LoadRotationCredential \/ LoadRotationAuthority
         \/ PrepareSensitiveSink \/ Publish \/ PublishAdminRotation \/ VerifyReplacement \/ VerifyFinal
  PROVE  CommandInv'
<1>0. WriteInv /\ CommandType /\ Deciding /\ Storing /\ command \in CommandSet /\ file \in FileSet
  BY DEF CommandInv, CommandType
<1>1. Running /\ UNCHANGED writeVars
  BY DEF PrepareOnlineIntent, AcquireAdminBearer, ReadInput, RequireConfirmation, Check,
     ResolveKey,
     ResolveMutationETag, LoadValidatedItem, LoadRotationCredential, LoadRotationAuthority, PrepareSensitiveSink,
     Publish, PublishAdminRotation, PublishStep, VerifyReplacement, VerifyFinal, At
<1>2. /\ command.pc \in 1 .. Len(Steps) /\ Len(Steps) \in Nat /\ command.exit = "running"
      /\ Rotating => Len(Steps) = 14 /\ Steps[10] = "syncdir" /\ Steps[11] = "reopen" /\ Steps[12] = "verify"
  BY <1>0, <1>1, CommandFacts, RotatingFacts DEF Running
<1>3. target.rev \in Nat /\ Len(attempts) \in Nat
  BY <1>0 DEF WriteInv, WriteType, TargetSet
<1> DEFINE d == Advanced(command)
<1>4. /\ d \in CommandSet /\ d.name = command.name /\ d.etag = command.etag /\ d.key = command.key
      /\ d.attempt = command.attempt /\ d.request = command.request
      /\ \/ command.pc = Len(Steps) /\ d.exit = "ok" /\ d.pc = command.pc
         \/ command.pc # Len(Steps) /\ d.exit = "running" /\ d.pc = command.pc + 1
  BY <1>0, <1>2, AdvancedFacts
<1>5. ASSUME command' = Failed(command), Cleanup \/ UNCHANGED file
      PROVE  CommandInv'
  BY <1>1, <1>5, FailingKeeps
<1> HIDE DEF d
<1>6. ASSUME command' = d, Steps[command.pc] \notin {"submit", "complete"}, file' \in FileSet,
             Steps[command.pc] = "final" => file' = file, Rotating /\ command.pc \in 10 .. 12 => file' = "durable"
      PROVE  CommandInv'
  BY <1>1, <1>4, <1>6, Advancing
<1>7. Rotating /\ command.pc >= 11 => file = "durable"
  BY <1>0, <1>1 DEF Storing
<1>8. ASSUME NEW step, Check(step), step \in {"intent", "bearer", "input", "confirm"}
      PROVE  CommandInv'
  <2>1. Steps[command.pc] = step
    BY <1>8 DEF Check, At, Steps
  <2>2. (command' = d /\ UNCHANGED file) \/ (command' = Failed(command) /\ Cleanup)
    BY <1>8 DEF Check, d
  <2>3. Rotating => command.pc \notin 10 .. 12
    BY <2>1, <1>2, <1>8
  <2> QED
    BY <1>0, <1>5, <1>6, <1>8, <2>1, <2>2, <2>3
<1>9. CASE PrepareOnlineIntent \/ AcquireAdminBearer \/ ReadInput \/ RequireConfirmation
  BY <1>8, <1>9 DEF PrepareOnlineIntent, AcquireAdminBearer, ReadInput, RequireConfirmation
<1>10. CASE ResolveKey
  <2> DEFINE key == IF command.key = None THEN Len(attempts) + 1 ELSE command.key
  <2>1. Steps[command.pc] = "key" /\ UNCHANGED file
    BY <1>10 DEF ResolveKey, At, Steps
  <2>2. command' = [d EXCEPT !.key = key]
    BY <1>4, <1>10 DEF ResolveKey, d
  <2>3. key \in Keys /\ (key = command.key \/ (command.key = None /\ key = Len(attempts) + 1))
    BY <1>0, <1>3 DEF CommandSet, Keys
  <2> HIDE DEF key
  <2>4. /\ command' \in CommandSet /\ command'.name = d.name /\ command'.attempt = d.attempt
        /\ command'.request = d.request
        /\ command'.exit = d.exit /\ command'.pc = d.pc /\ command'.key = key
    BY <1>4, <2>2, <2>3 DEF CommandSet
  <2>5. Rotating => command.pc \notin 10 .. 12
    BY <2>1, <1>2
  <2> QED
    BY <1>0, <1>1, <1>4, <2>1, <2>3, <2>4, <2>5, Advancing
<1>11. ASSUME NEW etag \in Revs, command' = [d EXCEPT !.etag = etag], UNCHANGED file,
              Steps[command.pc] \in {"etag", "item", "authority"}
       PROVE  CommandInv'
  <2>1. /\ command' \in CommandSet /\ command'.name = d.name /\ command'.attempt = d.attempt
        /\ command'.request = d.request
        /\ command'.exit = d.exit /\ command'.pc = d.pc /\ command'.key = d.key
    BY <1>4, <1>11 DEF CommandSet
  <2>2. Rotating => command.pc \notin 10 .. 12
    BY <1>2, <1>11
  <2> QED
    BY <1>0, <1>1, <1>4, <1>11, <2>1, <2>2, Advancing
<1>12. CASE ResolveMutationETag
  <2>1. Steps[command.pc] = "etag"
    BY <1>12 DEF ResolveMutationETag, At, Steps
  <2>2. (\E rev \in 1 .. target.rev : command' = [d EXCEPT !.etag = rev] /\ UNCHANGED file) \/ (command' = Failed(command) /\ Cleanup)
    BY <1>12 DEF ResolveMutationETag, d
  <2>3. \A rev \in 1 .. target.rev : rev \in Revs
    BY <1>3 DEF Revs
  <2> QED
    BY <2>1, <2>2, <2>3, <1>5, <1>11
<1>13. CASE LoadValidatedItem
  <2>1. Steps[command.pc] = "item" /\ target.rev \in Revs
    BY <1>3, <1>13 DEF LoadValidatedItem, At, Steps, Revs
  <2>2. (command' = [d EXCEPT !.etag = target.rev] /\ UNCHANGED file) \/ (command' = Failed(command) /\ Cleanup)
    BY <1>13 DEF LoadValidatedItem, d
  <2> QED
    BY <2>1, <2>2, <1>5, <1>11
<1>14. CASE LoadRotationAuthority
  <2>1. Steps[command.pc] = "authority" /\ target.rev \in Revs
    BY <1>3, <1>14 DEF LoadRotationAuthority, At, Steps, Revs
  <2>2. (command' = [d EXCEPT !.etag = target.rev] \/ command' = Failed(command)) /\ UNCHANGED file
    BY <1>14 DEF LoadRotationAuthority, d
  <2> QED
    BY <2>1, <2>2, <1>5, <1>11
<1>15. CASE LoadRotationCredential \/ VerifyReplacement \/ VerifyFinal
  <2>1. Steps[command.pc] \in {"old", "verify", "final"} /\ UNCHANGED file
    BY <1>15 DEF LoadRotationCredential, VerifyReplacement, VerifyFinal, At, Steps
  <2>2. command' = d \/ command' = Failed(command)
    BY <1>15 DEF LoadRotationCredential, VerifyReplacement, VerifyFinal, d
  <2>3. Rotating /\ command.pc \in 10 .. 12 => file' = "durable"
    BY <2>1, <1>2, <1>7
  <2> QED
    BY <1>0, <1>5, <1>6, <2>1, <2>2, <2>3
<1>16. CASE PrepareSensitiveSink
  <2>1. Steps[command.pc] = "sink"
    BY <1>16 DEF PrepareSensitiveSink, At, Steps
  <2>2. (command' = d /\ file' = "open") \/ (command' = Failed(command) /\ UNCHANGED file)
    BY <1>16 DEF PrepareSensitiveSink, d
  <2>3. Rotating => command.pc \notin 10 .. 12
    BY <2>1, <1>2
  <2> QED
    BY <1>5, <1>6, <2>1, <2>2, <2>3 DEF FileSet
<1>17. CASE Publish
  <2>1. Steps[command.pc] = "publish"
    BY <1>17 DEF Publish, At, Steps
  <2>2. (command' = d /\ file' = "synced") \/ (command' = [command EXCEPT !.exit = "lost"] /\ Cleanup)
    BY <1>17 DEF Publish, d
  <2>3. Rotating => command.pc \notin 10 .. 12
    BY <2>1, <1>2
  <2>4. CASE command' = [command EXCEPT !.exit = "lost"] /\ Cleanup
    <3>1. file' \in FileSet /\ (file = "durable" => file' = "durable")
      BY <2>4, <1>0 DEF Cleanup, FileSet
    <3> QED
      BY <2>4, <3>1, <1>1, Stopping
  <2> QED
    BY <1>6, <2>1, <2>2, <2>3, <2>4 DEF FileSet
<1>18. CASE PublishAdminRotation
  <2>1. PICK step \in {"write", "sync", "syncdir", "reopen"}, from \in FileSet, to \in FileSet :
          /\ PublishStep(step, from, to) /\ (step \in {"syncdir", "reopen"} => to = "durable")
    BY <1>18 DEF PublishAdminRotation, FileSet
  <2>2. Steps[command.pc] = step
    BY <2>1 DEF PublishStep, At, Steps
  <2>3. (command' = d /\ file' = to) \/ (command' = [command EXCEPT !.exit = "failed"] /\ file' = "none")
    BY <2>1 DEF PublishStep, Failed, d
  <2>4. Rotating /\ command.pc \in 10 .. 12 => step \in {"syncdir", "reopen"}
    BY <2>1, <2>2, <1>2
  <2>5. CASE command' = d /\ file' = to
    BY <2>1, <2>2, <2>4, <2>5, <1>6
  <2>6. CASE command' = [command EXCEPT !.exit = "failed"] /\ file' = "none"
    <3>1. NoCompletion
      <4> SUFFICES ASSUME NEW a \in DOMAIN attempts, Completing(a) PROVE FALSE
        BY DEF NoCompletion
      <4>1. Rotating /\ command.pc >= 13
        BY <1>0, <1>1 DEF Storing
      <4>2. Len(Steps) = 14 /\ Steps[13] = "complete" /\ Steps[14] = "final"
        BY <4>1, <1>0, RotatingFacts
      <4>3. command.pc = 13 \/ command.pc = 14
        BY <4>1, <4>2, <1>2
      <4> QED
        BY <4>2, <4>3, <2>1, <2>2
    <3> QED
      BY <2>6, <3>1, <1>1, Stopping DEF FileSet
  <2> QED
    BY <2>3, <2>5, <2>6
<1> QED
  BY <1>9, <1>10, <1>12, <1>13, <1>14, <1>15, <1>16, <1>17, <1>18

\* The command that completes a rotation is the only one that does, and has not yet done so.
LEMMA BeforeSubmission ==
  ASSUME CommandInv, Running, command.request = 0, Steps[command.pc] \in {"submit", "complete"}
  PROVE  /\ NoCompletion
         /\ Steps[command.pc] = "complete" => Rotating /\ command.pc = 13 /\ file = "durable" /\ command.key = None
<1>0. CommandType /\ Deciding /\ Storing
  BY DEF CommandInv
<1>1. command.pc \in 1 .. Len(Steps)
  BY <1>0, CommandFacts
<1>2. NoCompletion
  <2> SUFFICES ASSUME NEW a \in DOMAIN attempts, Completing(a) PROVE FALSE
    BY DEF NoCompletion
  <2>1. Rotating /\ command.pc = 14
    BY <1>0 DEF Storing
  <2> QED
    BY <2>1, <1>0, RotatingFacts
<1>3. ASSUME Steps[command.pc] = "complete"
      PROVE  Rotating /\ command.pc = 13 /\ file = "durable" /\ command.key = None
  <2>1. Rotating
    BY <1>0, <1>1, <1>3, CommandFacts DEF Never
  <2>2. command.pc = 13
    BY <2>1, <1>0, <1>1, <1>3, RotatingFacts
  <2> QED
    BY <2>1, <2>2, <1>0 DEF Storing, Deciding, Rotating
<1> QED
  BY <1>2, <1>3

\* A command submits its decision, or fails before the headers were written.
LEMMA SubmitsKeep ==
  ASSUME CommandInv, NEW step \in {"submit", "complete"}, Submit(step)
  PROVE  CommandInv'
<1>0. WriteInv /\ CommandType /\ Deciding /\ Storing /\ CommandAttempts /\ command \in CommandSet
  BY DEF CommandInv, CommandType
<1>1. /\ Running /\ Steps[command.pc] = step /\ command.request = 0
      /\ UNCHANGED <<target, records, lapsed, carried, latched>>
  BY DEF Submit, At, Steps
<1>2. /\ command.pc \in 1 .. Len(Steps) /\ command.name \in Names
      /\ Now.routes[1] \in DOMAIN Routes /\ Now.routes[1] # "rotation_complete"
      /\ SoundAnswers(command.name)
  BY <1>0, CommandFacts
<1>3. NoCompletion /\ (step = "complete" => Rotating /\ command.pc = 13 /\ file = "durable" /\ command.key = None)
  BY <1>1, BeforeSubmission
<1> DEFINE route == RouteOf(step)
           etag == PreconditionOf(route)
<1>4. /\ route \in DOMAIN Routes /\ (step = "submit" => route = Now.routes[1])
      /\ (step = "complete" => route = "rotation_complete")
  <2>1. CASE step = "submit"
    BY <2>1, <1>2 DEF RouteOf
  <2>2. CASE step = "complete"
    <3>1. Now.routes[2] = "rotation_complete"
      BY <2>2, <1>0, <1>3, RotatingFacts
    <3> QED
      BY <2>2, <3>1, RouteNames DEF RouteOf
  <2> QED
    BY <2>1, <2>2
<1>5. etag \in Revs /\ command.etag \in Revs /\ command.key \in Keys /\ command.attempt \in Nat
  BY <1>0 DEF PreconditionOf, Revs, CommandSet
<1>6. CASE command' = Failed(command) /\ Cleanup /\ UNCHANGED <<requests, attempts>>
  <2>1. UNCHANGED writeVars
    BY <1>1, <1>6 DEF writeVars
  <2> QED
    BY <2>1, <1>1, <1>6, FailingKeeps
<1>7. CASE /\ command.attempt # 0 /\ step = "submit" /\ SendAgain(command.attempt, etag) /\ UNCHANGED attempts
           /\ command' = [command EXCEPT !.request = Len(requests'), !.attempt = IF step = "submit" /\ @ # 0 THEN @ ELSE Len(attempts')]
           /\ UNCHANGED file
  <2> DEFINE a == command.attempt
  <2>1. command.key # None
    BY <1>0, <1>1, <1>2, <1>7 DEF Deciding
  <2>2. a \in DOMAIN attempts /\ attempts[a].key # None /\ SendAgain(a, etag)
    BY <2>1, <1>0, <1>7 DEF Deciding
  <2>3. /\ WriteInv' /\ Len(requests') = Len(requests) + 1
        /\ DOMAIN requests' = DOMAIN requests \union {Len(requests')}
        /\ requests'[Len(requests')].attempt = a
    <3> HIDE DEF a, etag
    <3> QED
      BY <1>0, <1>1, <1>5, <1>7, <2>2, SendingAgain
  <2>4. Len(requests') \in Nat /\ Len(requests') # 0
    BY <2>3, <1>0 DEF WriteInv, WriteType
  <2>5. command' = [command EXCEPT !.request = Len(requests'), !.attempt = a]
    BY <1>7
  <2>6. /\ command' \in CommandSet /\ command'.name = command.name /\ command'.pc = command.pc
        /\ command'.exit = command.exit
        /\ command'.key = command.key /\ command'.attempt = command.attempt
        /\ command'.request = Len(requests')
    BY <2>4, <2>5, <1>0 DEF CommandSet
  <2>7. Steps' = Steps /\ Now' = Now /\ Rotating' = Rotating
    BY <2>6 DEF Steps, Now, Rotating
  <2>8. CommandType'
    BY <2>6, <2>7, <1>0, <1>7 DEF CommandType
  <2>9. Deciding'
    BY <2>3, <2>4, <2>6, <2>7, <1>0, <1>1, <1>7 DEF Deciding
  <2>10. Storing'
    BY <2>6, <2>7, <1>0, <1>1, <1>3, <1>7 DEF Storing, Running, NoCompletion, Completing
  <2>11. CommandAttempts'
    BY <1>0, <1>7 DEF CommandAttempts
  <2> QED
    BY <2>3, <2>8, <2>9, <2>10, <2>11 DEF CommandInv
<1>8. CASE /\ ~(command.attempt # 0 /\ step = "submit")
           /\ Send(command.name, route, etag, command.key, command.etag)
           /\ command' = [command EXCEPT !.request = Len(requests'), !.attempt = IF step = "submit" /\ @ # 0 THEN @ ELSE Len(attempts')]
           /\ UNCHANGED file
  <2> DEFINE name == command.name
             key == command.key
             shows == command.etag
             new == [by |-> name, route |-> route, shows |-> shows, etag |-> etag, key |-> key, told |-> "nothing"]
  <2>1. key # None => key = Len(attempts) + 1 /\ Has(route, "record")
    <3> SUFFICES ASSUME command.key # None PROVE command.key = Len(attempts) + 1 /\ Has(route, "record")
      OBVIOUS
    <3>1. step = "submit" /\ command.attempt = 0 /\ command.name \in KeyedCommands
      BY <1>0, <1>3, <1>8 DEF Deciding, KeyedCommands
    <3> QED
      BY <3>1, <1>0, <1>2, <1>4 DEF Deciding, SoundAnswers, Now
  <2>2. /\ name \in Forms \union Names /\ route \in DOMAIN Routes /\ etag \in Revs
        /\ key \in Keys /\ shows \in Revs
    BY <1>2, <1>4, <1>5
  <2>3. Send(name, route, etag, key, shows)
    BY <1>8
  <2>4. /\ WriteInv'
        /\ Len(attempts') = Len(attempts) + 1
        /\ DOMAIN attempts' = DOMAIN attempts \union {Len(attempts')}
        /\ attempts'[Len(attempts')] = new
        /\ \A a \in DOMAIN attempts : attempts'[a] = attempts[a]
        /\ Len(requests') = Len(requests) + 1
        /\ DOMAIN requests' = DOMAIN requests \union {Len(requests')}
        /\ requests'[Len(requests')].attempt = Len(attempts')
    <3> HIDE DEF name, route, etag, key, shows
    <3>1. WriteInv'
      BY <1>0, <1>1, <2>1, <2>2, <2>3, Sending
    <3>2. /\ Len(attempts') = Len(attempts) + 1
          /\ DOMAIN attempts' = DOMAIN attempts \union {Len(attempts')}
      BY <1>0, <1>1, <2>1, <2>2, <2>3, Sending
    <3>3. attempts'[Len(attempts')] = new
      BY <1>0, <1>1, <2>1, <2>2, <2>3, Sending
    <3>4. \A a \in DOMAIN attempts : attempts'[a] = attempts[a]
      BY <1>0, <1>1, <2>1, <2>2, <2>3, Sending
    <3>5. /\ Len(requests') = Len(requests) + 1
          /\ DOMAIN requests' = DOMAIN requests \union {Len(requests')}
      BY <1>0, <1>1, <2>1, <2>2, <2>3, Sending
    <3>6. requests'[Len(requests')].attempt = Len(attempts')
      BY <1>0, <1>1, <2>1, <2>2, <2>3, Sending
    <3> QED
      BY <3>1, <3>2, <3>3, <3>4, <3>5, <3>6
  <2>5. /\ Len(requests') \in Nat /\ Len(requests') # 0 /\ Len(attempts') \in Nat /\ Len(attempts') # 0
        /\ Len(attempts') \notin DOMAIN attempts
    BY <2>4, <1>0 DEF WriteInv, WriteType
  <2>6. command' = [command EXCEPT !.request = Len(requests'), !.attempt = Len(attempts')]
    BY <1>8
  <2>7. /\ command' \in CommandSet /\ command'.name = command.name /\ command'.pc = command.pc
        /\ command'.exit = command.exit
        /\ command'.key = command.key /\ command'.attempt = Len(attempts')
        /\ command'.request = Len(requests')
    BY <2>5, <2>6, <1>0 DEF CommandSet
  <2>8. Steps' = Steps /\ Now' = Now /\ Rotating' = Rotating
    BY <2>7 DEF Steps, Now, Rotating
  <2>9. CommandType'
    BY <2>7, <2>8, <1>0, <1>8 DEF CommandType
  <2>10. new.by = command.name /\ new.key = command.key /\ new.route = route
    OBVIOUS
  <2> HIDE DEF new, route, etag, key, shows, name
  <2>11. Deciding'
    <3>1. attempts'[command'.attempt].route \in {Now.routes[1], "rotation_complete"}
      BY <2>4, <2>7, <2>10, <1>4
    <3> QED
      BY <3>1, <2>4, <2>5, <2>7, <2>8, <2>10, <1>0, <1>1 DEF Deciding
  <2>12. Storing'
    <3>1. \A a \in DOMAIN attempts' : Completing(a)' => a = Len(attempts') /\ step = "complete"
      BY <2>4, <2>10, <1>2, <1>3, <1>4 DEF NoCompletion, Completing
    <3>2. step = "complete" => Completing(command.attempt)'
      BY <2>4, <2>7, <2>10, <1>4 DEF Completing
    <3> QED
      BY <3>1, <3>2, <2>5, <2>7, <2>8, <1>0, <1>1, <1>3, <1>8 DEF Storing, Running
  <2>13. CommandAttempts'
    BY <2>4, <2>10, <1>0, <1>2 DEF CommandAttempts
  <2> QED
    BY <2>4, <2>9, <2>11, <2>12, <2>13 DEF CommandInv
<1> QED
  BY <1>6, <1>7, <1>8 DEF Submit

\* A command takes an answer, or the lack of one, for an outcome.
LEMMA ConcludeKeeps ==
  ASSUME CommandInv, NEW step \in {"submit", "complete"}, At(step), command.request # 0,
         NEW outcome \in {"acknowledged", "rejected", "uncertain"}, NEW rev \in Nat, Conclude(step, outcome, rev),
         outcome = "acknowledged" => (\E c \in carried : c.attempt = command.attempt) \/ target.gone,
         outcome = "rejected" => Ground(attempts[command.attempt], requests[command.request])
  PROVE  CommandInv'
<1>0. /\ WriteInv /\ CommandType /\ Deciding /\ Storing /\ CommandAttempts
      /\ command \in CommandSet /\ file \in FileSet
  BY DEF CommandInv, CommandType
<1>1. /\ Running /\ Steps[command.pc] = step /\ command.exit = "running"
      /\ UNCHANGED <<target, records, lapsed, requests, carried, latched>>
  BY DEF Conclude, At, Steps, Running
<1>2. /\ command.pc \in 1 .. Len(Steps) /\ Len(Steps) \in Nat /\ SubmitsOnce(Steps)
  BY <1>0, CommandFacts
<1>3. /\ command.attempt # 0 /\ command.attempt \in DOMAIN attempts
      /\ attempts[command.attempt].by = command.name
      /\ command.request \in DOMAIN requests /\ requests[command.request].attempt = command.attempt
  BY <1>0 DEF Deciding
<1>4. /\ WriteInv' /\ DOMAIN attempts' = DOMAIN attempts
      /\ \A b \in DOMAIN attempts :
           /\ attempts'[b].by = attempts[b].by /\ attempts'[b].route = attempts[b].route
           /\ attempts'[b].key = attempts[b].key
  <2> DEFINE a == command.attempt
  <2>1. attempts' = [attempts EXCEPT ![a].told = outcome] /\ a \in DOMAIN attempts
        /\ (outcome = "acknowledged" => (\E c \in carried : c.attempt = a) \/ target.gone)
    BY <1>3 DEF Conclude, Tell
  <2>2. outcome = "rejected" => \E n \in DOMAIN requests : requests[n].attempt = a /\ Ground(attempts[a], requests[n])
    BY <1>3
  <2> HIDE DEF a
  <2> QED
    BY <1>0, <1>1, <2>1, <2>2, Telling
<1>5. \A a \in DOMAIN attempts : Completing(a)' <=> Completing(a)
  BY <1>4 DEF Completing
<1> DEFINE settled == [command EXCEPT !.request = 0, !.etag = IF rev = 0 THEN @ ELSE rev]
<1>6. /\ settled \in CommandSet /\ settled.name = command.name /\ settled.pc = command.pc
      /\ settled.exit = "running"
      /\ settled.key = command.key /\ settled.attempt = command.attempt /\ settled.request = 0
  <2> DEFINE v == IF rev = 0 THEN command.etag ELSE rev
  <2>1. v \in Revs
    BY <1>0 DEF CommandSet, Revs
  <2>2. settled = [command EXCEPT !.request = 0, !.etag = v]
    BY <1>0 DEF CommandSet
  <2> HIDE DEF v, settled
  <2> QED
    BY <1>0, <1>1, <2>1, <2>2 DEF CommandSet
<1>7. ASSUME command' \in CommandSet, command'.name = command.name, command'.attempt = command.attempt, command'.request = 0,
             command'.key = command.key, command'.pc \in 1 .. Len(Steps), file' \in FileSet, file = "durable" => file' = "durable",
             \/ command'.exit \in {"ok", "failed", "uncertain"}
             \/ command'.exit = "recovering" /\ step = "complete"
             \/ command'.exit = "running" /\ command'.pc = command.pc + 1
      PROVE  CommandInv'
  <2>1. Steps' = Steps /\ Now' = Now /\ Rotating' = Rotating
    BY <1>7 DEF Steps, Now, Rotating
  <2>2. CommandType'
    BY <1>7, <2>1 DEF CommandType
  <2>0. Rotating => /\ command.pc \in 1 .. 14 /\ Len(Steps) = 14
                    /\ \A i \in 1 .. 14 : (Steps[i] = "submit" => i = 7) /\ (Steps[i] = "complete" => i = 13)
    BY <1>0, <1>2, RotatingFacts
  <2>3. step = "complete" => Rotating /\ command.pc = 13 /\ file = "durable" /\ Completing(command.attempt)
    <3> SUFFICES ASSUME step = "complete" PROVE Rotating /\ command.pc = 13 /\ file = "durable" /\ Completing(command.attempt)
      OBVIOUS
    <3>1. Completing(command.attempt)
      BY <1>0, <1>1 DEF Storing
    <3>2. Rotating /\ file = "durable"
      BY <3>1, <1>0, <1>3 DEF Storing
    <3> QED
      BY <3>1, <3>2, <1>0, <1>1, <1>2, RotatingFacts
  <2>4. \A a \in DOMAIN attempts : Completing(a) => step = "complete"
    <3> SUFFICES ASSUME NEW a \in DOMAIN attempts, Completing(a), step = "submit" PROVE FALSE
      OBVIOUS
    <3>1. Rotating /\ command.pc >= 13
      BY <1>0, <1>1 DEF Storing
    <3> QED
      BY <3>1, <2>0, <1>1
  <2>5. Deciding'
    <3>1. command'.exit = "running" => \A i \in 1 .. Len(Steps) : i >= command'.pc => Steps[i] # "submit"
      <4> SUFFICES ASSUME command'.pc = command.pc + 1, NEW i \in 1 .. Len(Steps), i >= command'.pc, Steps[i] = "submit"
                   PROVE  FALSE
        BY <1>7
      <4>1. CASE step = "submit"
        BY <4>1, <1>1, <1>2 DEF SubmitsOnce
      <4>2. CASE step = "complete"
        <5>1. Rotating /\ command.pc = 13
          BY <4>2, <2>3
        <5>2. Len(Steps) = 14 /\ (\A j \in 1 .. 14 : Steps[j] = "submit" => j = 7)
          BY <5>1, <2>0
        <5>3. command'.pc = 14
          BY <5>1
        <5>4. i \in 1 .. 14 /\ i >= 14
          BY <5>2, <5>3
        <5> QED
          BY <5>2, <5>4
      <4> QED
        BY <4>1, <4>2
    <3> QED
      BY <3>1, <2>1, <1>0, <1>1, <1>3, <1>4, <1>7 DEF Deciding, Running
  <2>6. Storing'
    <3>1. (Rotating /\ Running /\ command.pc >= 11)' => file' = "durable"
      <4> SUFFICES ASSUME Rotating, command'.pc = command.pc + 1, command'.pc >= 11 PROVE file' = "durable"
        BY <1>7, <2>1 DEF Running
      <4>1. step = "complete"
        BY <2>0, <1>1
      <4> QED
        BY <4>1, <2>3, <1>7
    <3>2. ASSUME NEW a \in DOMAIN attempts, Completing(a)
          PROVE  Rotating /\ file' = "durable" /\ a = command'.attempt /\ (command'.exit = "running" => command'.pc = 14)
      BY <3>2, <2>3, <2>4, <1>0, <1>7 DEF Storing
    <3>3. command'.exit = "recovering" => command'.attempt \in DOMAIN attempts' /\ Completing(command.attempt)'
      <4>1. Completing(command.attempt)' <=> Completing(command.attempt)
        BY <1>3, <1>4, <1>7 DEF Completing
      <4> QED
        BY <4>1, <2>3, <1>3, <1>4, <1>7
    <3> QED
      BY <3>1, <3>2, <3>3, <2>1, <1>4, <1>5, <1>7 DEF Storing, Running
  <2>7. CommandAttempts'
    BY <1>0, <1>4 DEF CommandAttempts
  <2> QED
    BY <1>4, <2>2, <2>5, <2>6, <2>7 DEF CommandInv
<1>8. Cleanup => file' \in FileSet /\ (file = "durable" => file' = "durable")
  BY <1>0 DEF Cleanup, FileSet
<1>9. CASE outcome = "acknowledged"
  <2>1. command' = Advanced(settled) /\ UNCHANGED file
    BY <1>9 DEF Conclude
  <2> HIDE DEF settled
  <2>2. /\ command' \in CommandSet /\ command'.pc \in 1 .. Len(Steps)
        /\ command'.name = settled.name /\ command'.key = settled.key
        /\ command'.attempt = settled.attempt /\ command'.request = settled.request
        /\ command'.exit = "ok" \/ (command'.exit = "running" /\ command'.pc = settled.pc + 1)
    BY <2>1, <1>2, <1>6, AdvancedFacts
  <2> QED
    BY <2>1, <2>2, <1>0, <1>6, <1>7
<1>10. CASE outcome # "acknowledged"
  <2>1. /\ Cleanup
        /\ \E e \in {"failed", "recovering", "uncertain"} :
             command' = [settled EXCEPT !.exit = e] /\ (e = "recovering" => step = "complete")
    BY <1>10 DEF Conclude, Failed
  <2> HIDE DEF settled
  <2>2. PICK e \in {"failed", "recovering", "uncertain"} : command' = [settled EXCEPT !.exit = e] /\ (e = "recovering" => step = "complete")
    BY <2>1
  <2>3. /\ command' \in CommandSet /\ command'.pc = settled.pc /\ command'.exit = e
        /\ command'.name = settled.name /\ command'.key = settled.key
        /\ command'.attempt = settled.attempt /\ command'.request = settled.request
    BY <2>2, <1>6 DEF CommandSet
  <2> QED
    BY <2>1, <2>2, <2>3, <1>2, <1>6, <1>7, <1>8
<1> QED
  BY <1>9, <1>10

\* What a command may take from an answer.
LEMMA ReceiveKeeps ==
  ASSUME CommandInv, Receive \/ LoseAnswer
  PROVE  CommandInv'
<1>0. WriteInv /\ CommandType /\ Deciding /\ Storing
  BY DEF CommandInv
<1>1. CASE LoseAnswer
  <2>1. PICK step \in {"submit", "complete"} : At(step) /\ command.request # 0 /\ Conclude(step, "uncertain", 0)
    BY <1>1 DEF LoseAnswer
  <2> QED
    BY <2>1, ConcludeKeeps
<1>2. CASE Receive
  <2> DEFINE x == requests[command.request]
             ans == x.answer
  <2>1. PICK step \in {"submit", "complete"} :
          /\ At(step) /\ command.request # 0 /\ x.stage = "answered"
          /\ \E outcome \in Classify(ans) : Conclude(step, outcome, ans.rev)
    BY <1>2 DEF Receive
  <2>2. PICK outcome \in Classify(ans) : Conclude(step, outcome, ans.rev)
    BY <2>1
  <2>3. /\ command.request \in DOMAIN requests /\ x.attempt = command.attempt
        /\ command.attempt \in DOMAIN attempts
        /\ attempts[command.attempt].route \in {Now.routes[1], "rotation_complete"}
    BY <2>1, <1>0 DEF Deciding
  <2>4. LinkedAt(command.request) /\ AnswerAt(command.request)
    BY <2>3, <1>0, RequestFacts
  <2>5. ans \in AnswerSet /\ x.route = attempts[command.attempt].route
    BY <2>1, <2>3, <2>4 DEF LinkedAt
  <2>6. ans.rev \in Nat /\ ans.kind \in {"ok", "problem"}
    BY <2>5 DEF AnswerSet
  <2>7. outcome \in {"acknowledged", "rejected", "uncertain"}
    BY DEF Classify
  <2>8. outcome = "acknowledged" => (\E c \in carried : c.attempt = command.attempt) \/ target.gone
    <3>1. outcome = "acknowledged" => ans.kind = "ok"
      BY DEF Classify
    <3> QED
      BY <3>1, <2>1, <2>3, <2>4 DEF AnswerAt, Succeeded
  <2>9. ASSUME outcome = "rejected" PROVE Ground(attempts[command.attempt], x)
    <3> DEFINE at == attempts[command.attempt]
    <3>1. /\ command.name # "grant_update" => Unclear \subseteq Now.unsure
          /\ command.name \notin {"credential_replace", "git_credential_rotate"} =>
               "keyring_unavailable" \in Now.unsure \/ ~Routes[Now.routes[1]].custody
      BY <1>0, CommandFacts DEF SoundAnswers, Now
    <3>2. command.name # "grant_update" => "storage_unavailable" \in Now.unsure /\ "unreadable" \in Now.unsure
      BY <3>1 DEF Unclear
    <3>3. \/ ans.kind = "ok" /\ "unreadable" \notin Now.unsure
          \/ ans.kind # "ok" /\ ans.code \notin Now.unsure
      BY <2>9 DEF Classify
    <3>4. /\ ans.code = "keyring_unavailable" => Routes[x.route].custody
          /\ ans.kind = "ok" => ans.code = "ok"
      BY <2>1, <2>4 DEF AnswerAt
    <3>5. ans.kind # "ok" /\ ans.code = "keyring_unavailable" => command.name \in {"credential_replace", "git_credential_rotate"}
      BY <3>1, <3>3, <3>4, <2>3, <2>5, CompletionReplaces
    <3>6. at.by = command.name /\ at.route = x.route
      BY <2>1, <2>5, <1>0 DEF Deciding
    <3> HIDE DEF at, ans
    <3>7. CASE Misjudges(at, ans.code)
      BY <3>7, <2>1 DEF Ground, at, ans
    <3>8. CASE ~Misjudges(at, ans.code)
      <4>1. ans.kind = "problem" /\ ans.code \notin {"storage_unavailable", "keyring_unavailable"}
        BY <3>2, <3>3, <3>4, <3>5, <3>6, <3>8, <2>6 DEF Misjudges
      <4>2. ans.code = "authorization_unavailable" => x.route \notin Policies \intersect Unaudited
        BY <3>6, <3>8 DEF Misjudges
      <4> QED
        BY <4>1, <4>2, <2>1 DEF Ground, Definite, ans
    <3> QED
      BY <3>7, <3>8
  <2> HIDE DEF ans
  <2> QED
    BY <2>1, <2>2, <2>6, <2>7, <2>8, <2>9, ConcludeKeeps
<1> QED
  BY <1>1, <1>2

\* An uncertain completion: the old credential is revoked only by it.
LEMMA RecoverKeeps ==
  ASSUME CommandInv, RecoverUncertainRotation
  PROVE  CommandInv'
<1>0. WriteInv /\ CommandType /\ Deciding /\ Storing /\ CommandAttempts /\ command \in CommandSet
  BY DEF CommandInv, CommandType
<1>1. /\ command.exit = "recovering"
      /\ UNCHANGED <<target, records, lapsed, requests, carried, latched, file>>
      /\ command.attempt \in DOMAIN attempts /\ Completing(command.attempt)
  BY <1>0 DEF RecoverUncertainRotation, Storing
<1>2. ASSUME WriteInv', DOMAIN attempts' = DOMAIN attempts, NEW e \in {"ok", "uncertain"}, command' = [command EXCEPT !.exit = e],
             \A b \in DOMAIN attempts :
               /\ attempts'[b].by = attempts[b].by /\ attempts'[b].route = attempts[b].route
               /\ attempts'[b].key = attempts[b].key
      PROVE  CommandInv'
  <2>1. /\ command' \in CommandSet /\ command'.exit = e /\ command'.name = command.name
        /\ command'.pc = command.pc
        /\ command'.key = command.key /\ command'.attempt = command.attempt
        /\ command'.request = command.request
    BY <1>0, <1>2 DEF CommandSet
  <2>2. /\ Steps' = Steps /\ Now' = Now /\ Rotating' = Rotating /\ ~Running'
        /\ command'.exit # "recovering"
    BY <2>1 DEF Steps, Now, Rotating, Running
  <2>3. \A a \in DOMAIN attempts : Completing(a)' <=> Completing(a)
    BY <1>2 DEF Completing
  <2>4. CommandType'
    BY <1>0, <1>1, <2>1, <2>2 DEF CommandType
  <2>5. Deciding'
    BY <1>0, <1>1, <1>2, <2>1, <2>2 DEF Deciding
  <2>6. Storing'
    BY <1>0, <1>1, <1>2, <2>1, <2>2, <2>3 DEF Storing
  <2>7. CommandAttempts'
    BY <1>0, <1>2 DEF CommandAttempts
  <2> QED
    BY <1>2, <2>4, <2>5, <2>6, <2>7 DEF CommandInv
<1>3. CASE command' = [command EXCEPT !.exit = "uncertain"] /\ UNCHANGED attempts
  <2>1. WriteInv'
    BY <1>0, <1>1, <1>3, Stuttering DEF writeVars
  <2> QED
    BY <2>1, <1>2, <1>3
<1>4. CASE target.old = "revoked" /\ command' = [command EXCEPT !.exit = "ok"] /\ Tell("acknowledged")
  <2> DEFINE a == command.attempt
  <2>1. PICK c \in carried : requests[c.request].route = "rotation_complete"
    BY <1>0, <1>4 DEF WriteInv, RevokedBy
  <2>2. CarriedAt(c) /\ LinkedAt(c.request)
    BY <1>0 DEF WriteInv, CarriedFits, CarriedAt, Linked
  <2>3. c.attempt \in DOMAIN attempts /\ Completing(c.attempt)
    BY <2>1, <2>2 DEF CarriedAt, LinkedAt, Completing
  <2>4. c.attempt = a
    BY <2>3, <1>0 DEF Storing
  <2>5. a \in DOMAIN attempts /\ attempts' = [attempts EXCEPT ![a].told = "acknowledged"]
    BY <1>1, <1>4 DEF Tell
  <2> HIDE DEF a
  <2>6. /\ WriteInv' /\ DOMAIN attempts' = DOMAIN attempts
        /\ \A b \in DOMAIN attempts :
             /\ attempts'[b].by = attempts[b].by /\ attempts'[b].route = attempts[b].route
             /\ attempts'[b].key = attempts[b].key
    BY <1>0, <1>1, <2>4, <2>5, Telling
  <2> QED
    BY <2>6, <1>2, <1>4
<1> QED
  BY <1>3, <1>4 DEF RecoverUncertainRotation

\* A command of uncertain outcome is run again under its key: no rotation has one.
LEMMA RunAgainKeeps ==
  ASSUME CommandInv, RunAgain
  PROVE  CommandInv'
<1>0. WriteInv /\ CommandType /\ Deciding /\ Storing /\ CommandAttempts /\ command \in CommandSet
  BY DEF CommandInv, CommandType
<1>1. /\ command.exit = "uncertain" /\ command.key # None /\ UNCHANGED writeVars /\ UNCHANGED file
      /\ command' = [command EXCEPT !.pc = 1, !.exit = "running", !.request = 0]
  BY DEF RunAgain
<1>2. WriteInv' /\ UNCHANGED <<attempts, requests>>
  BY <1>0, <1>1, Stuttering DEF writeVars
<1>3. /\ command' \in CommandSet /\ command'.exit = "running" /\ command'.name = command.name
      /\ command'.pc = 1
      /\ command'.key = command.key /\ command'.attempt = command.attempt /\ command'.request = 0
  BY <1>0, <1>1 DEF CommandSet
<1>4. Steps' = Steps /\ Now' = Now /\ ~Rotating' /\ ~Rotating
  BY <1>0, <1>1, <1>3 DEF Steps, Now, Rotating, Deciding
<1>5. CommandType'
  BY <1>0, <1>1, <1>3, <1>4, CommandFacts DEF CommandType
<1>6. Deciding'
  BY <1>0, <1>1, <1>2, <1>3, <1>4 DEF Deciding
<1>7. Storing'
  BY <1>0, <1>2, <1>3, <1>4 DEF Storing, Completing
<1>8. CommandAttempts'
  BY <1>0, <1>2 DEF CommandAttempts
<1> QED
  BY <1>2, <1>5, <1>6, <1>7, <1>8 DEF CommandInv

\* The gateway serves, or another administrator acts, beside the command.
LEMMA AroundKeeps ==
  ASSUME CommandInv, WriteInv', UNCHANGED commandVars, UNCHANGED attempts,
         DOMAIN requests' = DOMAIN requests, \A m \in DOMAIN requests : requests'[m].attempt = requests[m].attempt
  PROVE  CommandInv'
<1>0. WriteInv /\ CommandType /\ Deciding /\ Storing /\ CommandAttempts /\ UNCHANGED <<command, file>>
  BY DEF CommandInv, commandVars
<1>1. Steps' = Steps /\ Now' = Now /\ Rotating' = Rotating /\ Running' = Running
  BY <1>0 DEF Steps, Now, Rotating, Running
<1>2. CommandType'
  BY <1>0, <1>1 DEF CommandType
<1>3. Deciding'
  BY <1>0, <1>1 DEF Deciding
<1>4. Storing'
  BY <1>0, <1>1 DEF Storing, Completing
<1>5. CommandAttempts'
  BY <1>0 DEF CommandAttempts
<1> QED
  BY <1>2, <1>3, <1>4, <1>5 DEF CommandInv

\* Another administrator revokes the credential the rotation made.
LEMMA RevokeReplacementKeeps ==
  ASSUME CommandInv, RevokeReplacement
  PROVE  CommandInv'
<1>0. WriteInv
  BY DEF CommandInv
<1>1. /\ target' = [target EXCEPT !.new = "revoked", !.rev = @ + 1]
      /\ UNCHANGED <<records, lapsed, requests, attempts, carried, latched>> /\ UNCHANGED commandVars
  BY DEF RevokeReplacement
<1>2. target \in TargetSet /\ target.rev + 1 \in Nat
  BY <1>0 DEF WriteInv, WriteType, TargetSet
<1>3. target' = [rev |-> target.rev + 1, gone |-> target.gone, old |-> target.old, new |-> "revoked"]
  BY <1>1, <1>2 DEF TargetSet
<1>4. /\ target' \in TargetSet /\ target'.gone = target.gone /\ target'.old = target.old
      /\ target'.new = "revoked"
  BY <1>2, <1>3 DEF TargetSet
<1>5. WriteInv'
  BY <1>0, <1>1, <1>4, Retargeting
<1> QED
  BY <1>1, <1>5, AroundKeeps

\* The process of the command is killed.
LEMMA KillKeeps ==
  ASSUME CommandInv, Kill
  PROVE  CommandInv'
<1>1. Running /\ UNCHANGED writeVars /\ command' = [command EXCEPT !.exit = "killed"]
  BY DEF Kill
<1>2. file' \in FileSet /\ (file = "durable" => file' = "durable")
  BY DEF Kill, CommandInv, CommandType, FileSet
<1> QED
  BY <1>1, <1>2, Stopping

\* The gateway serves beside the command.
LEMMA CommandServerKeeps ==
  ASSUME CommandInv, Server, UNCHANGED commandVars
  PROVE  CommandInv'
<1>0. WriteInv
  BY DEF CommandInv
<1>1. WriteInv'
  BY <1>0, ServerKeeps
<1>2. /\ UNCHANGED attempts /\ DOMAIN requests' = DOMAIN requests
      /\ \A m \in DOMAIN requests : requests'[m].attempt = requests[m].attempt
  BY <1>0, ServerFrame
<1> QED
  BY <1>1, <1>2, AroundKeeps

\* No step of the commands or of the gateway breaks the commands' invariant.
LEMMA CommandsKeep ==
  ASSUME CommandInv, CommandNext
  PROVE  CommandInv'
<1>1. CASE SubmitMutation \/ SubmitRotationCompletion
  BY <1>1, SubmitsKeep DEF SubmitMutation, SubmitRotationCompletion
<1>2. CASE \/ PrepareOnlineIntent \/ AcquireAdminBearer \/ ReadInput \/ RequireConfirmation \/ ResolveKey
           \/ ResolveMutationETag \/ LoadValidatedItem \/ LoadRotationCredential \/ LoadRotationAuthority
           \/ PrepareSensitiveSink \/ Publish \/ PublishAdminRotation \/ VerifyReplacement \/ VerifyFinal
  BY <1>2, QuietKeeps
<1> QED
  BY <1>1, <1>2, ReceiveKeeps, RecoverKeeps, RunAgainKeeps, RevokeReplacementKeeps, KillKeeps,
     CommandServerKeeps
  DEF CommandNext, CommandSteps

\* A command starts with nothing submitted and no file.
LEMMA CommandsBegin ==
  ASSUME Init, CommandInit PROVE CommandInv
<1>1. WriteInv
  BY WritesBegin
<1>2. PICK name \in Names :
        command = [name |-> name, pc |-> 1, etag |-> None, key |-> None, attempt |-> 0, request |-> 0, exit |-> "running"]
  BY DEF CommandInit
<1>3. name \in DOMAIN CommandOf /\ file = "none" /\ DOMAIN attempts = {}
  BY NamesAssumption DEF CommandInit, Init
<1>4. SoundSteps(name)
  BY <1>3, CommandsAreSound
<1>5. command \in CommandSet /\ command.name = name /\ command.pc = 1 /\ command.key = None /\ command.attempt = 0
      /\ command.request = 0 /\ command.exit = "running"
  BY <1>2 DEF CommandSet, Revs, Keys
<1>6. CommandType
  BY <1>3, <1>4, <1>5 DEF CommandType, SoundSteps, Steps, Now, FileSet
<1>7. Deciding
  BY <1>5 DEF Deciding
<1>8. Storing
  BY <1>3, <1>5 DEF Storing
<1>9. CommandAttempts
  BY <1>3 DEF CommandAttempts
<1> QED
  BY <1>1, <1>6, <1>7, <1>8, <1>9 DEF CommandInv

\* The rotation keeps its promise.
LEMMA RotationKeepsAccess ==
  ASSUME CommandInv PROVE NeverLockedOut
<1> SUFFICES ASSUME target.old = "revoked" PROVE file = "durable" /\ target.new # "none"
  BY DEF NeverLockedOut
<1>1. PICK c \in carried : requests[c.request].route = "rotation_complete" /\ target.new # "none"
  BY DEF CommandInv, WriteInv, RevokedBy
<1>2. CarriedAt(c) /\ LinkedAt(c.request)
  BY DEF CommandInv, WriteInv, CarriedFits, CarriedAt, Linked
<1>3. c.attempt \in DOMAIN attempts /\ Completing(c.attempt)
  BY <1>1, <1>2 DEF CarriedAt, LinkedAt, Completing
<1> QED
  BY <1>1, <1>3 DEF CommandInv, Storing

-----------------------------------------------------------------------------
(* The theorems. *)

\* The forms' invariant survives a step that changes none of its variables.
LEMMA FormsStutter ==
  ASSUME FormInv, UNCHANGED <<writeVars, formVars>> PROVE FormInv'
<1>0. WriteInv /\ FormType /\ Serving /\ FormAttempts /\ UNCHANGED writeVars /\ UNCHANGED formVars
  BY DEF FormInv
<1>1. /\ WriteInv' /\ UNCHANGED <<requests, attempts>>
      /\ UNCHANGED <<form, page, draft, ctl, phase, sink, session>>
  BY <1>0, Stuttering DEF writeVars, formVars
<1>2. FormType'
  BY <1>0, <1>1 DEF FormType, Shown
<1>3. Serving'
  BY <1>0, <1>1 DEF Serving, Reviewing, Here, Shown, RouteNow
<1>4. FormAttempts'
  BY <1>0, <1>1, FormAttemptsFrame
<1> QED
  BY <1>1, <1>2, <1>3, <1>4 DEF FormInv

\* The commands' invariant survives a step that changes none of its variables.
LEMMA CommandsStutter ==
  ASSUME CommandInv, UNCHANGED <<writeVars, commandVars>> PROVE CommandInv'
<1>1. WriteInv' /\ UNCHANGED <<requests, attempts>> /\ UNCHANGED commandVars
  BY Stuttering DEF CommandInv, writeVars
<1> QED
  BY <1>1, AroundKeeps

(* A form of the console, whatever its user, the network and the gateway do: no decision is
   carried out twice while its record is kept, the user is told the truth about it, an edit
   replaces the revision its author saw, and a secret is shown only where it was asked for
   (mutation.ts, sinks.ts and the forms; handler.go, idempotency.go). *)
THEOREM FormsKeepTheirWord == FormSpec => [](OnceOnly /\ OutcomeIsHonest /\ FormsAreFaithful)
<1>1. Init /\ FormInit => FormInv
  BY FormsBegin
<1>2. FormInv /\ [FormNext]_<<writeVars, formVars>> => FormInv'
  <2>1. FormInv /\ FormNext => FormInv'
    BY FormsKeep
  <2> QED
    BY <2>1, FormsStutter
<1>3. FormInv => OnceOnly /\ OutcomeIsHonest /\ FormsAreFaithful
  BY DecidedOnce, ToldTheTruth, FormsFaithful DEF FormInv
<1> QED
  BY <1>1, <1>2, <1>3, PTL DEF FormSpec

(* A command of the client, killed or run again at any point: its decision is carried out at
   most once, its operator is told the truth, and a rotation that revokes the old credential
   has the new one on disk (commands.go, mutation.go, admin_rotation.go). *)
THEOREM CommandsKeepTheirWord == CommandSpec => [](OnceOnly /\ OutcomeIsHonest /\ NeverLockedOut)
<1>1. Init /\ CommandInit => CommandInv
  BY CommandsBegin
<1>2. CommandInv /\ [CommandNext]_<<writeVars, commandVars>> => CommandInv'
  <2>1. CommandInv /\ CommandNext => CommandInv'
    BY CommandsKeep
  <2> QED
    BY <2>1, CommandsStutter
<1>3. CommandInv => OnceOnly /\ OutcomeIsHonest /\ NeverLockedOut
  BY DecidedOnce, ToldTheTruth, RotationKeepsAccess DEF CommandInv
<1> QED
  BY <1>1, <1>2, <1>3, PTL DEF CommandSpec

\* One client acts; a console that is not used shows no secret.
MCInv == IF client.kind = "cli" THEN CommandInv /\ sink = NoSink ELSE FormInv

\* One client acts in a behaviour, and its invariant holds throughout.
LEMMA OneClientActs == MCSpec => []MCInv
<1>1. MCInit => MCInv
  BY FormsBegin, CommandsBegin DEF MCInit, MCInv, FormInit
<1>2. MCInv /\ [MCNext]_MCvars => MCInv'
  <2> SUFFICES ASSUME MCInv, [MCNext]_MCvars PROVE MCInv'
    OBVIOUS
  <2>1. CASE client.kind = "web" /\ FormNext /\ UNCHANGED client
    BY <2>1, FormsKeep DEF MCInv
  <2>2. CASE client.kind = "cli" /\ CommandNext /\ UNCHANGED <<formVars, client>>
    BY <2>2, CommandsKeep DEF MCInv, formVars
  <2>3. CASE UNCHANGED MCvars
    BY <2>3, FormsStutter, CommandsStutter DEF MCInv, MCvars, formVars
  <2> QED
    BY <2>1, <2>2, <2>3 DEF MCNext
<1> QED
  BY <1>1, <1>2, PTL DEF MCSpec

(* Whatever client writes, its decision is carried out at most once while its idempotency
   record is kept (servers/idempotency.go). *)
THEOREM DecisionsAreCarriedOutOnce == MCSpec => []OnceOnly
<1>1. MCInv => OnceOnly
  BY DecidedOnce DEF MCInv, FormInv, CommandInv
<1> QED
  BY <1>1, OneClientActs, PTL

(* Every client of the administrative API deals honestly with its user. *)
THEOREM ClientsAreHonest == MCSpec => []ClientIsHonest
<1>1. MCInv => ClientIsHonest
  <2>1. CASE FormInv
    BY <2>1, ToldTheTruth, FormsFaithful DEF FormInv, ClientIsHonest
  <2>2. CASE CommandInv /\ sink = NoSink
    <3>1. SecretStaysPut
      BY <2>2 DEF SecretStaysPut, NoSink
    <3>2. ReviewedRevision
      <4> SUFFICES ASSUME NEW c \in carried, attempts[c.attempt].by \in DOMAIN FormOf PROVE FALSE
        BY DEF ReviewedRevision
      <4>1. CarriedAt(c) /\ LinkedAt(c.request)
        BY <2>2 DEF CommandInv, WriteInv, CarriedFits, CarriedAt, Linked
      <4>2. attempts[c.attempt].by \in Names
        BY <4>1, <2>2 DEF CommandInv, CommandAttempts, CarriedAt, LinkedAt
      <4> QED
        BY <4>2, NamesAssumption, NamesDiffer
    <3> QED
      BY <2>2, <3>1, <3>2, ToldTheTruth DEF CommandInv, ClientIsHonest, FormsAreFaithful
  <2> QED
    BY <2>1, <2>2 DEF MCInv
<1> QED
  BY <1>1, OneClientActs, PTL

(* A rotation never leaves its operator without a credential, and no form takes one away. *)
THEOREM OperatorsKeepAccess == MCSpec => []NeverLockedOut
<1>1. MCInv => NeverLockedOut
  <2>1. CASE CommandInv
    BY <2>1, RotationKeepsAccess
  <2>2. CASE FormInv
    <3> SUFFICES ASSUME target.old = "revoked" PROVE FALSE
      BY DEF NeverLockedOut
    <3>1. PICK c \in carried : requests[c.request].route = "rotation_complete"
      BY <2>2 DEF FormInv, WriteInv, RevokedBy
    <3>2. CarriedAt(c) /\ LinkedAt(c.request)
      BY <2>2 DEF FormInv, WriteInv, CarriedFits, CarriedAt, Linked
    <3>3. attempts[c.attempt].route = "rotation_complete" /\ c.attempt \in DOMAIN attempts
      BY <3>1, <3>2 DEF CarriedAt, LinkedAt
    <3> QED
      BY <3>3, <2>2 DEF FormInv, FormAttempts, FromForm
  <2> QED
    BY <2>1, <2>2 DEF MCInv
<1> QED
  BY <1>1, OneClientActs, PTL


-----------------------------------------------------------------------------
(* The event hub, for any number of streams and kinds and any limits. *)

(* A hub that shuts down has no open stream and arms no timer. *)
Closing ==
  /\ shutting <=> shutdown # "idle"
  /\ shutting => streams = {} /\ timer # "armed"
  /\ timer = "stopped" => shutting

(* A pending hint is for streams that exist; a closed stream has no history. *)
Tidy ==
  /\ \A k \in Coalesced : coalesced[k] # Nobody => coalesced[k] < nextID
  /\ \A i \in Ids : i \notin streams => owed[i] = {} /\ seen[i] = {}

IInv == TypeOK /\ NothingLost /\ NoEarlierHint /\ TimerJoined /\ Closing /\ Tidy

USE HubAssumption

\* A flush puts a natural number of hints into a channel.
LEMMA DueFinite == ASSUME NEW i PROVE Cardinality(Due(i)) \in Nat
<1> DEFINE D == Due(i)
<1>1. D \subseteq Kinds
  BY DEF Due
<1> HIDE DEF D
<1>2. IsFiniteSet(D)
  BY <1>1, FS_Subset
<1>3. Cardinality(D) \in Nat
  BY <1>2, FS_CardinalityType
<1> QED BY <1>3 DEF D

\* The initial state satisfies the inductive invariant.
LEMMA InitIInv == HubInit => IInv
<1> SUFFICES ASSUME HubInit PROVE IInv
  OBVIOUS
<1> USE DEF HubInit
<1>1. TypeOK
  <2>1. buffered \in [Ids -> 0 .. Buffer] /\ coalesced \in [Coalesced -> Ids \cup {Nobody}]
    OBVIOUS
  <2>2. owed \in [Ids -> SUBSET Kinds] /\ seen \in [Ids -> SUBSET Kinds]
    OBVIOUS
  <2>3. streams \subseteq Ids /\ nextID \in 0 .. MaxStreams /\ \A i \in streams : i < nextID
    OBVIOUS
  <2>4. /\ timer \in {"nil", "armed", "fired", "stopped"} /\ timerWork \in Nat
        /\ shutting \in BOOLEAN /\ shutdown \in {"idle", "waiting", "done"}
    OBVIOUS
  <2> QED BY <2>1, <2>2, <2>3, <2>4, Zenon DEF TypeOK
<1>2. NothingLost /\ NoEarlierHint /\ TimerJoined /\ Closing /\ Tidy
  BY DEF NothingLost, NoEarlierHint, TimerJoined, Closing, Tidy, FlushPending
<1> QED BY <1>1, <1>2 DEF IInv

\* Every step preserves the types.
LEMMA StepType == ASSUME IInv, [Next]_vars PROVE TypeOK'
<1> USE DEF TypeOK, IInv, history
<1>1. CASE Subscribe
  BY <1>1 DEF Subscribe, Ids
<1>2. ASSUME NEW k \in Kinds, PublishNow(k) PROVE TypeOK'
  <2>1. buffered' \in [Ids -> 0 .. Buffer]
    BY <1>2 DEF PublishNow
  <2>2. streams' \subseteq streams
    BY <1>2 DEF PublishNow
  <2>3. owed' \in [Ids -> SUBSET Kinds]
    BY <1>2 DEF PublishNow, OfOpen
  <2>4. seen' \in [Ids -> SUBSET Kinds]
    <3>1. Noted(seen, k) \in [Ids -> SUBSET Kinds]
      BY <1>2 DEF Noted
    <3>2. seen' = OfOpen(Noted(seen, k))
      BY <1>2 DEF PublishNow
    <3> QED BY <3>1, <3>2 DEF OfOpen
  <2> QED BY <1>2, <2>1, <2>2, <2>3, <2>4 DEF PublishNow
<1>3. ASSUME NEW k \in Kinds, PublishLater(k) PROVE TypeOK'
  <2>1. Through \in Ids
    <3>1. PICK i \in Ids : i < nextID
      BY <1>3 DEF PublishLater
    <3>2. i \in Nat /\ nextID \in 0 .. MaxStreams
      BY DEF Ids
    <3> QED BY <3>1, <3>2 DEF Through, Ids
  <2>2. coalesced' \in [Coalesced -> Ids \cup {Nobody}]
    BY <1>3, <2>1 DEF PublishLater
  <2>3. owed' \in [Ids -> SUBSET Kinds] /\ seen' \in [Ids -> SUBSET Kinds]
    BY <1>3 DEF PublishLater, OfOpen, Noted
  <2>4. timer' \in {"nil", "armed", "fired", "stopped"} /\ timerWork' \in Nat
    BY <1>3 DEF PublishLater
  <2> QED BY <1>3, <2>2, <2>3, <2>4 DEF PublishLater
<1>4. CASE TimerFires
  BY <1>4 DEF TimerFires
<1>5. CASE FlushCoalesced
  <2>1. timer' \in {"nil", "armed", "fired", "stopped"} /\ timerWork' \in Nat
    BY <1>5 DEF FlushCoalesced, TimerJoined, FlushPending
  <2>2. CASE shutting
    BY <1>5, <2>1, <2>2 DEF FlushCoalesced
  <2>3. CASE ~shutting
    <3>0. Deliver
      BY <1>5, <2>3 DEF FlushCoalesced
    <3>1. buffered' \in [Ids -> 0 .. Buffer]
      BY <3>0, DueFinite DEF Deliver
    <3>2. streams' \subseteq streams
      BY <3>0 DEF Deliver
    <3>3. owed' \in [Ids -> SUBSET Kinds] /\ seen' \in [Ids -> SUBSET Kinds]
      BY <3>0 DEF Deliver, OfOpen
    <3>4. coalesced' \in [Coalesced -> Ids \cup {Nobody}]
      BY <3>0 DEF Deliver
    <3> QED BY <1>5, <2>1, <3>1, <3>2, <3>3, <3>4 DEF FlushCoalesced
  <2> QED BY <2>2, <2>3
<1>6. ASSUME NEW i \in Ids, ReceiveHint(i) PROVE TypeOK'
  BY <1>6 DEF ReceiveHint
<1>7. ASSUME NEW gone \in SUBSET Ids, Close(gone) PROVE TypeOK'
  <2>1. owed' \in [Ids -> SUBSET Kinds] /\ seen' \in [Ids -> SUBSET Kinds]
    BY <1>7 DEF Close, OfOpen
  <2> QED BY <1>7, <2>1 DEF Close
<1>8. CASE Shutdown
  <2>1. owed' \in [Ids -> SUBSET Kinds] /\ seen' \in [Ids -> SUBSET Kinds]
    BY <1>8 DEF Shutdown, OfOpen
  <2>2. timer' \in {"nil", "armed", "fired", "stopped"} /\ timerWork' \in Nat
    BY <1>8 DEF Shutdown, StopTimer, TimerJoined, FlushPending
  <2> QED BY <1>8, <2>1, <2>2 DEF Shutdown
<1>9. CASE ShutdownReturns
  BY <1>9 DEF ShutdownReturns
<1>10. CASE UNCHANGED vars
  BY <1>10 DEF vars
<1> QED BY <1>1, <1>2, <1>3, <1>4, <1>5, <1>6, <1>7, <1>8, <1>9, <1>10 DEF Next

\* Every step keeps account of the timer and of the shutdown.
LEMMA StepTimer == ASSUME IInv, [Next]_vars PROVE TimerJoined' /\ Closing'
<1> USE DEF TypeOK, IInv, TimerJoined, Closing, FlushPending, history
<1>1. CASE Subscribe
  BY <1>1 DEF Subscribe
<1>2. ASSUME NEW k \in Kinds, PublishNow(k) PROVE TimerJoined' /\ Closing'
  BY <1>2 DEF PublishNow
<1>3. ASSUME NEW k \in Kinds, PublishLater(k) PROVE TimerJoined' /\ Closing'
  BY <1>3 DEF PublishLater
<1>4. CASE TimerFires
  BY <1>4 DEF TimerFires
<1>5. CASE FlushCoalesced
  <2>1. streams' \subseteq streams
    BY <1>5 DEF FlushCoalesced, Deliver
  <2> QED BY <1>5, <2>1 DEF FlushCoalesced
<1>6. ASSUME NEW i \in Ids, ReceiveHint(i) PROVE TimerJoined' /\ Closing'
  BY <1>6 DEF ReceiveHint
<1>7. ASSUME NEW gone \in SUBSET Ids, Close(gone) PROVE TimerJoined' /\ Closing'
  BY <1>7 DEF Close
<1>8. CASE Shutdown
  BY <1>8 DEF Shutdown, StopTimer
<1>9. CASE ShutdownReturns
  BY <1>9 DEF ShutdownReturns
<1>10. CASE UNCHANGED vars
  BY <1>10 DEF vars
<1> QED BY <1>1, <1>2, <1>3, <1>4, <1>5, <1>6, <1>7, <1>8, <1>9, <1>10 DEF Next

\* Every step keeps account of the hints that open streams wait for.
LEMMA StepHints ==
  ASSUME IInv, [Next]_vars, TypeOK'
  PROVE  NothingLost' /\ NoEarlierHint' /\ Tidy'
<1> USE DEF TypeOK, IInv, NothingLost, NoEarlierHint, Tidy, Due, FlushPending, history
<1>0. ASSUME UNCHANGED <<coalesced, nextID>>, streams' \subseteq streams,
             FlushPending \/ streams' = {} => FlushPending' \/ streams' = {},
             owed' = OfOpen(owed),
             \A i \in streams' : seen[i] \subseteq seen'[i],
             \A i \in Ids : i \notin streams' => seen'[i] = {}
      PROVE  NothingLost' /\ NoEarlierHint' /\ Tidy'
  <2>1. \A i \in Ids : owed'[i] = IF i \in streams' THEN owed[i] ELSE {}
    BY <1>0 DEF OfOpen
  <2> QED BY <1>0, <2>1
<1>1. CASE Subscribe
  <2>1. owed[nextID] = {} /\ Due(nextID) = {}
    BY <1>1 DEF Subscribe, Ids
  <2>2. streams' = streams \cup {nextID} /\ UNCHANGED <<coalesced, timer, owed, seen>>
    BY <1>1 DEF Subscribe
  <2>3. NothingLost' /\ NoEarlierHint'
    BY <2>1, <2>2
  <2>4. Tidy'
    BY <1>1 DEF Subscribe, Ids
  <2> QED BY <2>3, <2>4
<1>2. ASSUME NEW k \in Kinds, PublishNow(k) PROVE NothingLost' /\ NoEarlierHint' /\ Tidy'
  BY <1>2, <1>0 DEF PublishNow, OfOpen, Noted
<1>3. ASSUME NEW k \in Kinds, PublishLater(k) PROVE NothingLost' /\ NoEarlierHint' /\ Tidy'
  <2>1. /\ \A i \in Ids : owed'[i] = IF i \in streams' THEN owed[i] \cup {k} ELSE {}
        /\ \A i \in Ids : seen'[i] = IF i \in streams' THEN seen[i] \cup {k} ELSE {}
    BY <1>3 DEF PublishLater, OfOpen, Noted
  <2>2. /\ streams' = streams /\ nextID' = nextID /\ k \in Coalesced
        /\ \A l \in Coalesced : coalesced'[l] = IF l = k THEN nextID - 1 ELSE coalesced[l]
    BY <1>3 DEF PublishLater, Through
  <2>3. FlushPending'
    BY <1>3 DEF PublishLater, Closing
  <2>4. \A i \in streams : i <= nextID - 1 /\ nextID - 1 # Nobody /\ nextID - 1 < nextID
    BY DEF Ids
  <2>5. NothingLost'
    BY <2>1, <2>2, <2>3, <2>4
  <2>6. NoEarlierHint'
    BY <2>1, <2>2
  <2>7. Tidy'
    BY <2>1, <2>2
  <2> QED BY <2>5, <2>6, <2>7
<1>4. CASE TimerFires
  BY <1>4 DEF TimerFires
<1>5. CASE FlushCoalesced
  <2>1. CASE shutting
    <3>1. streams' = {}
      BY <1>5, <2>1 DEF FlushCoalesced, Closing
    <3> QED BY <1>5, <2>1, <3>1 DEF FlushCoalesced, Closing
  <2>2. CASE ~shutting
    <3>0. Deliver
      BY <1>5, <2>2 DEF FlushCoalesced
    <3>1. streams' \subseteq streams /\ \A k \in Coalesced : coalesced'[k] = Nobody
      BY <3>0 DEF Deliver
    <3>2. \A i \in Ids : /\ owed'[i] = IF i \in streams' THEN owed[i] \ Due(i) ELSE {}
                         /\ seen'[i] = IF i \in streams' THEN seen[i] ELSE {}
      BY <3>0 DEF Deliver, OfOpen
    <3>3. \A i \in streams' : owed'[i] = {}
      BY <3>1, <3>2
    <3> QED BY <3>1, <3>2, <3>3
  <2> QED BY <2>1, <2>2
<1>6. ASSUME NEW i \in Ids, ReceiveHint(i) PROVE NothingLost' /\ NoEarlierHint' /\ Tidy'
  BY <1>6 DEF ReceiveHint
<1>7. ASSUME NEW gone \in SUBSET Ids, Close(gone) PROVE NothingLost' /\ NoEarlierHint' /\ Tidy'
  BY <1>7, <1>0 DEF Close, OfOpen
<1>8. CASE Shutdown
  BY <1>8, <1>0 DEF Shutdown, OfOpen
<1>9. CASE ShutdownReturns
  BY <1>9 DEF ShutdownReturns
<1>10. CASE UNCHANGED vars
  BY <1>10 DEF vars
<1> QED BY <1>1, <1>2, <1>3, <1>4, <1>5, <1>6, <1>7, <1>8, <1>9, <1>10 DEF Next

(* The inductive invariant of the hub holds in every reachable state. *)
THEOREM HubSafety == Spec => []IInv
<1>1. IInv /\ [Next]_vars => IInv'
  <2> SUFFICES ASSUME IInv, [Next]_vars PROVE IInv'
    OBVIOUS
  <2>1. TypeOK'
    BY StepType
  <2>2. TimerJoined' /\ Closing'
    BY StepTimer
  <2>3. NothingLost' /\ NoEarlierHint' /\ Tidy'
    BY <2>1, StepHints
  <2> QED BY <2>1, <2>2, <2>3 DEF IInv
<1> QED BY InitIInv, <1>1, PTL DEF Spec

(* The variables of the hub keep their types (hub.go:17-36). *)
THEOREM HubTypeCorrect == Spec => []TypeOK
<1>1. IInv => TypeOK
  BY DEF IInv
<1> QED BY HubSafety, <1>1, PTL

(* An open stream has received every hint published since it was opened,   *)
(* or the flush that will deliver it is under way (hub.go:80-134).         *)
THEOREM HintsAreKept == Spec => []NothingLost
<1>1. IInv => NothingLost
  BY DEF IInv
<1> QED BY HubSafety, <1>1, PTL

(* No flush delivers a hint published before its stream was opened         *)
(* (hub.go:92, 110-112).                                                   *)
THEOREM HintsAreFresh == Spec => []NoEarlierHint
<1>1. IInv => NoEarlierHint
  BY DEF IInv
<1> QED BY HubSafety, <1>1, PTL

(* The WaitGroup counts the outstanding callback, and a Shutdown that has  *)
(* returned leaves none behind (hub.go:152-166).                           *)
THEOREM TimerIsJoined == Spec => []TimerJoined
<1>1. IInv => TimerJoined
  BY DEF IInv
<1> QED BY HubSafety, <1>1, PTL
=============================================================================
