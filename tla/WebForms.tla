----------------------------- MODULE WebForms ------------------------------
(* The forms of the web console that change something, and what they share: the
   controller of one mutation, the coordinator that classifies its answer, the dialogs
   that show a secret once.  A form is a record: the routes it calls, where its
   precondition comes from, when it asks for a confirmation, what keeps its user from
   acting and what a refusal leaves behind.  The page around it reads the resource again
   from time to time; sessions end and begin; the user types, confirms, leaves. *)
EXTENDS AdminWrites

CONSTANTS
  Forms,        \* the forms under study, by name
  MaxReads,     \* bound: reads of the page
  MaxEpochs     \* bound: sessions

VARIABLES
  form,        \* the form on the page, by name
  page,        \* [rev, version, ok]: what the page last read
  draft,       \* [shows, expected, dirty]: the revision whose values the draft was made from, the one it will require
  review,      \* a refusal must be looked at before anything else
  blockedAt,   \* [version, rev]: the read, and the revision, that was refused
  ctl,         \* the MutationController: [state, request, attempt, etag, refresh], and in `seen` what its user reviewed
  late,        \* requests whose controller has been reset since
  neighbor,    \* the last change another form of the same page had acknowledged
  phase,       \* the step of a form that takes two
  sink,        \* [kind, epoch, dialog]: the dialog for a secret and the session it was opened in
  session,     \* [epoch, in]
  webLatched   \* the coordinator was told that storage has latched

formVars == <<form, page, draft, review, blockedAt, ctl, late, neighbor, phase, sink, session, webLatched>>

-----------------------------------------------------------------------------
(* The forms. *)

Form(routes, expected, confirms, blocks) ==
  [routes |-> routes, expected |-> expected, confirms |-> confirms, blocks |-> blocks, rechecks |-> {},
   refused |-> {}, unsure |-> {}, sink |-> "none", rebase |-> "none", leaves |-> FALSE]

\* What every form looks at: its own controller and the storage latch.
Busy == {"submitting", "latched"}
Unsettled == Busy \union {"uncertain"}

ServerDestructiveActions ==
  [Form(<<"delete_server">>, "live", {TRUE}, Unsettled \union {"version"}) EXCEPT !.refused = {"version"}, !.leaves = TRUE]
OperationStarter ==
  [Form(<<"create_operation">>, "live", BOOLEAN, Unsettled \union {"version", "unavailable"}) EXCEPT !.refused = {"version"}]
StartFlow ==
  [Form(<<"create_flow">>, "live", {FALSE}, Unsettled \union {"version"}) EXCEPT !.refused = {"version"}, !.sink = "oauth"]
CancelFlow == Form(<<"delete_flow">>, "none", {TRUE}, Busy)
ReplacementForm ==
  [Form(<<"replace_credential">>, "confirm", {TRUE}, Unsettled \union {"version"})
     EXCEPT !.rechecks = {"latched"}, !.refused = {"version"}, !.unsure = {"version"}]
ServerEditorCreate == [Form(<<"create_server">>, "none", {TRUE}, Unsettled) EXCEPT !.leaves = TRUE]
ServerEditor == [Form(<<"patch_server">>, "live", BOOLEAN, Unsettled \union {"rev"}) EXCEPT !.refused = {"rev"}]

PrincipalEditor ==
  [Form(<<"patch_principal">>, "held", BOOLEAN, Unsettled \union {"unavailable", "changed", "refresh"}) EXCEPT !.rebase = "pristine"]
PrincipalCredentialActions ==
  [Form(<<"principal_credential">>, "live", {TRUE}, Busy \union {"rev"}) EXCEPT !.refused = {"rev"}, !.sink = "one_time"]
AdminCredentials == [Form(<<"create_admin">>, "none", {TRUE}, Busy) EXCEPT !.sink = "one_time"]

RoutingEditor ==
  LET blocks == Unsettled \union {"unavailable", "changed", "refresh"}
  IN  [Form(<<"git_profile">>, "held", {TRUE}, blocks) EXCEPT !.rechecks = blocks]
GitEditor ==
  LET blocks == Unsettled \union {"unavailable", "changed"}
  IN  [Form(<<"rotate_git_credential">>, "held", {TRUE}, blocks) EXCEPT !.rechecks = blocks, !.rebase = "neighbor"]

\* usePolicyMutation: refused or unsure, nothing more until a later read.
UsePolicyMutation(f) ==
  [f EXCEPT !.blocks = @ \union {"version"}, !.rechecks = @ \union {"version"},
            !.refused = {"version", "review"}, !.unsure = {"version"}]
GrantEditor ==
  LET blocks == Unsettled \union {"unavailable", "changed", "review"}
  IN  UsePolicyMutation([Form(<<"http_grant">>, "held", {TRUE}, blocks) EXCEPT !.rechecks = blocks])
CredentialEditor ==
  LET blocks == Unsettled \union {"unavailable", "changed", "review", "version"}
  IN  [Form(<<"rotate_http_credential">>, "held", {TRUE}, blocks)
         EXCEPT !.rechecks = blocks, !.rebase = "neighbor", !.refused = {"version", "review"}, !.unsure = {"version"}]

GrantCreate == [Form(<<"create_grant">>, "none", {TRUE}, Unsettled) EXCEPT !.leaves = TRUE]
\* A correction creates before it deletes; each step is its own request, the grants are read between them.
GrantActions == Form(<<"create_grant", "delete_grant">>, "none", {TRUE}, Busy \union {"reading"})
RequestActions ==
  [Form(<<"adjudicate">>, "live", BOOLEAN, Unsettled \union {"unavailable", "rev"})
     EXCEPT !.rechecks = {"unavailable"}, !.refused = {"rev"}]

FormOf ==
  [delete_server |-> ServerDestructiveActions, start_operation |-> OperationStarter, start_flow |-> StartFlow,
   cancel_flow |-> CancelFlow, replace_credential |-> ReplacementForm, create_server |-> ServerEditorCreate,
   edit_server |-> ServerEditor, edit_principal |-> PrincipalEditor, issue_credential |-> PrincipalCredentialActions,
   create_admin |-> AdminCredentials, edit_routing |-> RoutingEditor, rotate_git |-> GitEditor,
   edit_http_grant |-> GrantEditor, rotate_http |-> CredentialEditor, create_grant |-> GrantCreate,
   correct_grant |-> GrantActions, adjudicate |-> RequestActions]

ASSUME FormsAssumption == Forms \subseteq DOMAIN FormOf /\ None \notin Forms

Shown == FormOf[form]
RouteNow == Shown.routes[phase]

-----------------------------------------------------------------------------
(* The controller and the dialogs. *)

Idle == [state |-> "editing", request |-> 0, attempt |-> 0, etag |-> None, seen |-> 0, refresh |-> FALSE]
NoSink == [kind |-> "none", epoch |-> 0, dialog |-> "closed"]
Fresh(rev) == [shows |-> rev, expected |-> rev, dirty |-> FALSE]

\* A reset controller forgets its request: the answer will be discarded.
ResetForEpoch ==
  /\ ctl' = Idle
  /\ late' = IF ctl.request = 0 THEN late ELSE late \union {ctl.request}

\* A page shown anew: the form is mounted with what was just read.
Mount ==
  /\ page' = [rev |-> target.rev, version |-> page.version + 1, ok |-> TRUE]
  /\ draft' = Fresh(target.rev)
  /\ review' = FALSE /\ blockedAt' = [version |-> 0, rev |-> 0] /\ neighbor' = None /\ phase' = 1

\* prepareOneTime, prepareOAuth: whatever was open is cleared, write-only values too.
\* The dialog element may still be open, in which case nothing is prepared.
Prepared(kind) == [kind |-> kind, epoch |-> session.epoch, dialog |-> "awaiting"]
Matches == sink.dialog = "awaiting" /\ sink.epoch = session.epoch /\ session.in

\* publish, lose and cancel of a prepared sink, by the outcome of its submission.
SinkAfter(outcome) ==
  IF Shown.sink = "none" \/ ~Matches THEN sink
  ELSE CASE outcome = "acknowledged" -> [sink EXCEPT !.dialog = "shown"]
         [] outcome = "uncertain" -> [sink EXCEPT !.dialog = "lost"]
         [] OTHER -> NoSink

Holds(block) ==
  CASE block = "submitting" -> ctl.state = "submitting"
    [] block = "uncertain" -> ctl.state = "uncertain"
    [] block = "latched" -> webLatched
    [] block = "refresh" -> ctl.refresh
    [] block = "unavailable" -> ~page.ok
    [] block = "changed" -> draft.expected # page.rev
    [] block = "review" -> review
    [] block = "reading" -> phase = 2 /\ page.version <= blockedAt.version
    [] block = "version" -> page.version <= blockedAt.version
    [] block = "rev" -> page.rev = blockedAt.rev
Blocked(blocks) == \E block \in blocks : Holds(block)

-----------------------------------------------------------------------------
(* What the user does. *)

UNCHANGEDServer == UNCHANGED <<target, records, lapsed, carried, latched>>
Here == session.in /\ form # None

FormInit ==
  /\ form \in Forms
  /\ page = [rev |-> 1, version |-> 1, ok |-> TRUE]
  /\ draft = Fresh(1)
  /\ review = FALSE /\ blockedAt = [version |-> 0, rev |-> 0] /\ ctl = Idle /\ late = {} /\ neighbor = None
  /\ phase = 1 /\ sink = NoSink /\ session = [epoch |-> 1, in |-> TRUE] /\ webLatched = FALSE

Edit ==
  /\ Here /\ ~draft.dirty /\ ctl.state \notin {"submitting", "confirming", "uncertain"}
  /\ draft' = [draft EXCEPT !.dirty = TRUE]
  /\ UNCHANGED <<writeVars, form, page, review, blockedAt, ctl, late, neighbor, phase, sink, session, webLatched>>

\* The precondition a form sends: taken when it is begun, or held since the draft was made.
Expected ==
  CASE Shown.expected = "none" -> None
    [] Shown.expected \in {"live", "confirm"} -> page.rev
    [] Shown.expected = "held" -> draft.expected

\* The revision the user has before him when he decides: the one his draft was made from, or the page's.
Looking == IF Shown.expected = "held" \/ form = "edit_server" THEN draft.shows ELSE page.rev

Key == IF RouteNow \in {"create_server", "create_operation"} THEN Len(attempts) + 1 ELSE None

\* MutationController.start: the one request of a submission.
Start(etag, seen) ==
  /\ Send(form, RouteNow, etag, Key, seen)
  /\ ctl' = [Idle EXCEPT !.state = "submitting", !.request = Len(requests'), !.attempt = Len(attempts'), !.etag = etag]

\* begin, then confirm or submit.  A dialog that cannot be prepared starts nothing.
Review ==
  /\ Here /\ ctl.state \notin {"submitting", "confirming"}
  /\ ~Blocked(Shown.blocks)
  /\ Shown.expected = "held" => draft.dirty
  /\ \E confirm \in Shown.confirms :
       IF confirm
       THEN ctl' = [Idle EXCEPT !.state = "confirming", !.etag = Expected, !.seen = Looking] /\ UNCHANGED <<writeVars, sink>>
       ELSE /\ Start(Expected, Looking)
            /\ sink' = IF Shown.sink = "none" THEN sink ELSE Prepared(Shown.sink)
            /\ UNCHANGEDServer
  /\ UNCHANGED <<form, page, draft, review, blockedAt, late, neighbor, phase, session, webLatched>>

\* submit.  The forms that hold a precondition look again, and begin only now; a latched
\* coordinator starts nothing and leaves the controller as it is.
Confirm ==
  /\ Here /\ ctl.state = "confirming"
  /\ IF Blocked(Shown.rechecks)
     THEN ctl' = Idle /\ UNCHANGED <<writeVars, sink>>
     ELSE /\ ~webLatched
          /\ Start(IF Shown.expected = "live" THEN ctl.etag ELSE Expected, ctl.seen)
          /\ sink' = IF Shown.sink = "none" THEN sink ELSE Prepared(Shown.sink)
          /\ UNCHANGEDServer
  /\ UNCHANGED <<form, page, draft, review, blockedAt, late, neighbor, phase, session, webLatched>>

Abandon ==
  /\ Here /\ ctl.state \in {"confirming", "rejected"}
  /\ ctl' = Idle
  /\ UNCHANGED <<writeVars, form, page, draft, review, blockedAt, late, neighbor, phase, sink, session, webLatched>>

\* replay: the same request under the same key, while the outcome is uncertain.
Replay ==
  /\ Here /\ ctl.state = "uncertain" /\ ~webLatched
  /\ attempts[ctl.attempt].key # None
  /\ SendAgain(ctl.attempt, ctl.etag)
  /\ ctl' = [ctl EXCEPT !.state = "submitting", !.request = Len(requests')]
  /\ UNCHANGED attempts /\ UNCHANGEDServer
  /\ UNCHANGED <<form, page, draft, review, blockedAt, late, neighbor, phase, sink, session, webLatched>>

\* "Use reviewed revision": the user has compared the retained draft with what the page shows now;
\* after an uncertain outcome the draft is given up.
UseReviewed ==
  /\ Here /\ page.ok
  /\ \/ ctl.state \in {"uncertain", "rejected"}
     \/ ctl.state = "editing" /\ Shown.expected = "held" /\ (draft.expected # page.rev \/ review)
  /\ "version" \in Shown.unsure => page.version > blockedAt.version
  /\ draft' = [Fresh(page.rev) EXCEPT !.dirty = draft.dirty /\ ctl.state # "uncertain"]
  /\ review' = FALSE /\ ctl' = Idle
  /\ UNCHANGED <<writeVars, form, page, blockedAt, late, neighbor, phase, sink, session, webLatched>>

\* requestMutation: what an answer means for the user.
OutcomeOf(answer, custody) ==
  CASE answer.kind = "ok" -> "acknowledged"
    [] answer.code = "storage_unavailable" -> "uncertain"
    [] answer.code = "keyring_unavailable" /\ custody -> "uncertain"
    [] OTHER -> "rejected"

Marked(marks) ==
  /\ blockedAt' = [version |-> IF "version" \in marks THEN page.version ELSE blockedAt.version,
                   rev |-> IF "rev" \in marks THEN page.rev ELSE blockedAt.rev]
  /\ review' = (review \/ "review" \in marks)

\* The submission settles, as an answer says or, without one, uncertain.
SettleAs(outcome, code, rev) ==
  /\ attempts' = [attempts EXCEPT ![ctl.attempt].told = outcome]
  /\ sink' = SinkAfter(outcome)
  /\ webLatched' = (webLatched \/ code = "storage_unavailable")
  /\ LET refresh == outcome = "rejected" /\ code \in {"stale", "conflict"} IN
     /\ ctl' = CASE outcome = "acknowledged" -> Idle
                 [] outcome = "rejected" -> [Idle EXCEPT !.state = "rejected", !.refresh = refresh]
                 [] outcome = "uncertain" -> [ctl EXCEPT !.state = "uncertain", !.request = 0]
     /\ IF outcome = "acknowledged"
        THEN /\ draft' = IF Shown.expected = "held" THEN Fresh(rev) ELSE [draft EXCEPT !.dirty = FALSE]
             /\ phase' = IF phase < Len(Shown.routes) THEN phase + 1 ELSE 1
             /\ Marked(IF Len(Shown.routes) > 1 THEN {"version"} ELSE {})
             /\ form' = IF Shown.leaves THEN None ELSE form
        ELSE /\ Marked(IF refresh THEN Shown.refused ELSE IF outcome = "uncertain" THEN Shown.unsure ELSE {})
             /\ UNCHANGED <<draft, phase, form>>
  /\ UNCHANGED <<target, records, lapsed, requests, carried, latched, page, late, neighbor, session>>

Settle ==
  /\ Here /\ ctl.state = "submitting"
  /\ requests[ctl.request].stage = "answered"
  /\ LET answer == requests[ctl.request].answer IN
     \/ SettleAs(OutcomeOf(answer, Routes[RouteNow].custody), answer.code, answer.rev)
     \/ answer.kind = "ok" /\ SettleAs("uncertain", "unreadable", 0)

\* fetch fails: the request may have arrived, may still arrive, or may never.
NetworkFails ==
  /\ Here /\ ctl.state = "submitting"
  /\ SettleAs("uncertain", "network", 0)

\* OneTimeDisplay, OAuthDisplay: the user closes the dialog, opens the address, or gives up waiting.
Dismiss ==
  /\ Here /\ sink.dialog # "closed"
  /\ sink' = NoSink
  /\ UNCHANGED <<writeVars, form, page, draft, review, blockedAt, ctl, late, neighbor, phase, session, webLatched>>

-----------------------------------------------------------------------------
(* What happens around the form. *)

\* Mutant: the new revision is taken over whatever has been typed or reviewed.
RebasedOverDraft ==
  CASE Shown.rebase = "pristine" -> ctl.state # "uncertain" /\ ~ctl.refresh
    [] Shown.rebase = "neighbor" -> neighbor # None /\ ctl.state = "editing" /\ neighbor.to = target.rev /\ neighbor.from = draft.expected
    [] OTHER -> FALSE

\* The page is read again; a pristine form takes the new revision over, or one it saw its neighbor make.
Rebased ==
  CASE Shown.rebase = "pristine" -> ~draft.dirty /\ ctl.state # "uncertain" /\ ~ctl.refresh
    [] Shown.rebase = "neighbor" -> /\ neighbor # None /\ ~draft.dirty /\ ctl.state = "editing"
                                    /\ neighbor.to = target.rev /\ neighbor.from = draft.expected
    [] OTHER -> FALSE
PageRead ==
  /\ Here /\ page.version < MaxReads
  /\ \/ /\ page' = [rev |-> target.rev, version |-> page.version + 1, ok |-> TRUE]
        /\ draft' = IF target.rev # page.rev /\ Rebased THEN Fresh(target.rev) ELSE draft
     \/ page' = [page EXCEPT !.ok = FALSE] /\ page.ok /\ UNCHANGED draft
  /\ UNCHANGED <<writeVars, form, review, blockedAt, ctl, late, neighbor, phase, sink, session, webLatched>>

\* Another form of the same page has its change acknowledged.
NeighborSaves ==
  /\ Here /\ Shown.rebase = "neighbor" /\ target.rev < MaxRevision /\ ~latched /\ neighbor = None
  /\ target' = [target EXCEPT !.rev = @ + 1]
  /\ neighbor' = [from |-> target.rev, to |-> target.rev + 1]
  /\ UNCHANGED <<records, lapsed, requests, attempts, carried, latched>>
  /\ UNCHANGED <<form, page, draft, review, blockedAt, ctl, late, phase, sink, session, webLatched>>

\* The system status is read: the coordinator learns whether storage is latched.
StatusRead ==
  /\ Here /\ webLatched # latched /\ webLatched' = latched
  /\ UNCHANGED <<writeVars, form, page, draft, review, blockedAt, ctl, late, neighbor, phase, sink, session>>

\* A session ends: controllers are reset, dialogs cleared, and the protected pages go away.
SessionEnds ==
  /\ session.in /\ session.epoch < MaxEpochs
  /\ session' = [epoch |-> session.epoch + 1, in |-> FALSE]
  /\ ResetForEpoch /\ sink' = NoSink
  /\ UNCHANGED <<writeVars, form, page, draft, review, blockedAt, neighbor, phase, webLatched>>
SignIn ==
  /\ ~session.in
  /\ session' = [session EXCEPT !.in = TRUE]
  /\ Mount /\ form' \in Forms
  /\ UNCHANGED <<writeVars, ctl, late, sink, webLatched>>

\* The user leaves the page, after the warning about unsaved changes: the form is closed with its controller.
Leave ==
  /\ Here
  /\ ResetForEpoch /\ sink' = NoSink /\ form' = None
  /\ UNCHANGED <<writeVars, page, draft, review, blockedAt, neighbor, phase, session, webLatched>>
Return ==
  /\ session.in /\ form = None /\ page.version < MaxReads
  /\ form' \in Forms /\ Mount
  /\ UNCHANGED <<writeVars, ctl, late, sink, session, webLatched>>

\* The answer to a request whose controller was reset: its prepared sink matches nothing any more.
Discard ==
  \E n \in late : /\ requests[n].stage = "answered"
                  /\ late' = late \ {n}
                  /\ UNCHANGED <<writeVars, form, page, draft, review, blockedAt, ctl, neighbor, phase, sink, session, webLatched>>

User == Edit \/ Review \/ Confirm \/ Abandon \/ Replay \/ UseReviewed \/ Dismiss \/ Leave \/ Return \/ SignIn
Browser == Settle \/ NetworkFails \/ PageRead \/ StatusRead \/ NeighborSaves \/ SessionEnds \/ Discard
FormNext == User \/ Browser \/ (Server /\ UNCHANGED formVars)

FormSpec == Init /\ FormInit /\ [][FormNext]_<<writeVars, formVars>>

-----------------------------------------------------------------------------
(* What the forms promise. *)

(* An edit that was carried out replaced exactly the revision its author had before him when
   he decided: the one his draft was made from or compared with since, or the one he reviewed,
   however the page was read again, edited by others or rebased before he confirmed.  Two forms
   are left out, which send the newest revision the page has read instead: the server editor,
   whatever its draft was made from, and the replacement of a server's credential, whatever was
   on the page when it was reviewed. *)
ReviewedRevision ==
  \A c \in carried :
    LET a == attempts[c.attempt] IN
    (a.by \in DOMAIN FormOf \ {"edit_server", "replace_credential"} /\ a.etag # None /\ a.key = None) => c.rev = a.shows

(* A secret or an authorization address is on the screen only in the session that asked
   for it, while its page is open. *)
SecretStaysPut == sink.dialog = "shown" => session.in /\ sink.epoch = session.epoch /\ form # None

(* A form acts on what its author saw, and shows what it got to nobody else. *)
FormsAreFaithful == ReviewedRevision /\ SecretStaysPut
=============================================================================
