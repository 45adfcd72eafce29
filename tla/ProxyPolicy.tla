---------------------------- MODULE ProxyPolicy ----------------------------
(* Policy of the HTTP proxy: the evaluation of one CONNECT, request or Git    *)
(* request against one snapshot of a principal's grants (httppolicy,          *)
(* gitpolicy).                                                                *)
(*                                                                            *)
(* A grant is [id, kind, origins, private, credential]: "origins" are the     *)
(* destinations its selectors match (schemes, methods and paths of request    *)
(* selectors are folded into them).  A Git grant is [read, refs]: "refs" are  *)
(* the <<ref, action>> pairs its rules allow.                                 *)
EXTENDS Naturals, FiniteSets

CONSTANT None

\* Evaluator.grants are in the order of their IDs, whatever order they came in.
First(grants) == CHOOSE g \in grants : \A h \in grants : g.id <= h.id

Matching(grants, kind, origin) == {g \in grants : g.kind = kind /\ origin \in g.origins}

destinationBlock(grants, origin) == Matching(grants, "block_destination", origin) # {}

Decision(transport, reason, allowed, private, credential) ==
    [transport |-> transport, reason |-> reason, allowed |-> allowed, private |-> private, credential |-> credential]

\* CONNECT: a destination block, an opaque tunnel, or local interception.
ConnectPolicy(grants, origin) ==
    LET tunnels == Matching(grants, "allow_tunnel", origin)
    IN  IF destinationBlock(grants, origin)
        THEN Decision("none", "destination_block", FALSE, FALSE, None)
        ELSE IF tunnels = {}
        THEN Decision("intercept", "intercept", FALSE, FALSE, None)
        ELSE Decision("tunnel", "tunnel_allow", TRUE, \E g \in tunnels : g.private, None)

\* Of the matching grants that require a credential the first names it, and any that
\* requires another one conflicts.
selectCredential(allows) ==
    LET requiring == {g \in allows : g.credential # None}
        credential == IF requiring = {} THEN None ELSE First(requiring).credential
    IN  [credential |-> credential, conflict |-> \E g \in requiring : g.credential # credential]

\* A request: blocks first, then the union of the allows, then the default.
RequestPolicy(grants, default, available, origin) ==
    LET allows == Matching(grants, "allow_requests", origin)
        private == \E g \in allows : g.private
        selected == selectCredential(allows)
        Because(reason, allowed) == Decision("request", reason, allowed, private, selected.credential)
    IN  IF destinationBlock(grants, origin) THEN Because("destination_block", FALSE)
        ELSE IF Matching(grants, "block_requests", origin) # {} THEN Because("request_block", FALSE)
        ELSE IF selected.conflict THEN Because("credential_conflict", FALSE)
        ELSE IF selected.credential \notin available \cup {None} THEN Because("credential_unavailable", FALSE)
        ELSE IF allows # {} THEN Because("request_allow", TRUE)
        ELSE Because("default", default = "allow")

\* The complete address set: one forbidden address refuses all of it.
checkAddresses(classes, private) ==
    IF "forbidden" \in classes THEN "address_forbidden"
    ELSE IF "private" \in classes /\ ~private THEN "private_required" ELSE ""

finishAddress(decision, classes) ==
    LET reason == checkAddresses(classes, decision.private)
    IN  IF ~decision.allowed \/ reason = "" THEN decision
        ELSE [decision EXCEPT !.allowed = FALSE, !.reason = reason]

Connect(grants, origin, classes) == finishAddress(ConnectPolicy(grants, origin), classes)

Request(grants, default, available, origin, classes) ==
    finishAddress(RequestPolicy(grants, default, available, origin), classes)

\* Network permission for Git: blocks, and private addresses that a request
\* grant allows; neither the default nor a credential counts.
GitDestination(grants, origin, classes) ==
    LET private == \E g \in Matching(grants, "allow_requests", origin) : g.private
    IN  ~destinationBlock(grants, origin) /\ checkAddresses(classes, private) = ""

\* Every action is allowed by some rule of some grant; no action needs a read.
EvaluateGit(gitGrants, actions) ==
    IF actions = {} THEN \E g \in gitGrants : g.read
    ELSE \A a \in actions : \E g \in gitGrants : a \in g.refs

\* Of a push that carries no command, a grant must at least be able to push.
PushCapable(gitGrants) == \E g \in gitGrants : g.read /\ g.refs # {}
=============================================================================
