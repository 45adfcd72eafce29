------------------------------- MODULE MCProxy -------------------------------
(* The HTTP proxy on a small instance. *)
EXTENDS Proxy, TLC

CONSTANTS q1, q2, o1, o2, x1, x2

MCGrants == { [id |-> 1, kind |-> "allow_tunnel", origins |-> {o1, o2}, private |-> FALSE, credential |-> None],
              [id |-> 2, kind |-> "block_destination", origins |-> {o1}, private |-> FALSE, credential |-> None],
              [id |-> 3, kind |-> "block_requests", origins |-> {o1}, private |-> FALSE, credential |-> None],
              [id |-> 4, kind |-> "allow_requests", origins |-> {o1}, private |-> TRUE, credential |-> x1],
              [id |-> 5, kind |-> "allow_requests", origins |-> {o1, o2}, private |-> FALSE, credential |-> x2] }
MCTunnel == {g \in MCGrants : g.id = 1}
MCGitGrants == {[read |-> TRUE, refs |-> {}], [read |-> TRUE, refs |-> {<<"main", "update">>}], [read |-> FALSE, refs |-> {<<"tag", "create">>}]}
MCPush == {<<"main", "update">>, <<"tag", "create">>}
MCAddresses == {{"public"}, {"public", "private"}, {"private", "forbidden"}}

\* A behaviour is about two tunnels and the routing profile ("tunnels"), one
\* request and any policy ("policy"), or an intercepted CONNECT and a stream in it
\* ("stream").
VARIABLE focus

MCInit ==
    /\ Init
    /\ focus \in {"tunnels", "policy", "stream"}
    /\ authority.profile.origins \subseteq {o1}
    /\ focus = "tunnels" => /\ authority.grants = MCTunnel /\ authority.default = "block" /\ authority.profile.origins = {}
    /\ focus = "stream" => authority.grants = {} /\ authority.available /\ authority.default = "allow"
    /\ ~authority.repository.deleted
    /\ focus # "stream" => authority.gitGrants = {} /\ ~authority.repository.aliased

\* The points at which a handler works on what it has read before.
Racing == {"address", "parse", "evaluate", "evaluateGit", "material", "confirm"}
Changed == authority' # authority
\* One change by an administrator, one grant that expires, or the drain of the authority; a
\* principal that was disabled is enabled again.
Once ==
    \/ /\ authority.revision = 1 /\ authority.generation = 1
       /\ authority.agent.principal = 1 /\ authority.expired = {}
    \/ Enable
Left(q) == request'[q].gone /\ ~request[q].gone /\ request'[q].pc = request[q].pc

\* The second tunnel comes once the first is admitted; only the profile changes.
Tunnels ==
    /\ \A q \in Requests :
          /\ request'[q].pc # "idle" => request'[q].kind = "connect" /\ request'[q].origin = o1
          /\ request'[q].classes \subseteq {"public"}
          /\ Left(q) => request[q].pc \in {"confirm", "copying"} \/ engine'.draining
    /\ request'[q2].pc # "idle" => request[q2].pc # "idle" \/ request[q1].outcome # "none"
    /\ Changed => authority'.profile # authority.profile /\ authority'.profile.origins \subseteq {o1}

\* The authority changes once, and while the request is evaluated.
Policy ==
    /\ request'[q2].pc = "idle" /\ ~engine'.draining
    /\ request'[q1].pc # "idle" => request'[q1].origin = o1
    /\ Changed => /\ request[q1].pc \in Racing \ {"address"} /\ Once
                  /\ authority'.repository = authority.repository /\ authority'.gitGrants = {}
                  /\ authority'.profile.origins \subseteq {o1}
    /\ Left(q1) => request[q1].pc \in {"confirm", "exchange"}

\* Only q1 opens the CONNECT; the authority changes once, after that.
Stream ==
    /\ request'[q1].pc # "idle" => request'[q1].kind = "connect" /\ request'[q1].origin = o1
    /\ request'[q2].pc # "idle" => request'[q2].inside = q1
    /\ \A q \in Requests : request'[q].classes \subseteq {"public"}
    /\ Changed => /\ request[q2].pc \in Racing \/ (request[q1].pc = "serving" /\ request[q2].pc = "idle")
                  /\ authority'.grants = {} /\ Once
                  /\ authority'.profile.origins \subseteq {o1}
    /\ engine'.draining => engine.draining \/ request[q2].pc \in {"confirm", "exchange", "ended"}
    /\ Left(q1) => engine'.draining \/ request[q2].pc \in {"evaluate", "confirm", "responding"}
    /\ request[q1].pc = "serving" /\ request'[q1].pc = "close" => request[q2].pc \in {"idle", "exchange", "ended"} \/ q1 \notin connections

MCNext ==
    /\ UNCHANGED focus
    /\ Next
    /\ focus = "tunnels" => Tunnels
    /\ focus = "policy" => Policy
    /\ focus = "stream" => Stream

mcVars == <<vars, focus>>

\* The handlers, the server's connections, and the deadlines of every wait: the
\* header, idle and dial timeouts and a tunnel's lifetime.
Progress == UNCHANGED focus /\ \E q \in Requests : Handler(q) \/ (ServingEnds(q) /\ q \notin connections)

MCSpec == MCInit /\ [][MCNext]_mcVars /\ WF_mcVars(Progress)
=============================================================================
