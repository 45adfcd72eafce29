------------------------------- MODULE MCOAuth -------------------------------
(* The OAuth authority of one server on small instances. *)
EXTENDS OAuth, TLC

CONSTANTS f1, f2, c1, c2, r1, r2, i1, i2, s1, s2

\* A behaviour is about two flows ("flows"), a flow beside a refresh ("mixed"), or
\* two refreshes ("refresh").
VARIABLE focus

Inactive == CASE focus = "flows" -> {r1, r2}
              [] focus = "mixed" -> {f2, c2, r1}
              [] focus = "refresh" -> {f1, f2, c1, c2}

MCInit ==
  /\ Init
  /\ focus \in {"flows", "mixed", "refresh"}
  /\ focus = "flows" => config \in {[public |-> TRUE, listener |-> TRUE], [public |-> FALSE, listener |-> FALSE]}
  /\ focus = "mixed" => ~config.listener
  /\ focus = "refresh" => ~config.public /\ ~config.listener

\* The second flow begins once the first has a bundle or is over; the server
\* changes while a flow is bound or consumed.
FlowsOnly ==
  /\ ~latched' /\ crashes' = 0
  /\ f2 \in due' \ due => pc[f2] = "open" /\ \A p \in {f1, c1, c2} : pc[p] \in {"idle", "open", "closed", "done"}
  /\ pc'[c2] # "idle" => pc'[c1] # "idle"
  /\ pc'[f1] # pc[f1] => pc[f2] \in {"idle", "register", "open", "closed"}
  /\ pc[f2] = "idle" /\ pc'[f2] # "idle" => pc[f1] \in {"register", "open", "closed"}
  /\ db'.desired # db.desired => ~db'.deleted /\ db'.pin # Home /\ \E p \in Procs : pc[p] \in {"register", "consumed", "exchanging"}
  /\ draining' # draining => \E p \in Procs : pc[p] \in {"register", "publish", "consumed"}
  /\ db'.tokens # db.tokens => \E c \in Callbacks : pc[c] \notin {"idle", "done"}

\* One flow, its callback and one refresh; a lost acknowledgement is one of theirs.
Mixed ==
  /\ due' = {} /\ ~draining' /\ ~db'.lapsed
  /\ latched' # latched => \E p \in Work : pc[p] # pc'[p]
  /\ db'.desired # db.desired => \E p \in Work : pc[p] \in {"exchanging", "commit", "activate", "handoff"}
  /\ db'.pin = None
  /\ pc[f1] = "idle" \/ pc[f1] = "open" \/ pc[f1] = "closed" \/ (pc'[r2] = pc[r2] /\ db'.desired = db.desired)

RefreshOnly ==
  /\ ~db'.lapsed /\ db'.pin = None
  /\ latched' # latched => \E p \in Work : pc[p] # pc'[p]

MCNext ==
  /\ UNCHANGED focus
  /\ Next
  /\ \A p \in Inactive : pc'[p] = "idle"
  /\ focus = "flows" => FlowsOnly
  /\ focus = "mixed" => Mixed
  /\ focus = "refresh" => RefreshOnly

mcVars == <<vars, focus>>
MCSpec == MCInit /\ [][MCNext]_mcVars /\ WF_mcVars(UNCHANGED focus /\ Progress)
=============================================================================
