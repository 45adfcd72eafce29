---------------------------- MODULE OAuthProofs ----------------------------
(***************************************************************************)
(* Proofs about the OAuth authority: for any number of flows, callbacks,   *)
(* refreshers, generations, edits and crashes, a refresh token that may    *)
(* have reached the issuer is never read again, the tokens an exchange     *)
(* replaces stay denied, and readable tokens belong to a flow that         *)
(* succeeded.                                                              *)
(*                                                                         *)
(* None of the three is inductive.  The fence is lifted in two places, by  *)
(* a refresh that was never sent (Disarm) and by a publication             *)
(* (ActivateTokens), and each must know that what it makes readable again  *)
(* is unspent and agreed on; it knows because only the holder of the       *)
(* keyring's permit changes the selected generation (PermitHeld), because  *)
(* a generation is fresh until it is selected (Fresh), and because one     *)
(* flow at a time is under way (OneActive).                                *)
(***************************************************************************)
EXTENDS OAuth, TLAPS

Labels == {"idle", "prepared", "register", "bind", "await", "dropped", "publish", "open", "failing",
           "closed", "consumed", "exchanging", "sending", "install", "leaving", "done", "fence",
           "commit", "activate", "retract", "undo", "challenged", "prepare", "joined", "read", "arm",
           "handoff", "disarm", "ending"}
FlowStates == {"absent"} \cup Nonterminal \cup Terminal
FlowRows == [state : FlowStates, desired : Nat, registration : Nat]
Databases ==
  [desired : Nat, deleted : BOOLEAN, pin : Issuers \cup {None}, registration : Nat,
   issuer : Issuers \cup {None}, client : Nat, held : BOOLEAN, lapsed : BOOLEAN, tokens : Nat,
   handle : Nat, selected : Nat, fenced : BOOLEAN, flows : [Flows -> FlowRows]]
Fences == [desired : Nat, registration : Nat, client : Nat, tokens : Nat]
Bundles == [fence : Fences, issuer : Issuers \cup {None}, scopes : SUBSET Scopes]
Generations == [issuer : Issuers \cup {None}, registration : Nat, scopes : SUBSET Scopes,
                flow : Flows \cup {None}]
Captures == [fence : Fences, issuer : Issuers \cup {None}, scopes : SUBSET Scopes,
             flow : Flows \cup {None}, generation : Nat]

TypeOK ==
  /\ db \in Databases
  /\ config \in [public : BOOLEAN, listener : BOOLEAN]
  /\ byState \in [Flows -> Bundles \cup {None}]
  /\ operation \in Work \cup {None}
  /\ pc \in [Procs -> Labels]
  /\ own \in [Procs -> Captures]
  /\ due \subseteq Flows
  /\ gens \in Seq(Generations)
  /\ spent \subseteq Nat

\* One flow at a time is under way, and one that never began has no row.
OneActive ==
  /\ \A f, g \in Flows : db.flows[f].state \in Nonterminal /\ db.flows[g].state \in Nonterminal => f = g
  /\ \A f \in Flows : pc[f] = "idle" => db.flows[f].state = "absent"

\* A callback that consumed a state serves its flow.
ServesFlow == \A c \in Callbacks : pc[c] \notin {"idle", "done"} => own[c].flow \in Flows

\* The permit of the keyring is held from the first read to the last write.
Permitted == {"read", "arm", "handoff", "disarm", "fence", "commit", "activate", "retract", "undo"}
PermitHeld == \A p \in Work : pc[p] \in Permitted => operation = p

\* The flow that obtained a generation, if it was one of these, succeeded.
Agreed(g) == gens[g].flow # None => db.flows[gens[g].flow].state = "succeeded"

\* What was handed to the issuer was issued, and is readable only behind a fence.
SpentIsFenced ==
  /\ spent \subseteq 1 .. Len(gens) /\ db.selected \in 0 .. Len(gens)
  /\ db.selected \in spent => db.fenced

\* What is readable is agreed on.
ReadableAgrees == ~db.fenced /\ db.selected # 0 => Agreed(db.selected)

\* A refresh that has not been sent still holds the selected generation; the
\* fence is up while one is sent, and while a new one is committed.
Unsent(p) ==
  /\ pc[p] \in {"arm", "handoff", "disarm"} =>
       /\ own[p].generation = db.selected /\ db.selected # 0
       /\ db.selected \notin spent /\ Agreed(db.selected)
  /\ pc[p] \in {"handoff", "commit"} => db.fenced

\* A generation that was received and not committed is known to its owner only.
Holding == {"install", "fence", "commit"}
Fresh(p) ==
  pc[p] \in Holding =>
    /\ own[p].generation \in 1 .. Len(gens) /\ own[p].generation \notin spent
    /\ own[p].generation # db.selected
    /\ \A q \in Work : q # p /\ pc[q] \in Holding => own[q].generation # own[p].generation

\* What is about to be activated is what was committed, and unspent.
Committed(p) == pc[p] = "activate" => /\ own[p].generation = db.selected
                                      /\ db.selected \notin spent /\ db.selected # 0

\* A received generation comes from the flow of its callback, or from a
\* generation that was agreed on.
Lineage(p) ==
  pc[p] \in Holding \cup {"activate"} =>
    IF p \in Callbacks THEN gens[own[p].generation].flow = own[p].flow
                       ELSE Agreed(own[p].generation)

OAuthInv ==
  /\ TypeOK /\ OneActive /\ ServesFlow /\ PermitHeld
  /\ ExchangeIsFenced /\ SpentIsFenced /\ ReadableAgrees
  /\ \A p \in Work : Unsent(p) /\ Fresh(p) /\ Committed(p) /\ Lineage(p)

-----------------------------------------------------------------------------
(* Types.                                                                  *)

LEMMA DbType ==
  ASSUME TypeOK
  PROVE  /\ db \in Databases
         /\ db.desired \in Nat /\ db.deleted \in BOOLEAN /\ db.pin \in Issuers \cup {None}
         /\ db.registration \in Nat /\ db.issuer \in Issuers \cup {None} /\ db.client \in Nat
         /\ db.held \in BOOLEAN /\ db.lapsed \in BOOLEAN /\ db.tokens \in Nat /\ db.handle \in Nat
         /\ db.selected \in Nat /\ db.fenced \in BOOLEAN /\ db.flows \in [Flows -> FlowRows]
BY DEF TypeOK, Databases

\* Changing one flow's state leaves everything else.
LEMMA SetFlowType ==
  ASSUME NEW d \in Databases, NEW f \in Flows, NEW state \in FlowStates
  PROVE  /\ SetFlow(d, f, state) \in Databases
         /\ SetFlow(d, f, state).flows[f].state = state
         /\ \A g \in Flows : g # f => SetFlow(d, f, state).flows[g] = d.flows[g]
         /\ SetFlow(d, f, state).selected = d.selected /\ SetFlow(d, f, state).fenced = d.fenced
         /\ SetFlow(d, f, state).tokens = d.tokens
BY DEF SetFlow, Databases, FlowRows

\* And so does changing the state of several.
LEMMA SetFlowsType ==
  ASSUME NEW d \in Databases, NEW S \in SUBSET Flows, NEW state \in FlowStates
  PROVE  /\ SetFlows(d, S, state) \in Databases
         /\ \A f \in Flows : SetFlows(d, S, state).flows[f].state =
                               IF f \in S THEN state ELSE d.flows[f].state
         /\ SetFlows(d, S, state).selected = d.selected /\ SetFlows(d, S, state).fenced = d.fenced
         /\ SetFlows(d, S, state).desired = d.desired
<1>1. [f \in Flows |-> IF f \in S THEN [d.flows[f] EXCEPT !.state = state] ELSE d.flows[f]]
        \in [Flows -> FlowRows]
  BY DEF Databases, FlowRows
<1>2. \A x \in [Flows -> FlowRows] : [d EXCEPT !.flows = x] \in Databases
  BY DEF Databases
<1>3. SetFlows(d, S, state) = [d EXCEPT !.flows =
        [f \in Flows |-> IF f \in S THEN [d.flows[f] EXCEPT !.state = state] ELSE d.flows[f]]]
  BY DEF SetFlows
<1> HIDE DEF SetFlows
<1>4. SetFlows(d, S, state).flows =
        [f \in Flows |-> IF f \in S THEN [d.flows[f] EXCEPT !.state = state] ELSE d.flows[f]]
  BY <1>3 DEF Databases
<1>5. \A f \in Flows : [d.flows[f] EXCEPT !.state = state].state = state
  BY DEF Databases, FlowRows
<1>6. /\ SetFlows(d, S, state).selected = d.selected /\ SetFlows(d, S, state).fenced = d.fenced
      /\ SetFlows(d, S, state).desired = d.desired
  BY <1>3 DEF Databases
<1>7. SetFlows(d, S, state) \in Databases
  BY <1>1, <1>2, <1>3
<1>8. \A f \in Flows : SetFlows(d, S, state).flows[f].state =
                         IF f \in S THEN state ELSE d.flows[f].state
  BY <1>4, <1>5
<1> QED BY <1>6, <1>7, <1>8
-----------------------------------------------------------------------------
(* What a step does to the database.                                       *)

\* No flow begins, is revived, or enters an exchange, and none that succeeded is undone.
Settles ==
  /\ db' \in Databases
  /\ \A f \in Flows :
       /\ db'.flows[f].state \in Nonterminal => db.flows[f].state \in Nonterminal
       /\ db.flows[f].state = "absent" => db'.flows[f].state = "absent"
       /\ db'.flows[f].state = "exchanging" => db.flows[f].state = "exchanging"
       /\ db.flows[f].state = "succeeded" => db'.flows[f].state = "succeeded"


\* A database with the same flows settles them.
LEMMA SameFlows ==
  ASSUME TypeOK, db' \in Databases, db'.flows = db.flows
  PROVE  Settles
BY DbType DEF Settles

\* The writes of a replacement leave the flows alone.
LEMMA FencedDb ==
  ASSUME TypeOK, db' = [db EXCEPT !.selected = 0, !.fenced = TRUE]
  PROVE  db' \in Databases /\ db'.flows = db.flows
<1>1. db \in Databases
  BY DbType
<1>2. db'.flows = db.flows
  BY <1>1 DEF Databases
<1>3. db' \in Databases
  BY <1>1 DEF Databases
<1> QED BY <1>2, <1>3

LEMMA CommittedDb ==
  ASSUME TypeOK, NEW t \in Nat, NEW g \in Nat,
         db' = [db EXCEPT !.tokens = t, !.handle = g, !.selected = g]
  PROVE  db' \in Databases /\ db'.flows = db.flows
<1>1. db \in Databases
  BY DbType
<1>2. db'.flows = db.flows
  BY <1>1 DEF Databases
<1>3. db' \in Databases
  BY <1>1 DEF Databases
<1> QED BY <1>2, <1>3

\* Ending a flow that is under way settles it.
LEMMA OneFlow ==
  ASSUME TypeOK, NEW f \in Flows, NEW state \in Terminal, db.flows[f].state \in Nonterminal,
         db' \in Databases, db'.flows[f].state = state,
         \A g \in Flows : g # f => db'.flows[g] = db.flows[g]
  PROVE  Settles
<1>1. state \notin Nonterminal /\ state # "absent" /\ state # "exchanging"
  BY DEF Terminal, Nonterminal
<1>2. db.flows[f].state # "absent" /\ db.flows[f].state # "succeeded"
  BY DEF Nonterminal
<1> QED BY <1>1, <1>2 DEF Settles

\* Every step but the creation of a flow and the begin of an exchange settles.
LEMMA SettleStep ==
  ASSUME TypeOK, ServesFlow, [Next]_vars
  PROVE  Settles \/ (\E h \in Flows : Prepare(h)) \/ (\E d \in Callbacks : BeginAuthFlowExchange(d))
<1>1. ASSUME NEW f \in Flows, Prepare(f)
      PROVE  Settles \/ (\E h \in Flows : Prepare(h)) \/ (\E d \in Callbacks : BeginAuthFlowExchange(d))
  BY <1>1
<1>2. ASSUME NEW f \in Flows, Discovered(f)
      PROVE  Settles \/ (\E h \in Flows : Prepare(h)) \/ (\E d \in Callbacks : BeginAuthFlowExchange(d))
  BY <1>2, DbType DEF Discovered, Settles
<1>3. ASSUME NEW f \in Flows, Register(f)
      PROVE  Settles \/ (\E h \in Flows : Prepare(h)) \/ (\E d \in Callbacks : BeginAuthFlowExchange(d))
  <2>1. own[f] \in Captures
    BY DEF TypeOK, Procs
  <2>2. own[f].issuer \in Issuers \cup {None}
    BY <2>1 DEF Captures
  <2>3. \A n, m \in Nat, i \in Issuers \cup {None}, b \in BOOLEAN :
          [db EXCEPT !.registration = n, !.issuer = i, !.lapsed = FALSE, !.client = m,
                     !.held = b] \in Databases
    BY DbType DEF Databases
  <2>4. CASE db' = Registered(db, f)
    <3>1. PICK m \in Nat, b \in BOOLEAN :
            db' = [db EXCEPT !.registration = db.registration + 1, !.issuer = own[f].issuer,
                             !.lapsed = FALSE, !.client = m, !.held = b]
      <4>1. db.registration + 1 \in Nat /\ db.client + 1 \in Nat /\ (~config.public) \in BOOLEAN
        BY DbType
      <4>2. CASE config.public
        BY <2>4, <4>1, <4>2, DbType DEF Registered
      <4>3. CASE ~config.public
        BY <2>4, <4>1, <4>3, DbType DEF Registered
      <4> QED BY <4>2, <4>3
    <3>2. db' \in Databases
      <4>1. db.registration + 1 \in Nat
        BY DbType
      <4> QED BY <4>1, <3>1, <2>2, <2>3
    <3>3. db'.flows = db.flows
      BY <3>1, DbType DEF Databases
    <3> QED BY <3>2, <3>3, SameFlows
  <2>5. CASE db' = db
    BY <2>5, DbType DEF Settles
  <2> QED BY <1>3, <2>4, <2>5 DEF Register, Tx
<1>4. ASSUME NEW f \in Flows, Bind(f)
      PROVE  Settles \/ (\E h \in Flows : Prepare(h)) \/ (\E d \in Callbacks : BeginAuthFlowExchange(d))
  BY <1>4, DbType DEF Bind, Settles
<1>5. ASSUME NEW f \in Flows, Await(f)
      PROVE  Settles \/ (\E h \in Flows : Prepare(h)) \/ (\E d \in Callbacks : BeginAuthFlowExchange(d))
  <2>1. CASE db' = db
    BY <2>1, DbType DEF Settles
  <2>2. CASE /\ db' = [db EXCEPT !.flows[f].state = "awaiting", !.flows[f].registration = db.registration]
             /\ db.flows[f].state = "preparing"
    <3>1. db' \in Databases
      <4> DEFINE row == [db.flows[f] EXCEPT !.state = "awaiting", !.registration = db.registration]
      <4>1. row \in FlowRows
        BY DbType DEF FlowRows, FlowStates, Nonterminal
      <4>2. \A x \in FlowRows : [db EXCEPT !.flows[f] = x] \in Databases
        BY DbType DEF Databases
      <4>3. db' = [db EXCEPT !.flows[f] = row]
        BY <2>2, DbType DEF Databases
      <4> QED BY <4>1, <4>2, <4>3
    <3>2. db'.flows[f].state = "awaiting" /\ \A g \in Flows : g # f => db'.flows[g] = db.flows[g]
      BY <2>2, DbType DEF Databases, FlowRows
    <3> QED BY <2>2, <3>1, <3>2 DEF Settles, Nonterminal
  <2> QED BY <1>5, <2>1, <2>2 DEF Await, Tx
<1>6. ASSUME NEW f \in Flows, Dropped(f)
      PROVE  Settles \/ (\E h \in Flows : Prepare(h)) \/ (\E d \in Callbacks : BeginAuthFlowExchange(d))
  BY <1>6, DbType DEF Dropped, Settles
<1>7. ASSUME NEW f \in Flows, Publish(f)
      PROVE  Settles \/ (\E h \in Flows : Prepare(h)) \/ (\E d \in Callbacks : BeginAuthFlowExchange(d))
  BY <1>7, DbType DEF Publish, Settles
<1>8. ASSUME NEW f \in Flows, FailCreate(f)
      PROVE  Settles \/ (\E h \in Flows : Prepare(h)) \/ (\E d \in Callbacks : BeginAuthFlowExchange(d))
  <2>1. CASE db' = db
    BY <2>1, DbType DEF Settles
  <2>2. CASE db' = SetFlow(db, f, "failed") /\ db.flows[f].state \in Nonterminal
    <3>1. "failed" \in FlowStates /\ "failed" \in Terminal
      BY DEF FlowStates, Terminal
    <3> QED BY <2>2, <3>1, DbType, SetFlowType, OneFlow
  <2> QED BY <1>8, <2>1, <2>2 DEF FailCreate, Tx, Nonterminal
<1>9. ASSUME NEW c \in Callbacks, BeginAuthFlowExchange(c)
      PROVE  Settles \/ (\E h \in Flows : Prepare(h)) \/ (\E d \in Callbacks : BeginAuthFlowExchange(d))
  BY <1>9
<1>10. ASSUME NEW c \in Callbacks, ValidateAuthFlowExchange(c)
      PROVE  Settles \/ (\E h \in Flows : Prepare(h)) \/ (\E d \in Callbacks : BeginAuthFlowExchange(d))
  BY <1>10, DbType DEF ValidateAuthFlowExchange, Settles
<1>11. ASSUME NEW c \in Callbacks, SendCode(c)
      PROVE  Settles \/ (\E h \in Flows : Prepare(h)) \/ (\E d \in Callbacks : BeginAuthFlowExchange(d))
  BY <1>11, DbType DEF SendCode, Settles
<1>12. ASSUME NEW c \in Callbacks, TakeOperation(c)
      PROVE  Settles \/ (\E h \in Flows : Prepare(h)) \/ (\E d \in Callbacks : BeginAuthFlowExchange(d))
  BY <1>12, DbType DEF TakeOperation, Settles
<1>13. ASSUME NEW c \in Callbacks, FailConsumed(c)
      PROVE  Settles \/ (\E h \in Flows : Prepare(h)) \/ (\E d \in Callbacks : BeginAuthFlowExchange(d))
  <2>0. own[c].flow \in Flows
    BY <1>13 DEF FailConsumed, ServesFlow
  <2>1. CASE db' = db
    BY <2>1, DbType DEF Settles
  <2>2. CASE db' = SetFlow(db, own[c].flow, "failed") /\ db.flows[own[c].flow].state \in Nonterminal
    <3>1. "failed" \in FlowStates /\ "failed" \in Terminal
      BY DEF FlowStates, Terminal
    <3> QED BY <2>0, <2>2, <3>1, DbType, SetFlowType, OneFlow
  <2> QED BY <1>13, <2>1, <2>2 DEF FailConsumed, Tx, Nonterminal
<1>14. ASSUME NEW c \in Callbacks, Leave(c)
      PROVE  Settles \/ (\E h \in Flows : Prepare(h)) \/ (\E d \in Callbacks : BeginAuthFlowExchange(d))
  BY <1>14, DbType DEF Leave, Settles
<1>15. ASSUME NEW r \in Refreshers, RunRefresh(r)
      PROVE  Settles \/ (\E h \in Flows : Prepare(h)) \/ (\E d \in Callbacks : BeginAuthFlowExchange(d))
  BY <1>15, DbType DEF RunRefresh, Settles
<1>16. ASSUME NEW r \in Refreshers, Joined(r)
      PROVE  Settles \/ (\E h \in Flows : Prepare(h)) \/ (\E d \in Callbacks : BeginAuthFlowExchange(d))
  BY <1>16, DbType DEF Joined, Settles
<1>17. ASSUME NEW r \in Refreshers, PrepareRefresh(r)
      PROVE  Settles \/ (\E h \in Flows : Prepare(h)) \/ (\E d \in Callbacks : BeginAuthFlowExchange(d))
  BY <1>17, DbType DEF PrepareRefresh, Settles
<1>18. ASSUME NEW r \in Refreshers, ReadTokens(r)
      PROVE  Settles \/ (\E h \in Flows : Prepare(h)) \/ (\E d \in Callbacks : BeginAuthFlowExchange(d))
  BY <1>18, DbType DEF ReadTokens, Settles
<1>19. ASSUME NEW r \in Refreshers, Arm(r)
      PROVE  Settles \/ (\E h \in Flows : Prepare(h)) \/ (\E d \in Callbacks : BeginAuthFlowExchange(d))
  <2>1. db' = db \/ db' = [db EXCEPT !.fenced = TRUE]
    BY <1>19 DEF Arm, Tx
  <2>2. db' \in Databases /\ db'.flows = db.flows
    BY <2>1, DbType DEF Databases
  <2> QED BY <2>2, SameFlows
<1>20. ASSUME NEW r \in Refreshers, SendRefresh(r)
      PROVE  Settles \/ (\E h \in Flows : Prepare(h)) \/ (\E d \in Callbacks : BeginAuthFlowExchange(d))
  BY <1>20, DbType DEF SendRefresh, Settles
<1>21. ASSUME NEW r \in Refreshers, Disarm(r)
      PROVE  Settles \/ (\E h \in Flows : Prepare(h)) \/ (\E d \in Callbacks : BeginAuthFlowExchange(d))
  <2>1. db' = db \/ db' = [db EXCEPT !.fenced = FALSE]
    BY <1>21 DEF Disarm, Tx
  <2>2. db' \in Databases /\ db'.flows = db.flows
    BY <2>1, DbType DEF Databases
  <2> QED BY <2>2, SameFlows
<1>22. ASSUME NEW r \in Refreshers, EndRefresh(r)
      PROVE  Settles \/ (\E h \in Flows : Prepare(h)) \/ (\E d \in Callbacks : BeginAuthFlowExchange(d))
  BY <1>22, DbType DEF EndRefresh, Settles
<1>23. ASSUME NEW p \in Work, FenceAuthority(p)
      PROVE  Settles \/ (\E h \in Flows : Prepare(h)) \/ (\E d \in Callbacks : BeginAuthFlowExchange(d))
  <2>1. CASE db' = db
    BY <2>1, DbType DEF Settles
  <2>2. CASE db' = [db EXCEPT !.selected = 0, !.fenced = TRUE]
    BY <2>2, FencedDb, SameFlows
  <2> QED BY <1>23, <2>1, <2>2 DEF FenceAuthority, Tx
<1>24. ASSUME NEW p \in Work, CommitTokens(p)
      PROVE  Settles \/ (\E h \in Flows : Prepare(h)) \/ (\E d \in Callbacks : BeginAuthFlowExchange(d))
  <2>1. CASE db' = db
    BY <2>1, DbType DEF Settles
  <2>2. CASE db' # db
    <3> DEFINE g == own[p].generation
               t == db.tokens + 1
    <3>1. g \in Nat /\ t \in Nat
      BY DbType DEF TypeOK, Procs, Captures
    <3>2. db' = [db EXCEPT !.tokens = t, !.handle = g, !.selected = g]
      BY <1>24, <2>2 DEF CommitTokens, Tx
    <3> HIDE DEF g, t
    <3> QED BY <3>1, <3>2, CommittedDb, SameFlows
  <2> QED BY <2>1, <2>2
<1>25. ASSUME NEW p \in Work, ActivateTokens(p)
      PROVE  Settles \/ (\E h \in Flows : Prepare(h)) \/ (\E d \in Callbacks : BeginAuthFlowExchange(d))
  <2>1. CASE db' = db
    BY <2>1, DbType DEF Settles
  <2>2. CASE p \notin Callbacks /\ db' = [db EXCEPT !.fenced = FALSE]
    <3>1. db' \in Databases /\ db'.flows = db.flows
      BY <2>2, DbType DEF Databases
    <3> QED BY <3>1, SameFlows
  <2>3. CASE /\ p \in Callbacks /\ db' = [SetFlow(db, own[p].flow, "succeeded") EXCEPT !.fenced = FALSE]
             /\ db.flows[own[p].flow].state = "exchanging"
    <3>1. own[p].flow \in Flows
      BY <1>25, <2>3 DEF ActivateTokens, ServesFlow
    <3>2. "succeeded" \in FlowStates /\ "succeeded" \in Terminal /\ "exchanging" \in Nonterminal
      BY DEF FlowStates, Terminal, Nonterminal
    <3>3. /\ SetFlow(db, own[p].flow, "succeeded") \in Databases
          /\ SetFlow(db, own[p].flow, "succeeded").flows[own[p].flow].state = "succeeded"
          /\ \A g \in Flows : g # own[p].flow =>
               SetFlow(db, own[p].flow, "succeeded").flows[g] = db.flows[g]
      BY <3>1, <3>2, DbType, SetFlowType
    <3>4. db' \in Databases /\ db'.flows = SetFlow(db, own[p].flow, "succeeded").flows
      BY <2>3, <3>3 DEF Databases
    <3> QED BY <2>3, <3>1, <3>2, <3>3, <3>4, OneFlow
  <2> QED BY <1>25, <2>1, <2>2, <2>3 DEF ActivateTokens, Tx, Activated, AuthorityCurrent,
             FlowCurrent
<1>26. ASSUME NEW p \in Work, Invalidate(p)
      PROVE  Settles \/ (\E h \in Flows : Prepare(h)) \/ (\E d \in Callbacks : BeginAuthFlowExchange(d))
  <2>1. CASE db' = db
    BY <2>1, DbType DEF Settles
  <2>2. db.tokens + 1 \in Nat
    BY DbType
  <2>3. \A n \in Databases, t \in Nat :
          LET m == [n EXCEPT !.tokens = t, !.handle = 0, !.selected = 0]
          IN m \in Databases /\ m.flows = n.flows
    BY DEF Databases
  <2>4. CASE p \notin Callbacks /\ db' = [db EXCEPT !.tokens = db.tokens + 1, !.handle = 0, !.selected = 0]
    <3>1. db' \in Databases /\ db'.flows = db.flows
      BY <2>2, <2>3, <2>4, DbType
    <3> QED BY <3>1, SameFlows
  <2>5. CASE /\ p \in Callbacks /\ db.flows[own[p].flow].state = "exchanging"
             /\ db' = [SetFlow(db, own[p].flow, "failed") EXCEPT
                         !.tokens = SetFlow(db, own[p].flow, "failed").tokens + 1,
                         !.handle = 0, !.selected = 0]
    <3>1. own[p].flow \in Flows
      BY <1>26, <2>5 DEF Invalidate, ServesFlow
    <3>2. "failed" \in FlowStates /\ "failed" \in Terminal /\ "exchanging" \in Nonterminal
      BY DEF FlowStates, Terminal, Nonterminal
    <3>3. /\ SetFlow(db, own[p].flow, "failed") \in Databases
          /\ SetFlow(db, own[p].flow, "failed").tokens = db.tokens
          /\ SetFlow(db, own[p].flow, "failed").flows[own[p].flow].state = "failed"
          /\ \A g \in Flows : g # own[p].flow =>
               SetFlow(db, own[p].flow, "failed").flows[g] = db.flows[g]
      BY <3>1, <3>2, DbType, SetFlowType
    <3>4. db' \in Databases /\ db'.flows = SetFlow(db, own[p].flow, "failed").flows
      BY <2>2, <2>3, <2>5, <3>3
    <3> QED BY <2>5, <3>1, <3>2, <3>3, <3>4, OneFlow
  <2> QED BY <1>26, <2>1, <2>4, <2>5 DEF Invalidate, Retract, Tx
<1>27. ASSUME NEW f \in Flows, Cancel(f)
      PROVE  Settles \/ (\E h \in Flows : Prepare(h)) \/ (\E d \in Callbacks : BeginAuthFlowExchange(d))
  <2>1. CASE db' = db
    BY <2>1, DbType DEF Settles
  <2>2. CASE db' = SetFlow(db, f, "cancelled") /\ db.flows[f].state \in Nonterminal
    <3>1. "cancelled" \in FlowStates /\ "cancelled" \in Terminal
      BY DEF FlowStates, Terminal
    <3> QED BY <2>2, <3>1, DbType, SetFlowType, OneFlow
  <2> QED BY <1>27, <2>1, <2>2 DEF Cancel, Once, Nonterminal
<1>28. ASSUME NEW f \in Flows, Elapse(f)
      PROVE  Settles \/ (\E h \in Flows : Prepare(h)) \/ (\E d \in Callbacks : BeginAuthFlowExchange(d))
  BY <1>28, DbType DEF Elapse, Settles
<1>29. ASSUME NEW f \in Flows, ListenerTimeout(f)
      PROVE  Settles \/ (\E h \in Flows : Prepare(h)) \/ (\E d \in Callbacks : BeginAuthFlowExchange(d))
  BY <1>29, DbType DEF ListenerTimeout, Settles
<1>30. ASSUME Expire
      PROVE  Settles \/ (\E h \in Flows : Prepare(h)) \/ (\E d \in Callbacks : BeginAuthFlowExchange(d))
  <2>1. PICK S \in SUBSET Flows : /\ \A f \in S : db.flows[f].state \in Nonterminal
                                 /\ db' = SetFlows(db, S, "expired")
    BY <1>30 DEF Expire, Once, Nonterminal, TypeOK
  <2>2. "expired" \in FlowStates /\ "expired" \in Terminal
    BY DEF FlowStates, Terminal
  <2>3. /\ db' \in Databases
        /\ \A f \in Flows : db'.flows[f].state = IF f \in S THEN "expired" ELSE db.flows[f].state
    BY <2>1, <2>2, DbType, SetFlowsType
  <2> QED BY <2>1, <2>2, <2>3 DEF Settles, Terminal, Nonterminal
<1>31. ASSUME NEW c \in Callbacks, NEW f \in Flows, Arrive(c, f)
      PROVE  Settles \/ (\E h \in Flows : Prepare(h)) \/ (\E d \in Callbacks : BeginAuthFlowExchange(d))
  BY <1>31, DbType DEF Arrive, Settles
<1>32. ASSUME NEW r \in Refreshers, Challenge(r)
      PROVE  Settles \/ (\E h \in Flows : Prepare(h)) \/ (\E d \in Callbacks : BeginAuthFlowExchange(d))
  BY <1>32, DbType DEF Challenge, Settles
<1>33. ASSUME NEW pin \in Issuers \cup {None}, NEW deleted \in BOOLEAN, Edit(pin, deleted)
      PROVE  Settles \/ (\E h \in Flows : Prepare(h)) \/ (\E d \in Callbacks : BeginAuthFlowExchange(d))
  <2> DEFINE S == {f \in Flows : db.flows[f].state \in Nonterminal}
             n == SetFlows(db, S, "superseded")
  <2>1. "superseded" \in FlowStates /\ "superseded" \in Terminal /\ S \in SUBSET Flows
    BY DEF FlowStates, Terminal
  <2>2. /\ n \in Databases /\ n.desired = db.desired
        /\ \A f \in Flows : n.flows[f].state = IF f \in S THEN "superseded" ELSE db.flows[f].state
    BY <2>1, DbType, SetFlowsType
  <2>3. PICK k \in {n.registration, n.registration + 1} :
          db' = [n EXCEPT !.desired = n.desired + 1, !.pin = pin, !.deleted = deleted, !.registration = k]
    BY <1>33 DEF Edit, Once
  <2>4. n.desired + 1 \in Nat /\ k \in Nat
    BY <2>2, <2>3, DbType DEF Databases
  <2> HIDE DEF n
  <2>5. db' \in Databases /\ db'.flows = n.flows
    BY <2>2, <2>3, <2>4 DEF Databases
  <2> QED BY <2>1, <2>2, <2>5 DEF Settles, Terminal, Nonterminal
<1>34. ASSUME Disconnect
      PROVE  Settles \/ (\E h \in Flows : Prepare(h)) \/ (\E d \in Callbacks : BeginAuthFlowExchange(d))
  <2>1. \A t, k, r \in Nat :
          LET n == [db EXCEPT !.tokens = t, !.handle = 0, !.selected = 0, !.client = k,
                              !.held = FALSE, !.registration = r, !.issuer = None]
          IN n \in Databases /\ n.flows = db.flows
    BY DbType DEF Databases
  <2>2. \A t \in Nat : LET n == [db EXCEPT !.tokens = t, !.handle = 0, !.selected = 0]
                       IN n \in Databases /\ n.flows = db.flows
    BY DbType DEF Databases
  <2>3. db.tokens + 1 \in Nat /\ db.client + 1 \in Nat /\ db.registration + 1 \in Nat
    BY DbType
  <2>4. CASE ~db.deleted
    <3>1. db' = [db EXCEPT !.tokens = db.tokens + 1, !.handle = 0, !.selected = 0]
      BY <1>34, <2>4 DEF Disconnect, Once
    <3>2. db' \in Databases /\ db'.flows = db.flows
      BY <2>2, <2>3, <3>1
    <3> QED BY <3>2, SameFlows
  <2>5. CASE db.deleted
    <3> DEFINE t == IF db.handle # 0 THEN db.tokens + 1 ELSE db.tokens
               k == IF db.held THEN db.client + 1 ELSE db.client
               r == IF db.registration # 0 /\ db.issuer # None THEN db.registration + 1
                                                            ELSE db.registration
    <3>1. db' = [db EXCEPT !.tokens = t, !.handle = 0, !.selected = 0, !.client = k,
                           !.held = FALSE, !.registration = r, !.issuer = None]
      BY <1>34, <2>5 DEF Disconnect, Once
    <3>2. t \in Nat /\ k \in Nat /\ r \in Nat
      BY <2>3, DbType
    <3> HIDE DEF t, k, r
    <3>3. db' \in Databases /\ db'.flows = db.flows
      BY <2>1, <3>1, <3>2
    <3> QED BY <3>3, SameFlows
  <2> QED BY <2>4, <2>5, DbType
<1>35. ASSUME Lapse
      PROVE  Settles \/ (\E h \in Flows : Prepare(h)) \/ (\E d \in Callbacks : BeginAuthFlowExchange(d))
  <2>1. db' = db \/ db' = [db EXCEPT !.lapsed = TRUE]
    BY <1>35 DEF Lapse
  <2>2. db' \in Databases /\ db'.flows = db.flows
    BY <2>1, DbType DEF Databases
  <2> QED BY <2>2, SameFlows
<1>36. ASSUME Shutdown
      PROVE  Settles \/ (\E h \in Flows : Prepare(h)) \/ (\E d \in Callbacks : BeginAuthFlowExchange(d))
  BY <1>36, DbType DEF Shutdown, Settles
<1>37. ASSUME Crash
      PROVE  Settles \/ (\E h \in Flows : Prepare(h)) \/ (\E d \in Callbacks : BeginAuthFlowExchange(d))
  <2>1. PICK S \in SUBSET Flows : /\ \A f \in S : db.flows[f].state \in Nonterminal
                                 /\ db' = SetFlows(db, S, "interrupted")
    BY <1>37 DEF Crash, Nonterminal, TypeOK
  <2>2. "interrupted" \in FlowStates /\ "interrupted" \in Terminal
    BY DEF FlowStates, Terminal
  <2>3. /\ db' \in Databases
        /\ \A f \in Flows : db'.flows[f].state = IF f \in S THEN "interrupted" ELSE db.flows[f].state
    BY <2>1, <2>2, DbType, SetFlowsType
  <2> QED BY <2>1, <2>2, <2>3 DEF Settles, Terminal, Nonterminal
<1>38. ASSUME UNCHANGED vars
      PROVE  Settles \/ (\E h \in Flows : Prepare(h)) \/ (\E d \in Callbacks : BeginAuthFlowExchange(d))
  BY <1>38, DbType DEF vars, Settles
<1>39. ASSUME Supersede
      PROVE  Settles \/ (\E h \in Flows : Prepare(h)) \/ (\E d \in Callbacks : BeginAuthFlowExchange(d))
  <2>1. PICK S \in SUBSET Flows : /\ \A f \in S : db.flows[f].state \in Nonterminal
                                 /\ db' = SetFlows(db, S, "superseded")
    BY <1>39 DEF Supersede, Once, Nonterminal, TypeOK
  <2>2. "superseded" \in FlowStates /\ "superseded" \in Terminal
    BY DEF FlowStates, Terminal
  <2>3. /\ db' \in Databases
        /\ \A f \in Flows : db'.flows[f].state = IF f \in S THEN "superseded" ELSE db.flows[f].state
    BY <2>1, <2>2, DbType, SetFlowsType
  <2> QED BY <2>1, <2>2, <2>3 DEF Settles, Terminal, Nonterminal
<1> QED BY <1>1, <1>2, <1>3, <1>4, <1>5, <1>6, <1>7, <1>8, <1>9, <1>10, <1>11, <1>12, <1>13,
           <1>14, <1>15, <1>16, <1>17, <1>18, <1>19, <1>20, <1>21, <1>22, <1>23, <1>24, <1>25,
           <1>26, <1>27, <1>28, <1>29, <1>30, <1>31, <1>32, <1>33, <1>34, <1>35, <1>36, <1>37,
           <1>38, <1>39
     DEF Next, FlowStep, CallbackStep, RefreshStep, InstallStep, Environment

\* The creation of a flow supersedes the older ones.
LEMMA PrepareDb ==
  ASSUME TypeOK, NEW f \in Flows, Prepare(f)
  PROVE  /\ db' \in Databases /\ db'.selected = db.selected /\ db'.fenced = db.fenced
         /\ db'.flows[f].state = "preparing"
         /\ \A g \in Flows : g # f => db'.flows[g].state =
              IF db.flows[g].state \in {"preparing", "awaiting"} THEN "superseded"
              ELSE db.flows[g].state
<1> DEFINE S == {g \in Flows : db.flows[g].state \in {"preparing", "awaiting"}}
           n == SetFlows(db, S, "superseded")
           row == [state |-> "preparing", desired |-> db.desired, registration |-> db.registration]
<1>1. "superseded" \in FlowStates /\ S \in SUBSET Flows
  BY DEF FlowStates, Terminal
<1>2. /\ n \in Databases /\ n.selected = db.selected /\ n.fenced = db.fenced
      /\ \A g \in Flows : n.flows[g].state = IF g \in S THEN "superseded" ELSE db.flows[g].state
  BY <1>1, DbType, SetFlowsType
<1>3. db' = [n EXCEPT !.flows[f] = row]
  BY DEF Prepare, Once
<1>4. row \in FlowRows /\ row.state = "preparing"
  BY DbType DEF FlowRows, FlowStates, Nonterminal
<1> HIDE DEF n, row
<1>5. db' \in Databases /\ db'.selected = n.selected /\ db'.fenced = n.fenced
  BY <1>2, <1>3, <1>4 DEF Databases
<1>6. db'.flows[f] = row /\ \A g \in Flows : g # f => db'.flows[g] = n.flows[g]
  BY <1>2, <1>3, <1>4 DEF Databases
<1> QED BY <1>2, <1>4, <1>5, <1>6

\* The begin of an exchange fences the tokens.
LEMMA BeginDb ==
  ASSUME TypeOK, ServesFlow, NEW c \in Callbacks, BeginAuthFlowExchange(c), db' # db
  PROVE  /\ db' \in Databases /\ db'.selected = db.selected /\ db'.fenced
         /\ own[c].flow \in Flows /\ db.flows[own[c].flow].state = "awaiting"
         /\ db'.flows[own[c].flow].state = "exchanging"
         /\ \A g \in Flows : g # own[c].flow => db'.flows[g] = db.flows[g]
<1> DEFINE f == own[c].flow
           n == SetFlow(db, f, "exchanging")
<1>1. f \in Flows
  BY DEF BeginAuthFlowExchange, ServesFlow
<1>2. "exchanging" \in FlowStates
  BY DEF FlowStates, Nonterminal
<1>3. /\ n \in Databases /\ n.selected = db.selected /\ n.flows[f].state = "exchanging"
      /\ \A g \in Flows : g # f => n.flows[g] = db.flows[g]
  BY <1>1, <1>2, DbType, SetFlowType
<1>4. db' = [n EXCEPT !.fenced = TRUE] /\ db.flows[f].state = "awaiting"
  BY DEF BeginAuthFlowExchange, Tx, FlowCurrent
<1> HIDE DEF n, f
<1>5. db' \in Databases /\ db'.selected = n.selected /\ db'.fenced /\ db'.flows = n.flows
  BY <1>3, <1>4 DEF Databases
<1>6. f = own[c].flow
  BY DEF f
<1> QED BY <1>1, <1>3, <1>4, <1>5, <1>6

\* The database keeps its type.
LEMMA DbStep == ASSUME TypeOK, ServesFlow, [Next]_vars PROVE db' \in Databases
<1>1. ASSUME NEW c \in Callbacks, BeginAuthFlowExchange(c) PROVE db' \in Databases
  BY <1>1, BeginDb, DbType
<1> QED BY <1>1, SettleStep, PrepareDb DEF Settles

\* What a process captures has the type of a capture.
LEMMA CaptureType ==
  ASSUME NEW fence \in Fences, NEW i \in Issuers \cup {None}, NEW s \in SUBSET Scopes,
         NEW f \in Flows \cup {None}, NEW g \in Nat
  PROVE  /\ Captured(fence, i, s, f, g) \in Captures
         /\ Captured(fence, i, s, f, g).flow = f
BY DEF Captured, Captures

LEMMA CurrentType == ASSUME TypeOK PROVE Current(db) \in Fences
BY DbType DEF Current, Fence, Fences

\* The variables of simple types keep them.
LEMMA SimpleTypes ==
  ASSUME TypeOK, [Next]_vars
  PROVE  config' = config /\ operation' \in Work \cup {None} /\ due' \subseteq Flows
<1>1. ASSUME NEW f \in Flows, Prepare(f)
      PROVE  config' = config /\ operation' \in Work \cup {None} /\ due' \subseteq Flows
  BY <1>1 DEF Prepare, Once, TypeOK, world, service, Work
<1>2. ASSUME NEW f \in Flows, Discovered(f)
      PROVE  config' = config /\ operation' \in Work \cup {None} /\ due' \subseteq Flows
  BY <1>2 DEF Discovered, TypeOK, world, service, Work
<1>3. ASSUME NEW f \in Flows, Register(f)
      PROVE  config' = config /\ operation' \in Work \cup {None} /\ due' \subseteq Flows
  BY <1>3 DEF Register, Tx, TypeOK, world, service, Work
<1>4. ASSUME NEW f \in Flows, Bind(f)
      PROVE  config' = config /\ operation' \in Work \cup {None} /\ due' \subseteq Flows
  BY <1>4 DEF Bind, TypeOK, world, service, Work
<1>5. ASSUME NEW f \in Flows, Await(f)
      PROVE  config' = config /\ operation' \in Work \cup {None} /\ due' \subseteq Flows
  BY <1>5 DEF Await, Tx, TypeOK, world, service, Work
<1>6. ASSUME NEW f \in Flows, Dropped(f)
      PROVE  config' = config /\ operation' \in Work \cup {None} /\ due' \subseteq Flows
  BY <1>6 DEF Dropped, TypeOK, world, service, Work
<1>7. ASSUME NEW f \in Flows, Publish(f)
      PROVE  config' = config /\ operation' \in Work \cup {None} /\ due' \subseteq Flows
  BY <1>7 DEF Publish, TypeOK, world, service, Work
<1>8. ASSUME NEW f \in Flows, FailCreate(f)
      PROVE  config' = config /\ operation' \in Work \cup {None} /\ due' \subseteq Flows
  BY <1>8 DEF FailCreate, Tx, TypeOK, world, service, Work
<1>9. ASSUME NEW c \in Callbacks, BeginAuthFlowExchange(c)
      PROVE  config' = config /\ operation' \in Work \cup {None} /\ due' \subseteq Flows
  BY <1>9 DEF BeginAuthFlowExchange, Tx, TypeOK, world, service, Work
<1>10. ASSUME NEW c \in Callbacks, ValidateAuthFlowExchange(c)
      PROVE  config' = config /\ operation' \in Work \cup {None} /\ due' \subseteq Flows
  BY <1>10 DEF ValidateAuthFlowExchange, TypeOK, world, service, Work
<1>11. ASSUME NEW c \in Callbacks, SendCode(c)
      PROVE  config' = config /\ operation' \in Work \cup {None} /\ due' \subseteq Flows
  BY <1>11 DEF SendCode, TypeOK, world, service, Work
<1>12. ASSUME NEW c \in Callbacks, TakeOperation(c)
      PROVE  config' = config /\ operation' \in Work \cup {None} /\ due' \subseteq Flows
  BY <1>12 DEF TakeOperation, TypeOK, world, service, Work
<1>13. ASSUME NEW c \in Callbacks, FailConsumed(c)
      PROVE  config' = config /\ operation' \in Work \cup {None} /\ due' \subseteq Flows
  BY <1>13 DEF FailConsumed, Tx, TypeOK, world, service, Work
<1>14. ASSUME NEW c \in Callbacks, Leave(c)
      PROVE  config' = config /\ operation' \in Work \cup {None} /\ due' \subseteq Flows
  BY <1>14 DEF Leave, TypeOK, world, service, Work
<1>15. ASSUME NEW r \in Refreshers, RunRefresh(r)
      PROVE  config' = config /\ operation' \in Work \cup {None} /\ due' \subseteq Flows
  BY <1>15 DEF RunRefresh, TypeOK, world, service, Work
<1>16. ASSUME NEW r \in Refreshers, Joined(r)
      PROVE  config' = config /\ operation' \in Work \cup {None} /\ due' \subseteq Flows
  BY <1>16 DEF Joined, TypeOK, world, service, Work
<1>17. ASSUME NEW r \in Refreshers, PrepareRefresh(r)
      PROVE  config' = config /\ operation' \in Work \cup {None} /\ due' \subseteq Flows
  BY <1>17 DEF PrepareRefresh, TypeOK, world, service, Work
<1>18. ASSUME NEW r \in Refreshers, ReadTokens(r)
      PROVE  config' = config /\ operation' \in Work \cup {None} /\ due' \subseteq Flows
  BY <1>18 DEF ReadTokens, TypeOK, world, service, Work
<1>19. ASSUME NEW r \in Refreshers, Arm(r)
      PROVE  config' = config /\ operation' \in Work \cup {None} /\ due' \subseteq Flows
  BY <1>19 DEF Arm, Tx, TypeOK, world, service, Work
<1>20. ASSUME NEW r \in Refreshers, SendRefresh(r)
      PROVE  config' = config /\ operation' \in Work \cup {None} /\ due' \subseteq Flows
  BY <1>20 DEF SendRefresh, TypeOK, world, service, Work
<1>21. ASSUME NEW r \in Refreshers, Disarm(r)
      PROVE  config' = config /\ operation' \in Work \cup {None} /\ due' \subseteq Flows
  BY <1>21 DEF Disarm, Tx, TypeOK, world, service, Work
<1>22. ASSUME NEW r \in Refreshers, EndRefresh(r)
      PROVE  config' = config /\ operation' \in Work \cup {None} /\ due' \subseteq Flows
  BY <1>22 DEF EndRefresh, TypeOK, world, service, Work
<1>23. ASSUME NEW p \in Work, FenceAuthority(p)
      PROVE  config' = config /\ operation' \in Work \cup {None} /\ due' \subseteq Flows
  BY <1>23 DEF FenceAuthority, Tx, TypeOK, world, service, Work
<1>24. ASSUME NEW p \in Work, CommitTokens(p)
      PROVE  config' = config /\ operation' \in Work \cup {None} /\ due' \subseteq Flows
  BY <1>24 DEF CommitTokens, Tx, TypeOK, world, service, Work
<1>25. ASSUME NEW p \in Work, ActivateTokens(p)
      PROVE  config' = config /\ operation' \in Work \cup {None} /\ due' \subseteq Flows
  BY <1>25 DEF ActivateTokens, Tx, TypeOK, world, service, Work
<1>26. ASSUME NEW p \in Work, Invalidate(p)
      PROVE  config' = config /\ operation' \in Work \cup {None} /\ due' \subseteq Flows
  BY <1>26 DEF Invalidate, Retract, Tx, TypeOK, world, service, Work
<1>27. ASSUME NEW f \in Flows, Cancel(f)
      PROVE  config' = config /\ operation' \in Work \cup {None} /\ due' \subseteq Flows
  BY <1>27 DEF Cancel, Once, TypeOK, world, service, Work
<1>28. ASSUME NEW f \in Flows, Elapse(f)
      PROVE  config' = config /\ operation' \in Work \cup {None} /\ due' \subseteq Flows
  BY <1>28 DEF Elapse, TypeOK, world, service, Work
<1>29. ASSUME NEW f \in Flows, ListenerTimeout(f)
      PROVE  config' = config /\ operation' \in Work \cup {None} /\ due' \subseteq Flows
  BY <1>29 DEF ListenerTimeout, TypeOK, world, service, Work
<1>30. ASSUME Expire
      PROVE  config' = config /\ operation' \in Work \cup {None} /\ due' \subseteq Flows
  BY <1>30 DEF Expire, Once, TypeOK, world, service, Work
<1>31. ASSUME NEW c \in Callbacks, NEW f \in Flows, Arrive(c, f)
      PROVE  config' = config /\ operation' \in Work \cup {None} /\ due' \subseteq Flows
  BY <1>31 DEF Arrive, TypeOK, world, service, Work
<1>32. ASSUME NEW r \in Refreshers, Challenge(r)
      PROVE  config' = config /\ operation' \in Work \cup {None} /\ due' \subseteq Flows
  BY <1>32 DEF Challenge, TypeOK, world, service, Work
<1>33. ASSUME NEW pin \in Issuers \cup {None}, NEW deleted \in BOOLEAN, Edit(pin, deleted)
      PROVE  config' = config /\ operation' \in Work \cup {None} /\ due' \subseteq Flows
  BY <1>33 DEF Edit, Once, TypeOK, world, service, Work
<1>34. ASSUME Disconnect
      PROVE  config' = config /\ operation' \in Work \cup {None} /\ due' \subseteq Flows
  BY <1>34 DEF Disconnect, Once, TypeOK, world, service, Work
<1>35. ASSUME Lapse
      PROVE  config' = config /\ operation' \in Work \cup {None} /\ due' \subseteq Flows
  BY <1>35 DEF Lapse, TypeOK, world, service, Work
<1>36. ASSUME Shutdown
      PROVE  config' = config /\ operation' \in Work \cup {None} /\ due' \subseteq Flows
  BY <1>36 DEF Shutdown, TypeOK, world, service, Work
<1>37. ASSUME Crash
      PROVE  config' = config /\ operation' \in Work \cup {None} /\ due' \subseteq Flows
  BY <1>37 DEF Crash, TypeOK, world, service, Work
<1>38. ASSUME UNCHANGED vars
      PROVE  config' = config /\ operation' \in Work \cup {None} /\ due' \subseteq Flows
  BY <1>38 DEF vars, TypeOK, world, service, Work
<1>39. ASSUME Supersede
      PROVE  config' = config /\ operation' \in Work \cup {None} /\ due' \subseteq Flows
  BY <1>39 DEF Supersede, Once, TypeOK, world, service, Work
<1> QED BY <1>1, <1>2, <1>3, <1>4, <1>5, <1>6, <1>7, <1>8, <1>9, <1>10, <1>11, <1>12, <1>13,
           <1>14, <1>15, <1>16, <1>17, <1>18, <1>19, <1>20, <1>21, <1>22, <1>23, <1>24, <1>25,
           <1>26, <1>27, <1>28, <1>29, <1>30, <1>31, <1>32, <1>33, <1>34, <1>35, <1>36, <1>37,
           <1>38, <1>39
     DEF Next, FlowStep, CallbackStep, RefreshStep, InstallStep, Environment

\* Every process stays at a label.
LEMMA LabelType ==
  ASSUME TypeOK, [Next]_vars
  PROVE  pc' \in [Procs -> Labels]
<1> USE DEF TypeOK, Labels, Procs, Work, Goto
<1>1. ASSUME NEW f \in Flows, Prepare(f) PROVE pc' \in [Procs -> Labels]
  BY <1>1 DEF Prepare, Once, world, service
<1>2. ASSUME NEW f \in Flows, Discovered(f) PROVE pc' \in [Procs -> Labels]
  BY <1>2 DEF Discovered, world, service
<1>3. ASSUME NEW f \in Flows, Register(f) PROVE pc' \in [Procs -> Labels]
  BY <1>3 DEF Register, Tx, world, service
<1>4. ASSUME NEW f \in Flows, Bind(f) PROVE pc' \in [Procs -> Labels]
  BY <1>4 DEF Bind, world, service
<1>5. ASSUME NEW f \in Flows, Await(f) PROVE pc' \in [Procs -> Labels]
  BY <1>5 DEF Await, Tx, world, service
<1>6. ASSUME NEW f \in Flows, Dropped(f) PROVE pc' \in [Procs -> Labels]
  BY <1>6 DEF Dropped, world, service
<1>7. ASSUME NEW f \in Flows, Publish(f) PROVE pc' \in [Procs -> Labels]
  BY <1>7 DEF Publish, world, service
<1>8. ASSUME NEW f \in Flows, FailCreate(f) PROVE pc' \in [Procs -> Labels]
  BY <1>8 DEF FailCreate, Tx, world, service
<1>9. ASSUME NEW c \in Callbacks, BeginAuthFlowExchange(c) PROVE pc' \in [Procs -> Labels]
  BY <1>9 DEF BeginAuthFlowExchange, Tx, world, service
<1>10. ASSUME NEW c \in Callbacks, ValidateAuthFlowExchange(c) PROVE pc' \in [Procs -> Labels]
  BY <1>10 DEF ValidateAuthFlowExchange, world, service
<1>11. ASSUME NEW c \in Callbacks, SendCode(c) PROVE pc' \in [Procs -> Labels]
  BY <1>11 DEF SendCode, world, service
<1>12. ASSUME NEW c \in Callbacks, TakeOperation(c) PROVE pc' \in [Procs -> Labels]
  BY <1>12 DEF TakeOperation, world, service
<1>13. ASSUME NEW c \in Callbacks, FailConsumed(c) PROVE pc' \in [Procs -> Labels]
  BY <1>13 DEF FailConsumed, Tx, world, service
<1>14. ASSUME NEW c \in Callbacks, Leave(c) PROVE pc' \in [Procs -> Labels]
  BY <1>14 DEF Leave, world, service
<1>15. ASSUME NEW r \in Refreshers, RunRefresh(r) PROVE pc' \in [Procs -> Labels]
  BY <1>15 DEF RunRefresh, world, service
<1>16. ASSUME NEW r \in Refreshers, Joined(r) PROVE pc' \in [Procs -> Labels]
  BY <1>16 DEF Joined, world, service
<1>17. ASSUME NEW r \in Refreshers, PrepareRefresh(r) PROVE pc' \in [Procs -> Labels]
  BY <1>17 DEF PrepareRefresh, world, service
<1>18. ASSUME NEW r \in Refreshers, ReadTokens(r) PROVE pc' \in [Procs -> Labels]
  BY <1>18 DEF ReadTokens, world, service
<1>19. ASSUME NEW r \in Refreshers, Arm(r) PROVE pc' \in [Procs -> Labels]
  <2>1. pc' = [pc EXCEPT ![r] = "handoff"] \/ pc' = [pc EXCEPT ![r] = "ending"]
    BY <1>19 DEF Arm, Tx
  <2> QED BY <2>1
<1>20. ASSUME NEW r \in Refreshers, SendRefresh(r) PROVE pc' \in [Procs -> Labels]
  BY <1>20 DEF SendRefresh, world, service
<1>21. ASSUME NEW r \in Refreshers, Disarm(r) PROVE pc' \in [Procs -> Labels]
  <2>1. pc' = [pc EXCEPT ![r] = "ending"]
    BY <1>21 DEF Disarm, Tx
  <2> QED BY <2>1
<1>22. ASSUME NEW r \in Refreshers, EndRefresh(r) PROVE pc' \in [Procs -> Labels]
  BY <1>22 DEF EndRefresh, world, service
<1>23. ASSUME NEW p \in Work, FenceAuthority(p) PROVE pc' \in [Procs -> Labels]
  <2>1. pc' = [pc EXCEPT ![p] = "commit"] \/ pc' = [pc EXCEPT ![p] = "retract"]
    BY <1>23 DEF FenceAuthority, Tx
  <2> QED BY <2>1
<1>24. ASSUME NEW p \in Work, CommitTokens(p) PROVE pc' \in [Procs -> Labels]
  <2>1. pc' = [pc EXCEPT ![p] = "activate"] \/ pc' = [pc EXCEPT ![p] = "retract"]
    BY <1>24 DEF CommitTokens, Tx
  <2> QED BY <2>1
<1>25. ASSUME NEW p \in Work, ActivateTokens(p) PROVE pc' \in [Procs -> Labels]
  <2>1. pc' = [pc EXCEPT ![p] = "leaving"] \/ pc' = [pc EXCEPT ![p] = "ending"] \/ pc' = [pc EXCEPT ![p] = "undo"]
    BY <1>25 DEF ActivateTokens, Tx
  <2> QED BY <2>1
<1>26. ASSUME NEW p \in Work, Invalidate(p) PROVE pc' \in [Procs -> Labels]
  BY <1>26 DEF Invalidate, Retract, Tx, Ending
<1>27. ASSUME NEW f \in Flows, Cancel(f) PROVE pc' \in [Procs -> Labels]
  BY <1>27 DEF Cancel, Once, world, service
<1>28. ASSUME NEW f \in Flows, Elapse(f) PROVE pc' \in [Procs -> Labels]
  BY <1>28 DEF Elapse, world, service
<1>29. ASSUME NEW f \in Flows, ListenerTimeout(f) PROVE pc' \in [Procs -> Labels]
  BY <1>29 DEF ListenerTimeout, world, service
<1>30. ASSUME Expire PROVE pc' \in [Procs -> Labels]
  BY <1>30 DEF Expire, Once, world, service
<1>31. ASSUME NEW c \in Callbacks, NEW f \in Flows, Arrive(c, f) PROVE pc' \in [Procs -> Labels]
  BY <1>31 DEF Arrive, world, service
<1>32. ASSUME NEW r \in Refreshers, Challenge(r) PROVE pc' \in [Procs -> Labels]
  BY <1>32 DEF Challenge, world, service
<1>33. ASSUME NEW pin \in Issuers \cup {None}, NEW deleted \in BOOLEAN, Edit(pin, deleted)
      PROVE  pc' \in [Procs -> Labels]
  BY <1>33 DEF Edit, Once, world, service
<1>34. ASSUME Disconnect PROVE pc' \in [Procs -> Labels]
  BY <1>34 DEF Disconnect, Once, world, service
<1>35. ASSUME Lapse PROVE pc' \in [Procs -> Labels]
  BY <1>35 DEF Lapse, world, service
<1>36. ASSUME Shutdown PROVE pc' \in [Procs -> Labels]
  BY <1>36 DEF Shutdown, world, service
<1>37. ASSUME Crash PROVE pc' \in [Procs -> Labels]
  BY <1>37 DEF Crash, world, service
<1>38. ASSUME UNCHANGED vars PROVE pc' \in [Procs -> Labels]
  BY <1>38 DEF vars, world, service
<1>39. ASSUME Supersede PROVE pc' \in [Procs -> Labels]
  BY <1>39 DEF Supersede, Once, world, service
<1> QED BY <1>1, <1>2, <1>3, <1>4, <1>5, <1>6, <1>7, <1>8, <1>9, <1>10, <1>11, <1>12, <1>13,
           <1>14, <1>15, <1>16, <1>17, <1>18, <1>19, <1>20, <1>21, <1>22, <1>23, <1>24, <1>25,
           <1>26, <1>27, <1>28, <1>29, <1>30, <1>31, <1>32, <1>33, <1>34, <1>35, <1>36, <1>37,
           <1>38, <1>39
     DEF Next, FlowStep, CallbackStep, RefreshStep, InstallStep, Environment
\* The bundles stay bundles.
LEMMA BundleType ==
  ASSUME TypeOK, [Next]_vars
  PROVE  byState' \in [Flows -> Bundles \cup {None}]
<1> USE DEF TypeOK
<1>1. ASSUME NEW f \in Flows, Prepare(f) PROVE byState' \in [Flows -> Bundles \cup {None}]
  BY <1>1 DEF Prepare, Once, removeFlowIDs
<1>2. ASSUME NEW f \in Flows, Discovered(f) PROVE byState' \in [Flows -> Bundles \cup {None}]
  BY <1>2 DEF Discovered, memory
<1>3. ASSUME NEW f \in Flows, Register(f) PROVE byState' \in [Flows -> Bundles \cup {None}]
  BY <1>3 DEF Register, Tx, memory
<1>4. ASSUME NEW f \in Flows, Bind(f) PROVE byState' \in [Flows -> Bundles \cup {None}]
  <2>1. CASE byState' = byState
    BY <2>1
  <2>2. CASE byState' # byState
    <3> DEFINE b == Bundle([Current(db) EXCEPT !.desired = own[f].fence.desired], own[f].issuer, Scopes)
    <3>1. own[f] \in Captures
      BY DEF Procs
    <3>2. own[f].fence \in Fences /\ own[f].issuer \in Issuers \cup {None}
      BY <3>1 DEF Captures
    <3>3. own[f].fence.desired \in Nat
      BY <3>2 DEF Fences
    <3>4. [Current(db) EXCEPT !.desired = own[f].fence.desired] \in Fences
      BY <3>3, CurrentType DEF Fences
    <3>5. b \in Bundles
      BY <3>2, <3>4 DEF Bundle, Bundles
    <3>6. byState' = [byState EXCEPT ![f] = b]
      BY <1>4, <2>2 DEF Bind
    <3> QED BY <3>5, <3>6
  <2> QED BY <2>1, <2>2
<1>5. ASSUME NEW f \in Flows, Await(f) PROVE byState' \in [Flows -> Bundles \cup {None}]
  BY <1>5 DEF Await, Tx, memory
<1>6. ASSUME NEW f \in Flows, Dropped(f) PROVE byState' \in [Flows -> Bundles \cup {None}]
  BY <1>6 DEF Dropped, removeFlowIDs
<1>7. ASSUME NEW f \in Flows, Publish(f) PROVE byState' \in [Flows -> Bundles \cup {None}]
  BY <1>7 DEF Publish, removeFlowIDs, memory
<1>8. ASSUME NEW f \in Flows, FailCreate(f) PROVE byState' \in [Flows -> Bundles \cup {None}]
  BY <1>8 DEF FailCreate, Tx, removeFlowIDs
<1>9. ASSUME NEW c \in Callbacks, BeginAuthFlowExchange(c)
      PROVE  byState' \in [Flows -> Bundles \cup {None}]
  BY <1>9 DEF BeginAuthFlowExchange, Tx, memory
<1>10. ASSUME NEW c \in Callbacks, ValidateAuthFlowExchange(c)
      PROVE  byState' \in [Flows -> Bundles \cup {None}]
  BY <1>10 DEF ValidateAuthFlowExchange, memory
<1>11. ASSUME NEW c \in Callbacks, SendCode(c) PROVE byState' \in [Flows -> Bundles \cup {None}]
  BY <1>11 DEF SendCode, memory
<1>12. ASSUME NEW c \in Callbacks, TakeOperation(c)
      PROVE  byState' \in [Flows -> Bundles \cup {None}]
  BY <1>12 DEF TakeOperation, memory
<1>13. ASSUME NEW c \in Callbacks, FailConsumed(c)
      PROVE  byState' \in [Flows -> Bundles \cup {None}]
  BY <1>13 DEF FailConsumed, Tx, memory
<1>14. ASSUME NEW c \in Callbacks, Leave(c) PROVE byState' \in [Flows -> Bundles \cup {None}]
  BY <1>14 DEF Leave, removeFlowIDs
<1>15. ASSUME NEW r \in Refreshers, RunRefresh(r)
      PROVE  byState' \in [Flows -> Bundles \cup {None}]
  BY <1>15 DEF RunRefresh, memory
<1>16. ASSUME NEW r \in Refreshers, Joined(r) PROVE byState' \in [Flows -> Bundles \cup {None}]
  BY <1>16 DEF Joined, memory
<1>17. ASSUME NEW r \in Refreshers, PrepareRefresh(r)
      PROVE  byState' \in [Flows -> Bundles \cup {None}]
  BY <1>17 DEF PrepareRefresh, memory
<1>18. ASSUME NEW r \in Refreshers, ReadTokens(r)
      PROVE  byState' \in [Flows -> Bundles \cup {None}]
  BY <1>18 DEF ReadTokens, memory
<1>19. ASSUME NEW r \in Refreshers, Arm(r) PROVE byState' \in [Flows -> Bundles \cup {None}]
  BY <1>19 DEF Arm, Tx, memory
<1>20. ASSUME NEW r \in Refreshers, SendRefresh(r)
      PROVE  byState' \in [Flows -> Bundles \cup {None}]
  BY <1>20 DEF SendRefresh, memory
<1>21. ASSUME NEW r \in Refreshers, Disarm(r) PROVE byState' \in [Flows -> Bundles \cup {None}]
  BY <1>21 DEF Disarm, Tx, memory
<1>22. ASSUME NEW r \in Refreshers, EndRefresh(r)
      PROVE  byState' \in [Flows -> Bundles \cup {None}]
  BY <1>22 DEF EndRefresh, memory
<1>23. ASSUME NEW p \in Work, FenceAuthority(p)
      PROVE  byState' \in [Flows -> Bundles \cup {None}]
  BY <1>23 DEF FenceAuthority, Tx, memory
<1>24. ASSUME NEW p \in Work, CommitTokens(p) PROVE byState' \in [Flows -> Bundles \cup {None}]
  BY <1>24 DEF CommitTokens, Tx, memory
<1>25. ASSUME NEW p \in Work, ActivateTokens(p)
      PROVE  byState' \in [Flows -> Bundles \cup {None}]
  BY <1>25 DEF ActivateTokens, Tx, memory
<1>26. ASSUME NEW p \in Work, Invalidate(p) PROVE byState' \in [Flows -> Bundles \cup {None}]
  BY <1>26 DEF Invalidate, Retract, Tx, memory
<1>27. ASSUME NEW f \in Flows, Cancel(f) PROVE byState' \in [Flows -> Bundles \cup {None}]
  BY <1>27 DEF Cancel, Once, removeFlowIDs
<1>28. ASSUME NEW f \in Flows, Elapse(f) PROVE byState' \in [Flows -> Bundles \cup {None}]
  BY <1>28 DEF Elapse, memory
<1>29. ASSUME NEW f \in Flows, ListenerTimeout(f)
      PROVE  byState' \in [Flows -> Bundles \cup {None}]
  BY <1>29 DEF ListenerTimeout, memory
<1>30. ASSUME Expire PROVE byState' \in [Flows -> Bundles \cup {None}]
  BY <1>30 DEF Expire, Once, removeFlowIDs
<1>31. ASSUME NEW c \in Callbacks, NEW f \in Flows, Arrive(c, f)
      PROVE  byState' \in [Flows -> Bundles \cup {None}]
  BY <1>31 DEF Arrive, memory
<1>32. ASSUME NEW r \in Refreshers, Challenge(r)
      PROVE  byState' \in [Flows -> Bundles \cup {None}]
  BY <1>32 DEF Challenge, memory
<1>33. ASSUME NEW pin \in Issuers \cup {None}, NEW deleted \in BOOLEAN, Edit(pin, deleted)
      PROVE  byState' \in [Flows -> Bundles \cup {None}]
  BY <1>33 DEF Edit, Once, removeFlowIDs
<1>34. ASSUME Disconnect PROVE byState' \in [Flows -> Bundles \cup {None}]
  BY <1>34 DEF Disconnect, Once, memory
<1>35. ASSUME Lapse PROVE byState' \in [Flows -> Bundles \cup {None}]
  BY <1>35 DEF Lapse, memory
<1>36. ASSUME Shutdown PROVE byState' \in [Flows -> Bundles \cup {None}]
  BY <1>36 DEF Shutdown, memory
<1>37. ASSUME Crash PROVE byState' \in [Flows -> Bundles \cup {None}]
  BY <1>37 DEF Crash, memory
<1>38. ASSUME UNCHANGED vars PROVE byState' \in [Flows -> Bundles \cup {None}]
  BY <1>38 DEF vars, memory
<1>39. ASSUME Supersede PROVE byState' \in [Flows -> Bundles \cup {None}]
  BY <1>39 DEF Supersede, memory, TypeOK
<1> QED BY <1>1, <1>2, <1>3, <1>4, <1>5, <1>6, <1>7, <1>8, <1>9, <1>10, <1>11, <1>12, <1>13,
           <1>14, <1>15, <1>16, <1>17, <1>18, <1>19, <1>20, <1>21, <1>22, <1>23, <1>24, <1>25,
           <1>26, <1>27, <1>28, <1>29, <1>30, <1>31, <1>32, <1>33, <1>34, <1>35, <1>36, <1>37,
           <1>38, <1>39
     DEF Next, FlowStep, CallbackStep, RefreshStep, InstallStep, Environment

\* What the processes captured keeps its type.
LEMMA CapturesType ==
  ASSUME TypeOK, ServesFlow, SpentIsFenced, [Next]_vars
  PROVE  own' \in [Procs -> Captures]
<1>1. ASSUME NEW f \in Flows, Prepare(f) PROVE own' \in [Procs -> Captures]
  <2>1. Captured(Current(db), db.pin, Scopes, f, 0) \in Captures
    BY CaptureType, CurrentType, DbType
  <2> QED BY <1>1, <2>1 DEF Prepare, Capture, TypeOK
<1>2. ASSUME NEW f \in Flows, Discovered(f) PROVE own' \in [Procs -> Captures]
  <2>1. \A found \in Discover(own[f].issuer) : found \in Issuers \cup {None}
    <3>1. own[f].issuer \in Issuers \cup {None}
      BY DEF TypeOK, Procs, Captures
    <3> QED BY <3>1, HomeIsAnIssuer DEF Discover, selectIssuer
  <2>2. \A x \in Issuers \cup {None} : [own[f] EXCEPT !.issuer = x] \in Captures
    BY DEF TypeOK, Procs, Captures
  <2>3. own' = own \/ \E x \in Issuers \cup {None} :
                         own' = [own EXCEPT ![f] = [own[f] EXCEPT !.issuer = x]]
    BY <1>2, <2>1 DEF Discovered, Capture
  <2> QED BY <2>2, <2>3 DEF TypeOK
<1>3. ASSUME NEW f \in Flows, Register(f) PROVE own' \in [Procs -> Captures]
  <2>1. db' \in Databases
    BY <1>3, DbStep DEF Next, FlowStep
  <2>2. own[f] \in Captures /\ db'.registration \in Nat
    BY <2>1 DEF TypeOK, Procs, Databases
  <2>3. own[f].fence \in Fences
    BY <2>2 DEF Captures
  <2>4. \A n \in Nat : [own[f].fence EXCEPT !.registration = n] \in Fences
    BY <2>3 DEF Fences
  <2>5. \A x \in Fences : [own[f] EXCEPT !.fence = x] \in Captures
    BY <2>2 DEF Captures
  <2>6. own' = [own EXCEPT ![f] = [own[f] EXCEPT
                  !.fence = [own[f].fence EXCEPT !.registration = db'.registration]]]
    BY <1>3, <2>2 DEF Register, Capture, Captures, Fences
  <2> QED BY <2>2, <2>4, <2>5, <2>6 DEF TypeOK
<1>4. ASSUME NEW f \in Flows, Bind(f) PROVE own' \in [Procs -> Captures]
  BY <1>4 DEF Bind, TypeOK
<1>5. ASSUME NEW f \in Flows, Await(f) PROVE own' \in [Procs -> Captures]
  BY <1>5 DEF Await, Tx, TypeOK
<1>6. ASSUME NEW f \in Flows, Dropped(f) PROVE own' \in [Procs -> Captures]
  BY <1>6 DEF Dropped, TypeOK
<1>7. ASSUME NEW f \in Flows, Publish(f) PROVE own' \in [Procs -> Captures]
  BY <1>7 DEF Publish, TypeOK
<1>8. ASSUME NEW f \in Flows, FailCreate(f) PROVE own' \in [Procs -> Captures]
  BY <1>8 DEF FailCreate, Tx, TypeOK
<1>9. ASSUME NEW c \in Callbacks, BeginAuthFlowExchange(c) PROVE own' \in [Procs -> Captures]
  BY <1>9 DEF BeginAuthFlowExchange, Tx, TypeOK
<1>10. ASSUME NEW c \in Callbacks, ValidateAuthFlowExchange(c)
      PROVE  own' \in [Procs -> Captures]
  BY <1>10 DEF ValidateAuthFlowExchange, TypeOK
<1>11. ASSUME NEW c \in Callbacks, SendCode(c) PROVE own' \in [Procs -> Captures]
  <2>1. Len(gens) + 1 \in Nat
    BY DEF TypeOK
  <2>2. [own[c] EXCEPT !.generation = Len(gens) + 1] \in Captures
    BY <2>1 DEF TypeOK, Procs, Work, Captures
  <2> QED BY <1>11, <2>2 DEF SendCode, Issued, Capture, TypeOK
<1>12. ASSUME NEW c \in Callbacks, TakeOperation(c) PROVE own' \in [Procs -> Captures]
  BY <1>12 DEF TakeOperation, TypeOK
<1>13. ASSUME NEW c \in Callbacks, FailConsumed(c) PROVE own' \in [Procs -> Captures]
  BY <1>13 DEF FailConsumed, Tx, TypeOK
<1>14. ASSUME NEW c \in Callbacks, Leave(c) PROVE own' \in [Procs -> Captures]
  BY <1>14 DEF Leave, TypeOK
<1>15. ASSUME NEW r \in Refreshers, RunRefresh(r) PROVE own' \in [Procs -> Captures]
  BY <1>15 DEF RunRefresh, TypeOK
<1>16. ASSUME NEW r \in Refreshers, Joined(r) PROVE own' \in [Procs -> Captures]
  BY <1>16 DEF Joined, TypeOK
<1>17. ASSUME NEW r \in Refreshers, PrepareRefresh(r) PROVE own' \in [Procs -> Captures]
  <2>1. Captured(Current(db), db.issuer, {}, None, 0) \in Captures
    BY CaptureType, CurrentType, DbType
  <2> QED BY <1>17, <2>1 DEF PrepareRefresh, Capture, TypeOK
<1>18. ASSUME NEW r \in Refreshers, ReadTokens(r) PROVE own' \in [Procs -> Captures]
  <2> DEFINE g == ReadActive(db)
  <2>1. CASE own' = own
    BY <2>1 DEF TypeOK
  <2>2. CASE own' # own
    <3>1. g = db.selected /\ g \in 1 .. Len(gens)
      BY <1>18, <2>2, DbType DEF ReadTokens, ReadActive, SpentIsFenced
    <3> HIDE DEF g
    <3>2. gens[g].scopes \in SUBSET Scopes
      <4>1. gens[g] \in Generations
        BY <3>1 DEF TypeOK
      <4> QED BY <4>1 DEF Generations
    <3>3. g \in Nat
      BY <3>1
    <3>4. \A s \in SUBSET Scopes, n \in Nat :
            [own[r] EXCEPT !.generation = n, !.scopes = s] \in Captures
      BY DEF TypeOK, Procs, Work, Captures
    <3>5. own' = [own EXCEPT ![r] = [own[r] EXCEPT !.generation = g, !.scopes = gens[g].scopes]]
      BY <1>18, <2>2 DEF ReadTokens, Capture, g
    <3> QED BY <3>2, <3>3, <3>4, <3>5 DEF TypeOK
  <2> QED BY <2>1, <2>2
<1>19. ASSUME NEW r \in Refreshers, Arm(r) PROVE own' \in [Procs -> Captures]
  BY <1>19 DEF Arm, Tx, TypeOK
<1>20. ASSUME NEW r \in Refreshers, SendRefresh(r) PROVE own' \in [Procs -> Captures]
  <2>1. Len(gens) + 1 \in Nat
    BY DEF TypeOK
  <2>2. [own[r] EXCEPT !.generation = Len(gens) + 1] \in Captures
    BY <2>1 DEF TypeOK, Procs, Work, Captures
  <2> QED BY <1>20, <2>2 DEF SendRefresh, Issued, Capture, TypeOK
<1>21. ASSUME NEW r \in Refreshers, Disarm(r) PROVE own' \in [Procs -> Captures]
  BY <1>21 DEF Disarm, Tx, TypeOK
<1>22. ASSUME NEW r \in Refreshers, EndRefresh(r) PROVE own' \in [Procs -> Captures]
  BY <1>22 DEF EndRefresh, TypeOK
<1>23. ASSUME NEW p \in Work, FenceAuthority(p) PROVE own' \in [Procs -> Captures]
  BY <1>23 DEF FenceAuthority, Tx, TypeOK
<1>24. ASSUME NEW p \in Work, CommitTokens(p) PROVE own' \in [Procs -> Captures]
  BY <1>24 DEF CommitTokens, Tx, TypeOK
<1>25. ASSUME NEW p \in Work, ActivateTokens(p) PROVE own' \in [Procs -> Captures]
  BY <1>25 DEF ActivateTokens, Tx, TypeOK
<1>26. ASSUME NEW p \in Work, Invalidate(p) PROVE own' \in [Procs -> Captures]
  BY <1>26 DEF Invalidate, Retract, Tx, TypeOK
<1>27. ASSUME NEW f \in Flows, Cancel(f) PROVE own' \in [Procs -> Captures]
  BY <1>27 DEF Cancel, Once, TypeOK
<1>28. ASSUME NEW f \in Flows, Elapse(f) PROVE own' \in [Procs -> Captures]
  BY <1>28 DEF Elapse, TypeOK
<1>29. ASSUME NEW f \in Flows, ListenerTimeout(f) PROVE own' \in [Procs -> Captures]
  BY <1>29 DEF ListenerTimeout, TypeOK
<1>30. ASSUME Expire PROVE own' \in [Procs -> Captures]
  BY <1>30 DEF Expire, Once, TypeOK
<1>31. ASSUME NEW c \in Callbacks, NEW f \in Flows, Arrive(c, f)
      PROVE  own' \in [Procs -> Captures]
  <2>1. CASE own' = own
    BY <2>1 DEF TypeOK
  <2>2. CASE own' # own
    <3>1. byState[f] \in Bundles
      BY <1>31, <2>2 DEF Arrive, TypeOK
    <3>2. /\ byState[f].fence \in Fences /\ byState[f].issuer \in Issuers \cup {None}
          /\ byState[f].scopes \in SUBSET Scopes
      BY <3>1 DEF Bundles
    <3>3. Captured(byState[f].fence, byState[f].issuer, byState[f].scopes, f, 0) \in Captures
      BY <3>2, CaptureType
    <3> QED BY <1>31, <2>2, <3>3 DEF Arrive, Capture, TypeOK
  <2> QED BY <2>1, <2>2
<1>32. ASSUME NEW r \in Refreshers, Challenge(r) PROVE own' \in [Procs -> Captures]
  <2>1. Captured(Current(db), None, {}, None, 0) \in Captures
    BY CaptureType, CurrentType, DbType
  <2> QED BY <1>32, <2>1 DEF Challenge, Capture, TypeOK
<1>33. ASSUME NEW pin \in Issuers \cup {None}, NEW deleted \in BOOLEAN, Edit(pin, deleted)
      PROVE  own' \in [Procs -> Captures]
  BY <1>33 DEF Edit, Once, TypeOK
<1>34. ASSUME Disconnect PROVE own' \in [Procs -> Captures]
  BY <1>34 DEF Disconnect, Once, TypeOK
<1>35. ASSUME Lapse PROVE own' \in [Procs -> Captures]
  BY <1>35 DEF Lapse, TypeOK
<1>36. ASSUME Shutdown PROVE own' \in [Procs -> Captures]
  BY <1>36 DEF Shutdown, TypeOK
<1>37. ASSUME Crash PROVE own' \in [Procs -> Captures]
  <2>1. NoFence \in Fences
    BY DEF NoFence, Fence, Fences
  <2>2. Nothing \in Captures
    BY <2>1, CaptureType DEF Nothing
  <2> QED BY <1>37, <2>2 DEF Crash
<1>38. ASSUME UNCHANGED vars PROVE own' \in [Procs -> Captures]
  BY <1>38 DEF vars, TypeOK
<1>39. ASSUME Supersede PROVE own' \in [Procs -> Captures]
  BY <1>39 DEF Supersede, Once, TypeOK
<1> QED BY <1>1, <1>2, <1>3, <1>4, <1>5, <1>6, <1>7, <1>8, <1>9, <1>10, <1>11, <1>12, <1>13,
           <1>14, <1>15, <1>16, <1>17, <1>18, <1>19, <1>20, <1>21, <1>22, <1>23, <1>24, <1>25,
           <1>26, <1>27, <1>28, <1>29, <1>30, <1>31, <1>32, <1>33, <1>34, <1>35, <1>36, <1>37,
           <1>38, <1>39
     DEF Next, FlowStep, CallbackStep, RefreshStep, InstallStep, Environment

\* What was issued and spent keeps its type.
LEMMA IssuerType ==
  ASSUME TypeOK, SpentIsFenced, \A p \in Work : Unsent(p), [Next]_vars
  PROVE  gens' \in Seq(Generations) /\ spent' \subseteq Nat
<1>1. ASSUME NEW f \in Flows, Prepare(f)
      PROVE  gens' \in Seq(Generations) /\ spent' \subseteq Nat
  BY <1>1 DEF Prepare, Once, issuer, TypeOK
<1>2. ASSUME NEW f \in Flows, Discovered(f)
      PROVE  gens' \in Seq(Generations) /\ spent' \subseteq Nat
  BY <1>2 DEF Discovered, issuer, TypeOK
<1>3. ASSUME NEW f \in Flows, Register(f)
      PROVE  gens' \in Seq(Generations) /\ spent' \subseteq Nat
  BY <1>3 DEF Register, Tx, issuer, TypeOK
<1>4. ASSUME NEW f \in Flows, Bind(f) PROVE gens' \in Seq(Generations) /\ spent' \subseteq Nat
  BY <1>4 DEF Bind, issuer, TypeOK
<1>5. ASSUME NEW f \in Flows, Await(f) PROVE gens' \in Seq(Generations) /\ spent' \subseteq Nat
  BY <1>5 DEF Await, Tx, issuer, TypeOK
<1>6. ASSUME NEW f \in Flows, Dropped(f)
      PROVE  gens' \in Seq(Generations) /\ spent' \subseteq Nat
  BY <1>6 DEF Dropped, issuer, TypeOK
<1>7. ASSUME NEW f \in Flows, Publish(f)
      PROVE  gens' \in Seq(Generations) /\ spent' \subseteq Nat
  BY <1>7 DEF Publish, issuer, TypeOK
<1>8. ASSUME NEW f \in Flows, FailCreate(f)
      PROVE  gens' \in Seq(Generations) /\ spent' \subseteq Nat
  BY <1>8 DEF FailCreate, Tx, issuer, TypeOK
<1>9. ASSUME NEW c \in Callbacks, BeginAuthFlowExchange(c)
      PROVE  gens' \in Seq(Generations) /\ spent' \subseteq Nat
  BY <1>9 DEF BeginAuthFlowExchange, Tx, issuer, TypeOK
<1>10. ASSUME NEW c \in Callbacks, ValidateAuthFlowExchange(c)
      PROVE  gens' \in Seq(Generations) /\ spent' \subseteq Nat
  BY <1>10 DEF ValidateAuthFlowExchange, issuer, TypeOK
<1>11. ASSUME NEW c \in Callbacks, SendCode(c)
      PROVE  gens' \in Seq(Generations) /\ spent' \subseteq Nat
  <2>1. \A s \in SUBSET Scopes :
          Generation(own[c].issuer, own[c].fence.registration, s, own[c].flow) \in Generations
    BY DEF TypeOK, Procs, Work, Captures, Fences, Generation, Generations
  <2>2. gens' = gens \/ \E s \in SUBSET Scopes : gens' = Append(gens,
           Generation(own[c].issuer, own[c].fence.registration, s, own[c].flow))
    BY <1>11 DEF SendCode, Issued, Granted
  <2>3. spent' = spent
    BY <1>11 DEF SendCode
  <2> QED BY <2>1, <2>2, <2>3 DEF TypeOK
<1>12. ASSUME NEW c \in Callbacks, TakeOperation(c)
      PROVE  gens' \in Seq(Generations) /\ spent' \subseteq Nat
  BY <1>12 DEF TakeOperation, issuer, TypeOK
<1>13. ASSUME NEW c \in Callbacks, FailConsumed(c)
      PROVE  gens' \in Seq(Generations) /\ spent' \subseteq Nat
  BY <1>13 DEF FailConsumed, Tx, issuer, TypeOK
<1>14. ASSUME NEW c \in Callbacks, Leave(c)
      PROVE  gens' \in Seq(Generations) /\ spent' \subseteq Nat
  BY <1>14 DEF Leave, issuer, TypeOK
<1>15. ASSUME NEW r \in Refreshers, RunRefresh(r)
      PROVE  gens' \in Seq(Generations) /\ spent' \subseteq Nat
  BY <1>15 DEF RunRefresh, issuer, TypeOK
<1>16. ASSUME NEW r \in Refreshers, Joined(r)
      PROVE  gens' \in Seq(Generations) /\ spent' \subseteq Nat
  BY <1>16 DEF Joined, issuer, TypeOK
<1>17. ASSUME NEW r \in Refreshers, PrepareRefresh(r)
      PROVE  gens' \in Seq(Generations) /\ spent' \subseteq Nat
  BY <1>17 DEF PrepareRefresh, issuer, TypeOK
<1>18. ASSUME NEW r \in Refreshers, ReadTokens(r)
      PROVE  gens' \in Seq(Generations) /\ spent' \subseteq Nat
  BY <1>18 DEF ReadTokens, issuer, TypeOK
<1>19. ASSUME NEW r \in Refreshers, Arm(r)
      PROVE  gens' \in Seq(Generations) /\ spent' \subseteq Nat
  BY <1>19 DEF Arm, Tx, issuer, TypeOK
<1>20. ASSUME NEW r \in Refreshers, SendRefresh(r)
      PROVE  gens' \in Seq(Generations) /\ spent' \subseteq Nat
  <2>1. own[r].generation \in 1 .. Len(gens)
    BY <1>20 DEF SendRefresh, Unsent, SpentIsFenced, Work
  <2>2. gens[own[r].generation].flow \in Flows \cup {None}
    <3>1. gens[own[r].generation] \in Generations
      BY <2>1 DEF TypeOK
    <3> QED BY <3>1 DEF Generations
  <2>3. \A s \in SUBSET Scopes, f \in Flows \cup {None} :
          Generation(own[r].issuer, own[r].fence.registration, s, f) \in Generations
    BY DEF TypeOK, Procs, Work, Captures, Fences, Generation, Generations
  <2>4. gens' = gens \/ \E s \in SUBSET Scopes : gens' = Append(gens,
           Generation(own[r].issuer, own[r].fence.registration, s, gens[own[r].generation].flow))
    BY <1>20 DEF SendRefresh, Issued, Granted
  <2>5. spent' \subseteq Nat
    <3>1. own[r].generation \in Nat
      BY <2>1
    <3>2. spent' = spent \/ spent' = spent \cup {own[r].generation}
      BY <1>20 DEF SendRefresh
    <3> QED BY <3>1, <3>2 DEF TypeOK
  <2>6. gens' \in Seq(Generations)
    <3>1. gens \in Seq(Generations)
      BY DEF TypeOK
    <3>2. \A s \in SUBSET Scopes :
            Generation(own[r].issuer, own[r].fence.registration, s, gens[own[r].generation].flow)
              \in Generations
      BY <2>2, <2>3
    <3> QED BY <2>4, <3>1, <3>2
  <2> QED BY <2>5, <2>6
<1>21. ASSUME NEW r \in Refreshers, Disarm(r)
      PROVE  gens' \in Seq(Generations) /\ spent' \subseteq Nat
  BY <1>21 DEF Disarm, Tx, issuer, TypeOK
<1>22. ASSUME NEW r \in Refreshers, EndRefresh(r)
      PROVE  gens' \in Seq(Generations) /\ spent' \subseteq Nat
  BY <1>22 DEF EndRefresh, issuer, TypeOK
<1>23. ASSUME NEW p \in Work, FenceAuthority(p)
      PROVE  gens' \in Seq(Generations) /\ spent' \subseteq Nat
  BY <1>23 DEF FenceAuthority, Tx, issuer, TypeOK
<1>24. ASSUME NEW p \in Work, CommitTokens(p)
      PROVE  gens' \in Seq(Generations) /\ spent' \subseteq Nat
  BY <1>24 DEF CommitTokens, Tx, issuer, TypeOK
<1>25. ASSUME NEW p \in Work, ActivateTokens(p)
      PROVE  gens' \in Seq(Generations) /\ spent' \subseteq Nat
  BY <1>25 DEF ActivateTokens, Tx, issuer, TypeOK
<1>26. ASSUME NEW p \in Work, Invalidate(p)
      PROVE  gens' \in Seq(Generations) /\ spent' \subseteq Nat
  BY <1>26 DEF Invalidate, Retract, Tx, issuer, TypeOK
<1>27. ASSUME NEW f \in Flows, Cancel(f)
      PROVE  gens' \in Seq(Generations) /\ spent' \subseteq Nat
  BY <1>27 DEF Cancel, Once, issuer, TypeOK
<1>28. ASSUME NEW f \in Flows, Elapse(f)
      PROVE  gens' \in Seq(Generations) /\ spent' \subseteq Nat
  BY <1>28 DEF Elapse, issuer, TypeOK
<1>29. ASSUME NEW f \in Flows, ListenerTimeout(f)
      PROVE  gens' \in Seq(Generations) /\ spent' \subseteq Nat
  BY <1>29 DEF ListenerTimeout, issuer, TypeOK
<1>30. ASSUME Expire PROVE gens' \in Seq(Generations) /\ spent' \subseteq Nat
  BY <1>30 DEF Expire, Once, issuer, TypeOK
<1>31. ASSUME NEW c \in Callbacks, NEW f \in Flows, Arrive(c, f)
      PROVE  gens' \in Seq(Generations) /\ spent' \subseteq Nat
  BY <1>31 DEF Arrive, issuer, TypeOK
<1>32. ASSUME NEW r \in Refreshers, Challenge(r)
      PROVE  gens' \in Seq(Generations) /\ spent' \subseteq Nat
  BY <1>32 DEF Challenge, issuer, TypeOK
<1>33. ASSUME NEW pin \in Issuers \cup {None}, NEW deleted \in BOOLEAN, Edit(pin, deleted)
      PROVE  gens' \in Seq(Generations) /\ spent' \subseteq Nat
  BY <1>33 DEF Edit, Once, issuer, TypeOK
<1>34. ASSUME Disconnect PROVE gens' \in Seq(Generations) /\ spent' \subseteq Nat
  <2>1. ReadActive(db) \in Nat
    BY DbType DEF ReadActive
  <2> QED BY <1>34, <2>1 DEF Disconnect, TypeOK
<1>35. ASSUME Lapse PROVE gens' \in Seq(Generations) /\ spent' \subseteq Nat
  BY <1>35 DEF Lapse, issuer, TypeOK
<1>36. ASSUME Shutdown PROVE gens' \in Seq(Generations) /\ spent' \subseteq Nat
  BY <1>36 DEF Shutdown, issuer, TypeOK
<1>37. ASSUME Crash PROVE gens' \in Seq(Generations) /\ spent' \subseteq Nat
  BY <1>37 DEF Crash, issuer, TypeOK
<1>38. ASSUME UNCHANGED vars PROVE gens' \in Seq(Generations) /\ spent' \subseteq Nat
  BY <1>38 DEF vars, issuer, TypeOK
<1>39. ASSUME Supersede PROVE gens' \in Seq(Generations) /\ spent' \subseteq Nat
  BY <1>39 DEF Supersede, Once, issuer, TypeOK
<1> QED BY <1>1, <1>2, <1>3, <1>4, <1>5, <1>6, <1>7, <1>8, <1>9, <1>10, <1>11, <1>12, <1>13,
           <1>14, <1>15, <1>16, <1>17, <1>18, <1>19, <1>20, <1>21, <1>22, <1>23, <1>24, <1>25,
           <1>26, <1>27, <1>28, <1>29, <1>30, <1>31, <1>32, <1>33, <1>34, <1>35, <1>36, <1>37,
           <1>38, <1>39
     DEF Next, FlowStep, CallbackStep, RefreshStep, InstallStep, Environment


LEMMA TypeStep ==
  ASSUME TypeOK, ServesFlow, SpentIsFenced, \A p \in Work : Unsent(p), [Next]_vars
  PROVE  TypeOK'
<1>1. config' \in [public : BOOLEAN, listener : BOOLEAN]
  BY SimpleTypes DEF TypeOK
<1> QED BY <1>1, DbStep, SimpleTypes, LabelType, BundleType, CapturesType, IssuerType DEF TypeOK
-----------------------------------------------------------------------------
(* Control.                                                                *)


\* A process that has begun has begun for good.
LEMMA NeverIdleAgain ==
  ASSUME TypeOK, [Next]_vars
  PROVE  \A x \in Procs : pc'[x] = "idle" => pc[x] = "idle"
<1> USE DEF TypeOK, Procs, Work, Goto
<1>1. ASSUME NEW f \in Flows, Prepare(f)
      PROVE  \A x \in Procs : pc'[x] = "idle" => pc[x] = "idle"
  BY <1>1 DEF Prepare, Once
<1>2. ASSUME NEW f \in Flows, Discovered(f)
      PROVE  \A x \in Procs : pc'[x] = "idle" => pc[x] = "idle"
  BY <1>2 DEF Discovered
<1>3. ASSUME NEW f \in Flows, Register(f)
      PROVE  \A x \in Procs : pc'[x] = "idle" => pc[x] = "idle"
  BY <1>3 DEF Register, Tx
<1>4. ASSUME NEW f \in Flows, Bind(f) PROVE \A x \in Procs : pc'[x] = "idle" => pc[x] = "idle"
  BY <1>4 DEF Bind
<1>5. ASSUME NEW f \in Flows, Await(f) PROVE \A x \in Procs : pc'[x] = "idle" => pc[x] = "idle"
  BY <1>5 DEF Await, Tx
<1>6. ASSUME NEW f \in Flows, Dropped(f)
      PROVE  \A x \in Procs : pc'[x] = "idle" => pc[x] = "idle"
  BY <1>6 DEF Dropped
<1>7. ASSUME NEW f \in Flows, Publish(f)
      PROVE  \A x \in Procs : pc'[x] = "idle" => pc[x] = "idle"
  BY <1>7 DEF Publish
<1>8. ASSUME NEW f \in Flows, FailCreate(f)
      PROVE  \A x \in Procs : pc'[x] = "idle" => pc[x] = "idle"
  BY <1>8 DEF FailCreate, Tx
<1>9. ASSUME NEW c \in Callbacks, BeginAuthFlowExchange(c)
      PROVE  \A x \in Procs : pc'[x] = "idle" => pc[x] = "idle"
  BY <1>9 DEF BeginAuthFlowExchange, Tx
<1>10. ASSUME NEW c \in Callbacks, ValidateAuthFlowExchange(c)
      PROVE  \A x \in Procs : pc'[x] = "idle" => pc[x] = "idle"
  BY <1>10 DEF ValidateAuthFlowExchange
<1>11. ASSUME NEW c \in Callbacks, SendCode(c)
      PROVE  \A x \in Procs : pc'[x] = "idle" => pc[x] = "idle"
  BY <1>11 DEF SendCode
<1>12. ASSUME NEW c \in Callbacks, TakeOperation(c)
      PROVE  \A x \in Procs : pc'[x] = "idle" => pc[x] = "idle"
  BY <1>12 DEF TakeOperation
<1>13. ASSUME NEW c \in Callbacks, FailConsumed(c)
      PROVE  \A x \in Procs : pc'[x] = "idle" => pc[x] = "idle"
  BY <1>13 DEF FailConsumed, Tx
<1>14. ASSUME NEW c \in Callbacks, Leave(c)
      PROVE  \A x \in Procs : pc'[x] = "idle" => pc[x] = "idle"
  BY <1>14 DEF Leave
<1>15. ASSUME NEW r \in Refreshers, RunRefresh(r)
      PROVE  \A x \in Procs : pc'[x] = "idle" => pc[x] = "idle"
  BY <1>15 DEF RunRefresh
<1>16. ASSUME NEW r \in Refreshers, Joined(r)
      PROVE  \A x \in Procs : pc'[x] = "idle" => pc[x] = "idle"
  BY <1>16 DEF Joined
<1>17. ASSUME NEW r \in Refreshers, PrepareRefresh(r)
      PROVE  \A x \in Procs : pc'[x] = "idle" => pc[x] = "idle"
  BY <1>17 DEF PrepareRefresh
<1>18. ASSUME NEW r \in Refreshers, ReadTokens(r)
      PROVE  \A x \in Procs : pc'[x] = "idle" => pc[x] = "idle"
  BY <1>18 DEF ReadTokens
<1>19. ASSUME NEW r \in Refreshers, Arm(r)
      PROVE  \A x \in Procs : pc'[x] = "idle" => pc[x] = "idle"
  BY <1>19 DEF Arm, Tx
<1>20. ASSUME NEW r \in Refreshers, SendRefresh(r)
      PROVE  \A x \in Procs : pc'[x] = "idle" => pc[x] = "idle"
  BY <1>20 DEF SendRefresh
<1>21. ASSUME NEW r \in Refreshers, Disarm(r)
      PROVE  \A x \in Procs : pc'[x] = "idle" => pc[x] = "idle"
  BY <1>21 DEF Disarm, Tx
<1>22. ASSUME NEW r \in Refreshers, EndRefresh(r)
      PROVE  \A x \in Procs : pc'[x] = "idle" => pc[x] = "idle"
  BY <1>22 DEF EndRefresh
<1>23. ASSUME NEW p \in Work, FenceAuthority(p)
      PROVE  \A x \in Procs : pc'[x] = "idle" => pc[x] = "idle"
  BY <1>23 DEF FenceAuthority, Tx
<1>24. ASSUME NEW p \in Work, CommitTokens(p)
      PROVE  \A x \in Procs : pc'[x] = "idle" => pc[x] = "idle"
  BY <1>24 DEF CommitTokens, Tx
<1>25. ASSUME NEW p \in Work, ActivateTokens(p)
      PROVE  \A x \in Procs : pc'[x] = "idle" => pc[x] = "idle"
  BY <1>25 DEF ActivateTokens, Tx
<1>26. ASSUME NEW p \in Work, Invalidate(p)
      PROVE  \A x \in Procs : pc'[x] = "idle" => pc[x] = "idle"
  BY <1>26 DEF Invalidate, Retract, Tx, Ending
<1>27. ASSUME NEW f \in Flows, Cancel(f)
      PROVE  \A x \in Procs : pc'[x] = "idle" => pc[x] = "idle"
  BY <1>27 DEF Cancel, Once
<1>28. ASSUME NEW f \in Flows, Elapse(f)
      PROVE  \A x \in Procs : pc'[x] = "idle" => pc[x] = "idle"
  BY <1>28 DEF Elapse
<1>29. ASSUME NEW f \in Flows, ListenerTimeout(f)
      PROVE  \A x \in Procs : pc'[x] = "idle" => pc[x] = "idle"
  BY <1>29 DEF ListenerTimeout
<1>30. ASSUME Expire PROVE \A x \in Procs : pc'[x] = "idle" => pc[x] = "idle"
  BY <1>30 DEF Expire, Once
<1>31. ASSUME NEW c \in Callbacks, NEW f \in Flows, Arrive(c, f)
      PROVE  \A x \in Procs : pc'[x] = "idle" => pc[x] = "idle"
  BY <1>31 DEF Arrive
<1>32. ASSUME NEW r \in Refreshers, Challenge(r)
      PROVE  \A x \in Procs : pc'[x] = "idle" => pc[x] = "idle"
  BY <1>32 DEF Challenge
<1>33. ASSUME NEW pin \in Issuers \cup {None}, NEW deleted \in BOOLEAN, Edit(pin, deleted)
      PROVE  \A x \in Procs : pc'[x] = "idle" => pc[x] = "idle"
  BY <1>33 DEF Edit, Once
<1>34. ASSUME Disconnect PROVE \A x \in Procs : pc'[x] = "idle" => pc[x] = "idle"
  BY <1>34 DEF Disconnect, Once
<1>35. ASSUME Lapse PROVE \A x \in Procs : pc'[x] = "idle" => pc[x] = "idle"
  BY <1>35 DEF Lapse
<1>36. ASSUME Shutdown PROVE \A x \in Procs : pc'[x] = "idle" => pc[x] = "idle"
  BY <1>36 DEF Shutdown
<1>37. ASSUME Crash PROVE \A x \in Procs : pc'[x] = "idle" => pc[x] = "idle"
  BY <1>37 DEF Crash
<1>38. ASSUME UNCHANGED vars PROVE \A x \in Procs : pc'[x] = "idle" => pc[x] = "idle"
  BY <1>38 DEF vars
<1>39. ASSUME Supersede PROVE \A x \in Procs : pc'[x] = "idle" => pc[x] = "idle"
  BY <1>39 DEF Supersede, Once
<1> QED BY <1>1, <1>2, <1>3, <1>4, <1>5, <1>6, <1>7, <1>8, <1>9, <1>10, <1>11, <1>12, <1>13,
           <1>14, <1>15, <1>16, <1>17, <1>18, <1>19, <1>20, <1>21, <1>22, <1>23, <1>24, <1>25,
           <1>26, <1>27, <1>28, <1>29, <1>30, <1>31, <1>32, <1>33, <1>34, <1>35, <1>36, <1>37,
           <1>38, <1>39
     DEF Next, FlowStep, CallbackStep, RefreshStep, InstallStep, Environment


LEMMA OneActiveStep ==
  ASSUME TypeOK, ServesFlow, OneActive, [Next]_vars
  PROVE  OneActive'
<1>1. \A f \in Flows : pc'[f] = "idle" => pc[f] = "idle"
  BY NeverIdleAgain DEF Procs
<1>2. CASE Settles
  BY <1>1, <1>2 DEF Settles, OneActive
<1>3. ASSUME NEW f \in Flows, Prepare(f) PROVE OneActive'
  <2>1. pc'[f] # "idle" /\ pc' = [pc EXCEPT ![f] = pc'[f]]
    BY <1>3 DEF Prepare, Goto, TypeOK, Procs
  <2>2. \A g \in Flows : g # f => db'.flows[g].state \notin Nonterminal
    <3>1. \A g \in Flows : db.flows[g].state # "exchanging"
      BY <1>3 DEF Prepare, Exchanging
    <3> QED BY <1>3, <3>1, PrepareDb DEF Nonterminal
  <2>3. \A g \in Flows : g # f /\ pc'[g] = "idle" => db'.flows[g].state = "absent"
    BY <1>1, <1>3, PrepareDb DEF OneActive
  <2> QED BY <2>1, <2>2, <2>3 DEF OneActive
<1>4. ASSUME NEW c \in Callbacks, BeginAuthFlowExchange(c) PROVE OneActive'
  <2>1. CASE db' = db
    BY <1>1, <2>1 DEF OneActive
  <2>2. CASE db' # db
    <3>1. \A g \in Flows : /\ db'.flows[g].state \in Nonterminal => db.flows[g].state \in Nonterminal
                           /\ db.flows[g].state = "absent" => db'.flows[g].state = "absent"
      BY <1>4, <2>2, BeginDb DEF Nonterminal
    <3> QED BY <1>1, <3>1 DEF OneActive
  <2> QED BY <2>1, <2>2
<1> QED BY <1>2, <1>3, <1>4, SettleStep

\* A callback goes on serving its flow.
LEMMA ServesStep ==
  ASSUME TypeOK, ServesFlow, [Next]_vars
  PROVE  ServesFlow'
<1> USE DEF ServesFlow, TypeOK, Goto
<1>1. ASSUME NEW f \in Flows, Prepare(f) PROVE ServesFlow'
  BY <1>1, ProcsAreDistinct DEF Prepare, Once, Capture, Work, Procs
<1>2. ASSUME NEW f \in Flows, Discovered(f) PROVE ServesFlow'
  BY <1>2, ProcsAreDistinct DEF Discovered, Capture, Work, Procs
<1>3. ASSUME NEW f \in Flows, Register(f) PROVE ServesFlow'
  <2>1. \A q \in Callbacks : pc'[q] = pc[q]
    BY <1>3, ProcsAreDistinct DEF Register, Tx, Work, Procs
  <2>2. \A q \in Callbacks : own'[q] = own[q]
    BY <1>3, ProcsAreDistinct DEF Register, Capture, Work, Procs
  <2> QED BY <2>1, <2>2
<1>4. ASSUME NEW f \in Flows, Bind(f) PROVE ServesFlow'
  BY <1>4 DEF Bind, Work, Procs
<1>5. ASSUME NEW f \in Flows, Await(f) PROVE ServesFlow'
  BY <1>5 DEF Await, Tx, Work, Procs
<1>6. ASSUME NEW f \in Flows, Dropped(f) PROVE ServesFlow'
  BY <1>6 DEF Dropped, Work, Procs
<1>7. ASSUME NEW f \in Flows, Publish(f) PROVE ServesFlow'
  BY <1>7 DEF Publish, Work, Procs
<1>8. ASSUME NEW f \in Flows, FailCreate(f) PROVE ServesFlow'
  BY <1>8 DEF FailCreate, Tx, Work, Procs
<1>9. ASSUME NEW c \in Callbacks, BeginAuthFlowExchange(c) PROVE ServesFlow'
  BY <1>9 DEF BeginAuthFlowExchange, Tx, Work, Procs
<1>10. ASSUME NEW c \in Callbacks, ValidateAuthFlowExchange(c) PROVE ServesFlow'
  BY <1>10 DEF ValidateAuthFlowExchange, Work, Procs
<1>11. ASSUME NEW c \in Callbacks, SendCode(c) PROVE ServesFlow'
  <2>1. \A q \in Callbacks : q # c => pc'[q] = pc[q] /\ own'[q] = own[q]
    BY <1>11 DEF SendCode, Issued, Capture, Procs, Work
  <2>2. own[c] \in Captures /\ own[c].flow \in Flows
    BY <1>11 DEF SendCode, Procs, Work
  <2>3. own'[c].flow = own[c].flow
    BY <1>11, <2>2 DEF SendCode, Issued, Capture, Procs, Work, Captures
  <2> QED BY <2>1, <2>2, <2>3
<1>12. ASSUME NEW c \in Callbacks, TakeOperation(c) PROVE ServesFlow'
  BY <1>12 DEF TakeOperation, Work, Procs
<1>13. ASSUME NEW c \in Callbacks, FailConsumed(c) PROVE ServesFlow'
  BY <1>13 DEF FailConsumed, Tx, Work, Procs
<1>14. ASSUME NEW c \in Callbacks, Leave(c) PROVE ServesFlow'
  BY <1>14 DEF Leave, Work, Procs
<1>15. ASSUME NEW r \in Refreshers, RunRefresh(r) PROVE ServesFlow'
  BY <1>15, ProcsAreDistinct DEF RunRefresh, Work, Procs
<1>16. ASSUME NEW r \in Refreshers, Joined(r) PROVE ServesFlow'
  BY <1>16 DEF Joined, Work, Procs
<1>17. ASSUME NEW r \in Refreshers, PrepareRefresh(r) PROVE ServesFlow'
  BY <1>17, ProcsAreDistinct DEF PrepareRefresh, Capture, Work, Procs
<1>18. ASSUME NEW r \in Refreshers, ReadTokens(r) PROVE ServesFlow'
  BY <1>18, ProcsAreDistinct DEF ReadTokens, Capture, Work, Procs
<1>19. ASSUME NEW r \in Refreshers, Arm(r) PROVE ServesFlow'
  BY <1>19 DEF Arm, Tx, Work, Procs
<1>20. ASSUME NEW r \in Refreshers, SendRefresh(r) PROVE ServesFlow'
  BY <1>20, ProcsAreDistinct DEF SendRefresh, Issued, Capture, Work, Procs
<1>21. ASSUME NEW r \in Refreshers, Disarm(r) PROVE ServesFlow'
  BY <1>21 DEF Disarm, Tx, Work, Procs
<1>22. ASSUME NEW r \in Refreshers, EndRefresh(r) PROVE ServesFlow'
  BY <1>22 DEF EndRefresh, Work, Procs
<1>23. ASSUME NEW p \in Work, FenceAuthority(p) PROVE ServesFlow'
  BY <1>23 DEF FenceAuthority, Tx, Work, Procs
<1>24. ASSUME NEW p \in Work, CommitTokens(p) PROVE ServesFlow'
  BY <1>24 DEF CommitTokens, Tx, Work, Procs
<1>25. ASSUME NEW p \in Work, ActivateTokens(p) PROVE ServesFlow'
  BY <1>25 DEF ActivateTokens, Tx, Work, Procs
<1>26. ASSUME NEW p \in Work, Invalidate(p) PROVE ServesFlow'
  BY <1>26 DEF Invalidate, Retract, Tx, Work, Procs
<1>27. ASSUME NEW f \in Flows, Cancel(f) PROVE ServesFlow'
  BY <1>27 DEF Cancel, Once, Work, Procs
<1>28. ASSUME NEW f \in Flows, Elapse(f) PROVE ServesFlow'
  BY <1>28 DEF Elapse, Work, Procs
<1>29. ASSUME NEW f \in Flows, ListenerTimeout(f) PROVE ServesFlow'
  BY <1>29 DEF ListenerTimeout, Work, Procs
<1>30. ASSUME Expire PROVE ServesFlow'
  BY <1>30 DEF Expire, Once, Work, Procs
<1>31. ASSUME NEW c \in Callbacks, NEW f \in Flows, Arrive(c, f) PROVE ServesFlow'
  <2>1. \A q \in Callbacks : q # c => pc'[q] = pc[q] /\ own'[q] = own[q]
    BY <1>31 DEF Arrive, Capture, Procs, Work
  <2>2. pc'[c] = "done" \/ own'[c].flow = f
    <3>1. CASE pc'[c] # "done"
      <4>1. byState[f] \in Bundles
        BY <1>31, <3>1 DEF Arrive, Procs, Work
      <4>2. /\ byState[f].fence \in Fences /\ byState[f].issuer \in Issuers \cup {None}
            /\ byState[f].scopes \in SUBSET Scopes
        BY <4>1 DEF Bundles
      <4>3. own'[c] = Captured(byState[f].fence, byState[f].issuer, byState[f].scopes, f, 0)
        BY <1>31, <3>1 DEF Arrive, Capture, Procs, Work
      <4> QED BY <4>3 DEF Captured
    <3> QED BY <3>1
  <2> QED BY <2>1, <2>2
<1>32. ASSUME NEW r \in Refreshers, Challenge(r) PROVE ServesFlow'
  BY <1>32, ProcsAreDistinct DEF Challenge, Capture, Work, Procs
<1>33. ASSUME NEW pin \in Issuers \cup {None}, NEW deleted \in BOOLEAN, Edit(pin, deleted)
      PROVE  ServesFlow'
  BY <1>33 DEF Edit, Once, Work, Procs
<1>34. ASSUME Disconnect PROVE ServesFlow'
  BY <1>34 DEF Disconnect, Once, Work, Procs
<1>35. ASSUME Lapse PROVE ServesFlow'
  BY <1>35 DEF Lapse, Work, Procs
<1>36. ASSUME Shutdown PROVE ServesFlow'
  BY <1>36 DEF Shutdown, Work, Procs
<1>37. ASSUME Crash PROVE ServesFlow'
  BY <1>37, ProcsAreDistinct DEF Crash, Work, Procs
<1>38. ASSUME UNCHANGED vars PROVE ServesFlow'
  BY <1>38 DEF vars, Work, Procs
<1>39. ASSUME Supersede PROVE ServesFlow'
  BY <1>39 DEF Supersede, Once, Work, Procs
<1> QED BY <1>1, <1>2, <1>3, <1>4, <1>5, <1>6, <1>7, <1>8, <1>9, <1>10, <1>11, <1>12, <1>13,
           <1>14, <1>15, <1>16, <1>17, <1>18, <1>19, <1>20, <1>21, <1>22, <1>23, <1>24, <1>25,
           <1>26, <1>27, <1>28, <1>29, <1>30, <1>31, <1>32, <1>33, <1>34, <1>35, <1>36, <1>37,
           <1>38, <1>39
     DEF Next, FlowStep, CallbackStep, RefreshStep, InstallStep, Environment

\* The permit has one holder.
LEMMA PermitStep ==
  ASSUME TypeOK, PermitHeld, [Next]_vars
  PROVE  PermitHeld'
<1> USE DEF PermitHeld, Permitted, TypeOK, Goto
<1>1. ASSUME NEW f \in Flows, Prepare(f) PROVE PermitHeld'
  BY <1>1, ProcsAreDistinct DEF Prepare, Once, service, Work, Procs
<1>2. ASSUME NEW f \in Flows, Discovered(f) PROVE PermitHeld'
  BY <1>2, ProcsAreDistinct DEF Discovered, service, Work, Procs
<1>3. ASSUME NEW f \in Flows, Register(f) PROVE PermitHeld'
  BY <1>3, ProcsAreDistinct DEF Register, Tx, service, Work, Procs
<1>4. ASSUME NEW f \in Flows, Bind(f) PROVE PermitHeld'
  BY <1>4, ProcsAreDistinct DEF Bind, service, Work, Procs
<1>5. ASSUME NEW f \in Flows, Await(f) PROVE PermitHeld'
  BY <1>5, ProcsAreDistinct DEF Await, Tx, service, Work, Procs
<1>6. ASSUME NEW f \in Flows, Dropped(f) PROVE PermitHeld'
  BY <1>6, ProcsAreDistinct DEF Dropped, service, Work, Procs
<1>7. ASSUME NEW f \in Flows, Publish(f) PROVE PermitHeld'
  BY <1>7, ProcsAreDistinct DEF Publish, service, Work, Procs
<1>8. ASSUME NEW f \in Flows, FailCreate(f) PROVE PermitHeld'
  BY <1>8, ProcsAreDistinct DEF FailCreate, Tx, service, Work, Procs
<1>9. ASSUME NEW c \in Callbacks, BeginAuthFlowExchange(c) PROVE PermitHeld'
  BY <1>9, ProcsAreDistinct DEF BeginAuthFlowExchange, Tx, service, Work, Procs
<1>10. ASSUME NEW c \in Callbacks, ValidateAuthFlowExchange(c) PROVE PermitHeld'
  BY <1>10, ProcsAreDistinct DEF ValidateAuthFlowExchange, service, Work, Procs
<1>11. ASSUME NEW c \in Callbacks, SendCode(c) PROVE PermitHeld'
  BY <1>11, ProcsAreDistinct DEF SendCode, service, Work, Procs
<1>12. ASSUME NEW c \in Callbacks, TakeOperation(c) PROVE PermitHeld'
  BY <1>12, ProcsAreDistinct DEF TakeOperation, service, Work, Procs
<1>13. ASSUME NEW c \in Callbacks, FailConsumed(c) PROVE PermitHeld'
  BY <1>13, ProcsAreDistinct DEF FailConsumed, Tx, service, Work, Procs
<1>14. ASSUME NEW c \in Callbacks, Leave(c) PROVE PermitHeld'
  BY <1>14, ProcsAreDistinct DEF Leave, service, Work, Procs
<1>15. ASSUME NEW r \in Refreshers, RunRefresh(r) PROVE PermitHeld'
  BY <1>15, ProcsAreDistinct DEF RunRefresh, service, Work, Procs
<1>16. ASSUME NEW r \in Refreshers, Joined(r) PROVE PermitHeld'
  BY <1>16, ProcsAreDistinct DEF Joined, service, Work, Procs
<1>17. ASSUME NEW r \in Refreshers, PrepareRefresh(r) PROVE PermitHeld'
  BY <1>17, ProcsAreDistinct DEF PrepareRefresh, service, Work, Procs
<1>18. ASSUME NEW r \in Refreshers, ReadTokens(r) PROVE PermitHeld'
  BY <1>18, ProcsAreDistinct DEF ReadTokens, service, Work, Procs
<1>19. ASSUME NEW r \in Refreshers, Arm(r) PROVE PermitHeld'
  BY <1>19, ProcsAreDistinct DEF Arm, Tx, service, Work, Procs
<1>20. ASSUME NEW r \in Refreshers, SendRefresh(r) PROVE PermitHeld'
  BY <1>20, ProcsAreDistinct DEF SendRefresh, service, Work, Procs
<1>21. ASSUME NEW r \in Refreshers, Disarm(r) PROVE PermitHeld'
  BY <1>21, ProcsAreDistinct DEF Disarm, Tx, service, Work, Procs
<1>22. ASSUME NEW r \in Refreshers, EndRefresh(r) PROVE PermitHeld'
  BY <1>22, ProcsAreDistinct DEF EndRefresh, service, Work, Procs
<1>23. ASSUME NEW p \in Work, FenceAuthority(p) PROVE PermitHeld'
  BY <1>23, ProcsAreDistinct DEF FenceAuthority, Tx, service, Work, Procs
<1>24. ASSUME NEW p \in Work, CommitTokens(p) PROVE PermitHeld'
  BY <1>24, ProcsAreDistinct DEF CommitTokens, Tx, service, Work, Procs
<1>25. ASSUME NEW p \in Work, ActivateTokens(p) PROVE PermitHeld'
  BY <1>25, ProcsAreDistinct DEF ActivateTokens, Tx, service, Work, Procs
<1>26. ASSUME NEW p \in Work, Invalidate(p) PROVE PermitHeld'
  BY <1>26, ProcsAreDistinct DEF Invalidate, Retract, Tx, Ending, service, Work, Procs
<1>27. ASSUME NEW f \in Flows, Cancel(f) PROVE PermitHeld'
  BY <1>27, ProcsAreDistinct DEF Cancel, Once, service, Work, Procs
<1>28. ASSUME NEW f \in Flows, Elapse(f) PROVE PermitHeld'
  BY <1>28, ProcsAreDistinct DEF Elapse, service, Work, Procs
<1>29. ASSUME NEW f \in Flows, ListenerTimeout(f) PROVE PermitHeld'
  BY <1>29, ProcsAreDistinct DEF ListenerTimeout, service, Work, Procs
<1>30. ASSUME Expire PROVE PermitHeld'
  BY <1>30, ProcsAreDistinct DEF Expire, Once, service, Work, Procs
<1>31. ASSUME NEW c \in Callbacks, NEW f \in Flows, Arrive(c, f) PROVE PermitHeld'
  BY <1>31, ProcsAreDistinct DEF Arrive, service, Work, Procs
<1>32. ASSUME NEW r \in Refreshers, Challenge(r) PROVE PermitHeld'
  BY <1>32, ProcsAreDistinct DEF Challenge, service, Work, Procs
<1>33. ASSUME NEW pin \in Issuers \cup {None}, NEW deleted \in BOOLEAN, Edit(pin, deleted)
      PROVE  PermitHeld'
  BY <1>33, ProcsAreDistinct DEF Edit, Once, service, Work, Procs
<1>34. ASSUME Disconnect PROVE PermitHeld'
  BY <1>34, ProcsAreDistinct DEF Disconnect, Once, service, Work, Procs
<1>35. ASSUME Lapse PROVE PermitHeld'
  BY <1>35, ProcsAreDistinct DEF Lapse, service, Work, Procs
<1>36. ASSUME Shutdown PROVE PermitHeld'
  BY <1>36, ProcsAreDistinct DEF Shutdown, service, Work, Procs
<1>37. ASSUME Crash PROVE PermitHeld'
  BY <1>37, ProcsAreDistinct DEF Crash, service, Work, Procs
<1>38. ASSUME UNCHANGED vars PROVE PermitHeld'
  BY <1>38, ProcsAreDistinct DEF vars, service, Work, Procs
<1>39. ASSUME Supersede PROVE PermitHeld'
  BY <1>39, ProcsAreDistinct DEF Supersede, Once, service, Work, Procs
<1> QED BY <1>1, <1>2, <1>3, <1>4, <1>5, <1>6, <1>7, <1>8, <1>9, <1>10, <1>11, <1>12, <1>13,
           <1>14, <1>15, <1>16, <1>17, <1>18, <1>19, <1>20, <1>21, <1>22, <1>23, <1>24, <1>25,
           <1>26, <1>27, <1>28, <1>29, <1>30, <1>31, <1>32, <1>33, <1>34, <1>35, <1>36, <1>37,
           <1>38, <1>39
     DEF Next, FlowStep, CallbackStep, RefreshStep, InstallStep, Environment
-----------------------------------------------------------------------------
(* Steps that leave the tokens alone.                                      *)

\* The generations and the selected one stay, a fence is not lifted, a flow
\* that succeeded stays so, and no process takes a generation up.
Tracked == Holding \cup {"arm", "handoff", "disarm", "activate"}
Quiet ==
  /\ db'.selected = db.selected /\ (db.fenced => db'.fenced)
  /\ \A f \in Flows : db.flows[f].state = "succeeded" => db'.flows[f].state = "succeeded"
  /\ gens' = gens /\ spent' = spent
  /\ \A p \in Work : pc'[p] \in Tracked =>
       own'[p] = own[p] /\ (pc'[p] = pc[p] \/ (pc[p] = "install" /\ pc'[p] = "fence"))

\* What the refreshes, the received generations and the readable tokens rely on.
TokenParts ==
  /\ SpentIsFenced /\ ReadableAgrees
  /\ \A p \in Work : Unsent(p) /\ Fresh(p) /\ Committed(p) /\ Lineage(p)

\* A generation that was agreed on stays so.
LEMMA AgreedStays ==
  ASSUME TypeOK, NEW g \in 1 .. Len(gens), Agreed(g), gens'[g] = gens[g],
         \A f \in Flows : db.flows[f].state = "succeeded" => db'.flows[f].state = "succeeded"
  PROVE  Agreed(g)'
<1>1. gens[g] \in Generations
  BY DEF TypeOK
<1>2. gens[g].flow \in Flows \cup {None}
  BY <1>1 DEF Generations
<1> QED BY <1>2 DEF Agreed

LEMMA QuietStep ==
  ASSUME OAuthInv, Quiet
  PROVE  TokenParts'
<1> USE DEF OAuthInv, Tracked, Holding
<1>1. SpentIsFenced'
  BY DbType DEF SpentIsFenced, Quiet
<1>2. \A g \in 1 .. Len(gens) : Agreed(g) => Agreed(g)'
  BY AgreedStays DEF Quiet
<1>3. db.selected # 0 => db.selected \in 1 .. Len(gens)
  BY DbType DEF SpentIsFenced
<1>4. ReadableAgrees'
  BY <1>2, <1>3 DEF ReadableAgrees, Quiet
<1>5. ASSUME NEW p \in Work PROVE Unsent(p)' /\ Committed(p)'
  BY <1>2, <1>3, DbType DEF Unsent, Committed, Quiet
<1>6. ASSUME NEW p \in Work PROVE Fresh(p)'
  BY DEF Fresh, Quiet
<1>7. ASSUME NEW p \in Work PROVE Lineage(p)'
  <2>1. pc'[p] \in Holding \cup {"activate"} =>
          /\ own[p].generation \in 1 .. Len(gens) /\ own'[p] = own[p]
          /\ pc[p] \in Holding \cup {"activate"}
    BY <1>3 DEF Fresh, Committed, Quiet
  <2> QED BY <1>2, <2>1 DEF Lineage, Quiet
<1> QED BY <1>1, <1>4, <1>5, <1>6, <1>7 DEF TokenParts


\* The steps that do more.
Loud ==
  \/ \E c \in Callbacks : SendCode(c)
  \/ \E r \in Refreshers : ReadTokens(r) \/ Arm(r) \/ SendRefresh(r) \/ Disarm(r)
  \/ \E p \in Work : InstallStep(p)
  \/ Disconnect

\* Every other step is quiet.
LEMMA QuietOrLoud ==
  ASSUME OAuthInv, [Next]_vars
  PROVE  Quiet \/ Loud
<1>t. TypeOK /\ ServesFlow
  BY DEF OAuthInv
<1>s. \A f \in Flows : db.flows[f].state = "succeeded" => db'.flows[f].state = "succeeded"
  <2>1. CASE Settles
    BY <2>1 DEF Settles
  <2>2. ASSUME NEW f \in Flows, Prepare(f)
        PROVE  \A g \in Flows : db.flows[g].state = "succeeded" => db'.flows[g].state = "succeeded"
    <3>1. pc[f] = "idle"
      BY <2>2 DEF Prepare
    <3>2. db.flows[f].state = "absent"
      BY <3>1 DEF OAuthInv, OneActive
    <3> QED BY <1>t, <2>2, <3>2, PrepareDb
  <2>3. ASSUME NEW c \in Callbacks, BeginAuthFlowExchange(c)
        PROVE  \A g \in Flows : db.flows[g].state = "succeeded" => db'.flows[g].state = "succeeded"
    BY <1>t, <2>3, BeginDb
  <2> QED BY <1>t, <2>1, <2>2, <2>3, SettleStep
<1>1. ASSUME NEW f \in Flows, Prepare(f) PROVE Quiet \/ Loud
  <2>1. db'.selected = db.selected /\ (db.fenced => db'.fenced)
    BY <1>1, <1>t, PrepareDb
  <2>2. \A h \in Flows : db.flows[h].state = "succeeded" => db'.flows[h].state = "succeeded"
    BY <1>s
  <2>3. gens' = gens /\ spent' = spent
    BY <1>1 DEF Prepare, Once, issuer
  <2>4. \A q \in Work : pc'[q] \in Tracked => own'[q] = own[q] /\ pc'[q] = pc[q]
    BY <1>1, <1>t, ProcsAreDistinct DEF Prepare, Once, Capture, Tracked, Holding, Work, Procs,
       TypeOK, Goto
  <2> QED BY <2>1, <2>2, <2>3, <2>4 DEF Quiet
<1>2. ASSUME NEW f \in Flows, Discovered(f) PROVE Quiet \/ Loud
  <2>1. db'.selected = db.selected /\ (db.fenced => db'.fenced)
    BY <1>2 DEF Discovered
  <2>2. \A h \in Flows : db.flows[h].state = "succeeded" => db'.flows[h].state = "succeeded"
    BY <1>s
  <2>3. gens' = gens /\ spent' = spent
    BY <1>2 DEF Discovered, issuer
  <2>4. \A q \in Work : pc'[q] \in Tracked => own'[q] = own[q] /\ pc'[q] = pc[q]
    BY <1>2, <1>t, ProcsAreDistinct DEF Discovered, Capture, Tracked, Holding, Work, Procs,
       TypeOK, Goto
  <2> QED BY <2>1, <2>2, <2>3, <2>4 DEF Quiet
<1>3. ASSUME NEW f \in Flows, Register(f) PROVE Quiet \/ Loud
  <2>1. db'.selected = db.selected /\ (db.fenced => db'.fenced)
    BY <1>3, <1>t, DbType DEF Register, Tx, Registered, Databases
  <2>2. \A h \in Flows : db.flows[h].state = "succeeded" => db'.flows[h].state = "succeeded"
    BY <1>s
  <2>3. gens' = gens /\ spent' = spent
    BY <1>3 DEF Register, Tx, issuer
  <2>4. \A q \in Work : pc'[q] \in Tracked => own'[q] = own[q] /\ pc'[q] = pc[q]
    BY <1>3, <1>t, ProcsAreDistinct DEF Register, Tx, Capture, Tracked, Holding, Work, Procs,
       TypeOK, Goto
  <2> QED BY <2>1, <2>2, <2>3, <2>4 DEF Quiet
<1>4. ASSUME NEW f \in Flows, Bind(f) PROVE Quiet \/ Loud
  <2>1. db'.selected = db.selected /\ (db.fenced => db'.fenced)
    BY <1>4 DEF Bind
  <2>2. \A h \in Flows : db.flows[h].state = "succeeded" => db'.flows[h].state = "succeeded"
    BY <1>s
  <2>3. gens' = gens /\ spent' = spent
    BY <1>4 DEF Bind, issuer
  <2>4. \A q \in Work : pc'[q] \in Tracked => own'[q] = own[q] /\ pc'[q] = pc[q]
    BY <1>4, <1>t, ProcsAreDistinct DEF Bind, Capture, Tracked, Holding, Work, Procs, TypeOK,
       Goto
  <2> QED BY <2>1, <2>2, <2>3, <2>4 DEF Quiet
<1>5. ASSUME NEW f \in Flows, Await(f) PROVE Quiet \/ Loud
  <2>1. db'.selected = db.selected /\ (db.fenced => db'.fenced)
    BY <1>5, <1>t, DbType DEF Await, Tx, Databases
  <2>2. \A h \in Flows : db.flows[h].state = "succeeded" => db'.flows[h].state = "succeeded"
    BY <1>s
  <2>3. gens' = gens /\ spent' = spent
    BY <1>5 DEF Await, Tx, issuer
  <2>4. \A q \in Work : pc'[q] \in Tracked => own'[q] = own[q] /\ pc'[q] = pc[q]
    BY <1>5, <1>t, ProcsAreDistinct DEF Await, Tx, Capture, Tracked, Holding, Work, Procs,
       TypeOK, Goto
  <2> QED BY <2>1, <2>2, <2>3, <2>4 DEF Quiet
<1>6. ASSUME NEW f \in Flows, Dropped(f) PROVE Quiet \/ Loud
  <2>1. db'.selected = db.selected /\ (db.fenced => db'.fenced)
    BY <1>6 DEF Dropped
  <2>2. \A h \in Flows : db.flows[h].state = "succeeded" => db'.flows[h].state = "succeeded"
    BY <1>s
  <2>3. gens' = gens /\ spent' = spent
    BY <1>6 DEF Dropped, issuer
  <2>4. \A q \in Work : pc'[q] \in Tracked => own'[q] = own[q] /\ pc'[q] = pc[q]
    BY <1>6, <1>t, ProcsAreDistinct DEF Dropped, Capture, Tracked, Holding, Work, Procs,
       TypeOK, Goto
  <2> QED BY <2>1, <2>2, <2>3, <2>4 DEF Quiet
<1>7. ASSUME NEW f \in Flows, Publish(f) PROVE Quiet \/ Loud
  <2>1. db'.selected = db.selected /\ (db.fenced => db'.fenced)
    BY <1>7 DEF Publish
  <2>2. \A h \in Flows : db.flows[h].state = "succeeded" => db'.flows[h].state = "succeeded"
    BY <1>s
  <2>3. gens' = gens /\ spent' = spent
    BY <1>7 DEF Publish, issuer
  <2>4. \A q \in Work : pc'[q] \in Tracked => own'[q] = own[q] /\ pc'[q] = pc[q]
    BY <1>7, <1>t, ProcsAreDistinct DEF Publish, Capture, Tracked, Holding, Work, Procs,
       TypeOK, Goto
  <2> QED BY <2>1, <2>2, <2>3, <2>4 DEF Quiet
<1>8. ASSUME NEW f \in Flows, FailCreate(f) PROVE Quiet \/ Loud
  <2>1. db'.selected = db.selected /\ (db.fenced => db'.fenced)
    <3>1. "failed" \in FlowStates /\ f \in Flows
      BY <1>8, <1>t DEF FlowStates, Terminal, ServesFlow, FailCreate
    <3>2. db' = db \/ db' = SetFlow(db, f, "failed")
      BY <1>8 DEF FailCreate, Tx
    <3> QED BY <1>t, <3>1, <3>2, DbType, SetFlowType
  <2>2. \A h \in Flows : db.flows[h].state = "succeeded" => db'.flows[h].state = "succeeded"
    BY <1>s
  <2>3. gens' = gens /\ spent' = spent
    BY <1>8 DEF FailCreate, Tx, issuer
  <2>4. \A q \in Work : pc'[q] \in Tracked => own'[q] = own[q] /\ pc'[q] = pc[q]
    BY <1>8, <1>t, ProcsAreDistinct DEF FailCreate, Tx, Capture, Tracked, Holding, Work, Procs,
       TypeOK, Goto
  <2> QED BY <2>1, <2>2, <2>3, <2>4 DEF Quiet
<1>9. ASSUME NEW c \in Callbacks, BeginAuthFlowExchange(c) PROVE Quiet \/ Loud
  <2>1. db'.selected = db.selected /\ (db.fenced => db'.fenced)
    BY <1>9, <1>t, BeginDb, DbType
  <2>2. \A h \in Flows : db.flows[h].state = "succeeded" => db'.flows[h].state = "succeeded"
    BY <1>s
  <2>3. gens' = gens /\ spent' = spent
    BY <1>9 DEF BeginAuthFlowExchange, Tx, issuer
  <2>4. \A q \in Work : pc'[q] \in Tracked => own'[q] = own[q] /\ pc'[q] = pc[q]
    BY <1>9, <1>t, ProcsAreDistinct DEF BeginAuthFlowExchange, Tx, Capture, Tracked, Holding,
       Work, Procs, TypeOK, Goto
  <2> QED BY <2>1, <2>2, <2>3, <2>4 DEF Quiet
<1>10. ASSUME NEW c \in Callbacks, ValidateAuthFlowExchange(c) PROVE Quiet \/ Loud
  <2>1. db'.selected = db.selected /\ (db.fenced => db'.fenced)
    BY <1>10 DEF ValidateAuthFlowExchange
  <2>2. \A h \in Flows : db.flows[h].state = "succeeded" => db'.flows[h].state = "succeeded"
    BY <1>s
  <2>3. gens' = gens /\ spent' = spent
    BY <1>10 DEF ValidateAuthFlowExchange, issuer
  <2>4. \A q \in Work : pc'[q] \in Tracked => own'[q] = own[q] /\ pc'[q] = pc[q]
    BY <1>10, <1>t, ProcsAreDistinct DEF ValidateAuthFlowExchange, Capture, Tracked, Holding,
       Work, Procs, TypeOK, Goto
  <2> QED BY <2>1, <2>2, <2>3, <2>4 DEF Quiet
<1>11. ASSUME NEW c \in Callbacks, SendCode(c) PROVE Quiet \/ Loud
  BY <1>11 DEF Loud, InstallStep
<1>12. ASSUME NEW c \in Callbacks, TakeOperation(c) PROVE Quiet \/ Loud
  <2>1. db'.selected = db.selected /\ (db.fenced => db'.fenced)
    BY <1>12 DEF TakeOperation
  <2>2. \A h \in Flows : db.flows[h].state = "succeeded" => db'.flows[h].state = "succeeded"
    BY <1>s
  <2>3. gens' = gens /\ spent' = spent
    BY <1>12 DEF TakeOperation, issuer
  <2>4. \A q \in Work : pc'[q] \in Tracked => own'[q] = own[q]
          /\ (pc'[q] = pc[q] \/ (pc[q] = "install" /\ pc'[q] = "fence"))
    BY <1>12, <1>t, ProcsAreDistinct DEF TakeOperation, Capture, Tracked, Holding, Work, Procs,
       TypeOK, Goto
  <2> QED BY <2>1, <2>2, <2>3, <2>4 DEF Quiet
<1>13. ASSUME NEW c \in Callbacks, FailConsumed(c) PROVE Quiet \/ Loud
  <2>1. db'.selected = db.selected /\ (db.fenced => db'.fenced)
    <3>1. "failed" \in FlowStates /\ own[c].flow \in Flows
      BY <1>13, <1>t DEF FlowStates, Terminal, ServesFlow, FailConsumed
    <3>2. db' = db \/ db' = SetFlow(db, own[c].flow, "failed")
      BY <1>13 DEF FailConsumed, Tx
    <3> QED BY <1>t, <3>1, <3>2, DbType, SetFlowType
  <2>2. \A h \in Flows : db.flows[h].state = "succeeded" => db'.flows[h].state = "succeeded"
    BY <1>s
  <2>3. gens' = gens /\ spent' = spent
    BY <1>13 DEF FailConsumed, Tx, issuer
  <2>4. \A q \in Work : pc'[q] \in Tracked => own'[q] = own[q] /\ pc'[q] = pc[q]
    BY <1>13, <1>t, ProcsAreDistinct DEF FailConsumed, Tx, Capture, Tracked, Holding, Work,
       Procs, TypeOK, Goto
  <2> QED BY <2>1, <2>2, <2>3, <2>4 DEF Quiet
<1>14. ASSUME NEW c \in Callbacks, Leave(c) PROVE Quiet \/ Loud
  <2>1. db'.selected = db.selected /\ (db.fenced => db'.fenced)
    BY <1>14 DEF Leave
  <2>2. \A h \in Flows : db.flows[h].state = "succeeded" => db'.flows[h].state = "succeeded"
    BY <1>s
  <2>3. gens' = gens /\ spent' = spent
    BY <1>14 DEF Leave, issuer
  <2>4. \A q \in Work : pc'[q] \in Tracked => own'[q] = own[q] /\ pc'[q] = pc[q]
    BY <1>14, <1>t, ProcsAreDistinct DEF Leave, Capture, Tracked, Holding, Work, Procs, TypeOK,
       Goto
  <2> QED BY <2>1, <2>2, <2>3, <2>4 DEF Quiet
<1>15. ASSUME NEW r \in Refreshers, RunRefresh(r) PROVE Quiet \/ Loud
  <2>1. db'.selected = db.selected /\ (db.fenced => db'.fenced)
    BY <1>15 DEF RunRefresh
  <2>2. \A h \in Flows : db.flows[h].state = "succeeded" => db'.flows[h].state = "succeeded"
    BY <1>s
  <2>3. gens' = gens /\ spent' = spent
    BY <1>15 DEF RunRefresh, issuer
  <2>4. \A q \in Work : pc'[q] \in Tracked => own'[q] = own[q] /\ pc'[q] = pc[q]
    BY <1>15, <1>t, ProcsAreDistinct DEF RunRefresh, Capture, Tracked, Holding, Work, Procs,
       TypeOK, Goto
  <2> QED BY <2>1, <2>2, <2>3, <2>4 DEF Quiet
<1>16. ASSUME NEW r \in Refreshers, Joined(r) PROVE Quiet \/ Loud
  <2>1. db'.selected = db.selected /\ (db.fenced => db'.fenced)
    BY <1>16 DEF Joined
  <2>2. \A h \in Flows : db.flows[h].state = "succeeded" => db'.flows[h].state = "succeeded"
    BY <1>s
  <2>3. gens' = gens /\ spent' = spent
    BY <1>16 DEF Joined, issuer
  <2>4. \A q \in Work : pc'[q] \in Tracked => own'[q] = own[q] /\ pc'[q] = pc[q]
    BY <1>16, <1>t, ProcsAreDistinct DEF Joined, Capture, Tracked, Holding, Work, Procs,
       TypeOK, Goto
  <2> QED BY <2>1, <2>2, <2>3, <2>4 DEF Quiet
<1>17. ASSUME NEW r \in Refreshers, PrepareRefresh(r) PROVE Quiet \/ Loud
  <2>1. db'.selected = db.selected /\ (db.fenced => db'.fenced)
    BY <1>17 DEF PrepareRefresh
  <2>2. \A h \in Flows : db.flows[h].state = "succeeded" => db'.flows[h].state = "succeeded"
    BY <1>s
  <2>3. gens' = gens /\ spent' = spent
    BY <1>17 DEF PrepareRefresh, issuer
  <2>4. \A q \in Work : pc'[q] \in Tracked => own'[q] = own[q] /\ pc'[q] = pc[q]
    BY <1>17, <1>t, ProcsAreDistinct DEF PrepareRefresh, Capture, Tracked, Holding, Work,
       Procs, TypeOK, Goto
  <2> QED BY <2>1, <2>2, <2>3, <2>4 DEF Quiet
<1>18. ASSUME NEW r \in Refreshers, ReadTokens(r) PROVE Quiet \/ Loud
  BY <1>18 DEF Loud, InstallStep
<1>19. ASSUME NEW r \in Refreshers, Arm(r) PROVE Quiet \/ Loud
  BY <1>19 DEF Loud, InstallStep
<1>20. ASSUME NEW r \in Refreshers, SendRefresh(r) PROVE Quiet \/ Loud
  BY <1>20 DEF Loud, InstallStep
<1>21. ASSUME NEW r \in Refreshers, Disarm(r) PROVE Quiet \/ Loud
  BY <1>21 DEF Loud, InstallStep
<1>22. ASSUME NEW r \in Refreshers, EndRefresh(r) PROVE Quiet \/ Loud
  <2>1. db'.selected = db.selected /\ (db.fenced => db'.fenced)
    BY <1>22 DEF EndRefresh
  <2>2. \A h \in Flows : db.flows[h].state = "succeeded" => db'.flows[h].state = "succeeded"
    BY <1>s
  <2>3. gens' = gens /\ spent' = spent
    BY <1>22 DEF EndRefresh, issuer
  <2>4. \A q \in Work : pc'[q] \in Tracked => own'[q] = own[q] /\ pc'[q] = pc[q]
    BY <1>22, <1>t, ProcsAreDistinct DEF EndRefresh, Capture, Tracked, Holding, Work, Procs,
       TypeOK, Goto
  <2> QED BY <2>1, <2>2, <2>3, <2>4 DEF Quiet
<1>23. ASSUME NEW p \in Work, FenceAuthority(p) PROVE Quiet \/ Loud
  BY <1>23 DEF Loud, InstallStep
<1>24. ASSUME NEW p \in Work, CommitTokens(p) PROVE Quiet \/ Loud
  BY <1>24 DEF Loud, InstallStep
<1>25. ASSUME NEW p \in Work, ActivateTokens(p) PROVE Quiet \/ Loud
  BY <1>25 DEF Loud, InstallStep
<1>26. ASSUME NEW p \in Work, Invalidate(p) PROVE Quiet \/ Loud
  BY <1>26 DEF Loud, InstallStep
<1>27. ASSUME NEW f \in Flows, Cancel(f) PROVE Quiet \/ Loud
  <2>1. db'.selected = db.selected /\ (db.fenced => db'.fenced)
    <3>1. "cancelled" \in FlowStates /\ f \in Flows
      BY <1>27, <1>t DEF FlowStates, Terminal, ServesFlow, Cancel
    <3>2. db' = db \/ db' = SetFlow(db, f, "cancelled")
      BY <1>27 DEF Cancel, Once
    <3> QED BY <1>t, <3>1, <3>2, DbType, SetFlowType
  <2>2. \A h \in Flows : db.flows[h].state = "succeeded" => db'.flows[h].state = "succeeded"
    BY <1>s
  <2>3. gens' = gens /\ spent' = spent
    BY <1>27 DEF Cancel, Once, issuer
  <2>4. \A q \in Work : pc'[q] \in Tracked => own'[q] = own[q] /\ pc'[q] = pc[q]
    BY <1>27, <1>t, ProcsAreDistinct DEF Cancel, Once, Capture, Tracked, Holding, Work, Procs,
       TypeOK, Goto
  <2> QED BY <2>1, <2>2, <2>3, <2>4 DEF Quiet
<1>28. ASSUME NEW f \in Flows, Elapse(f) PROVE Quiet \/ Loud
  <2>1. db'.selected = db.selected /\ (db.fenced => db'.fenced)
    BY <1>28 DEF Elapse
  <2>2. \A h \in Flows : db.flows[h].state = "succeeded" => db'.flows[h].state = "succeeded"
    BY <1>s
  <2>3. gens' = gens /\ spent' = spent
    BY <1>28 DEF Elapse, issuer
  <2>4. \A q \in Work : pc'[q] \in Tracked => own'[q] = own[q] /\ pc'[q] = pc[q]
    BY <1>28, <1>t, ProcsAreDistinct DEF Elapse, Capture, Tracked, Holding, Work, Procs,
       TypeOK, Goto
  <2> QED BY <2>1, <2>2, <2>3, <2>4 DEF Quiet
<1>29. ASSUME NEW f \in Flows, ListenerTimeout(f) PROVE Quiet \/ Loud
  <2>1. db'.selected = db.selected /\ (db.fenced => db'.fenced)
    BY <1>29 DEF ListenerTimeout
  <2>2. \A h \in Flows : db.flows[h].state = "succeeded" => db'.flows[h].state = "succeeded"
    BY <1>s
  <2>3. gens' = gens /\ spent' = spent
    BY <1>29 DEF ListenerTimeout, issuer
  <2>4. \A q \in Work : pc'[q] \in Tracked => own'[q] = own[q] /\ pc'[q] = pc[q]
    BY <1>29, <1>t, ProcsAreDistinct DEF ListenerTimeout, Capture, Tracked, Holding, Work,
       Procs, TypeOK, Goto
  <2> QED BY <2>1, <2>2, <2>3, <2>4 DEF Quiet
<1>30. ASSUME Expire PROVE Quiet \/ Loud
  <2>1. db'.selected = db.selected /\ (db.fenced => db'.fenced)
    <3>1. "expired" \in FlowStates
      BY DEF FlowStates, Terminal
    <3>2. PICK S \in SUBSET Flows : db' = SetFlows(db, S, "expired")
      BY <1>30, <1>t DEF Expire, Once, TypeOK
    <3>3. db \in Databases
      BY <1>t, DbType
    <3>5. S \in SUBSET Flows
      BY <3>2
    <3>4. SetFlows(db, S, "expired").selected = db.selected /\ SetFlows(db, S, "expired").fenced = db.fenced
      BY <3>1, <3>3, <3>5, SetFlowsType
    <3> QED BY <3>2, <3>4
  <2>2. \A h \in Flows : db.flows[h].state = "succeeded" => db'.flows[h].state = "succeeded"
    BY <1>s
  <2>3. gens' = gens /\ spent' = spent
    BY <1>30 DEF Expire, Once, issuer
  <2>4. \A q \in Work : pc'[q] \in Tracked => own'[q] = own[q] /\ pc'[q] = pc[q]
    BY <1>30, <1>t, ProcsAreDistinct DEF Expire, Once, Capture, Tracked, Holding, Work, Procs,
       TypeOK, Goto
  <2> QED BY <2>1, <2>2, <2>3, <2>4 DEF Quiet
<1>31. ASSUME NEW c \in Callbacks, NEW f \in Flows, Arrive(c, f) PROVE Quiet \/ Loud
  <2>1. db'.selected = db.selected /\ (db.fenced => db'.fenced)
    BY <1>31 DEF Arrive
  <2>2. \A h \in Flows : db.flows[h].state = "succeeded" => db'.flows[h].state = "succeeded"
    BY <1>s
  <2>3. gens' = gens /\ spent' = spent
    BY <1>31 DEF Arrive, issuer
  <2>4. \A q \in Work : pc'[q] \in Tracked => own'[q] = own[q] /\ pc'[q] = pc[q]
    BY <1>31, <1>t, ProcsAreDistinct DEF Arrive, Capture, Tracked, Holding, Work, Procs,
       TypeOK, Goto
  <2> QED BY <2>1, <2>2, <2>3, <2>4 DEF Quiet
<1>32. ASSUME NEW r \in Refreshers, Challenge(r) PROVE Quiet \/ Loud
  <2>1. db'.selected = db.selected /\ (db.fenced => db'.fenced)
    BY <1>32 DEF Challenge
  <2>2. \A h \in Flows : db.flows[h].state = "succeeded" => db'.flows[h].state = "succeeded"
    BY <1>s
  <2>3. gens' = gens /\ spent' = spent
    BY <1>32 DEF Challenge, issuer
  <2>4. \A q \in Work : pc'[q] \in Tracked => own'[q] = own[q] /\ pc'[q] = pc[q]
    BY <1>32, <1>t, ProcsAreDistinct DEF Challenge, Capture, Tracked, Holding, Work, Procs,
       TypeOK, Goto
  <2> QED BY <2>1, <2>2, <2>3, <2>4 DEF Quiet
<1>33. ASSUME NEW pin \in Issuers \cup {None}, NEW deleted \in BOOLEAN, Edit(pin, deleted)
      PROVE  Quiet \/ Loud
  <2>1. db'.selected = db.selected /\ (db.fenced => db'.fenced)
    <3>1. "superseded" \in FlowStates
      BY DEF FlowStates, Terminal
    <3>2. PICK S \in SUBSET Flows : \E k : db' = [SetFlows(db, S, "superseded")
                    EXCEPT !.desired = @ + 1, !.pin = pin, !.deleted = deleted, !.registration = k]
      BY <1>33 DEF Edit, Once
    <3>3. /\ SetFlows(db, S, "superseded") \in Databases
          /\ SetFlows(db, S, "superseded").selected = db.selected
          /\ SetFlows(db, S, "superseded").fenced = db.fenced
      <4>1. db \in Databases
        BY <1>t, DbType
      <4> QED BY <3>1, <3>2, <4>1, SetFlowsType
    <3> QED BY <3>2, <3>3 DEF Databases
  <2>2. \A h \in Flows : db.flows[h].state = "succeeded" => db'.flows[h].state = "succeeded"
    BY <1>s
  <2>3. gens' = gens /\ spent' = spent
    BY <1>33 DEF Edit, Once, issuer
  <2>4. \A q \in Work : pc'[q] \in Tracked => own'[q] = own[q] /\ pc'[q] = pc[q]
    BY <1>33, <1>t, ProcsAreDistinct DEF Edit, Once, Capture, Tracked, Holding, Work, Procs,
       TypeOK, Goto
  <2> QED BY <2>1, <2>2, <2>3, <2>4 DEF Quiet
<1>34. ASSUME Disconnect PROVE Quiet \/ Loud
  BY <1>34 DEF Loud, InstallStep
<1>35. ASSUME Lapse PROVE Quiet \/ Loud
  <2>1. db'.selected = db.selected /\ (db.fenced => db'.fenced)
    BY <1>35, <1>t, DbType DEF Lapse, Databases
  <2>2. \A h \in Flows : db.flows[h].state = "succeeded" => db'.flows[h].state = "succeeded"
    BY <1>s
  <2>3. gens' = gens /\ spent' = spent
    BY <1>35 DEF Lapse, issuer
  <2>4. \A q \in Work : pc'[q] \in Tracked => own'[q] = own[q] /\ pc'[q] = pc[q]
    BY <1>35, <1>t, ProcsAreDistinct DEF Lapse, Capture, Tracked, Holding, Work, Procs, TypeOK,
       Goto
  <2> QED BY <2>1, <2>2, <2>3, <2>4 DEF Quiet
<1>36. ASSUME Shutdown PROVE Quiet \/ Loud
  <2>1. db'.selected = db.selected /\ (db.fenced => db'.fenced)
    BY <1>36 DEF Shutdown
  <2>2. \A h \in Flows : db.flows[h].state = "succeeded" => db'.flows[h].state = "succeeded"
    BY <1>s
  <2>3. gens' = gens /\ spent' = spent
    BY <1>36 DEF Shutdown, issuer
  <2>4. \A q \in Work : pc'[q] \in Tracked => own'[q] = own[q] /\ pc'[q] = pc[q]
    BY <1>36, <1>t, ProcsAreDistinct DEF Shutdown, Capture, Tracked, Holding, Work, Procs,
       TypeOK, Goto
  <2> QED BY <2>1, <2>2, <2>3, <2>4 DEF Quiet
<1>37. ASSUME Crash PROVE Quiet \/ Loud
  <2>1. db'.selected = db.selected /\ (db.fenced => db'.fenced)
    <3>1. "interrupted" \in FlowStates
      BY DEF FlowStates, Terminal
    <3>2. PICK S \in SUBSET Flows : db' = SetFlows(db, S, "interrupted")
      BY <1>37, <1>t DEF Crash, TypeOK
    <3>3. db \in Databases
      BY <1>t, DbType
    <3>5. S \in SUBSET Flows
      BY <3>2
    <3>4. SetFlows(db, S, "interrupted").selected = db.selected /\ SetFlows(db, S, "interrupted").fenced = db.fenced
      BY <3>1, <3>3, <3>5, SetFlowsType
    <3> QED BY <3>2, <3>4
  <2>2. \A h \in Flows : db.flows[h].state = "succeeded" => db'.flows[h].state = "succeeded"
    BY <1>s
  <2>3. gens' = gens /\ spent' = spent
    BY <1>37 DEF Crash, issuer
  <2>4. \A q \in Work : pc'[q] \in Tracked => own'[q] = own[q] /\ pc'[q] = pc[q]
    BY <1>37, <1>t, ProcsAreDistinct DEF Crash, Capture, Tracked, Holding, Work, Procs, TypeOK,
       Goto
  <2> QED BY <2>1, <2>2, <2>3, <2>4 DEF Quiet
<1>38. ASSUME UNCHANGED vars PROVE Quiet \/ Loud
  <2>1. db'.selected = db.selected /\ (db.fenced => db'.fenced)
    BY <1>38 DEF vars
  <2>2. \A h \in Flows : db.flows[h].state = "succeeded" => db'.flows[h].state = "succeeded"
    BY <1>s
  <2>3. gens' = gens /\ spent' = spent
    BY <1>38 DEF vars, issuer
  <2>4. \A q \in Work : pc'[q] \in Tracked => own'[q] = own[q] /\ pc'[q] = pc[q]
    BY <1>38, <1>t, ProcsAreDistinct DEF vars, Capture, Tracked, Holding, Work, Procs, TypeOK,
       Goto
  <2> QED BY <2>1, <2>2, <2>3, <2>4 DEF Quiet
<1>39. ASSUME Supersede PROVE Quiet \/ Loud
  <2>1. db'.selected = db.selected /\ (db.fenced => db'.fenced)
    <3>1. "superseded" \in FlowStates
      BY DEF FlowStates, Terminal
    <3>2. PICK S \in SUBSET Flows : db' = SetFlows(db, S, "superseded")
      BY <1>39, <1>t DEF Supersede, Once, TypeOK
    <3>3. db \in Databases
      BY <1>t, DbType
    <3>5. S \in SUBSET Flows
      BY <3>2
    <3>4. SetFlows(db, S, "superseded").selected = db.selected /\ SetFlows(db, S, "superseded").fenced = db.fenced
      BY <3>1, <3>3, <3>5, SetFlowsType
    <3> QED BY <3>2, <3>4
  <2>2. \A h \in Flows : db.flows[h].state = "succeeded" => db'.flows[h].state = "succeeded"
    BY <1>s
  <2>3. gens' = gens /\ spent' = spent
    BY <1>39 DEF Supersede, Once, issuer
  <2>4. \A q \in Work : pc'[q] \in Tracked => own'[q] = own[q] /\ pc'[q] = pc[q]
    BY <1>39, <1>t, ProcsAreDistinct DEF Supersede, Once, Capture, Tracked, Holding, Work, Procs,
       TypeOK, Goto
  <2> QED BY <2>1, <2>2, <2>3, <2>4 DEF Quiet
<1> QED BY <1>1, <1>2, <1>3, <1>4, <1>5, <1>6, <1>7, <1>8, <1>9, <1>10, <1>11, <1>12, <1>13,
           <1>14, <1>15, <1>16, <1>17, <1>18, <1>19, <1>20, <1>21, <1>22, <1>23, <1>24, <1>25,
           <1>26, <1>27, <1>28, <1>29, <1>30, <1>31, <1>32, <1>33, <1>34, <1>35, <1>36, <1>37,
           <1>38, <1>39
     DEF Next, FlowStep, CallbackStep, RefreshStep, InstallStep, Environment

-----------------------------------------------------------------------------
(* Steps that change the tokens.                                           *)

\* Beside the holder of the permit others only hold what they have received,
\* and it stays theirs when the holder neither spends, selects nor takes it.
LEMMA OthersStep ==
  ASSUME OAuthInv, NEW p \in Work, pc[p] \in Permitted,
         \A q \in Work : q # p => pc'[q] = pc[q] /\ own'[q] = own[q],
         Len(gens') \in Nat, Len(gens) <= Len(gens'),
         \A g \in 1 .. Len(gens) : gens'[g] = gens[g],
         \A f \in Flows : db.flows[f].state = "succeeded" => db'.flows[f].state = "succeeded",
         \A q \in Work : q # p /\ pc[q] = "install" =>
           /\ own[q].generation \notin spent' /\ own[q].generation # db'.selected
           /\ pc'[p] \in Holding => own'[p].generation # own[q].generation
  PROVE  \A q \in Work : q # p => Unsent(q)' /\ Fresh(q)' /\ Committed(q)' /\ Lineage(q)'
<1> SUFFICES ASSUME NEW q \in Work, q # p PROVE Unsent(q)' /\ Fresh(q)' /\ Committed(q)' /\ Lineage(q)'
  OBVIOUS
<1>1. pc[q] \notin Permitted /\ \A s \in Work : s # p => pc[s] \notin Permitted
  BY DEF OAuthInv, PermitHeld
<1>2. pc'[q] = pc[q] /\ own'[q] = own[q]
  OBVIOUS
<1>3. Unsent(q)' /\ Committed(q)'
  BY <1>1, <1>2 DEF Unsent, Committed, Permitted
<1>4. Len(gens) \in Nat
  BY DEF OAuthInv, TypeOK
<1>5. pc[q] \in Holding => /\ pc[q] = "install" /\ own[q].generation \in 1 .. Len(gens)
                           /\ own[q].generation \in 1 .. Len(gens')
  BY <1>1, <1>4 DEF OAuthInv, Fresh, Holding, Permitted
<1>6. \A s \in Work : s # p /\ s # q /\ pc'[s] \in Holding /\ pc[q] \in Holding =>
                        own'[s].generation # own[q].generation
  BY DEF OAuthInv, Fresh
<1>7. Fresh(q)'
  BY <1>2, <1>5, <1>6 DEF Fresh
<1>8. Lineage(q)'
  <2>1. pc[q] # "activate"
    BY <1>1 DEF Permitted
  <2>2. CASE pc[q] \in Holding /\ q \notin Callbacks
    <3>1. Agreed(own[q].generation)
      BY <2>2 DEF OAuthInv, Lineage
    <3>2. TypeOK /\ gens'[own[q].generation] = gens[own[q].generation]
      BY <1>5, <2>2 DEF OAuthInv
    <3>3. Agreed(own[q].generation)'
      BY <1>2, <1>5, <2>2, <3>1, <3>2, AgreedStays
    <3> QED BY <1>2, <2>2, <3>3 DEF Lineage
  <2>3. CASE pc[q] \in Holding /\ q \in Callbacks
    BY <1>2, <1>5, <2>3 DEF OAuthInv, Lineage
  <2> QED BY <1>2, <2>1, <2>2, <2>3 DEF Lineage
<1> QED BY <1>3, <1>7, <1>8

\* The parts, from those of the holder and of the others.
LEMMA Together ==
  ASSUME NEW p \in Work, SpentIsFenced', ReadableAgrees',
         Unsent(p)' /\ Fresh(p)' /\ Committed(p)' /\ Lineage(p)',
         \A q \in Work : q # p => Unsent(q)' /\ Fresh(q)' /\ Committed(q)' /\ Lineage(q)'
  PROVE  TokenParts'
BY DEF TokenParts

\* Types and parts of the invariant, for the lemmas below.
LEMMA Parts ==
  ASSUME OAuthInv
  PROVE  /\ TypeOK /\ db \in Databases /\ Len(gens) \in Nat
         /\ db.selected # 0 => db.selected \in 1 .. Len(gens)
         /\ SpentIsFenced /\ ReadableAgrees /\ PermitHeld /\ OneActive /\ ServesFlow
         /\ \A p \in Work : Unsent(p) /\ Fresh(p) /\ Committed(p) /\ Lineage(p)
<1>1. TypeOK
  BY DEF OAuthInv
<1>2. SpentIsFenced
  BY DEF OAuthInv
<1> QED BY <1>1, <1>2, DbType DEF OAuthInv, TypeOK, SpentIsFenced

\* Reading the tokens: what is read is unspent and agreed on.
LEMMA ReadTokensStep ==
  ASSUME OAuthInv, NEW r \in Refreshers, ReadTokens(r)
  PROVE  TokenParts' /\ db' = db
<1> USE Parts
<1>1. db' = db /\ gens' = gens /\ spent' = spent
  BY DEF ReadTokens, issuer
<1>2. r \in Work /\ r \in Procs
  BY DEF Work, Procs
<1>3. pc[r] = "read" /\ \A q \in Work : q # r => pc'[q] = pc[q] /\ own'[q] = own[q]
  BY <1>2 DEF ReadTokens, Goto, Capture, TypeOK, Work, Procs
<1>4. pc'[r] \in {"arm", "ending"}
  BY <1>2 DEF ReadTokens, Goto, TypeOK
<1>5. pc'[r] = "arm" => ~db.fenced /\ db.selected # 0 /\ own'[r].generation = db.selected
  <2>1. ASSUME pc'[r] = "arm" PROVE ReadActive(db) # 0 /\ own'[r].generation = ReadActive(db)
    <3>1. own[r] \in Captures
      BY <1>2 DEF TypeOK
    <3>2. own'[r] = [own[r] EXCEPT !.generation = ReadActive(db), !.scopes = gens[ReadActive(db)].scopes]
      BY <1>2, <2>1 DEF ReadTokens, Goto, Capture, TypeOK
    <3>3. ReadActive(db) # 0
      BY <1>2, <2>1 DEF ReadTokens, Goto, TypeOK
    <3> QED BY <3>1, <3>2, <3>3 DEF Captures
  <2> QED BY <2>1, DbType DEF ReadActive
<1>6. Unsent(r)'
  BY <1>1, <1>4, <1>5 DEF Unsent, SpentIsFenced, ReadableAgrees, Agreed
<1>7. Fresh(r)' /\ Committed(r)' /\ Lineage(r)'
  BY <1>4 DEF Fresh, Committed, Lineage, Holding
<1>8. SpentIsFenced' /\ ReadableAgrees'
  BY <1>1 DEF SpentIsFenced, ReadableAgrees, Agreed
<1>9. \A q \in Work : q # r /\ pc[q] = "install" =>
        own[q].generation \notin spent' /\ own[q].generation # db'.selected
  BY <1>1 DEF Fresh, Holding
<1>10. \A q \in Work : q # r => Unsent(q)' /\ Fresh(q)' /\ Committed(q)' /\ Lineage(q)'
  BY <1>1, <1>2, <1>3, <1>4, <1>9, OthersStep DEF Permitted, Holding
<1> QED BY <1>1, <1>2, <1>6, <1>7, <1>8, <1>10, Together

\* Arming: the fence goes up before the request may leave.
LEMMA ArmStep ==
  ASSUME OAuthInv, NEW r \in Refreshers, Arm(r)
  PROVE  TokenParts' /\ (db.fenced => db'.fenced)
<1> USE Parts
<1>1. gens' = gens /\ spent' = spent /\ own' = own
  BY DEF Arm, issuer
<1>2. r \in Work /\ r \in Procs
  BY DEF Work, Procs
<1>3. pc[r] = "arm" /\ \A q \in Work : q # r => pc'[q] = pc[q] /\ own'[q] = own[q]
  BY <1>1, <1>2 DEF Arm, Tx, Goto, TypeOK, Work, Procs
<1>4. db' = db \/ db' = [db EXCEPT !.fenced = TRUE]
  BY DEF Arm, Tx
<1>5. db'.selected = db.selected /\ db'.flows = db.flows /\ (db.fenced => db'.fenced)
  BY <1>4 DEF Databases
<1>6. pc'[r] = "ending" \/ (pc'[r] = "handoff" /\ db'.fenced)
  BY <1>2 DEF Arm, Tx, Goto, TypeOK, Databases
<1>7. \A g \in Nat : Agreed(g) <=> Agreed(g)'
  BY <1>1, <1>5 DEF Agreed
<1>8. db.selected \in Nat
  BY DbType
<1>9. Unsent(r)'
  BY <1>1, <1>2, <1>3, <1>5, <1>6, <1>7, <1>8 DEF Unsent
<1>10. Fresh(r)' /\ Committed(r)' /\ Lineage(r)'
  BY <1>6 DEF Fresh, Committed, Lineage, Holding
<1>11. SpentIsFenced' /\ ReadableAgrees'
  BY <1>1, <1>5, <1>7, <1>8 DEF SpentIsFenced, ReadableAgrees
<1>12. \A q \in Work : q # r /\ pc[q] = "install" =>
        own[q].generation \notin spent' /\ own[q].generation # db'.selected
  BY <1>1, <1>5 DEF Fresh, Holding
<1>13. \A q \in Work : q # r => Unsent(q)' /\ Fresh(q)' /\ Committed(q)' /\ Lineage(q)'
  BY <1>1, <1>2, <1>3, <1>5, <1>6, <1>12, OthersStep DEF Permitted, Holding
<1> QED BY <1>2, <1>5, <1>9, <1>10, <1>11, <1>13, Together

\* Disarming: the request never left, so that the generation may be read again.
LEMMA DisarmStep ==
  ASSUME OAuthInv, NEW r \in Refreshers, Disarm(r)
  PROVE  TokenParts' /\ (db.fenced /\ ~db'.fenced => ~Exchanging(db) /\ db'.flows = db.flows)
<1> USE Parts
<1>1. gens' = gens /\ spent' = spent /\ own' = own
  BY DEF Disarm, issuer
<1>2. r \in Work /\ r \in Procs
  BY DEF Work, Procs
<1>3. pc[r] = "disarm" /\ \A q \in Work : q # r => pc'[q] = pc[q] /\ own'[q] = own[q]
  BY <1>1, <1>2 DEF Disarm, Tx, Goto, TypeOK, Work, Procs
<1>4. db' = db \/ (db' = [db EXCEPT !.fenced = FALSE] /\ ~Exchanging(db))
  BY DEF Disarm, Tx, RefreshCurrent
<1>5. db'.selected = db.selected /\ db'.flows = db.flows
  BY <1>4 DEF Databases
<1>6. pc'[r] = "ending"
  BY <1>2 DEF Disarm, Tx, Goto, TypeOK
<1>7. \A g \in Nat : Agreed(g) <=> Agreed(g)'
  BY <1>1, <1>5 DEF Agreed
<1>8. db.selected \in Nat /\ db.selected \notin spent /\ Agreed(db.selected)
  BY <1>2, <1>3, DbType DEF Unsent
<1>9. Unsent(r)' /\ Fresh(r)' /\ Committed(r)' /\ Lineage(r)'
  BY <1>6 DEF Unsent, Fresh, Committed, Lineage, Holding
<1>10. SpentIsFenced' /\ ReadableAgrees'
  BY <1>1, <1>5, <1>7, <1>8 DEF SpentIsFenced, ReadableAgrees
<1>11. \A q \in Work : q # r /\ pc[q] = "install" =>
        own[q].generation \notin spent' /\ own[q].generation # db'.selected
  BY <1>1, <1>5 DEF Fresh, Holding
<1>12. \A q \in Work : q # r => Unsent(q)' /\ Fresh(q)' /\ Committed(q)' /\ Lineage(q)'
  BY <1>1, <1>2, <1>3, <1>5, <1>6, <1>11, OthersStep DEF Permitted, Holding
<1> QED BY <1>2, <1>4, <1>5, <1>9, <1>10, <1>12, Together

\* What Issued appends is new, and what was issued stays.
LEMMA IssuedGens ==
  ASSUME OAuthInv, NEW p \in Work, NEW registration, NEW flow, Issued(p, registration, flow)
  PROVE  /\ Len(gens') = Len(gens) + 1
         /\ \A g \in 1 .. Len(gens) : gens'[g] = gens[g]
         /\ gens'[Len(gens) + 1].flow = flow
         /\ own'[p].generation = Len(gens) + 1 /\ own'[p].flow = own[p].flow
         /\ \A q \in Procs : q # p => own'[q] = own[q]
<1>1. TypeOK /\ p \in Procs
  BY Parts DEF Procs
<1>2. PICK scopes : gens' = Append(gens, Generation(own[p].issuer, registration, scopes, flow))
  BY DEF Issued
<1>3. gens \in Seq(Generations) /\ own[p] \in Captures
  BY <1>1 DEF TypeOK
<1>4. Generation(own[p].issuer, registration, scopes, flow).flow = flow
  BY DEF Generation
<1>5. own' = [own EXCEPT ![p] = [own[p] EXCEPT !.generation = Len(gens) + 1]]
  BY DEF Issued, Capture
<1>6. own'[p] = [own[p] EXCEPT !.generation = Len(gens) + 1]
  BY <1>1, <1>5 DEF TypeOK
<1>7. own'[p].generation = Len(gens) + 1 /\ own'[p].flow = own[p].flow
  BY <1>3, <1>6 DEF Captures
<1>8. \A q \in Procs : q # p => own'[q] = own[q]
  BY <1>1, <1>5 DEF TypeOK
<1>9. /\ Len(gens') = Len(gens) + 1 /\ \A g \in 1 .. Len(gens) : gens'[g] = gens[g]
      /\ gens'[Len(gens) + 1] = Generation(own[p].issuer, registration, scopes, flow)
  BY <1>2, <1>3
<1> QED BY <1>4, <1>7, <1>8, <1>9

\* The code is exchanged: a new generation, known to its callback.
LEMMA SendCodeStep ==
  ASSUME OAuthInv, NEW c \in Callbacks, SendCode(c)
  PROVE  TokenParts' /\ db' = db
<1> USE Parts
<1>1. db' = db /\ spent' = spent /\ c \in Work /\ c \in Procs /\ pc[c] = "sending"
  BY DEF SendCode, Work, Procs
<1>2. \A q \in Work : q # c => pc'[q] = pc[q]
  BY <1>1 DEF SendCode, Goto, TypeOK, Work, Procs
<1>3. CASE gens' = gens /\ own' = own /\ pc'[c] = "failing"
  <2>1. Quiet
    BY <1>1, <1>2, <1>3 DEF Quiet, Tracked, Holding
  <2> QED BY <1>1, <2>1, QuietStep
<1>4. CASE Issued(c, own[c].fence.registration, own[c].flow) /\ pc'[c] = "install"
  <2>1. /\ Len(gens') = Len(gens) + 1 /\ \A g \in 1 .. Len(gens) : gens'[g] = gens[g]
        /\ gens'[Len(gens) + 1].flow = own[c].flow
        /\ own'[c].generation = Len(gens) + 1 /\ own'[c].flow = own[c].flow
        /\ \A q \in Work : q # c => own'[q] = own[q]
    BY <1>1, <1>4, IssuedGens DEF Procs
  <2>2. SpentIsFenced'
    BY <1>1, <2>1 DEF SpentIsFenced
  <2>3. \A g \in 1 .. Len(gens) : Agreed(g) => Agreed(g)'
    BY <1>1, <2>1 DEF Agreed
  <2>4. ReadableAgrees'
    BY <1>1, <2>3 DEF ReadableAgrees
  <2>5. ASSUME NEW q \in Work, q # c PROVE Unsent(q)' /\ Committed(q)'
    BY <1>1, <1>2, <2>1, <2>3, <2>5 DEF Unsent, Committed
  <2>6. Unsent(c)' /\ Committed(c)'
    BY <1>4 DEF Unsent, Committed
  <2>7. \A q \in Work : q # c /\ pc'[q] \in Holding => own'[q].generation \in 1 .. Len(gens)
    BY <1>2, <2>1 DEF Fresh
  <2>8. Fresh(c)'
    BY <1>1, <1>4, <2>1, <2>7 DEF Fresh, SpentIsFenced
  <2>9. ASSUME NEW q \in Work, q # c PROVE Fresh(q)'
    BY <1>1, <1>2, <2>1, <2>7, <2>9 DEF Fresh
  <2>10. Lineage(c)'
    BY <2>1 DEF Lineage
  <2>11. ASSUME NEW q \in Work, q # c PROVE Lineage(q)'
    <3>1. pc'[q] \in Holding \cup {"activate"} => own[q].generation \in 1 .. Len(gens)
      BY <1>1, <1>2, <2>11 DEF Fresh, Committed
    <3> QED BY <1>2, <2>1, <2>3, <2>11, <3>1 DEF Lineage
  <2> QED BY <1>1, <2>2, <2>4, <2>5, <2>6, <2>8, <2>9, <2>10, <2>11 DEF TokenParts
<1> QED BY <1>1, <1>3, <1>4 DEF SendCode, Goto, TypeOK

\* The refresh token leaves, behind the fence; what comes back is new and agreed on.
LEMMA SendRefreshStep ==
  ASSUME OAuthInv, NEW r \in Refreshers, SendRefresh(r)
  PROVE  TokenParts' /\ db' = db
<1> USE Parts
<1> DEFINE g == own[r].generation
<1>1. db' = db /\ r \in Work /\ r \in Procs /\ pc[r] = "handoff"
  BY DEF SendRefresh, Work, Procs
<1>2. /\ g = db.selected /\ g \in 1 .. Len(gens) /\ g \notin spent /\ Agreed(g) /\ db.fenced
  BY <1>1 DEF Unsent
<1>3. \A q \in Work : q # r => pc'[q] = pc[q]
  BY <1>1 DEF SendRefresh, Goto, TypeOK, Work, Procs
<1>4. \A q \in Work : q # r /\ pc[q] = "install" =>
        own[q].generation \in 1 .. Len(gens) /\ own[q].generation \notin spent \cup {g}
        /\ own[q].generation # db.selected
  BY <1>2 DEF Fresh, Holding
<1>5. ~db'.fenced => FALSE
  BY <1>1, <1>2
<1>6. CASE pc'[r] = "disarm" /\ gens' = gens /\ spent' = spent /\ own' = own
  <2>1. \A x \in Nat : Agreed(x) => Agreed(x)'
    BY <1>1, <1>6 DEF Agreed
  <2>2. Unsent(r)'
    BY <1>1, <1>2, <1>6, <2>1 DEF Unsent
  <2>3. Fresh(r)' /\ Committed(r)' /\ Lineage(r)'
    BY <1>6 DEF Fresh, Committed, Lineage, Holding
  <2>4. SpentIsFenced' /\ ReadableAgrees'
    BY <1>1, <1>5, <1>6 DEF SpentIsFenced, ReadableAgrees
  <2>5. \A q \in Work : q # r => Unsent(q)' /\ Fresh(q)' /\ Committed(q)' /\ Lineage(q)'
    BY <1>1, <1>3, <1>4, <1>6, OthersStep DEF Permitted, Holding
  <2> QED BY <1>1, <2>2, <2>3, <2>4, <2>5, Together
<1>7. CASE pc'[r] = "retract" /\ gens' = gens /\ spent' = spent \cup {g} /\ own' = own
  <2>1. Unsent(r)' /\ Fresh(r)' /\ Committed(r)' /\ Lineage(r)'
    BY <1>7 DEF Unsent, Fresh, Committed, Lineage, Holding
  <2>2. SpentIsFenced' /\ ReadableAgrees'
    BY <1>1, <1>2, <1>5, <1>7 DEF SpentIsFenced, ReadableAgrees
  <2>3. \A q \in Work : q # r => Unsent(q)' /\ Fresh(q)' /\ Committed(q)' /\ Lineage(q)'
    BY <1>1, <1>3, <1>4, <1>7, OthersStep DEF Permitted, Holding
  <2> QED BY <1>1, <2>1, <2>2, <2>3, Together
<1>8. CASE /\ pc'[r] = "fence" /\ spent' = spent \cup {g}
           /\ Issued(r, own[r].fence.registration, gens[g].flow)
  <2>1. /\ Len(gens') = Len(gens) + 1 /\ \A x \in 1 .. Len(gens) : gens'[x] = gens[x]
        /\ gens'[Len(gens) + 1].flow = gens[g].flow
        /\ own'[r].generation = Len(gens) + 1
        /\ \A q \in Work : q # r => own'[q] = own[q]
    BY <1>1, <1>8, IssuedGens DEF Procs
  <2>2. Unsent(r)' /\ Committed(r)'
    BY <1>8 DEF Unsent, Committed
  <2>3. SpentIsFenced' /\ ReadableAgrees'
    BY <1>1, <1>2, <1>5, <1>8, <2>1 DEF SpentIsFenced, ReadableAgrees
  <2>4. \A q \in Work : q # r => pc[q] \notin {"fence", "commit"}
    BY <1>1 DEF PermitHeld, Permitted
  <2>5. Fresh(r)'
    <3>1. own'[r].generation \in 1 .. Len(gens') /\ own'[r].generation # db'.selected
      BY <1>1, <1>2, <2>1
    <3>2. own'[r].generation \notin spent'
      BY <1>2, <1>8, <2>1 DEF SpentIsFenced
    <3>3. \A q \in Work : q # r /\ pc'[q] \in Holding => own'[q].generation # own'[r].generation
      BY <1>3, <1>4, <2>1, <2>4 DEF Holding
    <3> QED BY <3>1, <3>2, <3>3 DEF Fresh
  <2>6. Agreed(own[r].generation)'
    BY <1>1, <1>2, <2>1 DEF Agreed
  <2>7. Lineage(r)'
    BY <2>1, <2>6, ProcsAreDistinct DEF Lineage
  <2>8. \A q \in Work : q # r /\ pc[q] = "install" =>
           /\ own[q].generation \notin spent' /\ own[q].generation # db'.selected
           /\ pc'[r] \in Holding => own'[r].generation # own[q].generation
    BY <1>1, <1>4, <1>8, <2>1
  <2>9. \A q \in Work : q # r => Unsent(q)' /\ Fresh(q)' /\ Committed(q)' /\ Lineage(q)'
    BY <1>1, <1>3, <2>1, <2>8, OthersStep DEF Permitted
  <2> QED BY <1>1, <2>2, <2>3, <2>5, <2>7, <2>9, Together
<1> QED BY <1>1, <1>6, <1>7, <1>8 DEF SendRefresh, Goto, TypeOK

\* Fencing: nothing is selected any more.
LEMMA FenceStep ==
  ASSUME OAuthInv, NEW p \in Work, FenceAuthority(p)
  PROVE  TokenParts' /\ (db.fenced => db'.fenced)
<1> USE Parts
<1>1. gens' = gens /\ spent' = spent /\ own' = own /\ p \in Procs /\ pc[p] = "fence"
  BY DEF FenceAuthority, issuer, Procs
<1>2. \A q \in Work : q # p => pc'[q] = pc[q]
  BY <1>1 DEF FenceAuthority, Tx, Goto, TypeOK, Procs
<1>3. pc'[p] \in {"commit", "retract"}
  BY <1>1 DEF FenceAuthority, Tx, Goto, TypeOK
<1>4. db' = db \/ db' = [db EXCEPT !.selected = 0, !.fenced = TRUE]
  BY DEF FenceAuthority, Tx
<1>5. /\ db'.selected \in {0, db.selected} /\ (db'.selected = db.selected \/ db'.fenced)
      /\ db'.flows = db.flows /\ (db.fenced => db'.fenced)
  BY <1>4 DEF Databases
<1>6. \A q \in Work : pc[q] \in Holding =>
        own[q].generation \in 1 .. Len(gens) /\ own[q].generation # db'.selected
  BY <1>5 DEF Fresh
<1>7. \A g \in Nat : Agreed(g) => Agreed(g)'
  BY <1>1, <1>5 DEF Agreed
<1>8. SpentIsFenced' /\ ReadableAgrees'
  BY <1>1, <1>5, <1>7, DbType DEF SpentIsFenced, ReadableAgrees
<1>9. Unsent(p)' /\ Committed(p)'
  <2>1. pc'[p] = "commit" => db'.fenced
    BY <1>1 DEF FenceAuthority, Tx, Goto, TypeOK, Databases
  <2> QED BY <1>3, <2>1 DEF Unsent, Committed
<1>10. \A q \in Work : pc'[q] \in Holding => pc[q] \in Holding
  BY <1>1, <1>2, <1>3 DEF Holding
<1>11. Fresh(p)'
  BY <1>1, <1>6, <1>10 DEF Fresh, Holding
<1>12. Lineage(p)'
  <2>1. own[p].generation \in Nat
    BY <1>1, <1>6 DEF Holding
  <2> QED BY <1>1, <1>7, <2>1 DEF Lineage, Holding
<1>13. \A q \in Work : q # p /\ pc[q] = "install" =>
         /\ own[q].generation \notin spent' /\ own[q].generation # db'.selected
         /\ pc'[p] \in Holding => own'[p].generation # own[q].generation
  BY <1>1, <1>6, <1>10 DEF Fresh, Holding
<1>14. \A q \in Work : q # p => Unsent(q)' /\ Fresh(q)' /\ Committed(q)' /\ Lineage(q)'
  BY <1>1, <1>2, <1>5, <1>13, OthersStep DEF Permitted
<1> QED BY <1>5, <1>8, <1>9, <1>11, <1>12, <1>14, Together

\* Committing: the new generation is selected behind the fence.
LEMMA CommitStep ==
  ASSUME OAuthInv, NEW p \in Work, CommitTokens(p)
  PROVE  TokenParts' /\ (db.fenced => db'.fenced)
<1> USE Parts
<1>1. gens' = gens /\ spent' = spent /\ own' = own /\ p \in Procs /\ pc[p] = "commit"
  BY DEF CommitTokens, issuer, Procs
<1>2. \A q \in Work : q # p => pc'[q] = pc[q]
  BY <1>1 DEF CommitTokens, Tx, Goto, TypeOK, Procs
<1>3. \/ db' = db /\ pc'[p] = "retract"
      \/ /\ db' = [db EXCEPT !.tokens = @ + 1, !.handle = own[p].generation, !.selected = own[p].generation]
         /\ pc'[p] \in {"activate", "retract"}
  BY <1>1 DEF CommitTokens, Tx, Goto, TypeOK
<1>4. own[p].generation \in 1 .. Len(gens) /\ own[p].generation \notin spent
  BY <1>1 DEF Fresh, Holding
<1>5. /\ db'.selected \in {db.selected, own[p].generation} /\ db'.fenced = db.fenced
      /\ db'.flows = db.flows /\ (pc'[p] = "activate" => db'.selected = own[p].generation)
  BY <1>3 DEF Databases
<1>6. \A g \in Nat : Agreed(g) => Agreed(g)'
  BY <1>1, <1>5 DEF Agreed
<1>7. SpentIsFenced'
  BY <1>1, <1>4, <1>5, DbType DEF SpentIsFenced
<1>8. db.fenced
  BY <1>1 DEF Unsent
<1>9. ReadableAgrees'
  BY <1>5, <1>8 DEF ReadableAgrees
<1>10. Unsent(p)' /\ Fresh(p)'
  BY <1>3 DEF Unsent, Fresh, Holding
<1>11. Committed(p)'
  BY <1>1, <1>4, <1>5 DEF Committed
<1>12. Lineage(p)'
  BY <1>1, <1>4, <1>6 DEF Lineage, Holding
<1>13. \A q \in Work : q # p /\ pc[q] = "install" =>
         /\ own[q].generation \notin spent' /\ own[q].generation # db'.selected
         /\ pc'[p] \in Holding => own'[p].generation # own[q].generation
  BY <1>1, <1>5 DEF Fresh, Holding
<1>14. \A q \in Work : q # p => Unsent(q)' /\ Fresh(q)' /\ Committed(q)' /\ Lineage(q)'
  BY <1>1, <1>2, <1>5, <1>13, OthersStep DEF Permitted
<1> QED BY <1>5, <1>7, <1>9, <1>10, <1>11, <1>12, <1>14, Together

\* Activating: the fence goes and, for a callback, its flow succeeds with it.
LEMMA ActivateStep ==
  ASSUME OAuthInv, NEW p \in Work, ActivateTokens(p)
  PROVE  TokenParts' /\ (db.fenced /\ ~db'.fenced => ~Exchanging(db)')
<1> USE Parts
<1>1. gens' = gens /\ spent' = spent /\ own' = own /\ p \in Procs /\ pc[p] = "activate"
  BY DEF ActivateTokens, issuer, Procs
<1>2. \A q \in Work : q # p => pc'[q] = pc[q]
  BY <1>1 DEF ActivateTokens, Tx, Goto, TypeOK, Procs
<1>3. pc'[p] \in {"leaving", "ending", "undo"}
  BY <1>1 DEF ActivateTokens, Tx, Goto, TypeOK
<1>4. /\ own[p].generation = db.selected /\ db.selected \notin spent
      /\ db.selected \in 1 .. Len(gens)
  BY <1>1 DEF Committed
<1>5. Unsent(p)' /\ Fresh(p)' /\ Committed(p)' /\ Lineage(p)'
  BY <1>3 DEF Unsent, Fresh, Committed, Lineage, Holding
<1>6. ASSUME db'.selected = db.selected,
             \A f \in Flows : db.flows[f].state = "succeeded" => db'.flows[f].state = "succeeded"
      PROVE  /\ SpentIsFenced'
             /\ \A q \in Work : q # p => Unsent(q)' /\ Fresh(q)' /\ Committed(q)' /\ Lineage(q)'
  <2>1. SpentIsFenced'
    BY <1>1, <1>4, <1>6 DEF SpentIsFenced
  <2>2. \A q \in Work : q # p /\ pc[q] = "install" =>
           /\ own[q].generation \notin spent' /\ own[q].generation # db'.selected
           /\ pc'[p] \in Holding => own'[p].generation # own[q].generation
    BY <1>1, <1>3, <1>6 DEF Fresh, Holding
  <2>3. \A q \in Work : q # p => Unsent(q)' /\ Fresh(q)' /\ Committed(q)' /\ Lineage(q)'
    BY <1>1, <1>2, <1>6, <2>2, OthersStep DEF Permitted
  <2> QED BY <2>1, <2>3
<1>7. CASE db' = db
  <2>1. ReadableAgrees'
    BY <1>1, <1>7 DEF ReadableAgrees, Agreed
  <2> QED BY <1>5, <1>6, <1>7, <2>1, Together
<1>8. CASE p \notin Callbacks /\ db' = [db EXCEPT !.fenced = FALSE] /\ ~Exchanging(db)
  <2>1. db'.selected = db.selected /\ db'.flows = db.flows
    BY <1>8 DEF Databases
  <2>2. Agreed(db.selected)
    BY <1>1, <1>4, <1>8 DEF Lineage
  <2>3. ReadableAgrees'
    BY <1>1, <2>1, <2>2 DEF ReadableAgrees, Agreed
  <2>4. ~Exchanging(db)'
    BY <1>8, <2>1 DEF Exchanging
  <2> QED BY <1>5, <1>6, <2>1, <2>3, <2>4, Together
<1>9. CASE /\ p \in Callbacks /\ db' = [SetFlow(db, own[p].flow, "succeeded") EXCEPT !.fenced = FALSE]
           /\ db.flows[own[p].flow].state = "exchanging"
  <2> DEFINE f == own[p].flow
             n == SetFlow(db, f, "succeeded")
  <2>1. f \in Flows /\ "succeeded" \in FlowStates
    BY <1>1, <1>9 DEF ServesFlow, FlowStates, Terminal
  <2>2. /\ n \in Databases /\ n.selected = db.selected /\ n.flows[f].state = "succeeded"
        /\ \A g \in Flows : g # f => n.flows[g] = db.flows[g]
    BY <2>1, SetFlowType
  <2>3. db' = [n EXCEPT !.fenced = FALSE]
    BY <1>9
  <2>4. gens[db.selected].flow = f
    BY <1>1, <1>4, <1>9 DEF Lineage
  <2>5. \A g \in Flows : g # f => db.flows[g].state # "exchanging"
    BY <1>9, <2>1 DEF OneActive, Nonterminal
  <2> HIDE DEF n
  <2>6. db'.selected = db.selected /\ db'.flows = n.flows
    BY <2>2, <2>3 DEF Databases
  <2>7. ReadableAgrees'
    BY <1>1, <2>2, <2>4, <2>6 DEF ReadableAgrees, Agreed
  <2>8. ~Exchanging(db)'
    BY <2>1, <2>2, <2>5, <2>6 DEF Exchanging
  <2>9. \A g \in Flows : db.flows[g].state = "succeeded" => db'.flows[g].state = "succeeded"
    BY <2>1, <2>2, <2>6
  <2> QED BY <1>5, <1>6, <2>6, <2>7, <2>8, <2>9, Together
<1> QED BY <1>7, <1>8, <1>9
     DEF ActivateTokens, Tx, Activated, AuthorityCurrent, FlowCurrent, RefreshCurrent

\* Withdrawing: nothing is selected.
LEMMA InvalidateStep ==
  ASSUME OAuthInv, NEW p \in Work, Invalidate(p)
  PROVE  TokenParts' /\ (db.fenced => db'.fenced)
<1> USE Parts
<1>1. gens' = gens /\ spent' = spent /\ own' = own /\ p \in Procs /\ pc[p] \in {"retract", "undo"}
  BY DEF Invalidate, Retract, issuer, Procs
<1>2. \A q \in Work : q # p => pc'[q] = pc[q]
  BY <1>1 DEF Invalidate, Retract, Tx, Goto, TypeOK, Procs
<1>3. pc'[p] \in {"failing", "ending"}
  BY <1>1 DEF Invalidate, Retract, Tx, Goto, TypeOK, Ending
<1>4. Unsent(p)' /\ Fresh(p)' /\ Committed(p)' /\ Lineage(p)'
  BY <1>3 DEF Unsent, Fresh, Committed, Lineage, Holding
<1>5. db'.selected \in {0, db.selected} /\ db'.fenced = db.fenced
  <2>1. CASE db' = db
    BY <2>1
  <2>2. CASE p \notin Callbacks /\ db' = [db EXCEPT !.tokens = @ + 1, !.handle = 0, !.selected = 0]
    BY <2>2 DEF Databases
  <2>3. CASE /\ p \in Callbacks
             /\ db' = [SetFlow(db, own[p].flow, "failed") EXCEPT !.tokens = @ + 1, !.handle = 0, !.selected = 0]
    <3>1. own[p].flow \in Flows /\ "failed" \in FlowStates
      BY <1>1, <2>3 DEF ServesFlow, FlowStates, Terminal
    <3>2. /\ SetFlow(db, own[p].flow, "failed") \in Databases
          /\ SetFlow(db, own[p].flow, "failed").fenced = db.fenced
      BY <3>1, SetFlowType
    <3> QED BY <2>3, <3>2 DEF Databases
  <2> QED BY <2>1, <2>2, <2>3 DEF Invalidate, Retract, Tx
<1>6. \A f \in Flows : db.flows[f].state = "succeeded" => db'.flows[f].state = "succeeded"
  <2>1. CASE db'.flows = db.flows
    BY <2>1
  <2>2. CASE db'.flows # db.flows
    <3>1. /\ p \in Callbacks /\ db.flows[own[p].flow].state = "exchanging"
          /\ db' = [SetFlow(db, own[p].flow, "failed") EXCEPT !.tokens = @ + 1, !.handle = 0, !.selected = 0]
      BY <2>2 DEF Invalidate, Retract, Tx, Databases
    <3>2. own[p].flow \in Flows /\ "failed" \in FlowStates
      BY <1>1, <3>1 DEF ServesFlow, FlowStates, Terminal
    <3>3. /\ SetFlow(db, own[p].flow, "failed") \in Databases
          /\ \A g \in Flows : g # own[p].flow => SetFlow(db, own[p].flow, "failed").flows[g] = db.flows[g]
      BY <3>2, SetFlowType
    <3>4. db'.flows = SetFlow(db, own[p].flow, "failed").flows
      BY <3>1, <3>3 DEF Databases
    <3> QED BY <3>1, <3>2, <3>3, <3>4
  <2> QED BY <2>1, <2>2
<1>7. \A g \in 1 .. Len(gens) : Agreed(g) => Agreed(g)'
  BY <1>1, <1>6, AgreedStays
<1>8. SpentIsFenced' /\ ReadableAgrees'
  BY <1>1, <1>5, <1>7 DEF SpentIsFenced, ReadableAgrees
<1>9. \A q \in Work : q # p /\ pc[q] = "install" =>
         /\ own[q].generation \notin spent' /\ own[q].generation # db'.selected
         /\ pc'[p] \in Holding => own'[p].generation # own[q].generation
  BY <1>1, <1>3, <1>5 DEF Fresh, Holding
<1>10. \A q \in Work : q # p => Unsent(q)' /\ Fresh(q)' /\ Committed(q)' /\ Lineage(q)'
  BY <1>1, <1>2, <1>6, <1>9, OthersStep DEF Permitted
<1> QED BY <1>4, <1>5, <1>8, <1>10, Together

\* Disconnecting: the tokens are withdrawn and revoked when nobody holds the permit.
LEMMA DisconnectStep ==
  ASSUME OAuthInv, Disconnect
  PROVE  TokenParts' /\ (db.fenced => db'.fenced)
<1> USE Parts
<1>1. /\ gens' = gens /\ own' = own /\ pc' = pc /\ operation = None
      /\ spent' = spent \cup ({ReadActive(db)} \ {0})
  BY DEF Disconnect
<1>2. \A q \in Work : pc[q] \notin Permitted
  BY <1>1, ProcsAreDistinct DEF PermitHeld, Procs
<1>3. db'.selected = 0 /\ db'.fenced = db.fenced /\ db'.flows = db.flows
  BY DEF Disconnect, Once, Databases
<1>4. ReadActive(db) \in 0 .. Len(gens) /\ ReadActive(db) \in {0, db.selected}
  BY DbType DEF ReadActive
<1>5. SpentIsFenced' /\ ReadableAgrees'
  <2>1. spent' \subseteq 1 .. Len(gens)
    BY <1>1, <1>4 DEF SpentIsFenced
  <2>2. 0 \notin spent'
    BY <2>1
  <2> QED BY <1>1, <1>3, <2>1, <2>2 DEF SpentIsFenced, ReadableAgrees
<1>6. ASSUME NEW q \in Work PROVE Unsent(q)' /\ Committed(q)'
  BY <1>1, <1>2 DEF Unsent, Committed, Permitted
<1>7. ASSUME NEW q \in Work PROVE Fresh(q)'
  <2>1. pc[q] \in Holding => own[q].generation # 0 /\ own[q].generation # db.selected
    BY DEF Fresh
  <2>2. pc[q] \in Holding => own[q].generation \notin spent'
    BY <1>1, <1>4, <2>1 DEF Fresh
  <2> QED BY <1>1, <1>3, <2>1, <2>2 DEF Fresh
<1>8. \A g \in Nat : Agreed(g) => Agreed(g)'
  BY <1>1, <1>3 DEF Agreed
<1>9. ASSUME NEW q \in Work PROVE Lineage(q)'
  <2>1. pc[q] \in Holding \cup {"activate"} => own[q].generation \in Nat
    BY <1>2 DEF Fresh, Permitted
  <2> QED BY <1>1, <1>8, <2>1 DEF Lineage
<1> QED BY <1>3, <1>5, <1>6, <1>7, <1>9 DEF TokenParts

-----------------------------------------------------------------------------
(* The invariant.                                                          *)

LEMMA TokenStep == ASSUME OAuthInv, [Next]_vars PROVE TokenParts'
<1>1. CASE Quiet
  BY <1>1, QuietStep
<1>2. CASE Loud
  BY <1>2, SendCodeStep, ReadTokensStep, ArmStep, SendRefreshStep, DisarmStep, FenceStep,
     CommitStep,
     ActivateStep, InvalidateStep, DisconnectStep DEF Loud, InstallStep
<1> QED BY <1>1, <1>2, QuietOrLoud

\* The fence of an exchange is lifted only when the exchange is over.
LEMMA ExchangeStep == ASSUME OAuthInv, [Next]_vars PROVE ExchangeIsFenced'
<1>1. TypeOK /\ ServesFlow /\ ExchangeIsFenced
  BY DEF OAuthInv
<1>2. (db.fenced => db'.fenced) \/ ~Exchanging(db)' \/ (~Exchanging(db) /\ db'.flows = db.flows)
  <2>1. CASE Quiet
    BY <2>1 DEF Quiet
  <2>2. CASE Loud
    <3>1. ASSUME NEW c \in Callbacks, SendCode(c) PROVE db.fenced => db'.fenced
      BY <3>1, SendCodeStep
    <3>2. ASSUME NEW r \in Refreshers, ReadTokens(r) \/ SendRefresh(r) PROVE db.fenced => db'.fenced
      BY <3>2, ReadTokensStep, SendRefreshStep
    <3>3. ASSUME NEW r \in Refreshers, Arm(r) PROVE db.fenced => db'.fenced
      BY <3>3, ArmStep
    <3>4. ASSUME NEW r \in Refreshers, Disarm(r)
          PROVE  (db.fenced => db'.fenced) \/ (~Exchanging(db) /\ db'.flows = db.flows)
      BY <3>4, DisarmStep
    <3>5. ASSUME NEW p \in Work, FenceAuthority(p) \/ CommitTokens(p) \/ Invalidate(p)
          PROVE  db.fenced => db'.fenced
      BY <3>5, FenceStep, CommitStep, InvalidateStep
    <3>6. ASSUME NEW p \in Work, ActivateTokens(p) PROVE (db.fenced => db'.fenced) \/ ~Exchanging(db)'
      BY <3>6, ActivateStep
    <3>7. ASSUME Disconnect PROVE db.fenced => db'.fenced
      BY <3>7, DisconnectStep
    <3> QED BY <2>2, <3>1, <3>2, <3>3, <3>4, <3>5, <3>6, <3>7 DEF Loud, InstallStep
  <2> QED BY <2>1, <2>2, QuietOrLoud
<1>3. CASE Settles
  BY <1>1, <1>2, <1>3 DEF Settles, ExchangeIsFenced, Exchanging
<1>4. ASSUME NEW f \in Flows, Prepare(f) PROVE ExchangeIsFenced'
  <2>1. \A g \in Flows : db'.flows[g].state # "exchanging"
    BY <1>1, <1>4, PrepareDb DEF Prepare, Exchanging
  <2> QED BY <2>1 DEF ExchangeIsFenced, Exchanging
<1>5. ASSUME NEW c \in Callbacks, BeginAuthFlowExchange(c) PROVE ExchangeIsFenced'
  BY <1>1, <1>5, BeginDb DEF ExchangeIsFenced, Exchanging
<1> QED BY <1>1, <1>3, <1>4, <1>5, SettleStep

LEMMA InvStep == ASSUME OAuthInv, [Next]_vars PROVE OAuthInv'
<1>1. /\ TypeOK /\ OneActive /\ ServesFlow /\ PermitHeld /\ SpentIsFenced
      /\ \A p \in Work : Unsent(p)
  BY DEF OAuthInv
<1>2. TypeOK' /\ OneActive' /\ ServesFlow' /\ PermitHeld'
  BY <1>1, TypeStep, OneActiveStep, ServesStep, PermitStep
<1>3. ExchangeIsFenced' /\ TokenParts'
  BY ExchangeStep, TokenStep
<1> QED BY <1>2, <1>3 DEF OAuthInv, TokenParts

LEMMA InitInv == Init => OAuthInv
<1> SUFFICES ASSUME Init PROVE OAuthInv
  OBVIOUS
<1>1. /\ pc = [p \in Procs |-> "idle"] /\ own = [p \in Procs |-> Nothing]
      /\ gens = <<Generation(Home, 1, Scopes, None)>> /\ spent = {} /\ operation = None /\ due = {}
      /\ byState = [f \in Flows |-> None]
  BY DEF Init
<1>2. config \in [public : BOOLEAN, listener : BOOLEAN]
  BY DEF Init
<1>3. /\ db.selected = 1 /\ db.fenced = FALSE
      /\ db.flows = [f \in Flows |-> [state |-> "absent", desired |-> 0, registration |-> 0]]
  BY DEF Init
<1>4. db \in Databases
  <2>1. [f \in Flows |-> [state |-> "absent", desired |-> 0, registration |-> 0]] \in [Flows -> FlowRows]
    BY DEF FlowRows, FlowStates
  <2>2. \A k \in Nat, h \in BOOLEAN, x \in [Flows -> FlowRows] :
          [desired |-> 1, deleted |-> FALSE, pin |-> None, registration |-> 1, issuer |-> Home,
           client |-> k, held |-> h, lapsed |-> FALSE, tokens |-> 1, handle |-> 1, selected |-> 1,
           fenced |-> FALSE, flows |-> x] \in Databases
    BY HomeIsAnIssuer DEF Databases
  <2>3. (IF config.public THEN 0 ELSE 1) \in Nat /\ (~config.public) \in BOOLEAN
    OBVIOUS
  <2> QED BY <2>1, <2>2, <2>3 DEF Init
<1>5. Nothing \in Captures
  <2>1. NoFence \in Fences
    BY DEF NoFence, Fence, Fences
  <2> QED BY <2>1, CaptureType DEF Nothing
<1>6. Generation(Home, 1, Scopes, None) \in Generations /\ Generation(Home, 1, Scopes, None).flow = None
  BY HomeIsAnIssuer DEF Generation, Generations
<1>7. gens \in Seq(Generations) /\ Len(gens) = 1 /\ gens[1].flow = None
  BY <1>1, <1>6
<1>8. TypeOK
  BY <1>1, <1>2, <1>4, <1>5, <1>7 DEF TypeOK, Labels
<1>9. OneActive /\ ServesFlow /\ PermitHeld
  BY <1>1, <1>3 DEF OneActive, ServesFlow, PermitHeld, Permitted, Nonterminal, Procs, Work
<1>10. ExchangeIsFenced
  BY <1>3 DEF ExchangeIsFenced, Exchanging
<1>11. SpentIsFenced /\ ReadableAgrees
  BY <1>1, <1>3, <1>7 DEF SpentIsFenced, ReadableAgrees, Agreed
<1>12. \A p \in Work : Unsent(p) /\ Fresh(p) /\ Committed(p) /\ Lineage(p)
  BY <1>1 DEF Unsent, Fresh, Committed, Lineage, Holding, Procs
<1> QED BY <1>8, <1>9, <1>10, <1>11, <1>12 DEF OAuthInv

(* The inductive invariant of the OAuth authority: types, one flow at a time,
   the permit of the keyring, and what each holder of tokens may rely on. *)
THEOREM OAuthInvariant == Spec => []OAuthInv
<1>1. OAuthInv /\ UNCHANGED vars => OAuthInv'
  BY InvStep
<1> QED BY InitInv, InvStep, PTL DEF Spec

(* A refresh token that may have reached the issuer is never read again, and the
   tokens that an exchange replaces stay denied until it is over, for any number of
   flows, callbacks, refreshers, edits and crashes (oauth/refresh.go,
   keyring/cutover.go FenceOAuthHandoff, servers/oauth_refresh.go). *)
THEOREM SpentTokensStayFenced == Spec => []TokensAreFenced
<1>1. OAuthInv => TokensAreFenced
  <2> SUFFICES ASSUME OAuthInv PROVE TokensAreFenced
    OBVIOUS
  <2>1. SpentIsFenced /\ ExchangeIsFenced
    BY DEF OAuthInv
  <2>2. ReadActive(db) \notin spent
    BY <2>1 DEF SpentIsFenced, ReadActive
  <2> QED BY <2>1, <2>2 DEF TokensAreFenced, NoReplay
<1> QED BY <1>1, OAuthInvariant, PTL

(* Tokens that can be read belong to a flow that succeeded, whatever step the process
   died at and whichever answer was lost (oauth/callback.go, keyring/cutover.go
   activateAuthority). *)
THEOREM ReadableTokensSucceeded == Spec => []FlowAndTokensAgree
<1>1. OAuthInv => FlowAndTokensAgree
  BY DEF OAuthInv, ReadableAgrees, Agreed, FlowAndTokensAgree, ReadActive
<1> QED BY <1>1, OAuthInvariant, PTL
=============================================================================
