-------------------------- MODULE AuthorityProofs --------------------------
(***************************************************************************)
(* Proofs about what the authorization store promises, for any number of   *)
(* requests, admins, writers, principals and targets: first the safety     *)
(* properties of Authority (admission, leases and mutations), then those   *)
(* of GrantRequests (the requests agents file and operators settle).       *)
(***************************************************************************)
EXTENDS AuthorityInvariant, GrantRequests, FiniteSetTheorems, TLAPS

USE DEF database, storage, registry, lease, evaluation, control

\* What a committed transaction leaves of the types of the database.
LEMMA BodyType ==
  ASSUME TypeOK, NEW m \in Mutations, Body(m)
  PROVE  /\ principal' \in [Principals -> Rows]
         /\ grants' \subseteq Grants
         /\ authRev' \in Nat
<1> DEFINE p == m.principal
           row == principal[p]
<1> USE DEF TypeOK
<1>a. ASSUME NEW q \in Principals, NEW new \in Rows, UpdateRow(q, new)
      PROVE  principal' \in [Principals -> Rows]
  BY <1>a DEF UpdateRow
<1>b. ASSUME m.kind \in {"create", "disable", "enable", "patch", "issue", "revoke"}
      PROVE  p \in Principals
  BY <1>b DEF Mutations
<1>c. ASSUME p \in Principals, NEW s \in {"active", "disabled"}, NEW c \in Nat, NEW b \in BOOLEAN
      PROVE  Revised(row, s, c, b) \in Rows
  BY <1>c DEF Revised, Rows
<1>1. CASE CreatePrincipal(m)
  <2>1. p \in Principals
    BY <1>1, <1>b DEF CreatePrincipal
  <2>2. [state |-> "active", revision |-> 1, credentialRevision |-> 0,
         credential |-> FALSE] \in Rows
    BY DEF Rows
  <2>3. DefaultGrant(p) \in Grants
    BY <2>1, SyntheticAssumption DEF DefaultGrant, Grants
  <2> QED BY <1>1, <1>a, <2>1, <2>2, <2>3 DEF CreatePrincipal, Advance
<1>2. CASE PatchPrincipal(m)
  <2>1. p \in Principals
    BY <1>2, <1>b DEF PatchPrincipal
  <2>2. /\ row.state \in {"active", "disabled"} /\ row.credentialRevision \in Nat
        /\ row.credentialRevision + 1 \in Nat /\ row.credential \in BOOLEAN
    BY <1>2, <2>1 DEF PatchPrincipal, Fresh, Rows
  <2>3. PICK s \in {"active", "disabled"}, c \in Nat, b \in BOOLEAN :
          UpdateRow(p, Revised(row, s, c, b))
    BY <1>2, <2>1, <2>2 DEF PatchPrincipal
  <2>5. principal' \in [Principals -> Rows]
    BY <1>a, <1>c, <2>1, <2>3
  <2>4. grants' = grants /\ (authRev' = authRev \/ authRev' = authRev + 1)
    BY <1>2, Zenon DEF PatchPrincipal, Advance
  <2> QED BY <2>4, <2>5
<1>3. CASE IssueCredential(m)
  <2>1. p \in Principals
    BY <1>3, <1>b DEF IssueCredential
  <2>2. row.state = "active" /\ row.credentialRevision + 1 \in Nat
    BY <1>3, <2>1 DEF IssueCredential, Rows
  <2> QED BY <1>3, <1>a, <1>c, <2>1, <2>2 DEF IssueCredential
<1>4. CASE RevokeCredential(m)
  <2>1. p \in Principals
    BY <1>4, <1>b DEF RevokeCredential
  <2>2. row.state \in {"active", "disabled"} /\ row.credentialRevision + 1 \in Nat
    BY <1>4, <2>1 DEF RevokeCredential, Fresh, Rows
  <2> QED BY <1>4, <1>a, <1>c, <2>1, <2>2 DEF RevokeCredential
<1>5. CASE CreateGrant(m)
  BY <1>5 DEF CreateGrant, Mutations, Advance
<1>6. CASE DeleteGrant(m)
  BY <1>6 DEF DeleteGrant, Advance
<1>7. CASE PatchGrant(m)
  BY <1>7 DEF PatchGrant
<1> QED BY <1>1, <1>2, <1>3, <1>4, <1>5, <1>6, <1>7 DEF Body

\* What a committed transaction may change: the row of the principal it
\* affects or of one it creates, and the grants only with a new revision.
LEMMA BodyEffect ==
  ASSUME TypeOK, NEW m, Body(m)
  PROVE  /\ m.kind # "none"
         /\ \A p \in Principals : principal'[p] # principal[p] =>
              p \in Affected(m) \/ principal[p].state = "absent"
         /\ \/ authRev' = authRev + 1
            \/ authRev' = authRev /\ grants' = grants
<1> USE DEF TypeOK, UpdateRow, Advance, Affected
<1>1. CASE CreatePrincipal(m)
  BY <1>1 DEF CreatePrincipal
<1>2. CASE PatchPrincipal(m)
  <2>1. m.kind # "none" /\ Affected(m) = {m.principal} /\ grants' = grants
    BY <1>2 DEF PatchPrincipal
  <2>2. PICK new : principal' = [principal EXCEPT ![m.principal] = new]
    BY <1>2, Zenon DEF PatchPrincipal
  <2>3. authRev' = authRev \/ authRev' = authRev + 1
    BY <1>2, Zenon DEF PatchPrincipal
  <2> QED BY <2>1, <2>2, <2>3
<1>3. CASE IssueCredential(m)
  BY <1>3 DEF IssueCredential
<1>4. CASE RevokeCredential(m)
  BY <1>4 DEF RevokeCredential
<1>5. CASE CreateGrant(m)
  BY <1>5 DEF CreateGrant
<1>6. CASE DeleteGrant(m)
  BY <1>6 DEF DeleteGrant
<1>7. CASE PatchGrant(m)
  BY <1>7 DEF PatchGrant
<1> QED BY <1>1, <1>2, <1>3, <1>4, <1>5, <1>6, <1>7 DEF Body

\* The processes at the gate are finitely many, so a process among them makes
\* the count positive.
LEMMA WorkPositive ==
  ASSUME GateAccounting
  PROVE  /\ IsFiniteSet(Working)
         /\ \A p \in Working : work \in Nat /\ work >= 1
<1>1. IsFiniteSet(Gated)
  BY FiniteProcesses, FS_Union DEF Gated
<1>2. IsFiniteSet(Working) /\ Cardinality(Working) \in Nat
  BY <1>1, FS_Subset, FS_CardinalityType DEF Working
<1>3. \A p \in Working : Cardinality(Working) # 0
  BY <1>2, FS_EmptySet
<1> QED BY <1>2, <1>3 DEF GateAccounting

\* Every step keeps the types.
LEMMA TypeStep ==
  ASSUME TypeOK, GateAccounting, [Next]_vars
  PROVE  TypeOK'
<1> USE DEF TypeOK, Goto, Procs, Gated, Owners
<1>1. ASSUME NEW p \in Gated, ReserveRefused(p) PROVE TypeOK'
  BY <1>1 DEF ReserveRefused, After, Forget
<1>2. ASSUME NEW p \in Gated, ReserveWork(p) PROVE TypeOK'
  BY <1>2 DEF ReserveWork
<1>3. ASSUME NEW p \in Gated, TakeGate(p) PROVE TypeOK'
  BY <1>3 DEF TakeGate
<1>4. ASSUME NEW p \in Gated, GiveUp(p) PROVE TypeOK'
  <2>1. p \in Working
    BY <1>4 DEF Working, Holds, HolderLabels, GiveUp
  <2>2. work \in Nat /\ work - 1 \in Nat
    BY <2>1, WorkPositive
  <2> QED BY <1>4, <2>2 DEF GiveUp, After, Forget
<1>5. ASSUME NEW p \in Gated, EnterGate(p) PROVE TypeOK'
  BY <1>5 DEF EnterGate
<1>6. ASSUME NEW p \in Gated, AbandonGate(p) PROVE TypeOK'
  <2>1. p \in Working
    BY <1>6 DEF Working, Holds, HolderLabels, AbandonGate
  <2>2. work \in Nat /\ work - 1 \in Nat
    BY <2>1, WorkPositive
  <2> QED BY <1>6, <2>2 DEF AbandonGate, ReturnGate, After, Forget, NextStage
<1>7. ASSUME NEW p \in Gated, ReleaseGate(p) PROVE TypeOK'
  <2>1. p \in Working
    BY <1>7 DEF Working, Holds, HolderLabels, ReleaseGate
  <2>2. work \in Nat /\ work - 1 \in Nat
    BY <2>1, WorkPositive
  <2> QED BY <1>7, <2>2 DEF ReleaseGate, ReturnGate, After, Forget, NextStage
<1>8. ASSUME NEW r \in Requests, ViewFails(r) PROVE TypeOK'
  BY <1>8 DEF ViewFails, Leave
<1>9. ASSUME NEW r \in Requests, AuthenticateRead(r) PROVE TypeOK'
  <2>1. \A q \in Principals : BindingOf(q) \in Bindings
    BY DEF BindingOf, Bindings, Rows
  <2>2. binding' \in [Requests -> Bindings]
    BY <1>9, <2>1 DEF AuthenticateRead
  <2>3. /\ pc' \in [Procs -> {"start", "ready", "waiting", "won", "in", "read", "leave",
                       "execute", "held", "release", "swap", "remove", "tx", "latch",
                       "settle", "returned", "cancel", "fenced", "drain", "done"}]
        /\ result' \in [Gated -> {"ok", "error"}]
        /\ UNCHANGED <<stage, loaded, mutation, cancelling>>
    BY <1>9 DEF AuthenticateRead, Leave
  <2> QED BY <1>9, <2>2, <2>3 DEF AuthenticateRead
<1>10. ASSUME NEW r \in Requests, Register(r) PROVE TypeOK'
  <2>1. phase' \in [Requests -> {"none", "pending", "admitted", "cancelled", "released"}]
        /\ leases' \subseteq Requests
    BY <1>10 DEF Register
  <2>2. CASE draining \/ latched
    BY <1>10, <2>1, <2>2 DEF Register, Leave
  <2>3. CASE ~(draining \/ latched)
    BY <1>10, <2>1, <2>3 DEF Register, Leave
  <2> QED BY <2>2, <2>3
<1>11. ASSUME NEW r \in Requests, Evaluate(r) PROVE TypeOK'
  BY <1>11 DEF Evaluate, Leave
<1>12. ASSUME NEW r \in Requests, ConfirmRead(r) PROVE TypeOK'
  BY <1>12 DEF ConfirmRead, Leave
<1>13. ASSUME NEW r \in Requests, Confirm(r) PROVE TypeOK'
  BY <1>13 DEF Confirm, Leave
<1>14. ASSUME NEW r \in Requests, ConfirmRefused(r) PROVE TypeOK'
  BY <1>14 DEF ConfirmRefused, Leave
<1>15. ASSUME NEW r \in Requests, Execute(r) PROVE TypeOK'
  BY <1>15 DEF Execute
<1>16. ASSUME NEW r \in Requests, LeaseDone(r) PROVE TypeOK'
  BY <1>16 DEF LeaseDone, SessionEnds
<1>17. ASSUME NEW r \in Requests, ReleaseLoad(r) PROVE TypeOK'
  BY <1>17 DEF ReleaseLoad
<1>18. ASSUME NEW r \in Requests, ReleaseSwap(r) PROVE TypeOK'
  BY <1>18 DEF ReleaseSwap
<1>19. ASSUME NEW r \in Requests, ReleaseRemove(r) PROVE TypeOK'
  BY <1>19 DEF ReleaseRemove
<1>20. ASSUME NEW r \in Requests, Hold(r) PROVE TypeOK'
  BY <1>20 DEF Hold
<1>21. ASSUME NEW r \in Requests, SessionEnds(r) PROVE TypeOK'
  BY <1>21 DEF SessionEnds
<1>22. ASSUME NEW a \in Admins, StartMutation(a) PROVE TypeOK'
  <2>1. mutation' \in [Admins -> Mutations \cup {NoMutation}]
    <3>1. \A k \in {"create", "disable", "enable", "patch", "issue", "revoke"}, q \in Principals :
            [kind |-> k, principal |-> q, expected |-> principal[q].revision,
             expectedCredential |-> principal[q].credentialRevision] \in Mutations
      BY DEF Mutations, Rows
    <3>2. \A q \in Principals, t \in Targets, e \in {"allow", "deny"} :
            [kind |-> "grant", grant |-> [id |-> a, principal |-> q, target |-> t,
                                          effect |-> e]] \in Mutations
      BY DEF Mutations, Grants
    <3>3. \A k \in {"ungrant", "describe"}, g \in grants :
            [kind |-> k, grant |-> g] \in Mutations
      BY DEF Mutations
    <3>4. PICK new \in Mutations : mutation' = [mutation EXCEPT ![a] = new]
      BY <1>22, <3>1, <3>2, <3>3, Zenon DEF StartMutation
    <3> QED BY <3>4
  <2> QED BY <1>22, <2>1 DEF StartMutation
<1>23. ASSUME NEW a \in Admins, MutationBusy(a) PROVE TypeOK'
  BY <1>23 DEF MutationBusy
<1>24. ASSUME NEW a \in Admins, BeginMutation(a) PROVE TypeOK'
  BY <1>24 DEF BeginMutation, TakeWriter
<1>25. ASSUME NEW a \in Admins, TxCommit(a) PROVE TypeOK'
  <2>1. mutation[a] \in Mutations
    BY <1>25, BodyEffect DEF TxCommit, NoMutation
  <2>2. /\ principal' \in [Principals -> Rows]
        /\ grants' \subseteq Grants
        /\ authRev' \in Nat
    BY <1>25, <2>1, BodyType DEF TxCommit
  <2> QED BY <1>25, <2>2 DEF TxCommit
<1>26. ASSUME NEW a \in Admins, TxRollback(a) PROVE TypeOK'
  BY <1>26 DEF TxRollback
<1>27. ASSUME NEW a \in Admins, TxAmbiguous(a) PROVE TypeOK'
  <2>1. CASE UNCHANGED database
    BY <1>27, <2>1 DEF TxAmbiguous
  <2>2. CASE Body(mutation[a])
    <3>1. mutation[a] \in Mutations
      BY <1>27, <2>2, BodyEffect DEF NoMutation
    <3>2. /\ principal' \in [Principals -> Rows]
          /\ grants' \subseteq Grants
          /\ authRev' \in Nat
      BY <1>27, <2>2, <3>1, BodyType
    <3> QED BY <1>27, <3>2 DEF TxAmbiguous
  <2> QED BY <1>27, <2>1, <2>2 DEF TxAmbiguous
<1>28. ASSUME NEW a \in Admins, Latch(a) PROVE TypeOK'
  BY <1>28 DEF Latch
<1>29. ASSUME NEW a \in Admins, ReleaseWriter(a) PROVE TypeOK'
  BY <1>29 DEF ReleaseWriter
<1>30. ASSUME NEW a \in Admins, MutationReturned(a) PROVE TypeOK'
  BY <1>30 DEF MutationReturned, Collect
<1>31. ASSUME NEW a \in Admins, Cancel(a) PROVE TypeOK'
  BY <1>31, SMTT(20) DEF Cancel
<1>32. ASSUME NEW a \in Admins, CancelDone(a) PROVE TypeOK'
  BY <1>32 DEF CancelDone
<1>33. ASSUME NEW w \in Writers, OtherBegin(w) PROVE TypeOK'
  BY <1>33 DEF OtherBegin, TakeWriter
<1>34. ASSUME NEW w \in Writers, OtherSettles(w) PROVE TypeOK'
  BY <1>34 DEF OtherSettles
<1>35. ASSUME NEW w \in Writers, ReleaseWriter(w) PROVE TypeOK'
  BY <1>35 DEF ReleaseWriter
<1>36. ASSUME Expire PROVE TypeOK'
  BY <1>36 DEF Expire
<1>37. ASSUME BeginDrain PROVE TypeOK'
  BY <1>37 DEF BeginDrain
<1>38. ASSUME CancelPending PROVE TypeOK'
  BY <1>38 DEF CancelPending, Collect
<1>39. ASSUME Drain PROVE TypeOK'
  BY <1>39 DEF Drain
<1>40. ASSUME Cancel(Drainer) PROVE TypeOK'
  BY <1>40 DEF Cancel
<1>41. ASSUME CancelDone(Drainer) PROVE TypeOK'
  BY <1>41 DEF CancelDone
<1>42. CASE UNCHANGED vars
  BY <1>42 DEF vars
<1> QED BY <1>1, <1>2, <1>3, <1>4, <1>5, <1>6, <1>7, <1>8, <1>9, <1>10, <1>11,
  <1>12, <1>13, <1>14, <1>15, <1>16, <1>17, <1>18, <1>19, <1>20, <1>21, <1>22,
  <1>23, <1>24, <1>25, <1>26, <1>27, <1>28, <1>29, <1>30, <1>31, <1>32, <1>33,
  <1>34, <1>35, <1>36, <1>37, <1>38, <1>39, <1>40, <1>41, <1>42
  DEF Next, GateStep, RequestStep, MutationStep, OtherStep, DrainStep, Terminated

\* The gate and its count follow the processes.
LEMMA GateStepKeeps ==
  ASSUME TypeOK, GateAccounting, Labels, [Next]_vars
  PROVE  GateAccounting'
<1> USE ProcessesDistinct
    DEF TypeOK, GateAccounting, Working, Holds, HolderLabels, Goto, Procs, Gated, Owners,
        Labels, RequestLabels, AdminLabels
<1>1. ASSUME NEW p \in Gated, ReserveRefused(p) PROVE GateAccounting'
  <2>1. /\ \A q \in Gated : Holds(q)' <=> gate' = q
        /\ work' = work
    BY <1>1 DEF ReserveRefused, After, Forget
  <2>2. Working' = Working
    BY <1>1 DEF ReserveRefused, After, Forget
  <2> QED BY <2>1, <2>2
<1>2. ASSUME NEW p \in Gated, ReserveWork(p) PROVE GateAccounting'
  <2>1. /\ \A q \in Gated : Holds(q)' <=> gate' = q
        /\ work' = work + 1 /\ work < WorkLimit
    BY <1>2 DEF ReserveWork
  <2>2. Working' = Working \cup {p} /\ p \notin Working
    BY <1>2 DEF ReserveWork
  <2> HIDE DEF Working
  <2>3. IsFiniteSet(Working)
    BY WorkPositive
  <2>4. Cardinality(Working') = work + 1
    BY <2>2, <2>3, FS_AddElement
  <2> QED BY <2>1, <2>4, WorkLimitAssumption
<1>3. ASSUME NEW p \in Gated, TakeGate(p) PROVE GateAccounting'
  <2>1. /\ \A q \in Gated : Holds(q)' <=> gate' = q
        /\ work' = work
    BY <1>3 DEF TakeGate
  <2>2. Working' = Working
    BY <1>3 DEF TakeGate
  <2> QED BY <2>1, <2>2
<1>4. ASSUME NEW p \in Gated, GiveUp(p) PROVE GateAccounting'
  <2>1. /\ \A q \in Gated : Holds(q)' <=> gate' = q
        /\ work' = work - 1
    BY <1>4 DEF GiveUp, After, Forget
  <2>2. Working' = Working \ {p} /\ p \in Working
    BY <1>4 DEF GiveUp, After, Forget
  <2> HIDE DEF Working
  <2>3. Cardinality(Working') = work - 1 /\ work \in Nat
    BY <2>2, WorkPositive, FS_RemoveElement
  <2> QED BY <2>1, <2>3, WorkLimitAssumption
<1>5. ASSUME NEW p \in Gated, EnterGate(p) PROVE GateAccounting'
  <2>1. /\ \A q \in Gated : Holds(q)' <=> gate' = q
        /\ work' = work
    BY <1>5 DEF EnterGate
  <2>2. Working' = Working
    BY <1>5 DEF EnterGate
  <2> QED BY <2>1, <2>2
<1>6. ASSUME NEW p \in Gated, AbandonGate(p) PROVE GateAccounting'
  <2>1. /\ \A q \in Gated : Holds(q)' <=> gate' = q
        /\ work' = work - 1
    BY <1>6 DEF AbandonGate, ReturnGate, After, Forget, NextStage
  <2>2. Working' = Working \ {p} /\ p \in Working
    BY <1>6 DEF AbandonGate, ReturnGate, After, Forget, NextStage
  <2> HIDE DEF Working
  <2>3. Cardinality(Working') = work - 1 /\ work \in Nat
    BY <2>2, WorkPositive, FS_RemoveElement
  <2> QED BY <2>1, <2>3, WorkLimitAssumption
<1>7. ASSUME NEW p \in Gated, ReleaseGate(p) PROVE GateAccounting'
  <2>1. /\ \A q \in Gated : Holds(q)' <=> gate' = q
        /\ work' = work - 1
    BY <1>7 DEF ReleaseGate, ReturnGate, After, Forget, NextStage
  <2>2. Working' = Working \ {p} /\ p \in Working
    BY <1>7 DEF ReleaseGate, ReturnGate, After, Forget, NextStage
  <2> HIDE DEF Working
  <2>3. Cardinality(Working') = work - 1 /\ work \in Nat
    BY <2>2, WorkPositive, FS_RemoveElement
  <2> QED BY <2>1, <2>3, WorkLimitAssumption
<1>8. ASSUME NEW r \in Requests, ViewFails(r) PROVE GateAccounting'
  <2>1. /\ \A q \in Gated : Holds(q)' <=> gate' = q
        /\ work' = work
    BY <1>8 DEF ViewFails, Leave
  <2>2. Working' = Working
    BY <1>8 DEF ViewFails, Leave
  <2> QED BY <2>1, <2>2
<1>9. ASSUME NEW r \in Requests, AuthenticateRead(r) PROVE GateAccounting'
  <2>1. /\ \A q \in Gated : Holds(q)' <=> gate' = q
        /\ work' = work
    BY <1>9 DEF AuthenticateRead, Leave
  <2>2. Working' = Working
    BY <1>9 DEF AuthenticateRead, Leave
  <2> QED BY <2>1, <2>2
<1>10. ASSUME NEW r \in Requests, Register(r) PROVE GateAccounting'
  <2>1. /\ \A q \in Gated : Holds(q)' <=> gate' = q
        /\ work' = work
    BY <1>10 DEF Register, Leave
  <2>2. Working' = Working
    BY <1>10 DEF Register, Leave
  <2> QED BY <2>1, <2>2
<1>11. ASSUME NEW r \in Requests, Evaluate(r) PROVE GateAccounting'
  <2>1. /\ \A q \in Gated : Holds(q)' <=> gate' = q
        /\ work' = work
    BY <1>11 DEF Evaluate, Leave
  <2>2. Working' = Working
    BY <1>11 DEF Evaluate, Leave
  <2> QED BY <2>1, <2>2
<1>12. ASSUME NEW r \in Requests, ConfirmRead(r) PROVE GateAccounting'
  <2>1. /\ \A q \in Gated : Holds(q)' <=> gate' = q
        /\ work' = work
    BY <1>12 DEF ConfirmRead, Leave
  <2>2. Working' = Working
    BY <1>12 DEF ConfirmRead, Leave
  <2> QED BY <2>1, <2>2
<1>13. ASSUME NEW r \in Requests, Confirm(r) PROVE GateAccounting'
  <2>1. /\ \A q \in Gated : Holds(q)' <=> gate' = q
        /\ work' = work
    BY <1>13 DEF Confirm, Leave
  <2>2. Working' = Working
    BY <1>13 DEF Confirm, Leave
  <2> QED BY <2>1, <2>2
<1>14. ASSUME NEW r \in Requests, ConfirmRefused(r) PROVE GateAccounting'
  <2>1. /\ \A q \in Gated : Holds(q)' <=> gate' = q
        /\ work' = work
    BY <1>14 DEF ConfirmRefused, Leave
  <2>2. Working' = Working
    BY <1>14 DEF ConfirmRefused, Leave
  <2> QED BY <2>1, <2>2
<1>15. ASSUME NEW r \in Requests, Execute(r) PROVE GateAccounting'
  <2>1. /\ \A q \in Gated : Holds(q)' <=> gate' = q
        /\ work' = work
    BY <1>15 DEF Execute
  <2>2. Working' = Working
    BY <1>15 DEF Execute
  <2> QED BY <2>1, <2>2
<1>16. ASSUME NEW r \in Requests, LeaseDone(r) PROVE GateAccounting'
  <2>1. /\ \A q \in Gated : Holds(q)' <=> gate' = q
        /\ work' = work
    BY <1>16 DEF LeaseDone, SessionEnds
  <2>2. Working' = Working
    BY <1>16 DEF LeaseDone, SessionEnds
  <2> QED BY <2>1, <2>2
<1>17. ASSUME NEW r \in Requests, ReleaseLoad(r) PROVE GateAccounting'
  <2>1. /\ \A q \in Gated : Holds(q)' <=> gate' = q
        /\ work' = work
    BY <1>17 DEF ReleaseLoad
  <2>2. Working' = Working
    BY <1>17 DEF ReleaseLoad
  <2> QED BY <2>1, <2>2
<1>18. ASSUME NEW r \in Requests, ReleaseSwap(r) PROVE GateAccounting'
  <2>1. /\ \A q \in Gated : Holds(q)' <=> gate' = q
        /\ work' = work
    BY <1>18 DEF ReleaseSwap
  <2>2. Working' = Working
    BY <1>18 DEF ReleaseSwap
  <2> QED BY <2>1, <2>2
<1>19. ASSUME NEW r \in Requests, ReleaseRemove(r) PROVE GateAccounting'
  <2>1. /\ \A q \in Gated : Holds(q)' <=> gate' = q
        /\ work' = work
    BY <1>19 DEF ReleaseRemove
  <2>2. Working' = Working
    BY <1>19 DEF ReleaseRemove
  <2> QED BY <2>1, <2>2
<1>20. ASSUME NEW r \in Requests, Hold(r) PROVE GateAccounting'
  <2>1. /\ \A q \in Gated : Holds(q)' <=> gate' = q
        /\ work' = work
    BY <1>20 DEF Hold
  <2>2. Working' = Working
    BY <1>20 DEF Hold
  <2> QED BY <2>1, <2>2
<1>21. ASSUME NEW r \in Requests, SessionEnds(r) PROVE GateAccounting'
  <2>1. /\ \A q \in Gated : Holds(q)' <=> gate' = q
        /\ work' = work
    BY <1>21 DEF SessionEnds
  <2>2. Working' = Working
    BY <1>21 DEF SessionEnds
  <2> QED BY <2>1, <2>2
<1>22. ASSUME NEW a \in Admins, StartMutation(a) PROVE GateAccounting'
  <2>1. /\ \A q \in Gated : Holds(q)' <=> gate' = q
        /\ work' = work
    BY <1>22 DEF StartMutation
  <2>2. Working' = Working
    BY <1>22 DEF StartMutation
  <2> QED BY <2>1, <2>2
<1>23. ASSUME NEW a \in Admins, MutationBusy(a) PROVE GateAccounting'
  <2>1. /\ \A q \in Gated : Holds(q)' <=> gate' = q
        /\ work' = work
    BY <1>23 DEF MutationBusy
  <2>2. Working' = Working
    BY <1>23 DEF MutationBusy
  <2> QED BY <2>1, <2>2
<1>24. ASSUME NEW a \in Admins, BeginMutation(a) PROVE GateAccounting'
  <2>1. /\ \A q \in Gated : Holds(q)' <=> gate' = q
        /\ work' = work
    BY <1>24 DEF BeginMutation, TakeWriter
  <2>2. Working' = Working
    BY <1>24 DEF BeginMutation, TakeWriter
  <2> QED BY <2>1, <2>2
<1>25. ASSUME NEW a \in Admins, TxCommit(a) PROVE GateAccounting'
  <2>1. /\ \A q \in Gated : Holds(q)' <=> gate' = q
        /\ work' = work
    BY <1>25 DEF TxCommit
  <2>2. Working' = Working
    BY <1>25 DEF TxCommit
  <2> QED BY <2>1, <2>2
<1>26. ASSUME NEW a \in Admins, TxRollback(a) PROVE GateAccounting'
  <2>1. /\ \A q \in Gated : Holds(q)' <=> gate' = q
        /\ work' = work
    BY <1>26 DEF TxRollback
  <2>2. Working' = Working
    BY <1>26 DEF TxRollback
  <2> QED BY <2>1, <2>2
<1>27. ASSUME NEW a \in Admins, TxAmbiguous(a) PROVE GateAccounting'
  <2>1. /\ \A q \in Gated : Holds(q)' <=> gate' = q
        /\ work' = work
    BY <1>27 DEF TxAmbiguous
  <2>2. Working' = Working
    BY <1>27 DEF TxAmbiguous
  <2> QED BY <2>1, <2>2
<1>28. ASSUME NEW a \in Admins, Latch(a) PROVE GateAccounting'
  <2>1. /\ \A q \in Gated : Holds(q)' <=> gate' = q
        /\ work' = work
    BY <1>28 DEF Latch
  <2>2. Working' = Working
    BY <1>28 DEF Latch
  <2> QED BY <2>1, <2>2
<1>29. ASSUME NEW a \in Admins, ReleaseWriter(a) PROVE GateAccounting'
  <2>1. /\ \A q \in Gated : Holds(q)' <=> gate' = q
        /\ work' = work
    BY <1>29 DEF ReleaseWriter
  <2>2. Working' = Working
    BY <1>29 DEF ReleaseWriter
  <2> QED BY <2>1, <2>2
<1>30. ASSUME NEW a \in Admins, MutationReturned(a) PROVE GateAccounting'
  <2>1. /\ \A q \in Gated : Holds(q)' <=> gate' = q
        /\ work' = work
    BY <1>30 DEF MutationReturned, Collect
  <2>2. Working' = Working
    BY <1>30 DEF MutationReturned, Collect
  <2> QED BY <2>1, <2>2
<1>31. ASSUME NEW a \in Admins, Cancel(a) PROVE GateAccounting'
  <2>1. /\ \A q \in Gated : Holds(q)' <=> gate' = q
        /\ work' = work
    BY <1>31 DEF Cancel
  <2>2. Working' = Working
    BY <1>31 DEF Cancel
  <2> QED BY <2>1, <2>2
<1>32. ASSUME NEW a \in Admins, CancelDone(a) PROVE GateAccounting'
  <2>1. /\ \A q \in Gated : Holds(q)' <=> gate' = q
        /\ work' = work
    BY <1>32 DEF CancelDone
  <2>2. Working' = Working
    BY <1>32 DEF CancelDone
  <2> QED BY <2>1, <2>2
<1>33. ASSUME NEW w \in Writers, OtherBegin(w) PROVE GateAccounting'
  <2>1. /\ \A q \in Gated : Holds(q)' <=> gate' = q
        /\ work' = work
    BY <1>33 DEF OtherBegin, TakeWriter
  <2>2. Working' = Working
    BY <1>33 DEF OtherBegin, TakeWriter
  <2> QED BY <2>1, <2>2
<1>34. ASSUME NEW w \in Writers, OtherSettles(w) PROVE GateAccounting'
  <2>1. /\ \A q \in Gated : Holds(q)' <=> gate' = q
        /\ work' = work
    BY <1>34 DEF OtherSettles
  <2>2. Working' = Working
    BY <1>34 DEF OtherSettles
  <2> QED BY <2>1, <2>2
<1>35. ASSUME NEW w \in Writers, ReleaseWriter(w) PROVE GateAccounting'
  <2>1. /\ \A q \in Gated : Holds(q)' <=> gate' = q
        /\ work' = work
    BY <1>35 DEF ReleaseWriter
  <2>2. Working' = Working
    BY <1>35 DEF ReleaseWriter
  <2> QED BY <2>1, <2>2
<1>36. ASSUME Expire PROVE GateAccounting'
  <2>1. /\ \A q \in Gated : Holds(q)' <=> gate' = q
        /\ work' = work
    BY <1>36 DEF Expire
  <2>2. Working' = Working
    BY <1>36 DEF Expire
  <2> QED BY <2>1, <2>2
<1>37. ASSUME BeginDrain PROVE GateAccounting'
  <2>1. /\ \A q \in Gated : Holds(q)' <=> gate' = q
        /\ work' = work
    BY <1>37 DEF BeginDrain
  <2>2. Working' = Working
    BY <1>37 DEF BeginDrain
  <2> QED BY <2>1, <2>2
<1>38. ASSUME CancelPending PROVE GateAccounting'
  <2>1. /\ \A q \in Gated : Holds(q)' <=> gate' = q
        /\ work' = work
    BY <1>38 DEF CancelPending, Collect
  <2>2. Working' = Working
    BY <1>38 DEF CancelPending, Collect
  <2> QED BY <2>1, <2>2
<1>39. ASSUME Drain PROVE GateAccounting'
  <2>1. /\ \A q \in Gated : Holds(q)' <=> gate' = q
        /\ work' = work
    BY <1>39 DEF Drain
  <2>2. Working' = Working
    BY <1>39 DEF Drain
  <2> QED BY <2>1, <2>2
<1>40. ASSUME Cancel(Drainer) PROVE GateAccounting'
  <2>1. /\ \A q \in Gated : Holds(q)' <=> gate' = q
        /\ work' = work
    BY <1>40 DEF Cancel
  <2>2. Working' = Working
    BY <1>40 DEF Cancel
  <2> QED BY <2>1, <2>2
<1>41. ASSUME CancelDone(Drainer) PROVE GateAccounting'
  <2>1. /\ \A q \in Gated : Holds(q)' <=> gate' = q
        /\ work' = work
    BY <1>41 DEF CancelDone
  <2>2. Working' = Working
    BY <1>41 DEF CancelDone
  <2> QED BY <2>1, <2>2
<1>42. CASE UNCHANGED vars
  <2>1. /\ \A q \in Gated : Holds(q)' <=> gate' = q
        /\ work' = work
    BY <1>42 DEF vars
  <2>2. Working' = Working
    BY <1>42 DEF vars
  <2> QED BY <2>1, <2>2
<1> QED BY <1>1, <1>2, <1>3, <1>4, <1>5, <1>6, <1>7, <1>8, <1>9, <1>10, <1>11,
  <1>12, <1>13, <1>14, <1>15, <1>16, <1>17, <1>18, <1>19, <1>20, <1>21, <1>22,
  <1>23, <1>24, <1>25, <1>26, <1>27, <1>28, <1>29, <1>30, <1>31, <1>32, <1>33,
  <1>34, <1>35, <1>36, <1>37, <1>38, <1>39, <1>40, <1>41, <1>42
  DEF Next, GateStep, RequestStep, MutationStep, OtherStep, DrainStep, Terminated

\* Every process stays within its own program.
LEMMA LabelsStep ==
  ASSUME TypeOK, Labels, [Next]_vars
  PROVE  Labels'
<1> USE ProcessesDistinct
    DEF TypeOK, Labels, RequestLabels, AdminLabels, Goto, Procs, Gated, Owners
<1>1. ASSUME NEW p \in Gated, ReserveRefused(p) PROVE Labels'
  BY <1>1 DEF ReserveRefused, After, Forget
<1>2. ASSUME NEW p \in Gated, ReserveWork(p) PROVE Labels'
  BY <1>2 DEF ReserveWork
<1>3. ASSUME NEW p \in Gated, TakeGate(p) PROVE Labels'
  BY <1>3 DEF TakeGate
<1>4. ASSUME NEW p \in Gated, GiveUp(p) PROVE Labels'
  BY <1>4 DEF GiveUp, After, Forget
<1>5. ASSUME NEW p \in Gated, EnterGate(p) PROVE Labels'
  BY <1>5 DEF EnterGate
<1>6. ASSUME NEW p \in Gated, AbandonGate(p) PROVE Labels'
  BY <1>6 DEF AbandonGate, ReturnGate, After, Forget, NextStage
<1>7. ASSUME NEW p \in Gated, ReleaseGate(p) PROVE Labels'
  BY <1>7 DEF ReleaseGate, ReturnGate, After, Forget, NextStage
<1>8. ASSUME NEW r \in Requests, ViewFails(r) PROVE Labels'
  BY <1>8 DEF ViewFails, Leave
<1>9. ASSUME NEW r \in Requests, AuthenticateRead(r) PROVE Labels'
  BY <1>9 DEF AuthenticateRead, Leave
<1>10. ASSUME NEW r \in Requests, Register(r) PROVE Labels'
  BY <1>10 DEF Register, Leave
<1>11. ASSUME NEW r \in Requests, Evaluate(r) PROVE Labels'
  BY <1>11 DEF Evaluate, Leave
<1>12. ASSUME NEW r \in Requests, ConfirmRead(r) PROVE Labels'
  BY <1>12 DEF ConfirmRead, Leave
<1>13. ASSUME NEW r \in Requests, Confirm(r) PROVE Labels'
  BY <1>13 DEF Confirm, Leave
<1>14. ASSUME NEW r \in Requests, ConfirmRefused(r) PROVE Labels'
  BY <1>14 DEF ConfirmRefused, Leave
<1>15. ASSUME NEW r \in Requests, Execute(r) PROVE Labels'
  BY <1>15 DEF Execute
<1>16. ASSUME NEW r \in Requests, LeaseDone(r) PROVE Labels'
  BY <1>16 DEF LeaseDone, SessionEnds
<1>17. ASSUME NEW r \in Requests, ReleaseLoad(r) PROVE Labels'
  BY <1>17 DEF ReleaseLoad
<1>18. ASSUME NEW r \in Requests, ReleaseSwap(r) PROVE Labels'
  BY <1>18 DEF ReleaseSwap
<1>19. ASSUME NEW r \in Requests, ReleaseRemove(r) PROVE Labels'
  BY <1>19 DEF ReleaseRemove
<1>20. ASSUME NEW r \in Requests, Hold(r) PROVE Labels'
  BY <1>20 DEF Hold
<1>21. ASSUME NEW r \in Requests, SessionEnds(r) PROVE Labels'
  BY <1>21 DEF SessionEnds
<1>22. ASSUME NEW a \in Admins, StartMutation(a) PROVE Labels'
  BY <1>22 DEF StartMutation
<1>23. ASSUME NEW a \in Admins, MutationBusy(a) PROVE Labels'
  BY <1>23 DEF MutationBusy
<1>24. ASSUME NEW a \in Admins, BeginMutation(a) PROVE Labels'
  BY <1>24 DEF BeginMutation, TakeWriter
<1>25. ASSUME NEW a \in Admins, TxCommit(a) PROVE Labels'
  BY <1>25 DEF TxCommit
<1>26. ASSUME NEW a \in Admins, TxRollback(a) PROVE Labels'
  BY <1>26 DEF TxRollback
<1>27. ASSUME NEW a \in Admins, TxAmbiguous(a) PROVE Labels'
  BY <1>27 DEF TxAmbiguous
<1>28. ASSUME NEW a \in Admins, Latch(a) PROVE Labels'
  BY <1>28 DEF Latch
<1>29. ASSUME NEW a \in Admins, ReleaseWriter(a) PROVE Labels'
  BY <1>29 DEF ReleaseWriter
<1>30. ASSUME NEW a \in Admins, MutationReturned(a) PROVE Labels'
  BY <1>30 DEF MutationReturned, Collect
<1>31. ASSUME NEW a \in Admins, Cancel(a) PROVE Labels'
  BY <1>31 DEF Cancel
<1>32. ASSUME NEW a \in Admins, CancelDone(a) PROVE Labels'
  BY <1>32 DEF CancelDone
<1>33. ASSUME NEW w \in Writers, OtherBegin(w) PROVE Labels'
  BY <1>33 DEF OtherBegin, TakeWriter
<1>34. ASSUME NEW w \in Writers, OtherSettles(w) PROVE Labels'
  BY <1>34 DEF OtherSettles
<1>35. ASSUME NEW w \in Writers, ReleaseWriter(w) PROVE Labels'
  BY <1>35 DEF ReleaseWriter
<1>36. ASSUME Expire PROVE Labels'
  BY <1>36 DEF Expire
<1>37. ASSUME BeginDrain PROVE Labels'
  BY <1>37 DEF BeginDrain
<1>38. ASSUME CancelPending PROVE Labels'
  BY <1>38 DEF CancelPending, Collect
<1>39. ASSUME Drain PROVE Labels'
  BY <1>39 DEF Drain
<1>40. ASSUME Cancel(Drainer) PROVE Labels'
  BY <1>40 DEF Cancel
<1>41. ASSUME CancelDone(Drainer) PROVE Labels'
  BY <1>41 DEF CancelDone
<1>42. CASE UNCHANGED vars
  BY <1>42 DEF vars
<1> QED BY <1>1, <1>2, <1>3, <1>4, <1>5, <1>6, <1>7, <1>8, <1>9, <1>10, <1>11,
  <1>12, <1>13, <1>14, <1>15, <1>16, <1>17, <1>18, <1>19, <1>20, <1>21, <1>22,
  <1>23, <1>24, <1>25, <1>26, <1>27, <1>28, <1>29, <1>30, <1>31, <1>32, <1>33,
  <1>34, <1>35, <1>36, <1>37, <1>38, <1>39, <1>40, <1>41, <1>42
  DEF Next, GateStep, RequestStep, MutationStep, OtherStep, DrainStep, Terminated

\* A lease is held from its registration to its release.
LEMMA LeaseStep ==
  ASSUME TypeOK, Labels, LeaseOwned, [Next]_vars
  PROVE  LeaseOwned'
<1> USE ProcessesDistinct
    DEF TypeOK, Labels, RequestLabels, AdminLabels, LeaseOwned, Goto, Procs, Gated, Owners
<1>1. ASSUME NEW p \in Gated, ReserveRefused(p) PROVE LeaseOwned'
  BY <1>1 DEF ReserveRefused, After, Forget
<1>2. ASSUME NEW p \in Gated, ReserveWork(p) PROVE LeaseOwned'
  BY <1>2 DEF ReserveWork
<1>3. ASSUME NEW p \in Gated, TakeGate(p) PROVE LeaseOwned'
  BY <1>3 DEF TakeGate
<1>4. ASSUME NEW p \in Gated, GiveUp(p) PROVE LeaseOwned'
  BY <1>4 DEF GiveUp, After, Forget
<1>5. ASSUME NEW p \in Gated, EnterGate(p) PROVE LeaseOwned'
  BY <1>5 DEF EnterGate
<1>6. ASSUME NEW p \in Gated, AbandonGate(p) PROVE LeaseOwned'
  BY <1>6 DEF AbandonGate, ReturnGate, After, Forget, NextStage
<1>7. ASSUME NEW p \in Gated, ReleaseGate(p) PROVE LeaseOwned'
  BY <1>7 DEF ReleaseGate, ReturnGate, After, Forget, NextStage
<1>8. ASSUME NEW r \in Requests, ViewFails(r) PROVE LeaseOwned'
  BY <1>8 DEF ViewFails, Leave
<1>9. ASSUME NEW r \in Requests, AuthenticateRead(r) PROVE LeaseOwned'
  BY <1>9 DEF AuthenticateRead, Leave
<1>10. ASSUME NEW r \in Requests, Register(r) PROVE LeaseOwned'
  BY <1>10 DEF Register, Leave
<1>11. ASSUME NEW r \in Requests, Evaluate(r) PROVE LeaseOwned'
  BY <1>11 DEF Evaluate, Leave
<1>12. ASSUME NEW r \in Requests, ConfirmRead(r) PROVE LeaseOwned'
  BY <1>12 DEF ConfirmRead, Leave
<1>13. ASSUME NEW r \in Requests, Confirm(r) PROVE LeaseOwned'
  BY <1>13 DEF Confirm, Leave
<1>14. ASSUME NEW r \in Requests, ConfirmRefused(r) PROVE LeaseOwned'
  BY <1>14 DEF ConfirmRefused, Leave
<1>15. ASSUME NEW r \in Requests, Execute(r) PROVE LeaseOwned'
  BY <1>15 DEF Execute
<1>16. ASSUME NEW r \in Requests, LeaseDone(r) PROVE LeaseOwned'
  BY <1>16 DEF LeaseDone, SessionEnds
<1>17. ASSUME NEW r \in Requests, ReleaseLoad(r) PROVE LeaseOwned'
  BY <1>17 DEF ReleaseLoad
<1>18. ASSUME NEW r \in Requests, ReleaseSwap(r) PROVE LeaseOwned'
  BY <1>18 DEF ReleaseSwap
<1>19. ASSUME NEW r \in Requests, ReleaseRemove(r) PROVE LeaseOwned'
  BY <1>19 DEF ReleaseRemove
<1>20. ASSUME NEW r \in Requests, Hold(r) PROVE LeaseOwned'
  BY <1>20 DEF Hold
<1>21. ASSUME NEW r \in Requests, SessionEnds(r) PROVE LeaseOwned'
  BY <1>21 DEF SessionEnds
<1>22. ASSUME NEW a \in Admins, StartMutation(a) PROVE LeaseOwned'
  BY <1>22 DEF StartMutation
<1>23. ASSUME NEW a \in Admins, MutationBusy(a) PROVE LeaseOwned'
  BY <1>23 DEF MutationBusy
<1>24. ASSUME NEW a \in Admins, BeginMutation(a) PROVE LeaseOwned'
  BY <1>24 DEF BeginMutation, TakeWriter
<1>25. ASSUME NEW a \in Admins, TxCommit(a) PROVE LeaseOwned'
  BY <1>25 DEF TxCommit
<1>26. ASSUME NEW a \in Admins, TxRollback(a) PROVE LeaseOwned'
  BY <1>26 DEF TxRollback
<1>27. ASSUME NEW a \in Admins, TxAmbiguous(a) PROVE LeaseOwned'
  BY <1>27 DEF TxAmbiguous
<1>28. ASSUME NEW a \in Admins, Latch(a) PROVE LeaseOwned'
  BY <1>28 DEF Latch
<1>29. ASSUME NEW a \in Admins, ReleaseWriter(a) PROVE LeaseOwned'
  BY <1>29 DEF ReleaseWriter
<1>30. ASSUME NEW a \in Admins, MutationReturned(a) PROVE LeaseOwned'
  BY <1>30 DEF MutationReturned, Collect
<1>31. ASSUME NEW a \in Admins, Cancel(a) PROVE LeaseOwned'
  BY <1>31 DEF Cancel
<1>32. ASSUME NEW a \in Admins, CancelDone(a) PROVE LeaseOwned'
  BY <1>32 DEF CancelDone
<1>33. ASSUME NEW w \in Writers, OtherBegin(w) PROVE LeaseOwned'
  BY <1>33 DEF OtherBegin, TakeWriter
<1>34. ASSUME NEW w \in Writers, OtherSettles(w) PROVE LeaseOwned'
  BY <1>34 DEF OtherSettles
<1>35. ASSUME NEW w \in Writers, ReleaseWriter(w) PROVE LeaseOwned'
  BY <1>35 DEF ReleaseWriter
<1>36. ASSUME Expire PROVE LeaseOwned'
  BY <1>36 DEF Expire
<1>37. ASSUME BeginDrain PROVE LeaseOwned'
  BY <1>37 DEF BeginDrain
<1>38. ASSUME CancelPending PROVE LeaseOwned'
  BY <1>38 DEF CancelPending, Collect
<1>39. ASSUME Drain PROVE LeaseOwned'
  BY <1>39 DEF Drain
<1>40. ASSUME Cancel(Drainer) PROVE LeaseOwned'
  BY <1>40 DEF Cancel
<1>41. ASSUME CancelDone(Drainer) PROVE LeaseOwned'
  BY <1>41 DEF CancelDone
<1>42. CASE UNCHANGED vars
  BY <1>42 DEF vars
<1> QED BY <1>1, <1>2, <1>3, <1>4, <1>5, <1>6, <1>7, <1>8, <1>9, <1>10, <1>11,
  <1>12, <1>13, <1>14, <1>15, <1>16, <1>17, <1>18, <1>19, <1>20, <1>21, <1>22,
  <1>23, <1>24, <1>25, <1>26, <1>27, <1>28, <1>29, <1>30, <1>31, <1>32, <1>33,
  <1>34, <1>35, <1>36, <1>37, <1>38, <1>39, <1>40, <1>41, <1>42
  DEF Next, GateStep, RequestStep, MutationStep, OtherStep, DrainStep, Terminated

\* The done channel follows the phase of its lease.
LEMMA DoneStep ==
  ASSUME TypeOK, LeaseOwned, DoneClosedOnce, [Next]_vars
  PROVE  DoneClosedOnce'
<1> USE DEF TypeOK, LeaseOwned, DoneClosedOnce, Goto, Procs, Gated, Owners
<1>1. ASSUME NEW p \in Gated, ReserveRefused(p) PROVE DoneClosedOnce'
  BY <1>1 DEF ReserveRefused, After, Forget
<1>2. ASSUME NEW p \in Gated, ReserveWork(p) PROVE DoneClosedOnce'
  BY <1>2 DEF ReserveWork
<1>3. ASSUME NEW p \in Gated, TakeGate(p) PROVE DoneClosedOnce'
  BY <1>3 DEF TakeGate
<1>4. ASSUME NEW p \in Gated, GiveUp(p) PROVE DoneClosedOnce'
  BY <1>4 DEF GiveUp, After, Forget
<1>5. ASSUME NEW p \in Gated, EnterGate(p) PROVE DoneClosedOnce'
  BY <1>5 DEF EnterGate
<1>6. ASSUME NEW p \in Gated, AbandonGate(p) PROVE DoneClosedOnce'
  BY <1>6 DEF AbandonGate, ReturnGate, After, Forget, NextStage
<1>7. ASSUME NEW p \in Gated, ReleaseGate(p) PROVE DoneClosedOnce'
  BY <1>7 DEF ReleaseGate, ReturnGate, After, Forget, NextStage
<1>8. ASSUME NEW r \in Requests, ViewFails(r) PROVE DoneClosedOnce'
  BY <1>8 DEF ViewFails, Leave
<1>9. ASSUME NEW r \in Requests, AuthenticateRead(r) PROVE DoneClosedOnce'
  BY <1>9 DEF AuthenticateRead, Leave
<1>10. ASSUME NEW r \in Requests, Register(r) PROVE DoneClosedOnce'
  BY <1>10 DEF Register, Leave
<1>11. ASSUME NEW r \in Requests, Evaluate(r) PROVE DoneClosedOnce'
  BY <1>11 DEF Evaluate, Leave
<1>12. ASSUME NEW r \in Requests, ConfirmRead(r) PROVE DoneClosedOnce'
  BY <1>12 DEF ConfirmRead, Leave
<1>13. ASSUME NEW r \in Requests, Confirm(r) PROVE DoneClosedOnce'
  BY <1>13 DEF Confirm, Leave
<1>14. ASSUME NEW r \in Requests, ConfirmRefused(r) PROVE DoneClosedOnce'
  BY <1>14 DEF ConfirmRefused, Leave
<1>15. ASSUME NEW r \in Requests, Execute(r) PROVE DoneClosedOnce'
  BY <1>15 DEF Execute
<1>16. ASSUME NEW r \in Requests, LeaseDone(r) PROVE DoneClosedOnce'
  BY <1>16 DEF LeaseDone, SessionEnds
<1>17. ASSUME NEW r \in Requests, ReleaseLoad(r) PROVE DoneClosedOnce'
  BY <1>17 DEF ReleaseLoad
<1>18. ASSUME NEW r \in Requests, ReleaseSwap(r) PROVE DoneClosedOnce'
  BY <1>18 DEF ReleaseSwap
<1>19. ASSUME NEW r \in Requests, ReleaseRemove(r) PROVE DoneClosedOnce'
  BY <1>19 DEF ReleaseRemove
<1>20. ASSUME NEW r \in Requests, Hold(r) PROVE DoneClosedOnce'
  BY <1>20 DEF Hold
<1>21. ASSUME NEW r \in Requests, SessionEnds(r) PROVE DoneClosedOnce'
  BY <1>21 DEF SessionEnds
<1>22. ASSUME NEW a \in Admins, StartMutation(a) PROVE DoneClosedOnce'
  BY <1>22 DEF StartMutation
<1>23. ASSUME NEW a \in Admins, MutationBusy(a) PROVE DoneClosedOnce'
  BY <1>23 DEF MutationBusy
<1>24. ASSUME NEW a \in Admins, BeginMutation(a) PROVE DoneClosedOnce'
  BY <1>24 DEF BeginMutation, TakeWriter
<1>25. ASSUME NEW a \in Admins, TxCommit(a) PROVE DoneClosedOnce'
  BY <1>25 DEF TxCommit
<1>26. ASSUME NEW a \in Admins, TxRollback(a) PROVE DoneClosedOnce'
  BY <1>26 DEF TxRollback
<1>27. ASSUME NEW a \in Admins, TxAmbiguous(a) PROVE DoneClosedOnce'
  BY <1>27 DEF TxAmbiguous
<1>28. ASSUME NEW a \in Admins, Latch(a) PROVE DoneClosedOnce'
  BY <1>28 DEF Latch
<1>29. ASSUME NEW a \in Admins, ReleaseWriter(a) PROVE DoneClosedOnce'
  BY <1>29 DEF ReleaseWriter
<1>30. ASSUME NEW a \in Admins, MutationReturned(a) PROVE DoneClosedOnce'
  BY <1>30 DEF MutationReturned, Collect
<1>31. ASSUME NEW a \in Admins, Cancel(a) PROVE DoneClosedOnce'
  BY <1>31 DEF Cancel
<1>32. ASSUME NEW a \in Admins, CancelDone(a) PROVE DoneClosedOnce'
  BY <1>32 DEF CancelDone
<1>33. ASSUME NEW w \in Writers, OtherBegin(w) PROVE DoneClosedOnce'
  BY <1>33 DEF OtherBegin, TakeWriter
<1>34. ASSUME NEW w \in Writers, OtherSettles(w) PROVE DoneClosedOnce'
  BY <1>34 DEF OtherSettles
<1>35. ASSUME NEW w \in Writers, ReleaseWriter(w) PROVE DoneClosedOnce'
  BY <1>35 DEF ReleaseWriter
<1>36. ASSUME Expire PROVE DoneClosedOnce'
  BY <1>36 DEF Expire
<1>37. ASSUME BeginDrain PROVE DoneClosedOnce'
  BY <1>37 DEF BeginDrain
<1>38. ASSUME CancelPending PROVE DoneClosedOnce'
  BY <1>38 DEF CancelPending, Collect
<1>39. ASSUME Drain PROVE DoneClosedOnce'
  BY <1>39 DEF Drain
<1>40. ASSUME Cancel(Drainer) PROVE DoneClosedOnce'
  BY <1>40 DEF Cancel
<1>41. ASSUME CancelDone(Drainer) PROVE DoneClosedOnce'
  BY <1>41 DEF CancelDone
<1>42. CASE UNCHANGED vars
  BY <1>42 DEF vars
<1> QED BY <1>1, <1>2, <1>3, <1>4, <1>5, <1>6, <1>7, <1>8, <1>9, <1>10, <1>11,
  <1>12, <1>13, <1>14, <1>15, <1>16, <1>17, <1>18, <1>19, <1>20, <1>21, <1>22,
  <1>23, <1>24, <1>25, <1>26, <1>27, <1>28, <1>29, <1>30, <1>31, <1>32, <1>33,
  <1>34, <1>35, <1>36, <1>37, <1>38, <1>39, <1>40, <1>41, <1>42
  DEF Next, GateStep, RequestStep, MutationStep, OtherStep, DrainStep, Terminated

\* A pending lease can be found by whoever has to cancel it.
LEMMA TrackedStep ==
  ASSUME TypeOK, Labels, LeaseOwned, PendingIsTracked, [Next]_vars
  PROVE  PendingIsTracked'
<1> USE ProcessesDistinct
    DEF TypeOK, Labels, LeaseOwned, PendingIsTracked, Goto, Procs, Gated, Owners
<1>1. ASSUME NEW p \in Gated, ReserveRefused(p) PROVE PendingIsTracked'
  BY <1>1 DEF ReserveRefused, After, Forget
<1>2. ASSUME NEW p \in Gated, ReserveWork(p) PROVE PendingIsTracked'
  BY <1>2 DEF ReserveWork
<1>3. ASSUME NEW p \in Gated, TakeGate(p) PROVE PendingIsTracked'
  BY <1>3 DEF TakeGate
<1>4. ASSUME NEW p \in Gated, GiveUp(p) PROVE PendingIsTracked'
  BY <1>4 DEF GiveUp, After, Forget
<1>5. ASSUME NEW p \in Gated, EnterGate(p) PROVE PendingIsTracked'
  BY <1>5 DEF EnterGate
<1>6. ASSUME NEW p \in Gated, AbandonGate(p) PROVE PendingIsTracked'
  BY <1>6 DEF AbandonGate, ReturnGate, After, Forget, NextStage
<1>7. ASSUME NEW p \in Gated, ReleaseGate(p) PROVE PendingIsTracked'
  BY <1>7 DEF ReleaseGate, ReturnGate, After, Forget, NextStage
<1>8. ASSUME NEW r \in Requests, ViewFails(r) PROVE PendingIsTracked'
  BY <1>8 DEF ViewFails, Leave
<1>9. ASSUME NEW r \in Requests, AuthenticateRead(r) PROVE PendingIsTracked'
  BY <1>9 DEF AuthenticateRead, Leave
<1>10. ASSUME NEW r \in Requests, Register(r) PROVE PendingIsTracked'
  BY <1>10 DEF Register, Leave
<1>11. ASSUME NEW r \in Requests, Evaluate(r) PROVE PendingIsTracked'
  BY <1>11 DEF Evaluate, Leave
<1>12. ASSUME NEW r \in Requests, ConfirmRead(r) PROVE PendingIsTracked'
  BY <1>12 DEF ConfirmRead, Leave
<1>13. ASSUME NEW r \in Requests, Confirm(r) PROVE PendingIsTracked'
  BY <1>13 DEF Confirm, Leave
<1>14. ASSUME NEW r \in Requests, ConfirmRefused(r) PROVE PendingIsTracked'
  BY <1>14 DEF ConfirmRefused, Leave
<1>15. ASSUME NEW r \in Requests, Execute(r) PROVE PendingIsTracked'
  BY <1>15 DEF Execute
<1>16. ASSUME NEW r \in Requests, LeaseDone(r) PROVE PendingIsTracked'
  BY <1>16 DEF LeaseDone, SessionEnds
<1>17. ASSUME NEW r \in Requests, ReleaseLoad(r) PROVE PendingIsTracked'
  BY <1>17 DEF ReleaseLoad
<1>18. ASSUME NEW r \in Requests, ReleaseSwap(r) PROVE PendingIsTracked'
  BY <1>18 DEF ReleaseSwap
<1>19. ASSUME NEW r \in Requests, ReleaseRemove(r) PROVE PendingIsTracked'
  BY <1>19 DEF ReleaseRemove
<1>20. ASSUME NEW r \in Requests, Hold(r) PROVE PendingIsTracked'
  BY <1>20 DEF Hold
<1>21. ASSUME NEW r \in Requests, SessionEnds(r) PROVE PendingIsTracked'
  BY <1>21 DEF SessionEnds
<1>22. ASSUME NEW a \in Admins, StartMutation(a) PROVE PendingIsTracked'
  BY <1>22 DEF StartMutation
<1>23. ASSUME NEW a \in Admins, MutationBusy(a) PROVE PendingIsTracked'
  BY <1>23 DEF MutationBusy
<1>24. ASSUME NEW a \in Admins, BeginMutation(a) PROVE PendingIsTracked'
  BY <1>24 DEF BeginMutation, TakeWriter
<1>25. ASSUME NEW a \in Admins, TxCommit(a) PROVE PendingIsTracked'
  BY <1>25 DEF TxCommit
<1>26. ASSUME NEW a \in Admins, TxRollback(a) PROVE PendingIsTracked'
  BY <1>26 DEF TxRollback
<1>27. ASSUME NEW a \in Admins, TxAmbiguous(a) PROVE PendingIsTracked'
  BY <1>27 DEF TxAmbiguous
<1>28. ASSUME NEW a \in Admins, Latch(a) PROVE PendingIsTracked'
  BY <1>28 DEF Latch
<1>29. ASSUME NEW a \in Admins, ReleaseWriter(a) PROVE PendingIsTracked'
  BY <1>29 DEF ReleaseWriter
<1>30. ASSUME NEW a \in Admins, MutationReturned(a) PROVE PendingIsTracked'
  <2>1. pc[a] = "returned" /\ UNCHANGED <<phase, draining, binding>>
    BY <1>30 DEF MutationReturned
  <2>2. CASE UNCHANGED <<leases, cancelling>> /\ pc' = [pc EXCEPT ![a] = "leave"]
    BY <2>1, <2>2
  <2>3. CASE Collect(a, Affected(mutation[a]), "cancel")
    <3> DEFINE matched == {r \in leases : binding[r].principal \in Affected(mutation[a])}
    <3>1. /\ leases' = leases \ matched
          /\ cancelling' = [cancelling EXCEPT ![a] = matched]
          /\ pc' = [pc EXCEPT ![a] = "cancel"]
      BY <2>3 DEF Collect
    <3>2. pc'[a] = "cancel" /\ cancelling'[a] = matched
      BY <3>1
    <3> HIDE DEF matched
    <3> QED BY <2>1, <3>1, <3>2
  <2> QED BY <1>30, <2>2, <2>3 DEF MutationReturned
<1>31. ASSUME NEW a \in Admins, Cancel(a) PROVE PendingIsTracked'
  BY <1>31 DEF Cancel
<1>32. ASSUME NEW a \in Admins, CancelDone(a) PROVE PendingIsTracked'
  BY <1>32 DEF CancelDone
<1>33. ASSUME NEW w \in Writers, OtherBegin(w) PROVE PendingIsTracked'
  BY <1>33 DEF OtherBegin, TakeWriter
<1>34. ASSUME NEW w \in Writers, OtherSettles(w) PROVE PendingIsTracked'
  BY <1>34 DEF OtherSettles
<1>35. ASSUME NEW w \in Writers, ReleaseWriter(w) PROVE PendingIsTracked'
  BY <1>35 DEF ReleaseWriter
<1>36. ASSUME Expire PROVE PendingIsTracked'
  BY <1>36 DEF Expire
<1>37. ASSUME BeginDrain PROVE PendingIsTracked'
  BY <1>37 DEF BeginDrain
<1>38. ASSUME CancelPending PROVE PendingIsTracked'
  BY <1>38 DEF CancelPending, Collect
<1>39. ASSUME Drain PROVE PendingIsTracked'
  BY <1>39 DEF Drain
<1>40. ASSUME Cancel(Drainer) PROVE PendingIsTracked'
  BY <1>40 DEF Cancel
<1>41. ASSUME CancelDone(Drainer) PROVE PendingIsTracked'
  BY <1>41 DEF CancelDone
<1>42. CASE UNCHANGED vars
  BY <1>42 DEF vars
<1> QED BY <1>1, <1>2, <1>3, <1>4, <1>5, <1>6, <1>7, <1>8, <1>9, <1>10, <1>11,
  <1>12, <1>13, <1>14, <1>15, <1>16, <1>17, <1>18, <1>19, <1>20, <1>21, <1>22,
  <1>23, <1>24, <1>25, <1>26, <1>27, <1>28, <1>29, <1>30, <1>31, <1>32, <1>33,
  <1>34, <1>35, <1>36, <1>37, <1>38, <1>39, <1>40, <1>41, <1>42
  DEF Next, GateStep, RequestStep, MutationStep, OtherStep, DrainStep, Terminated

\* Under the gate, a binding that was just read stays current.
LEMMA ReadStep ==
  ASSUME TypeOK, Labels, GateAccounting, ReadIsCurrent, [Next]_vars
  PROVE  ReadIsCurrent'
<1> USE ProcessesDistinct
    DEF TypeOK, Labels, GateAccounting, Holds, HolderLabels, ReadIsCurrent, CurrentBinding, HasCredential, BindingOf,
        Goto, Procs, Gated, Owners
<1>1. ASSUME NEW p \in Gated, ReserveRefused(p) PROVE ReadIsCurrent'
  BY <1>1 DEF ReserveRefused, After, Forget
<1>2. ASSUME NEW p \in Gated, ReserveWork(p) PROVE ReadIsCurrent'
  BY <1>2 DEF ReserveWork
<1>3. ASSUME NEW p \in Gated, TakeGate(p) PROVE ReadIsCurrent'
  BY <1>3 DEF TakeGate
<1>4. ASSUME NEW p \in Gated, GiveUp(p) PROVE ReadIsCurrent'
  BY <1>4 DEF GiveUp, After, Forget
<1>5. ASSUME NEW p \in Gated, EnterGate(p) PROVE ReadIsCurrent'
  BY <1>5 DEF EnterGate
<1>6. ASSUME NEW p \in Gated, AbandonGate(p) PROVE ReadIsCurrent'
  BY <1>6 DEF AbandonGate, ReturnGate, After, Forget, NextStage
<1>7. ASSUME NEW p \in Gated, ReleaseGate(p) PROVE ReadIsCurrent'
  BY <1>7 DEF ReleaseGate, ReturnGate, After, Forget, NextStage
<1>8. ASSUME NEW r \in Requests, ViewFails(r) PROVE ReadIsCurrent'
  BY <1>8 DEF ViewFails, Leave
<1>9. ASSUME NEW r \in Requests, AuthenticateRead(r) PROVE ReadIsCurrent'
  BY <1>9 DEF AuthenticateRead, Leave
<1>10. ASSUME NEW r \in Requests, Register(r) PROVE ReadIsCurrent'
  BY <1>10 DEF Register, Leave
<1>11. ASSUME NEW r \in Requests, Evaluate(r) PROVE ReadIsCurrent'
  BY <1>11 DEF Evaluate, Leave
<1>12. ASSUME NEW r \in Requests, ConfirmRead(r) PROVE ReadIsCurrent'
  BY <1>12 DEF ConfirmRead, Leave
<1>13. ASSUME NEW r \in Requests, Confirm(r) PROVE ReadIsCurrent'
  BY <1>13 DEF Confirm, Leave
<1>14. ASSUME NEW r \in Requests, ConfirmRefused(r) PROVE ReadIsCurrent'
  BY <1>14 DEF ConfirmRefused, Leave
<1>15. ASSUME NEW r \in Requests, Execute(r) PROVE ReadIsCurrent'
  BY <1>15 DEF Execute
<1>16. ASSUME NEW r \in Requests, LeaseDone(r) PROVE ReadIsCurrent'
  BY <1>16 DEF LeaseDone, SessionEnds
<1>17. ASSUME NEW r \in Requests, ReleaseLoad(r) PROVE ReadIsCurrent'
  BY <1>17 DEF ReleaseLoad
<1>18. ASSUME NEW r \in Requests, ReleaseSwap(r) PROVE ReadIsCurrent'
  BY <1>18 DEF ReleaseSwap
<1>19. ASSUME NEW r \in Requests, ReleaseRemove(r) PROVE ReadIsCurrent'
  BY <1>19 DEF ReleaseRemove
<1>20. ASSUME NEW r \in Requests, Hold(r) PROVE ReadIsCurrent'
  BY <1>20 DEF Hold
<1>21. ASSUME NEW r \in Requests, SessionEnds(r) PROVE ReadIsCurrent'
  BY <1>21 DEF SessionEnds
<1>22. ASSUME NEW a \in Admins, StartMutation(a) PROVE ReadIsCurrent'
  BY <1>22 DEF StartMutation
<1>23. ASSUME NEW a \in Admins, MutationBusy(a) PROVE ReadIsCurrent'
  BY <1>23 DEF MutationBusy
<1>24. ASSUME NEW a \in Admins, BeginMutation(a) PROVE ReadIsCurrent'
  BY <1>24 DEF BeginMutation, TakeWriter
<1>25. ASSUME NEW a \in Admins, TxCommit(a) PROVE ReadIsCurrent'
  BY <1>25 DEF TxCommit
<1>26. ASSUME NEW a \in Admins, TxRollback(a) PROVE ReadIsCurrent'
  BY <1>26 DEF TxRollback
<1>27. ASSUME NEW a \in Admins, TxAmbiguous(a) PROVE ReadIsCurrent'
  BY <1>27 DEF TxAmbiguous
<1>28. ASSUME NEW a \in Admins, Latch(a) PROVE ReadIsCurrent'
  BY <1>28 DEF Latch
<1>29. ASSUME NEW a \in Admins, ReleaseWriter(a) PROVE ReadIsCurrent'
  BY <1>29 DEF ReleaseWriter
<1>30. ASSUME NEW a \in Admins, MutationReturned(a) PROVE ReadIsCurrent'
  BY <1>30 DEF MutationReturned, Collect
<1>31. ASSUME NEW a \in Admins, Cancel(a) PROVE ReadIsCurrent'
  BY <1>31 DEF Cancel
<1>32. ASSUME NEW a \in Admins, CancelDone(a) PROVE ReadIsCurrent'
  BY <1>32 DEF CancelDone
<1>33. ASSUME NEW w \in Writers, OtherBegin(w) PROVE ReadIsCurrent'
  BY <1>33 DEF OtherBegin, TakeWriter
<1>34. ASSUME NEW w \in Writers, OtherSettles(w) PROVE ReadIsCurrent'
  BY <1>34 DEF OtherSettles
<1>35. ASSUME NEW w \in Writers, ReleaseWriter(w) PROVE ReadIsCurrent'
  BY <1>35 DEF ReleaseWriter
<1>36. ASSUME Expire PROVE ReadIsCurrent'
  BY <1>36 DEF Expire
<1>37. ASSUME BeginDrain PROVE ReadIsCurrent'
  BY <1>37 DEF BeginDrain
<1>38. ASSUME CancelPending PROVE ReadIsCurrent'
  BY <1>38 DEF CancelPending, Collect
<1>39. ASSUME Drain PROVE ReadIsCurrent'
  BY <1>39 DEF Drain
<1>40. ASSUME Cancel(Drainer) PROVE ReadIsCurrent'
  BY <1>40 DEF Cancel
<1>41. ASSUME CancelDone(Drainer) PROVE ReadIsCurrent'
  BY <1>41 DEF CancelDone
<1>42. CASE UNCHANGED vars
  BY <1>42 DEF vars
<1> QED BY <1>1, <1>2, <1>3, <1>4, <1>5, <1>6, <1>7, <1>8, <1>9, <1>10, <1>11,
  <1>12, <1>13, <1>14, <1>15, <1>16, <1>17, <1>18, <1>19, <1>20, <1>21, <1>22,
  <1>23, <1>24, <1>25, <1>26, <1>27, <1>28, <1>29, <1>30, <1>31, <1>32, <1>33,
  <1>34, <1>35, <1>36, <1>37, <1>38, <1>39, <1>40, <1>41, <1>42
  DEF Next, GateStep, RequestStep, MutationStep, OtherStep, DrainStep, Terminated

\* While the revision stands, what an evaluation saw is in force.
LEMMA CandidateStep ==
  ASSUME TypeOK, Labels, LeaseOwned, CandidateIsSound, [Next]_vars
  PROVE  CandidateIsSound'
<1> USE ProcessesDistinct
    DEF TypeOK, Labels, LeaseOwned, CandidateIsSound, Evaluated, Goto, Procs, Gated, Owners
<1>1. ASSUME NEW p \in Gated, ReserveRefused(p) PROVE CandidateIsSound'
  BY <1>1 DEF ReserveRefused, After, Forget
<1>2. ASSUME NEW p \in Gated, ReserveWork(p) PROVE CandidateIsSound'
  BY <1>2 DEF ReserveWork
<1>3. ASSUME NEW p \in Gated, TakeGate(p) PROVE CandidateIsSound'
  BY <1>3 DEF TakeGate
<1>4. ASSUME NEW p \in Gated, GiveUp(p) PROVE CandidateIsSound'
  BY <1>4 DEF GiveUp, After, Forget
<1>5. ASSUME NEW p \in Gated, EnterGate(p) PROVE CandidateIsSound'
  BY <1>5 DEF EnterGate
<1>6. ASSUME NEW p \in Gated, AbandonGate(p) PROVE CandidateIsSound'
  BY <1>6 DEF AbandonGate, ReturnGate, After, Forget, NextStage
<1>7. ASSUME NEW p \in Gated, ReleaseGate(p) PROVE CandidateIsSound'
  BY <1>7 DEF ReleaseGate, ReturnGate, After, Forget, NextStage
<1>8. ASSUME NEW r \in Requests, ViewFails(r) PROVE CandidateIsSound'
  BY <1>8 DEF ViewFails, Leave
<1>9. ASSUME NEW r \in Requests, AuthenticateRead(r) PROVE CandidateIsSound'
  BY <1>9, SMTT(20) DEF AuthenticateRead, Leave
<1>10. ASSUME NEW r \in Requests, Register(r) PROVE CandidateIsSound'
  BY <1>10 DEF Register, Leave
<1>11. ASSUME NEW r \in Requests, Evaluate(r) PROVE CandidateIsSound'
  <2> DEFINE live == grants \ expired
             allowed == /\ ~latched /\ phase[r] = "pending" /\ CurrentBinding(binding[r])
                        /\ Decision(live, binding[r].principal, target[r]) = "allow"
  <2>1. CASE allowed
    <3>1. /\ candidate' = [candidate EXCEPT ![r] = authRev]
          /\ seen' = [seen EXCEPT ![r] = live]
          /\ UNCHANGED <<grants, authRev, expired, binding, target, stage>>
          /\ pc' = [pc EXCEPT ![r] = "leave"]
          /\ result' = [result EXCEPT ![r] = "ok"]
      BY <1>11, <2>1 DEF Evaluate, Leave
    <3>2. seen'[r] \subseteq grants' /\ grants' \ seen'[r] \subseteq expired'
      BY <3>1
    <3>3. Decision(seen'[r], binding'[r].principal, target'[r]) = "allow"
      BY <2>1, <3>1
    <3> HIDE DEF allowed, live
    <3> QED BY <3>1, <3>2, <3>3
  <2>2. CASE ~allowed
    <3>1. /\ UNCHANGED <<grants, authRev, expired, binding, target, stage, candidate, seen>>
          /\ pc' = [pc EXCEPT ![r] = "leave"]
          /\ result' = [result EXCEPT ![r] = "error"]
          /\ stage[r] = "evaluate"
      BY <1>11, <2>2 DEF Evaluate, Leave
    <3> QED BY <3>1
  <2> QED BY <2>1, <2>2
<1>12. ASSUME NEW r \in Requests, ConfirmRead(r) PROVE CandidateIsSound'
  BY <1>12 DEF ConfirmRead, Leave
<1>13. ASSUME NEW r \in Requests, Confirm(r) PROVE CandidateIsSound'
  BY <1>13 DEF Confirm, Leave
<1>14. ASSUME NEW r \in Requests, ConfirmRefused(r) PROVE CandidateIsSound'
  BY <1>14 DEF ConfirmRefused, Leave
<1>15. ASSUME NEW r \in Requests, Execute(r) PROVE CandidateIsSound'
  BY <1>15 DEF Execute
<1>16. ASSUME NEW r \in Requests, LeaseDone(r) PROVE CandidateIsSound'
  BY <1>16 DEF LeaseDone, SessionEnds
<1>17. ASSUME NEW r \in Requests, ReleaseLoad(r) PROVE CandidateIsSound'
  BY <1>17 DEF ReleaseLoad
<1>18. ASSUME NEW r \in Requests, ReleaseSwap(r) PROVE CandidateIsSound'
  BY <1>18 DEF ReleaseSwap
<1>19. ASSUME NEW r \in Requests, ReleaseRemove(r) PROVE CandidateIsSound'
  BY <1>19 DEF ReleaseRemove
<1>20. ASSUME NEW r \in Requests, Hold(r) PROVE CandidateIsSound'
  BY <1>20 DEF Hold
<1>21. ASSUME NEW r \in Requests, SessionEnds(r) PROVE CandidateIsSound'
  BY <1>21 DEF SessionEnds
<1>22. ASSUME NEW a \in Admins, StartMutation(a) PROVE CandidateIsSound'
  BY <1>22 DEF StartMutation
<1>23. ASSUME NEW a \in Admins, MutationBusy(a) PROVE CandidateIsSound'
  BY <1>23 DEF MutationBusy
<1>24. ASSUME NEW a \in Admins, BeginMutation(a) PROVE CandidateIsSound'
  BY <1>24 DEF BeginMutation, TakeWriter
<1>25. ASSUME NEW a \in Admins, TxCommit(a) PROVE CandidateIsSound'
  <2>1. \/ authRev' = authRev + 1
        \/ authRev' = authRev /\ grants' = grants
    BY <1>25, BodyEffect DEF TxCommit
  <2> QED BY <1>25, <2>1 DEF TxCommit
<1>26. ASSUME NEW a \in Admins, TxRollback(a) PROVE CandidateIsSound'
  BY <1>26 DEF TxRollback
<1>27. ASSUME NEW a \in Admins, TxAmbiguous(a) PROVE CandidateIsSound'
  <2>1. \/ authRev' = authRev + 1
        \/ authRev' = authRev /\ grants' = grants
    BY <1>27, BodyEffect DEF TxAmbiguous
  <2> QED BY <1>27, <2>1 DEF TxAmbiguous
<1>28. ASSUME NEW a \in Admins, Latch(a) PROVE CandidateIsSound'
  BY <1>28 DEF Latch
<1>29. ASSUME NEW a \in Admins, ReleaseWriter(a) PROVE CandidateIsSound'
  BY <1>29 DEF ReleaseWriter
<1>30. ASSUME NEW a \in Admins, MutationReturned(a) PROVE CandidateIsSound'
  BY <1>30 DEF MutationReturned, Collect
<1>31. ASSUME NEW a \in Admins, Cancel(a) PROVE CandidateIsSound'
  BY <1>31 DEF Cancel
<1>32. ASSUME NEW a \in Admins, CancelDone(a) PROVE CandidateIsSound'
  BY <1>32 DEF CancelDone
<1>33. ASSUME NEW w \in Writers, OtherBegin(w) PROVE CandidateIsSound'
  BY <1>33 DEF OtherBegin, TakeWriter
<1>34. ASSUME NEW w \in Writers, OtherSettles(w) PROVE CandidateIsSound'
  BY <1>34 DEF OtherSettles
<1>35. ASSUME NEW w \in Writers, ReleaseWriter(w) PROVE CandidateIsSound'
  BY <1>35 DEF ReleaseWriter
<1>36. ASSUME Expire PROVE CandidateIsSound'
  BY <1>36 DEF Expire
<1>37. ASSUME BeginDrain PROVE CandidateIsSound'
  BY <1>37 DEF BeginDrain
<1>38. ASSUME CancelPending PROVE CandidateIsSound'
  BY <1>38 DEF CancelPending, Collect
<1>39. ASSUME Drain PROVE CandidateIsSound'
  BY <1>39 DEF Drain
<1>40. ASSUME Cancel(Drainer) PROVE CandidateIsSound'
  BY <1>40 DEF Cancel
<1>41. ASSUME CancelDone(Drainer) PROVE CandidateIsSound'
  BY <1>41 DEF CancelDone
<1>42. CASE UNCHANGED vars
  BY <1>42 DEF vars
<1> QED BY <1>1, <1>2, <1>3, <1>4, <1>5, <1>6, <1>7, <1>8, <1>9, <1>10, <1>11,
  <1>12, <1>13, <1>14, <1>15, <1>16, <1>17, <1>18, <1>19, <1>20, <1>21, <1>22,
  <1>23, <1>24, <1>25, <1>26, <1>27, <1>28, <1>29, <1>30, <1>31, <1>32, <1>33,
  <1>34, <1>35, <1>36, <1>37, <1>38, <1>39, <1>40, <1>41, <1>42
  DEF Next, GateStep, RequestStep, MutationStep, OtherStep, DrainStep, Terminated

\* A pending lease is current or about to be cancelled.
LEMMA CurrentStep ==
  ASSUME TypeOK, Labels, GateAccounting, LeaseOwned, PendingIsTracked, PendingIsCurrent,
         ReadIsCurrent, [Next]_vars
  PROVE  PendingIsCurrent'
<1> USE ProcessesDistinct
    DEF TypeOK, Labels, GateAccounting, Holds, HolderLabels, LeaseOwned, PendingIsTracked,
        PendingIsCurrent, CancelIsDue, CurrentBinding, HasCredential, BindingOf,
        Goto, Procs, Gated, Owners
<1>1. ASSUME NEW p \in Gated, ReserveRefused(p) PROVE PendingIsCurrent'
  BY <1>1 DEF ReserveRefused, After, Forget
<1>2. ASSUME NEW p \in Gated, ReserveWork(p) PROVE PendingIsCurrent'
  BY <1>2 DEF ReserveWork
<1>3. ASSUME NEW p \in Gated, TakeGate(p) PROVE PendingIsCurrent'
  BY <1>3 DEF TakeGate
<1>4. ASSUME NEW p \in Gated, GiveUp(p) PROVE PendingIsCurrent'
  BY <1>4 DEF GiveUp, After, Forget
<1>5. ASSUME NEW p \in Gated, EnterGate(p) PROVE PendingIsCurrent'
  BY <1>5 DEF EnterGate
<1>6. ASSUME NEW p \in Gated, AbandonGate(p) PROVE PendingIsCurrent'
  BY <1>6, SMTT(20) DEF AbandonGate, ReturnGate, After, Forget, NextStage
<1>7. ASSUME NEW p \in Gated, ReleaseGate(p) PROVE PendingIsCurrent'
  BY <1>7 DEF ReleaseGate, ReturnGate, After, Forget, NextStage
<1>8. ASSUME NEW r \in Requests, ViewFails(r) PROVE PendingIsCurrent'
  BY <1>8 DEF ViewFails, Leave
<1>9. ASSUME NEW r \in Requests, AuthenticateRead(r) PROVE PendingIsCurrent'
  BY <1>9 DEF AuthenticateRead, Leave
<1>10. ASSUME NEW r \in Requests, Register(r) PROVE PendingIsCurrent'
  <2>1. CurrentBinding(binding[r])
    BY <1>10 DEF Register, ReadIsCurrent
  <2> QED BY <1>10, <2>1 DEF Register, Leave
<1>11. ASSUME NEW r \in Requests, Evaluate(r) PROVE PendingIsCurrent'
  BY <1>11 DEF Evaluate, Leave
<1>12. ASSUME NEW r \in Requests, ConfirmRead(r) PROVE PendingIsCurrent'
  BY <1>12 DEF ConfirmRead, Leave
<1>13. ASSUME NEW r \in Requests, Confirm(r) PROVE PendingIsCurrent'
  BY <1>13 DEF Confirm, Leave
<1>14. ASSUME NEW r \in Requests, ConfirmRefused(r) PROVE PendingIsCurrent'
  BY <1>14 DEF ConfirmRefused, Leave
<1>15. ASSUME NEW r \in Requests, Execute(r) PROVE PendingIsCurrent'
  BY <1>15 DEF Execute
<1>16. ASSUME NEW r \in Requests, LeaseDone(r) PROVE PendingIsCurrent'
  BY <1>16 DEF LeaseDone, SessionEnds
<1>17. ASSUME NEW r \in Requests, ReleaseLoad(r) PROVE PendingIsCurrent'
  BY <1>17 DEF ReleaseLoad
<1>18. ASSUME NEW r \in Requests, ReleaseSwap(r) PROVE PendingIsCurrent'
  BY <1>18 DEF ReleaseSwap
<1>19. ASSUME NEW r \in Requests, ReleaseRemove(r) PROVE PendingIsCurrent'
  BY <1>19 DEF ReleaseRemove
<1>20. ASSUME NEW r \in Requests, Hold(r) PROVE PendingIsCurrent'
  BY <1>20 DEF Hold
<1>21. ASSUME NEW r \in Requests, SessionEnds(r) PROVE PendingIsCurrent'
  BY <1>21 DEF SessionEnds
<1>22. ASSUME NEW a \in Admins, StartMutation(a) PROVE PendingIsCurrent'
  BY <1>22 DEF StartMutation
<1>23. ASSUME NEW a \in Admins, MutationBusy(a) PROVE PendingIsCurrent'
  BY <1>23 DEF MutationBusy
<1>24. ASSUME NEW a \in Admins, BeginMutation(a) PROVE PendingIsCurrent'
  BY <1>24 DEF BeginMutation, TakeWriter
<1>25. ASSUME NEW a \in Admins, TxCommit(a) PROVE PendingIsCurrent'
  <2> SUFFICES ASSUME NEW r \in Requests, phase[r] = "pending", ~draining
               PROVE  CurrentBinding(binding[r])' \/ CancelIsDue(r)'
    BY <1>25 DEF TxCommit
  <2> DEFINE p == binding[r].principal
  <2>1. gate = a /\ r \in leases
    BY <1>25 DEF TxCommit
  <2>2. CurrentBinding(binding[r])
    BY <1>25, <2>1 DEF TxCommit
  <2>3. p \in Principals /\ principal[p].state = "active"
    BY <2>2 DEF CurrentBinding, HasCredential, Bindings
  <2>4. CASE principal'[p] = principal[p]
    BY <1>25, <2>2, <2>4 DEF TxCommit, CurrentBinding, HasCredential, BindingOf
  <2>5. CASE principal'[p] # principal[p]
    <3>1. p \in Affected(mutation[a])
      BY <1>25, <2>3, <2>5, BodyEffect DEF TxCommit
    <3> QED BY <1>25, <2>1, <3>1 DEF TxCommit
  <2> QED BY <2>4, <2>5
<1>26. ASSUME NEW a \in Admins, TxRollback(a) PROVE PendingIsCurrent'
  BY <1>26 DEF TxRollback
<1>27. ASSUME NEW a \in Admins, TxAmbiguous(a) PROVE PendingIsCurrent'
  <2> SUFFICES ASSUME NEW r \in Requests, phase[r] = "pending", ~draining
               PROVE  CurrentBinding(binding[r])' \/ CancelIsDue(r)'
    BY <1>27 DEF TxAmbiguous
  <2> DEFINE p == binding[r].principal
  <2>1. gate = a /\ r \in leases
    BY <1>27 DEF TxAmbiguous
  <2>2. CurrentBinding(binding[r])
    BY <1>27, <2>1 DEF TxAmbiguous
  <2>3. p \in Principals /\ principal[p].state = "active"
    BY <2>2 DEF CurrentBinding, HasCredential, Bindings
  <2>4. CASE principal'[p] = principal[p]
    BY <1>27, <2>2, <2>4 DEF TxAmbiguous, CurrentBinding, HasCredential, BindingOf
  <2>5. CASE principal'[p] # principal[p]
    <3>1. p \in Affected(mutation[a])
      BY <1>27, <2>3, <2>5, BodyEffect DEF TxAmbiguous
    <3> QED BY <1>27, <2>1, <3>1 DEF TxAmbiguous
  <2> QED BY <2>4, <2>5
<1>28. ASSUME NEW a \in Admins, Latch(a) PROVE PendingIsCurrent'
  BY <1>28 DEF Latch
<1>29. ASSUME NEW a \in Admins, ReleaseWriter(a) PROVE PendingIsCurrent'
  BY <1>29 DEF ReleaseWriter
<1>30. ASSUME NEW a \in Admins, MutationReturned(a) PROVE PendingIsCurrent'
  BY <1>30 DEF MutationReturned, Collect
<1>31. ASSUME NEW a \in Admins, Cancel(a) PROVE PendingIsCurrent'
  BY <1>31 DEF Cancel
<1>32. ASSUME NEW a \in Admins, CancelDone(a) PROVE PendingIsCurrent'
  BY <1>32 DEF CancelDone
<1>33. ASSUME NEW w \in Writers, OtherBegin(w) PROVE PendingIsCurrent'
  BY <1>33 DEF OtherBegin, TakeWriter
<1>34. ASSUME NEW w \in Writers, OtherSettles(w) PROVE PendingIsCurrent'
  <2>1. latched => latched'
    BY <1>34 DEF OtherSettles
  <2>2. /\ pc' = [pc EXCEPT ![w] = "settle"]
        /\ UNCHANGED <<principal, binding, phase, gate, draining, leases, result,
                       mutation, cancelling>>
    BY <1>34 DEF OtherSettles
  <2> QED BY <2>1, <2>2
<1>35. ASSUME NEW w \in Writers, ReleaseWriter(w) PROVE PendingIsCurrent'
  BY <1>35 DEF ReleaseWriter
<1>36. ASSUME Expire PROVE PendingIsCurrent'
  BY <1>36 DEF Expire
<1>37. ASSUME BeginDrain PROVE PendingIsCurrent'
  BY <1>37 DEF BeginDrain
<1>38. ASSUME CancelPending PROVE PendingIsCurrent'
  BY <1>38 DEF CancelPending, Collect
<1>39. ASSUME Drain PROVE PendingIsCurrent'
  BY <1>39 DEF Drain
<1>40. ASSUME Cancel(Drainer) PROVE PendingIsCurrent'
  BY <1>40 DEF Cancel
<1>41. ASSUME CancelDone(Drainer) PROVE PendingIsCurrent'
  BY <1>41 DEF CancelDone
<1>42. CASE UNCHANGED vars
  BY <1>42 DEF vars
<1> QED BY <1>1, <1>2, <1>3, <1>4, <1>5, <1>6, <1>7, <1>8, <1>9, <1>10, <1>11,
  <1>12, <1>13, <1>14, <1>15, <1>16, <1>17, <1>18, <1>19, <1>20, <1>21, <1>22,
  <1>23, <1>24, <1>25, <1>26, <1>27, <1>28, <1>29, <1>30, <1>31, <1>32, <1>33,
  <1>34, <1>35, <1>36, <1>37, <1>38, <1>39, <1>40, <1>41, <1>42
  DEF Next, GateStep, RequestStep, MutationStep, OtherStep, DrainStep, Terminated

\* The invariant is inductive.
LEMMA Inductive ==
  ASSUME IInv, [Next]_vars
  PROVE  IInv'
BY TypeStep, GateStepKeeps, LabelsStep, LeaseStep, DoneStep, TrackedStep, ReadStep,
   CandidateStep, CurrentStep DEF IInv

\* It holds initially: nobody has reached the gate and there are no leases.
LEMMA Initially == Init => IInv
<1> SUFFICES ASSUME Init PROVE IInv
  OBVIOUS
<1> USE ProcessesDistinct DEF Init, Procs, Gated, Owners
<1>1. TypeOK
  <2>1. NoBinding \in Bindings
    BY PrincipalsNonempty DEF NoBinding, Bindings
  <2>2. principal \in [Principals -> Rows]
    <3>1. /\ [state |-> "active", revision |-> 1, credentialRevision |-> 1,
              credential |-> TRUE] \in Rows
          /\ [state |-> "absent", revision |-> 0, credentialRevision |-> 0,
              credential |-> FALSE] \in Rows
      BY DEF Rows
    <3> QED BY <3>1
  <2>3. grants \subseteq Grants
    BY SyntheticAssumption DEF Grants, DefaultGrant
  <2> QED BY <2>1, <2>2, <2>3 DEF TypeOK
<1>2. Labels
  BY DEF Labels, RequestLabels, AdminLabels
<1>3. GateAccounting
  <2>1. Working = {} /\ \A p \in Gated : ~Holds(p)
    BY DEF Working, Holds, HolderLabels
  <2> QED BY <2>1, FS_EmptySet, WorkLimitAssumption DEF GateAccounting
<1>4. LeaseOwned /\ PendingIsTracked /\ PendingIsCurrent
  BY DEF LeaseOwned, PendingIsTracked, PendingIsCurrent
<1>5. ReadIsCurrent /\ CandidateIsSound /\ DoneClosedOnce
  BY DEF ReadIsCurrent, CandidateIsSound, Evaluated, DoneClosedOnce
<1> QED BY <1>1, <1>2, <1>3, <1>4, <1>5 DEF IInv

THEOREM Safety == Spec => []IInv
<1>1. IInv /\ [Next]_vars => IInv'
  BY Inductive
<1> QED BY Initially, <1>1, PTL DEF Spec

\* Types are kept for every set of processes, principals and targets.
THEOREM TypeCorrect == Spec => []TypeOK
<1>1. IInv => TypeOK
  BY DEF IInv
<1> QED BY <1>1, Safety, PTL

\* The gate has at most one owner and its count never leaks or overruns.
THEOREM GateIsAccounted == Spec => []GateAccounting
<1>1. IInv => GateAccounting
  BY DEF IInv
<1> QED BY <1>1, Safety, PTL

\* No mutation that has returned leaves a usable stale lease behind.
THEOREM NoStaleLease == Spec => []StaleLeaseUnusable
<1>1. IInv => StaleLeaseUnusable
  BY ProcessesDistinct DEF IInv, StaleLeaseUnusable, PendingIsCurrent, CancelIsDue
<1> QED BY <1>1, Safety, PTL

\* The done channel of a lease is closed once.
THEOREM DoneOnce == Spec => []DoneClosedOnce
<1>1. IInv => DoneClosedOnce
  BY DEF IInv
<1> QED BY <1>1, Safety, PTL

\* A lease in the registry belongs to a request that still has to release it
\* (leases.go, Release and cancelPending), so a finished request leaks none.
THEOREM NoLeak == Spec => []NoLeakedLease
<1>1. IInv => leases \subseteq Requests
  BY Zenon DEF IInv, TypeOK
<1>2. IInv => NoLeakedLease
  BY <1>1 DEF IInv, LeaseOwned, NoLeakedLease
<1> QED BY <1>2, Safety, PTL

\* What is admitted is authorised at the moment it is admitted.
THEOREM AdmissionCurrent == Spec => AdmissionIsCurrent
<1> DEFINE Admits == \A r \in Requests :
       phase[r] # "admitted" /\ phase'[r] = "admitted" =>
         /\ CurrentBinding(binding[r])
         /\ seen[r] \subseteq grants /\ grants \ seen[r] \subseteq expired
         /\ Decision(seen[r], binding[r].principal, target[r]) = "allow"
         /\ ~latched /\ ~draining
<1>1. ASSUME IInv, Next, NEW r \in Requests, phase[r] # "admitted", phase'[r] = "admitted"
      PROVE  Confirm(r)
  <2> USE <1>1 DEF IInv, TypeOK
  <2>1. \A p \in Gated : GateStep(p) => UNCHANGED phase
    BY DEF GateStep, ReserveRefused, ReserveWork, TakeGate, GiveUp, EnterGate, AbandonGate,
           ReleaseGate, ReturnGate
  <2>2. \A q \in Requests : RequestStep(q) \/ Hold(q) \/ SessionEnds(q) =>
          \/ Confirm(q) /\ phase' = [phase EXCEPT ![q] = "admitted"]
          \/ UNCHANGED phase
          \/ phase' = [phase EXCEPT ![q] = "pending"]
          \/ phase' = [phase EXCEPT ![q] = "released"]
    BY ZenonT(60) DEF RequestStep, ViewFails, AuthenticateRead, Register, Evaluate, ConfirmRead,
           Confirm, ConfirmRefused, Execute, LeaseDone, ReleaseLoad, ReleaseSwap,
           ReleaseRemove, Hold, SessionEnds
  <2>3. \A o \in Owners : Cancel(o) \/ CancelDone(o) =>
          UNCHANGED phase \/ \E q \in Requests : phase' = [phase EXCEPT ![q] = "cancelled"]
    BY DEF Cancel, CancelDone, Owners
  <2>4. \A a \in Admins : StartMutation(a) \/ MutationStep(a) =>
          UNCHANGED phase \/ Cancel(a) \/ CancelDone(a)
    BY DEF StartMutation, MutationStep, MutationBusy, BeginMutation, TxCommit, TxRollback,
           TxAmbiguous, Latch, ReleaseWriter, MutationReturned
  <2>5. \A w \in Writers : OtherBegin(w) \/ OtherStep(w) => UNCHANGED phase
    BY DEF OtherBegin, OtherStep, OtherSettles, ReleaseWriter
  <2>6. Expire \/ BeginDrain \/ CancelPending \/ Drain \/ Terminated => UNCHANGED phase
    BY DEF Expire, BeginDrain, CancelPending, Drain, Terminated, vars
  <2> QED BY <2>1, <2>2, <2>3, <2>4, <2>5, <2>6 DEF Next, DrainStep, Owners
<1>2. ASSUME IInv, NEW r \in Requests, Confirm(r)
      PROVE  /\ CurrentBinding(binding[r])
             /\ seen[r] \subseteq grants /\ grants \ seen[r] \subseteq expired
             /\ Decision(seen[r], binding[r].principal, target[r]) = "allow"
             /\ ~latched /\ ~draining
  BY <1>2 DEF IInv, Confirm, ReadIsCurrent, CandidateIsSound, Evaluated
<1>3. IInv /\ [Next]_vars => [Admits]_vars
  BY <1>1, <1>2 DEF vars
<1> QED BY <1>3, Safety, PTL DEF Spec, AdmissionIsCurrent

-----------------------------------------------------------------------------
(***************************************************************************)
(* The tables of grant requests, for any number of principals, servers,    *)
(* policies and rows and for any limits: what the repository commits the   *)
(* next startup accepts, and a settled request stays as it is.             *)
(*                                                                         *)
(* The invariant is stated of a database d, so that what a transaction     *)
(* would commit can be shown to satisfy it before the commit is known to   *)
(* be durable: the store may latch with either database.                   *)
(***************************************************************************)

RowSet ==
  [principal : Requesters, state : {"pending"} \cup Terminal, revision : Nat, requested : Policies,
   approved : Policies \cup {Null}, grant : Nat \cup {Null}, submitted : BOOLEAN, captured : BOOLEAN,
   created : Nat, closed : Nat \cup {Null}]

Tables(d) ==
  /\ d = [rows |-> d.rows, sequence |-> d.sequence, identities |-> d.identities,
          evidence |-> d.evidence, grants |-> d.grants]
  /\ d.sequence \in Nat
  /\ d.rows \in [DOMAIN d.rows -> RowSet]
  /\ DOMAIN d.rows \subseteq 1 .. d.sequence

\* Every row is one that startup reads.
RowFits(d, q) ==
  /\ q \in DOMAIN d.identities
  /\ d.identities[q] = d.rows[q].created
  /\ servers[d.rows[q].requested.server].state # "absent"
  /\ scanAgentRequest(d.rows[q])
  /\ validateStartupRequest(d.rows[q])
RowsFit(d) == \A q \in DOMAIN d.rows : RowFits(d, q)

\* The limits of the contract.
Pending(d, p) == {q \in DOMAIN d.rows : d.rows[q].principal = p /\ d.rows[q].state = "pending"}
Submitted(d) == {q \in DOMAIN d.rows : d.rows[q].submitted}
Captured(d) == {q \in DOMAIN d.rows : d.rows[q].captured}
Limits(d) ==
  /\ Cardinality(DOMAIN d.rows) <= MaxRows
  /\ \A p \in Requesters : Cardinality(Pending(d, p)) <= MaxPending
  /\ d.evidence = Cardinality(Submitted(d)) + Cardinality(Captured(d))
  /\ d.evidence <= MaxEvidence

\* A grant is the one its request was approved for; the sequence of a request is never used again.
GrantFits(d, g) ==
  LET row == d.rows[g.request] IN
  /\ row.state = "approved" /\ row.approved = g.policy /\ row.principal = g.principal
  /\ Covers(row.requested, g)
  /\ row.requested.duration # Null => (g.expires # Null /\ g.expires <= row.closed + row.requested.duration)
GrantsFit(d) ==
  /\ \A g \in d.grants : g.request # Null => g.request \in 1 .. d.sequence
  /\ \A g \in d.grants : g.request \in DOMAIN d.rows => GrantFits(d, g)
  /\ \A g, h \in d.grants : (g.request # Null /\ g.request = h.request) => g = h

Good(d) == Tables(d) /\ RowsFit(d) /\ Limits(d) /\ GrantsFit(d)

ServerSet == [state : {"absent", "enabled", "deleted"}, descriptor : {"absent", "present"}]
RequestInv ==
  /\ Good(db)
  /\ servers \in [Servers -> ServerSet]
  /\ clock \in Nat
  /\ process \in {"ready", "latched"}

\* A settled request is left alone, or evicted without a grant being made for it.
Settled(d, e) ==
  \A q \in DOMAIN d.rows : d.rows[q].state \in Terminal =>
    \/ q \notin DOMAIN e.rows /\ \A g \in e.grants \ d.grants : g.request # q
    \/ q \in DOMAIN e.rows /\ e.rows[q] = d.rows[q]

-----------------------------------------------------------------------------
(* Counting. *)

\* The rows of a database are finite, and so is every set of them.
LEMMA RowsAreFinite ==
  ASSUME NEW d, Tables(d)
  PROVE  /\ IsFiniteSet(DOMAIN d.rows) /\ Cardinality(DOMAIN d.rows) \in Nat
         /\ \A S \in SUBSET DOMAIN d.rows : IsFiniteSet(S) /\ Cardinality(S) \in Nat
<1>1. IsFiniteSet(1 .. d.sequence)
  BY FS_Interval DEF Tables
<1>2. IsFiniteSet(DOMAIN d.rows)
  BY <1>1, FS_Subset DEF Tables
<1> QED
  BY <1>2, FS_Subset, FS_CardinalityType

\* Some elements leave a finite set and at most one new one enters.
LEMMA Exchange ==
  ASSUME NEW S, IsFiniteSet(S), NEW E \in SUBSET S, NEW x, x \notin S
  PROVE  /\ IsFiniteSet(S \ E) /\ Cardinality(S \ E) = Cardinality(S) - Cardinality(E)
         /\ IsFiniteSet((S \ E) \cup {x})
         /\ Cardinality((S \ E) \cup {x}) = Cardinality(S) - Cardinality(E) + 1
<1>1. S \cap E = E
  OBVIOUS
<1>2. IsFiniteSet(S \ E) /\ Cardinality(S \ E) = Cardinality(S) - Cardinality(E)
  BY <1>1, FS_Difference
<1> QED
  BY <1>2, FS_AddElement

\* What startup counts is what the invariant counts.
LEMMA GoodIsAccepted ==
  ASSUME Good(db) PROVE ValidateStartup
<1>1. \A p \in Requesters :
        Pending(db, p) = {q \in RequestRows : db.rows[q].principal = p /\ db.rows[q].state = "pending"}
  BY DEF Pending, RequestRows
<1>2. Snapshots(db.rows) = Cardinality(Submitted(db)) + Cardinality(Captured(db))
  BY DEF Snapshots, Submitted, Captured
<1> QED
  BY <1>1, <1>2 DEF Good, RowsFit, RowFits, Limits, ValidateStartup, RequestRows

\* A transaction that would leave a good database leaves one, whatever becomes of its commit.
LEMMA Mutating ==
  ASSUME RequestInv, NEW new, Good(new), Settled(db, new), Mutate(new), UNCHANGED <<servers, clock>>
  PROVE  RequestInv' /\ Settled(db, db')
<1>1. db' = db \/ db' = new
  BY DEF Mutate
<1>2. process' \in {"ready", "latched"}
  BY DEF Mutate
<1>3. Good(db)'
  <2>1. CASE db' = db
    BY <2>1 DEF RequestInv, Good, Tables, RowsFit, RowFits, Limits, GrantsFit, GrantFits,
       Pending, Submitted, Captured
  <2>2. CASE db' = new
    BY <2>2 DEF Good, Tables, RowsFit, RowFits, Limits, GrantsFit, GrantFits, Pending,
       Submitted, Captured
  <2> QED
    BY <1>1, <2>1, <2>2
<1>4. Settled(db, db')
  BY <1>1 DEF Settled
<1> QED
  BY <1>2, <1>3, <1>4 DEF RequestInv

-----------------------------------------------------------------------------
(* An insertion. *)

\* Room is made before a row is inserted.
LEMMA RoomIsMade ==
  ASSUME NEW owner, NEW new \in 0 .. 1, NEW evicted \in Victims(owner, new), Good(db)
  PROVE  /\ evicted \in SUBSET RequestRows /\ \A q \in evicted : db.rows[q].state # "pending"
         /\ Cardinality(RequestRows) + 1 - Cardinality(evicted) <= MaxRows
         /\ Cardinality(Pending(db, owner)) < MaxPending
         /\ db.evidence + new - Snapshots(Restrict(db.rows, evicted)) <= MaxEvidence
<1> DEFINE pending == {q \in RequestRows : db.rows[q].state = "pending"}
           mine == {q \in pending : db.rows[q].principal = owner}
           freed == Snapshots(Restrict(db.rows, evicted))
<1>1. /\ evicted \in SUBSET (RequestRows \ pending)
      /\ Cardinality(evicted) >= Cardinality(RequestRows) + 1 - MaxRows
      /\ freed >= db.evidence + new - MaxEvidence
      /\ Cardinality(mine) < MaxPending
  BY DEF Victims
<1>2. mine = Pending(db, owner)
  BY DEF Pending, RequestRows
<1>3. Cardinality(RequestRows) \in Nat /\ Cardinality(evicted) \in Nat
  BY <1>1, RowsAreFinite DEF Good, RequestRows
<1>4. db.evidence \in Nat
  <2>1. Submitted(db) \in SUBSET DOMAIN db.rows /\ Captured(db) \in SUBSET DOMAIN db.rows
    BY DEF Submitted, Captured
  <2> QED
    BY <2>1, RowsAreFinite DEF Good, Limits
<1>5. freed \in Nat
  <2> DEFINE r == Restrict(db.rows, evicted)
             s == {q \in DOMAIN r : r[q].submitted}
             c == {q \in DOMAIN r : r[q].captured}
  <2>1. DOMAIN r = evicted
    BY DEF Restrict
  <2>2. s \in SUBSET DOMAIN db.rows /\ c \in SUBSET DOMAIN db.rows
    BY <2>1, <1>1 DEF RequestRows
  <2>3. Cardinality(s) \in Nat /\ Cardinality(c) \in Nat
    BY <2>2, RowsAreFinite DEF Good
  <2> QED
    BY <2>3 DEF Snapshots
<1>6. MaxRows \in Nat /\ MaxEvidence \in Nat
  BY LimitsAssumption
<1> HIDE DEF freed
<1>7. db.evidence + new - freed <= MaxEvidence
  BY <1>1, <1>4, <1>5, <1>6
<1>8. Cardinality(RequestRows) + 1 - Cardinality(evicted) <= MaxRows
  BY <1>1, <1>3, <1>6
<1>9. evicted \in SUBSET RequestRows /\ \A q \in evicted : db.rows[q].state # "pending"
  BY <1>1
<1> HIDE DEF mine, pending
<1> QED
  BY <1>1, <1>2, <1>7, <1>8, <1>9 DEF freed

\* What an insertion leaves of the database, field by field.
LEMMA Updated ==
  ASSUME NEW d, NEW rows, NEW sequence, NEW evidence, NEW identities,
         d = [rows |-> d.rows, sequence |-> d.sequence, identities |-> d.identities,
              evidence |-> d.evidence, grants |-> d.grants]
  PROVE  [d EXCEPT !.rows = rows, !.sequence = sequence, !.evidence = evidence, !.identities = identities]
           = [rows |-> rows, sequence |-> sequence, identities |-> identities, evidence |-> evidence,
              grants |-> d.grants]
<1> DEFINE x == [d EXCEPT !.rows = rows, !.sequence = sequence, !.evidence = evidence, !.identities = identities]
<1>1. DOMAIN d = {"rows", "sequence", "identities", "evidence", "grants"}
  OBVIOUS
<1>2. /\ DOMAIN x = {"rows", "sequence", "identities", "evidence", "grants"}
      /\ x = [f \in DOMAIN d |-> x[f]]
  BY <1>1
<1>3. /\ x.rows = rows /\ x.sequence = sequence /\ x.evidence = evidence
      /\ x.identities = identities /\ x.grants = d.grants
  BY <1>1
<1> HIDE DEF x
<1>4. x = [rows |-> rows, sequence |-> sequence, identities |-> identities, evidence |-> evidence, grants |-> d.grants]
  BY <1>1, <1>2, <1>3
<1> QED
  BY <1>4 DEF x

\* CreateOrExisting: the inserted row is pending, of the first revision, and counted.
LEMMA InsertedIsGood ==
  ASSUME RequestInv, NEW owner \in Requesters, NEW policy \in Policies, CompilePolicy(policy),
         servers[policy.server].state \notin {"absent", "deleted"},
         NEW evicted \in Victims(owner, IF policy.tool # Null THEN 1 ELSE 0)
  PROVE  Good(Inserted(owner, policy, evicted)) /\ Settled(db, Inserted(owner, policy, evicted))
<1> DEFINE n == db.sequence + 1
           tool == policy.tool # Null
           row == [principal |-> owner, state |-> "pending", revision |-> 1, requested |-> policy,
                   approved |-> Null, grant |-> Null, submitted |-> tool, captured |-> FALSE,
                   created |-> clock, closed |-> Null]
           rows == [x \in (RequestRows \ evicted) \cup {n} |-> IF x = n THEN row ELSE db.rows[x]]
           freed == Snapshots(Restrict(db.rows, evicted))
           counted == IF tool THEN 1 ELSE 0
           ids == [x \in DOMAIN db.identities \cup {n} |-> IF x = n THEN clock ELSE db.identities[x]]
           e == Inserted(owner, policy, evicted)
<1>0. Tables(db) /\ RowsFit(db) /\ Limits(db) /\ GrantsFit(db) /\ clock \in Nat /\ Good(db)
  BY DEF RequestInv, Good
<1>1. /\ evicted \in SUBSET RequestRows /\ \A q \in evicted : db.rows[q].state # "pending"
      /\ Cardinality(RequestRows) + 1 - Cardinality(evicted) <= MaxRows
      /\ Cardinality(Pending(db, owner)) < MaxPending
      /\ db.evidence + counted - freed <= MaxEvidence
  <2>1. counted \in 0 .. 1 /\ evicted \in Victims(owner, counted)
    OBVIOUS
  <2> HIDE DEF counted
  <2> QED
    BY <2>1, <1>0, RoomIsMade
<1>2. /\ n \in Nat /\ n \notin RequestRows /\ RequestRows \subseteq 1 .. n /\ n \in 1 .. n
      /\ db.sequence \in Nat /\ tool \in BOOLEAN
  BY <1>0 DEF Tables, RequestRows
<1>3. row \in RowSet
  BY <1>0, <1>2 DEF RowSet, Terminal
<1>4. /\ DOMAIN rows = (RequestRows \ evicted) \cup {n} /\ rows[n] = row
      /\ \A q \in RequestRows \ evicted : rows[q] = db.rows[q]
  BY <1>2
<1>5. e = [db EXCEPT !.rows = rows, !.sequence = n, !.evidence = @ - freed + (IF row.submitted THEN 1 ELSE 0),
                     !.identities = ids]
  BY DEF Inserted
<1>6. row.principal = owner /\ row.state = "pending" /\ row.submitted = tool /\ row.captured = FALSE
      /\ row.requested = policy /\ row.created = clock /\ row.approved = Null
      /\ row.grant = Null /\ row.closed = Null
      /\ row.revision = 1
  OBVIOUS
<1>7. e = [rows |-> rows, sequence |-> n, identities |-> ids, evidence |-> db.evidence - freed + counted,
           grants |-> db.grants]
  <2> DEFINE v == db.evidence - freed + counted
  <2>1. e = [db EXCEPT !.rows = rows, !.sequence = n, !.evidence = v, !.identities = ids]
    BY <1>5, <1>6
  <2> HIDE DEF v, rows, ids, n, e
  <2> QED
    BY <2>1, <1>0, Updated DEF v, Tables
<1>8. /\ DOMAIN ids = DOMAIN db.identities \cup {n} /\ ids[n] = clock
      /\ \A q \in DOMAIN db.identities : q # n => ids[q] = db.identities[q]
  OBVIOUS
<1> HIDE DEF row, rows, ids, n, freed, e
<1>9. /\ e.rows = rows /\ e.sequence = n /\ e.identities = ids /\ e.grants = db.grants
      /\ e.evidence = db.evidence - freed + counted
  BY <1>7
<1>10. Tables(e)
  <2>1. rows \in [DOMAIN rows -> RowSet]
    <3>1. \A q \in RequestRows : db.rows[q] \in RowSet
      BY <1>0 DEF Tables, RequestRows
    <3>2. \A q \in DOMAIN rows : rows[q] \in RowSet
      BY <3>1, <1>3, <1>4
    <3>3. rows = [q \in DOMAIN rows |-> rows[q]]
      BY DEF rows
    <3> QED
      BY <3>2, <3>3
  <2>2. DOMAIN rows \subseteq 1 .. n
    BY <1>2, <1>4
  <2> QED
    BY <1>7, <1>9, <1>2, <2>1, <2>2 DEF Tables
<1>11. RowsFit(e)
  <2>1. ASSUME NEW q \in RequestRows \ evicted PROVE RowFits(e, q)
    <3>1. RowFits(db, q) /\ rows[q] = db.rows[q] /\ q # n
      BY <2>1, <1>0, <1>2, <1>4 DEF RowsFit, RequestRows
    <3>2. q \in DOMAIN ids /\ ids[q] = db.identities[q]
      BY <3>1, <1>8 DEF RowFits
    <3> QED
      BY <3>1, <3>2, <1>9 DEF RowFits
  <2>2. RowFits(e, n)
    <3>1. scanAgentRequest(row)
      BY <1>6, <1>0, PoliciesAssumption DEF scanAgentRequest
    <3>2. validateStartupRequest(row)
      BY <1>6 DEF validateStartupRequest
    <3> QED
      BY <3>1, <3>2, <1>4, <1>6, <1>8, <1>9 DEF RowFits
  <2> QED
    BY <2>1, <2>2, <1>4, <1>9 DEF RowsFit
<1>12. Limits(e)
  <2>0. IsFiniteSet(RequestRows) /\ \A S \in SUBSET RequestRows : IsFiniteSet(S) /\ Cardinality(S) \in Nat
    BY <1>0, RowsAreFinite DEF RequestRows
  <2>1. Cardinality(DOMAIN e.rows) <= MaxRows
    <3>1. Cardinality((RequestRows \ evicted) \cup {n}) = Cardinality(RequestRows) - Cardinality(evicted) + 1
      BY <2>0, <1>1, <1>2, Exchange
    <3>2. Cardinality(RequestRows) \in Nat /\ Cardinality(evicted) \in Nat /\ MaxRows \in Nat
      BY <2>0, <1>1, LimitsAssumption
    <3> QED
      BY <3>1, <3>2, <1>1, <1>4, <1>9
  <2>2. ASSUME NEW p \in Requesters PROVE Cardinality(Pending(e, p)) <= MaxPending
    <3>1. Pending(db, p) \in SUBSET RequestRows /\ Cardinality(Pending(db, p)) <= MaxPending
      BY <1>0 DEF Pending, RequestRows, Limits
    <3>2. IsFiniteSet(Pending(db, p)) /\ Cardinality(Pending(db, p)) \in Nat /\ n \notin Pending(db, p)
      BY <3>1, <2>0, <1>2
    <3>3. CASE p = owner
      <4>1. Pending(e, p) = Pending(db, p) \cup {n}
        BY <3>3, <1>1, <1>2, <1>4, <1>6, <1>9 DEF Pending, RequestRows
      <4>2. Cardinality(Pending(e, p)) = Cardinality(Pending(db, p)) + 1
        BY <4>1, <3>2, FS_AddElement
      <4> QED
        BY <4>2, <3>2, <3>3, <1>1, LimitsAssumption
    <3>4. CASE p # owner
      <4>1. Pending(e, p) = Pending(db, p)
        BY <3>4, <1>1, <1>2, <1>4, <1>6, <1>9 DEF Pending, RequestRows
      <4> QED
        BY <4>1, <3>1
    <3> QED
      BY <3>3, <3>4
  <2> DEFINE r == Restrict(db.rows, evicted)
             s == {q \in DOMAIN r : r[q].submitted}
             c == {q \in DOMAIN r : r[q].captured}
  <2>3. DOMAIN r = evicted /\ \A q \in evicted : r[q] = db.rows[q]
    BY DEF Restrict
  <2>4. freed = Cardinality(s) + Cardinality(c)
    BY DEF Snapshots, freed
  <2> HIDE DEF r
  <2>5. s \in SUBSET Submitted(db) /\ c \in SUBSET Captured(db)
    BY <2>3, <1>1 DEF Submitted, Captured, RequestRows
  <2>6. Submitted(db) \in SUBSET RequestRows /\ Captured(db) \in SUBSET RequestRows
    BY DEF Submitted, Captured, RequestRows
  <2>7. /\ IsFiniteSet(Submitted(db)) /\ IsFiniteSet(Captured(db))
        /\ n \notin Submitted(db) /\ n \notin Captured(db)
    BY <2>6, <2>0, <1>2
  <2>8. Cardinality(Submitted(e)) = Cardinality(Submitted(db)) - Cardinality(s) + counted
    <3>1. CASE tool
      <4>1. Submitted(e) = (Submitted(db) \ s) \cup {n}
        BY <3>1, <2>3, <1>1, <1>2, <1>4, <1>6, <1>9 DEF Submitted, RequestRows
      <4> DEFINE was == Submitted(db)
      <4>4. IsFiniteSet(was) /\ s \in SUBSET was /\ n \notin was /\ Submitted(e) = (was \ s) \cup {n}
        BY <4>1, <2>5, <2>7
      <4> HIDE DEF s, was
      <4>5. Cardinality((was \ s) \cup {n}) = Cardinality(was) - Cardinality(s) + 1
        BY <4>4, Exchange
      <4>2. Cardinality(Submitted(e)) = Cardinality(Submitted(db)) - Cardinality(s) + 1
        BY <4>4, <4>5 DEF was
      <4>3. counted = 1
        BY <3>1
      <4> QED
        BY <4>2, <4>3
    <3>2. CASE ~tool
      <4>1. Submitted(e) = Submitted(db) \ s
        BY <3>2, <2>3, <1>1, <1>2, <1>4, <1>6, <1>9 DEF Submitted, RequestRows
      <4>2. Cardinality(Submitted(e)) = Cardinality(Submitted(db)) - Cardinality(s)
        BY <4>1, <2>5, <2>7, Exchange
      <4>3. Cardinality(s) \in Nat /\ Cardinality(Submitted(db)) \in Nat
        BY <2>0, <2>5, <2>6
      <4> QED
        BY <4>2, <4>3, <3>2
    <3> QED
      BY <3>1, <3>2
  <2>9. Cardinality(Captured(e)) = Cardinality(Captured(db)) - Cardinality(c)
    <3>1. Captured(e) = Captured(db) \ c
      BY <2>3, <1>1, <1>2, <1>4, <1>6, <1>9 DEF Captured, RequestRows
    <3> QED
      BY <3>1, <2>5, <2>7, Exchange
  <2>10. /\ Cardinality(Submitted(db)) \in Nat /\ Cardinality(Captured(db)) \in Nat
         /\ Cardinality(s) \in Nat /\ Cardinality(c) \in Nat /\ counted \in 0 .. 1
         /\ MaxEvidence \in Nat
    BY <2>0, <2>5, <2>6, LimitsAssumption
  <2>11. db.evidence = Cardinality(Submitted(db)) + Cardinality(Captured(db))
    BY <1>0 DEF Limits
  <2> HIDE DEF s, c, counted
  <2>12. e.evidence = Cardinality(Submitted(e)) + Cardinality(Captured(e)) /\ e.evidence <= MaxEvidence
    BY <2>4, <2>8, <2>9, <2>10, <2>11, <1>1, <1>9
  <2> QED
    BY <2>1, <2>2, <2>12 DEF Limits
<1>13. GrantsFit(e)
  <2>1. \A g \in e.grants : g.request # Null => g.request \in 1 .. e.sequence /\ g.request # n
    BY <1>0, <1>2, <1>9 DEF GrantsFit, n
  <2>2. ASSUME NEW g \in e.grants, g.request \in DOMAIN e.rows PROVE GrantFits(e, g)
    <3>1. g.request # Null
      BY <2>2, <1>2, <1>4, <1>9, NullIsNoNumber DEF RequestRows
    <3>2. g.request \in RequestRows \ evicted /\ rows[g.request] = db.rows[g.request]
      BY <2>1, <2>2, <3>1, <1>4, <1>9
    <3>3. GrantFits(db, g)
      BY <3>2, <2>2, <1>0, <1>9 DEF GrantsFit, RequestRows
    <3> QED
      BY <3>2, <3>3, <1>9 DEF GrantFits
  <2> QED
    BY <2>1, <2>2, <1>0, <1>9 DEF GrantsFit
<1>14. Settled(db, e)
  <2> SUFFICES ASSUME NEW q \in DOMAIN db.rows, db.rows[q].state \in Terminal
               PROVE  \/ q \notin DOMAIN e.rows /\ \A g \in e.grants \ db.grants : g.request # q
                      \/ q \in DOMAIN e.rows /\ e.rows[q] = db.rows[q]
    BY DEF Settled
  <2>1. CASE q \in evicted
    BY <2>1, <1>2, <1>4, <1>9 DEF RequestRows
  <2>2. CASE q \notin evicted
    BY <2>2, <1>4, <1>9 DEF RequestRows
  <2> QED
    BY <2>1, <2>2
<1> QED
  BY <1>10, <1>11, <1>12, <1>13, <1>14 DEF Good, e

-----------------------------------------------------------------------------
(* A terminal transition. *)

\* What a terminal transition and a grant leave of the database, field by field.
LEMMA ClosedFields ==
  ASSUME NEW d, NEW rows, NEW evidence,
         d = [rows |-> d.rows, sequence |-> d.sequence, identities |-> d.identities,
              evidence |-> d.evidence, grants |-> d.grants]
  PROVE  [d EXCEPT !.rows = rows, !.evidence = evidence]
           = [rows |-> rows, sequence |-> d.sequence, identities |-> d.identities, evidence |-> evidence,
              grants |-> d.grants]
<1> DEFINE x == [d EXCEPT !.rows = rows, !.evidence = evidence]
<1>1. DOMAIN d = {"rows", "sequence", "identities", "evidence", "grants"}
  OBVIOUS
<1>2. /\ DOMAIN x = {"rows", "sequence", "identities", "evidence", "grants"}
      /\ x = [f \in DOMAIN d |-> x[f]]
  BY <1>1
<1>3. /\ x.rows = rows /\ x.sequence = d.sequence /\ x.evidence = evidence
      /\ x.identities = d.identities
      /\ x.grants = d.grants
  BY <1>1
<1> HIDE DEF x
<1>4. x = [rows |-> rows, sequence |-> d.sequence, identities |-> d.identities, evidence |-> evidence, grants |-> d.grants]
  BY <1>1, <1>2, <1>3
<1> QED
  BY <1>4 DEF x

\* The same of the grants.
LEMMA GrantsField ==
  ASSUME NEW d, NEW rows, NEW sequence, NEW evidence, NEW identities, NEW held, NEW gs,
         d = [rows |-> rows, sequence |-> sequence, identities |-> identities,
              evidence |-> evidence, grants |-> held]
  PROVE  [d EXCEPT !.grants = gs]
           = [rows |-> rows, sequence |-> sequence, identities |-> identities, evidence |-> evidence, grants |-> gs]
<1> DEFINE x == [d EXCEPT !.grants = gs]
<1>1. DOMAIN d = {"rows", "sequence", "identities", "evidence", "grants"}
  OBVIOUS
<1>2. /\ DOMAIN x = {"rows", "sequence", "identities", "evidence", "grants"}
      /\ x = [f \in DOMAIN d |-> x[f]]
  BY <1>1
<1>3. /\ x.rows = rows /\ x.sequence = sequence /\ x.evidence = evidence /\ x.identities = identities
      /\ x.grants = gs
  BY <1>1
<1> HIDE DEF x
<1>4. x = [rows |-> rows, sequence |-> sequence, identities |-> identities, evidence |-> evidence, grants |-> gs]
  BY <1>1, <1>2, <1>3
<1> QED
  BY <1>4 DEF x

\* A pending request has no grant: whatever closes it first is what it becomes.
LEMMA PendingHasNoGrant ==
  ASSUME Good(db), NEW q \in RequestRows, db.rows[q].state = "pending"
  PROVE  \A g \in db.grants : g.request # q
BY DEF Good, GrantsFit, GrantFits, RequestRows

\* The guarded UPDATE of one pending row: it becomes a terminal row that startup accepts, the
\* evidence follows, and no other row changes.
LEMMA ClosedIsGood ==
  ASSUME RequestInv, NEW q \in RequestRows, db.rows[q].state = "pending", clock >= db.rows[q].created,
         NEW state \in Terminal, NEW approved \in Policies \cup {Null}, NEW grant \in Nat \cup {Null},
         NEW captured \in BOOLEAN, NEW gs,
         approved # Null <=> state = "approved", grant # Null <=> state = "approved",
         approved # Null => CompilePolicy(approved) /\ ValidateNarrowing(db.rows[q].requested, approved),
         captured <=> (approved # Null /\ db.rows[q].requested.tool = Null /\ approved.tool # Null),
         captured => db.evidence <= MaxEvidence - 1,
         db.grants \subseteq gs, \A g \in gs \ db.grants : g.request = q,
         \A g, h \in gs \ db.grants : g = h,
         \A g \in gs \ db.grants :
            /\ state = "approved" /\ approved = g.policy /\ db.rows[q].principal = g.principal
            /\ Covers(db.rows[q].requested, g)
            /\ db.rows[q].requested.duration # Null =>
                 (g.expires # Null /\ g.expires <= clock + db.rows[q].requested.duration),
         NEW e, e = [Close(q, state, approved, grant, captured) EXCEPT !.grants = gs]
  PROVE  Good(e) /\ Settled(db, e)
<1> DEFINE was == db.rows[q]
           row == [was EXCEPT !.state = state, !.revision = 2, !.approved = approved, !.grant = grant,
                              !.captured = captured, !.closed = clock]
           counted == IF captured THEN 1 ELSE 0
           rows == [db.rows EXCEPT ![q] = row]
<1>0. /\ Tables(db) /\ RowsFit(db) /\ Limits(db) /\ GrantsFit(db) /\ clock \in Nat /\ Good(db)
      /\ was \in RowSet /\ RowFits(db, q) /\ q \in DOMAIN db.rows
  BY DEF RequestInv, Good, Tables, RowsFit, RequestRows
<1>1. /\ row \in RowSet /\ row.state = state /\ row.revision = 2 /\ row.approved = approved
      /\ row.grant = grant
      /\ row.captured = captured /\ row.closed = clock
      /\ row.principal = was.principal /\ row.requested = was.requested /\ row.submitted = was.submitted
      /\ row.created = was.created
  <2> HIDE DEF was
  <2>1. row = [principal |-> was.principal, state |-> state, revision |-> 2, requested |-> was.requested,
               approved |-> approved, grant |-> grant, submitted |-> was.submitted, captured |-> captured,
               created |-> was.created, closed |-> clock]
    <3>1. DOMAIN was = {"principal", "state", "revision", "requested", "approved", "grant", "submitted", "captured",
                        "created", "closed"}
      BY <1>0 DEF RowSet
    <3>2. DOMAIN row = DOMAIN was /\ row = [f \in DOMAIN was |-> row[f]]
      OBVIOUS
    <3>3. /\ row.state = state /\ row.revision = 2 /\ row.approved = approved /\ row.grant = grant
          /\ row.captured = captured /\ row.closed = clock
      BY <3>1
    <3>4. /\ row.principal = was.principal /\ row.requested = was.requested
          /\ row.submitted = was.submitted
          /\ row.created = was.created
      BY <3>1
    <3> HIDE DEF row
    <3> QED
      BY <3>1, <3>2, <3>3, <3>4
  <2>2. /\ was.principal \in Requesters /\ was.requested \in Policies /\ was.submitted \in BOOLEAN
        /\ was.created \in Nat
    BY <1>0 DEF RowSet
  <2> HIDE DEF row
  <2>3. row \in RowSet
    BY <1>0, <2>1, <2>2 DEF RowSet
  <2> QED
    BY <2>1, <2>3
<1>2. e = [rows |-> rows, sequence |-> db.sequence, identities |-> db.identities,
           evidence |-> db.evidence + counted, grants |-> gs]
  <2> DEFINE v == db.evidence + counted
             closed == [db EXCEPT !.rows[q] = row, !.evidence = v]
  <2>1. Close(q, state, approved, grant, captured) = closed
    BY DEF Close
  <2>2. db = [rows |-> db.rows, sequence |-> db.sequence, identities |-> db.identities,
              evidence |-> db.evidence, grants |-> db.grants]
    BY <1>0 DEF Tables
  <2> HIDE DEF row, v
  <2>3. closed = [rows |-> rows, sequence |-> db.sequence, identities |-> db.identities,
                  evidence |-> v, grants |-> db.grants]
    <3>1. closed = [db EXCEPT !.rows = rows, !.evidence = v]
      BY <2>2
    <3> HIDE DEF rows, closed
    <3> QED
      BY <3>1, <2>2, ClosedFields
  <2> HIDE DEF closed, rows
  <2>4. e = [closed EXCEPT !.grants = gs]
    BY <2>1
  <2> QED
    BY <2>3, <2>4, GrantsField DEF v
<1> HIDE DEF row
<1>3. DOMAIN rows = DOMAIN db.rows /\ rows[q] = row /\ \A x \in DOMAIN db.rows : x # q => rows[x] = db.rows[x]
  BY <1>0 DEF Tables
<1>4. rows \in [DOMAIN rows -> RowSet]
  BY <1>0, <1>1, <1>3 DEF Tables
<1> HIDE DEF rows, counted
<1>5. /\ e.rows = rows /\ e.sequence = db.sequence /\ e.identities = db.identities
      /\ e.evidence = db.evidence + counted /\ e.grants = gs
  BY <1>2
<1>6. Tables(e)
  BY <1>0, <1>2, <1>3, <1>4, <1>5 DEF Tables
<1>7. RowsFit(e)
  <2>1. ASSUME NEW x \in DOMAIN db.rows, x # q PROVE RowFits(e, x)
    BY <2>1, <1>0, <1>3, <1>5 DEF RowsFit, RowFits
  <2>2. RowFits(e, q)
    <3>1. was.created \in Nat /\ was.submitted \in BOOLEAN
      BY <1>0 DEF RowSet
    <3>2. scanAgentRequest(row)
      BY <1>0, <1>1, <3>1, NullIsNoNumber DEF scanAgentRequest, Terminal
    <3>3. validateStartupRequest(row)
      BY <1>0, <1>1 DEF validateStartupRequest, RowFits
    <3> QED
      BY <3>2, <3>3, <1>0, <1>1, <1>3, <1>5 DEF RowFits
  <2> QED
    BY <2>1, <2>2, <1>3, <1>5 DEF RowsFit
<1>8. Limits(e)
  <2>0. \A S \in SUBSET DOMAIN db.rows : IsFiniteSet(S) /\ Cardinality(S) \in Nat
    BY <1>0, RowsAreFinite
  <2>1. Cardinality(DOMAIN e.rows) <= MaxRows
    BY <1>0, <1>3, <1>5 DEF Limits
  <2>2. ASSUME NEW p \in Requesters PROVE Cardinality(Pending(e, p)) <= MaxPending
    <3>1. Pending(e, p) \in SUBSET Pending(db, p) /\ Pending(db, p) \in SUBSET DOMAIN db.rows
      BY <1>1, <1>3, <1>5 DEF Pending, Terminal
    <3>2. Cardinality(Pending(e, p)) <= Cardinality(Pending(db, p))
      BY <3>1, <2>0, FS_Subset
    <3>3. Cardinality(Pending(e, p)) \in Nat /\ Cardinality(Pending(db, p)) \in Nat
      BY <3>1, <2>0
    <3> QED
      BY <3>2, <3>3, <1>0, LimitsAssumption DEF Limits
  <2>3. Submitted(e) = Submitted(db)
    BY <1>0, <1>1, <1>3, <1>5 DEF Submitted
  <2>4. Captured(db) \in SUBSET DOMAIN db.rows /\ q \notin Captured(db)
    BY <1>0 DEF Captured, RowFits, scanAgentRequest, validateStartupRequest
  <2>5. Cardinality(Captured(e)) = Cardinality(Captured(db)) + counted
    <3>1. CASE captured
      <4>1. Captured(e) = Captured(db) \cup {q}
        <5>1. e.rows[q].captured
          BY <3>1, <1>1, <1>3, <1>5
        <5>2. \A x \in DOMAIN db.rows : x # q => e.rows[x] = db.rows[x]
          BY <1>3, <1>5
        <5>3. DOMAIN e.rows = DOMAIN db.rows /\ q \in DOMAIN db.rows
          BY <1>0, <1>3, <1>5
        <5> QED
          BY <5>1, <5>2, <5>3 DEF Captured
      <4>2. Cardinality(Captured(e)) = Cardinality(Captured(db)) + 1
        BY <4>1, <2>0, <2>4, FS_AddElement
      <4> QED
        BY <4>2, <3>1 DEF counted
    <3>2. CASE ~captured
      <4>1. Captured(e) = Captured(db)
        BY <3>2, <2>4, <1>0, <1>1, <1>3, <1>5 DEF Captured
      <4> QED
        BY <4>1, <3>2, <2>0, <2>4 DEF counted
    <3> QED
      BY <3>1, <3>2
  <2>6. /\ Submitted(db) \in SUBSET DOMAIN db.rows
        /\ Cardinality(Submitted(db)) \in Nat /\ Cardinality(Captured(db)) \in Nat
        /\ MaxEvidence \in Nat
    BY <2>0, <2>4, LimitsAssumption DEF Submitted
  <2>7. /\ db.evidence = Cardinality(Submitted(db)) + Cardinality(Captured(db))
        /\ db.evidence <= MaxEvidence
    BY <1>0 DEF Limits
  <2>8. e.evidence = Cardinality(Submitted(e)) + Cardinality(Captured(e)) /\ e.evidence <= MaxEvidence
    BY <2>3, <2>5, <2>6, <2>7, <1>5 DEF counted
  <2> QED
    BY <2>1, <2>2, <2>8 DEF Limits
<1>9. \A g \in db.grants : g.request # q
  BY <1>0, PendingHasNoGrant
<1>10. GrantsFit(e)
  <2>1. ASSUME NEW g \in gs PROVE g.request # Null => g.request \in 1 .. e.sequence
    BY <2>1, <1>0, <1>5 DEF GrantsFit, Tables
  <2>2. ASSUME NEW g \in gs, g.request \in DOMAIN e.rows PROVE GrantFits(e, g)
    <3>1. CASE g \in db.grants
      <4>1. g.request \in DOMAIN db.rows /\ g.request # q /\ rows[g.request] = db.rows[g.request]
        BY <3>1, <2>2, <1>3, <1>5, <1>9
      <4>2. GrantFits(db, g)
        BY <4>1, <3>1, <1>0 DEF GrantsFit
      <4> QED
        BY <4>1, <4>2, <1>5 DEF GrantFits
    <3>2. CASE g \notin db.grants
      BY <3>2, <1>1, <1>3, <1>5 DEF GrantFits
    <3> QED
      BY <3>1, <3>2
  <2>3. ASSUME NEW g \in gs, NEW h \in gs, g.request # Null, g.request = h.request PROVE g = h
    <3>1. CASE g \in db.grants /\ h \in db.grants
      BY <3>1, <2>3, <1>0 DEF GrantsFit
    <3>2. CASE g \notin db.grants /\ h \notin db.grants
      BY <3>2
    <3> QED
      BY <3>1, <3>2, <2>3, <1>9
  <2> QED
    BY <2>1, <2>2, <2>3, <1>5 DEF GrantsFit
<1>11. Settled(db, e)
  BY <1>0, <1>3, <1>5 DEF Settled, Terminal
<1> QED
  BY <1>6, <1>7, <1>8, <1>10, <1>11 DEF Good

-----------------------------------------------------------------------------
(* The actions. *)

\* A step that leaves the tables and the servers alone.
LEMMA Untouched ==
  ASSUME RequestInv, UNCHANGED <<db, servers>>, clock' \in Nat, process' \in {"ready", "latched"}
  PROVE  RequestInv' /\ Settled(db, db')
<1>1. Good(db)'
  BY DEF RequestInv, Good, Tables, RowsFit, RowFits, Limits, GrantsFit, GrantFits, Pending,
     Submitted, Captured
<1> QED
  BY <1>1 DEF RequestInv, Settled

\* A request is created, or an old one makes room for it.
LEMMA CreateKeeps ==
  ASSUME RequestInv, NEW p \in Requesters, NEW policy \in Policies, CreateOrExisting(p, policy)
  PROVE  RequestInv' /\ Settled(db, db')
<1>1. /\ CompilePolicy(policy) /\ servers[policy.server].state \notin {"absent", "deleted"}
      /\ UNCHANGED <<servers, clock>>
  BY DEF CreateOrExisting
<1>2. PICK evicted \in Victims(p, IF policy.tool # Null THEN 1 ELSE 0) : Mutate(Inserted(p, policy, evicted))
  BY DEF CreateOrExisting
<1>3. Good(Inserted(p, policy, evicted)) /\ Settled(db, Inserted(p, policy, evicted))
  BY <1>1, InsertedIsGood
<1> QED
  BY <1>1, <1>2, <1>3, Mutating

\* The owner cancels, or an administrator rejects.
LEMMA DeclineKeeps ==
  ASSUME RequestInv, NEW q \in RequestRows, NEW state \in {"cancelled", "rejected"}, Closable(q),
         Mutate(Close(q, state, Null, Null, FALSE)), UNCHANGED <<servers, clock>>
  PROVE  RequestInv' /\ Settled(db, db')
<1> DEFINE closed == Close(q, state, Null, Null, FALSE)
           e == [closed EXCEPT !.grants = db.grants]
<1>1. db.rows[q].state = "pending" /\ clock >= db.rows[q].created
  BY DEF Closable
<1>2. state \in Terminal /\ state # "approved"
  BY DEF Terminal
<1>3. Good(e) /\ Settled(db, e)
  BY <1>1, <1>2, ClosedIsGood
<1>4. e = closed
  <2> DEFINE row == [db.rows[q] EXCEPT !.state = state, !.revision = 2, !.approved = Null, !.grant = Null,
                                       !.captured = FALSE, !.closed = clock]
             rows == [db.rows EXCEPT ![q] = row]
             v == db.evidence + 0
  <2>1. db = [rows |-> db.rows, sequence |-> db.sequence, identities |-> db.identities,
              evidence |-> db.evidence, grants |-> db.grants]
    BY DEF RequestInv, Good, Tables
  <2>2. closed = [db EXCEPT !.rows[q] = row, !.evidence = v]
    BY DEF Close
  <2> HIDE DEF row, v, closed
  <2>3. closed = [db EXCEPT !.rows = rows, !.evidence = v]
    BY <2>1, <2>2
  <2> HIDE DEF rows
  <2>4. closed = [rows |-> rows, sequence |-> db.sequence, identities |-> db.identities,
                  evidence |-> v, grants |-> db.grants]
    BY <2>1, <2>3, ClosedFields
  <2> QED
    BY <2>4, GrantsField
<1> HIDE DEF e
<1> QED
  BY <1>3, <1>4, Mutating

\* An administrator approves: the grant and the terminal row are one commit.
LEMMA ApproveKeeps ==
  ASSUME RequestInv, NEW q \in RequestRows, NEW revision, NEW policy \in Policies, ApproveGrantRequest(q, revision, policy)
  PROVE  RequestInv' /\ Settled(db, db')
<1> DEFINE cap == Captures(q, policy)
           grant == [id |-> q, effect |-> "allow", principal |-> db.rows[q].principal, server |-> policy.server,
                     tool |-> policy.tool, policy |-> policy, request |-> q,
                     expires |-> IF policy.duration = Null THEN Null ELSE clock + policy.duration]
           closed == Close(q, "approved", policy, q, cap)
           gs == db.grants \cup {grant}
           e == [closed EXCEPT !.grants = gs]
<1>0. Good(db) /\ clock \in Nat /\ q \in Nat /\ db.rows[q] \in RowSet
  BY DEF RequestInv, Good, Tables, RequestRows
<1>1. /\ PrepareGrantRequestApproval(q, revision, policy)
      /\ clock >= db.rows[q].created
      /\ cap => db.evidence <= MaxEvidence - 1
      /\ Mutate([closed EXCEPT !.grants = @ \cup {grant}])
      /\ UNCHANGED <<servers, clock>>
  BY DEF ApproveGrantRequest
<1>2. /\ db.rows[q].state = "pending" /\ CompilePolicy(policy)
      /\ ValidateNarrowing(db.rows[q].requested, policy)
  BY <1>1 DEF PrepareGrantRequestApproval
<1>3. closed.grants = db.grants
  BY <1>0 DEF Close, Good, Tables
<1>4. Mutate(e)
  BY <1>1, <1>3
<1>5. cap \in BOOLEAN /\ (cap <=> (policy # Null /\ db.rows[q].requested.tool = Null /\ policy.tool # Null))
  BY PoliciesAssumption DEF Captures
<1>6. /\ grant.request = q /\ grant.policy = policy /\ grant.principal = db.rows[q].principal
      /\ grant.server = policy.server /\ grant.tool = policy.tool
      /\ grant.expires = IF policy.duration = Null THEN Null ELSE clock + policy.duration
  OBVIOUS
<1> HIDE DEF grant, cap
<1>7. Covers(db.rows[q].requested, grant)
  BY <1>2, <1>6 DEF ValidateNarrowing, Covers
<1>8. db.rows[q].requested.duration # Null =>
        (grant.expires # Null /\ grant.expires <= clock + db.rows[q].requested.duration)
  <2> DEFINE asked == db.rows[q].requested.duration
             given == policy.duration
  <2>1. asked \in Nat \cup {Null} /\ given \in Nat \cup {Null}
    BY <1>0, PoliciesAssumption DEF RowSet
  <2>2. asked # Null => given # Null /\ given <= asked
    BY <1>2 DEF ValidateNarrowing
  <2>3. grant.expires = IF given = Null THEN Null ELSE clock + given
    BY <1>6
  <2> HIDE DEF asked, given
  <2>4. asked # Null => (grant.expires # Null /\ grant.expires <= clock + asked)
    BY <2>1, <2>2, <2>3, <1>0, NullIsNoNumber
  <2> QED
    BY <2>4 DEF asked
<1>9. Good(e) /\ Settled(db, e)
  <2>1. /\ "approved" \in Terminal /\ policy # Null /\ q # Null
    BY <1>0, PoliciesAssumption, NullIsNoNumber DEF Terminal
  <2>2. db.grants \subseteq gs /\ \A g \in gs \ db.grants : g = grant
    OBVIOUS
  <2> HIDE DEF gs
  <2> QED
    BY <1>0, <1>1, <1>2, <1>5, <1>6, <1>7, <1>8, <2>1, <2>2, ClosedIsGood, ZenonT(60)
<1> HIDE DEF e
<1> QED
  BY <1>1, <1>4, <1>9, Mutating

\* An administrator creates a DENY, which no request asked for, or removes a grant.
LEMMA GrantsKeep ==
  ASSUME RequestInv, NEW gs, Mutate([db EXCEPT !.grants = gs]), UNCHANGED <<servers, clock>>,
         \A g \in gs : g \in db.grants \/ g.request = Null
  PROVE  RequestInv' /\ Settled(db, db')
<1> DEFINE e == [db EXCEPT !.grants = gs]
<1>1. Tables(db) /\ RowsFit(db) /\ Limits(db) /\ GrantsFit(db)
  BY DEF RequestInv, Good
<1>2. e = [rows |-> db.rows, sequence |-> db.sequence, identities |-> db.identities,
           evidence |-> db.evidence, grants |-> gs]
  <2>1. db = [rows |-> db.rows, sequence |-> db.sequence, identities |-> db.identities,
              evidence |-> db.evidence, grants |-> db.grants]
    BY <1>1 DEF Tables
  <2> QED
    BY <2>1, GrantsField
<1> HIDE DEF e
<1>3. /\ e.rows = db.rows /\ e.sequence = db.sequence /\ e.identities = db.identities
      /\ e.evidence = db.evidence /\ e.grants = gs
  BY <1>2
<1>4. Null \notin DOMAIN db.rows
  BY <1>1, NullIsNoNumber DEF Tables
<1>5. Tables(e) /\ RowsFit(e) /\ Limits(e)
  BY <1>1, <1>2, <1>3 DEF Tables, RowsFit, RowFits, Limits, Pending, Submitted, Captured
<1>6. GrantsFit(e)
  BY <1>1, <1>3, <1>4 DEF GrantsFit, GrantFits
<1>7. Settled(db, e)
  BY <1>3 DEF Settled
<1> QED
  BY <1>5, <1>6, <1>7, Mutating DEF Good, e

\* A server that a request names is never absent again.
LEMMA ServersKeep ==
  ASSUME RequestInv, NEW s \in Servers, ServerChanges(s)
  PROVE  RequestInv' /\ Settled(db, db')
<1>1. PICK state \in {"enabled", "deleted"}, descriptor \in {"absent", "present"} :
        servers' = [servers EXCEPT ![s] = [state |-> state, descriptor |-> descriptor]]
  BY DEF ServerChanges
<1>2. UNCHANGED <<db, clock, process>> /\ servers \in [Servers -> ServerSet] /\ Good(db)
  BY DEF ServerChanges, RequestInv
<1>3. servers' \in [Servers -> ServerSet]
  BY <1>1, <1>2 DEF ServerSet
<1>4. \A x \in Servers : servers[x].state # "absent" => servers'[x].state # "absent"
  BY <1>1, <1>2 DEF ServerSet
<1>5. RowsFit(db)'
  <2> SUFFICES ASSUME NEW q \in DOMAIN db.rows PROVE RowFits(db, q)'
    BY <1>2 DEF RowsFit
  <2>1. RowFits(db, q)
    BY <1>2 DEF Good, RowsFit
  <2>2. db.rows[q].requested.server \in Servers
    BY <2>1 DEF RowFits, validateStartupRequest, CompilePolicy
  <2> QED
    BY <2>1, <2>2, <1>2, <1>4 DEF RowFits
<1>6. Good(db)'
  BY <1>2, <1>5 DEF Good, Tables, Limits, GrantsFit, GrantFits, Pending, Submitted, Captured
<1> QED
  BY <1>2, <1>3, <1>6 DEF RequestInv, Settled

\* No step of the repository or of the rest of the gateway breaks the invariant.
LEMMA StepsKeep ==
  ASSUME RequestInv, RequestsNext
  PROVE  RequestInv' /\ Settled(db, db')
<1>0. clock \in Nat /\ process \in {"ready", "latched"} /\ Good(db)
  BY DEF RequestInv
<1>1. ASSUME NEW p \in Requesters, NEW q \in RequestRows, CancelOwned(p, q)
      PROVE  RequestInv' /\ Settled(db, db')
  BY <1>1, DeclineKeeps DEF CancelOwned
<1>2. ASSUME NEW q \in RequestRows, NEW revision, Reject(q, revision)
      PROVE  RequestInv' /\ Settled(db, db')
  BY <1>2, DeclineKeeps DEF Reject
<1>3. CASE Restart
  <2>1. process' = "ready" /\ UNCHANGED <<db, servers, clock>>
    BY <1>0, <1>3, GoodIsAccepted DEF Restart
  <2> QED
    BY <2>1, <1>0, Untouched
<1>4. CASE NextPage \/ SubjectChanges
  BY <1>4, <1>0, Untouched DEF NextPage, SubjectChanges
<1>5. ASSUME NEW owner, NEW state, NEW bound, FirstPage(owner, state, bound)
      PROVE  RequestInv' /\ Settled(db, db')
  BY <1>5, <1>0, Untouched DEF FirstPage
<1>6. ASSUME NEW p, NEW s, NEW expires, DenyCreated(p, s, expires)
      PROVE  RequestInv' /\ Settled(db, db')
  <2> DEFINE deny == [id |-> 0, effect |-> "deny", principal |-> p, server |-> s,
                      tool |-> Null, policy |-> Null, request |-> Null, expires |-> expires]
             gs == db.grants \cup {deny}
  <2>1. Mutate([db EXCEPT !.grants = gs]) /\ UNCHANGED <<servers, clock>>
    BY <1>0, <1>6 DEF DenyCreated, Good, Tables
  <2>2. \A g \in gs : g \in db.grants \/ g.request = Null
    OBVIOUS
  <2> HIDE DEF gs
  <2> QED
    BY <2>1, <2>2, GrantsKeep
<1>7. ASSUME NEW g \in db.grants, GrantRemoved(g) PROVE RequestInv' /\ Settled(db, db')
  <2> DEFINE gs == db.grants \ {g}
  <2>1. Mutate([db EXCEPT !.grants = gs]) /\ UNCHANGED <<servers, clock>>
    BY <1>0, <1>7 DEF GrantRemoved, Good, Tables
  <2>2. \A h \in gs : h \in db.grants \/ h.request = Null
    OBVIOUS
  <2> HIDE DEF gs
  <2> QED
    BY <2>1, <2>2, GrantsKeep
<1>8. CASE ClockMoves
  BY <1>8, <1>0, LimitsAssumption, Untouched DEF ClockMoves, Times
<1> QED
  BY <1>1, <1>2, <1>3, <1>4, <1>5, <1>6, <1>7, <1>8, CreateKeeps, ApproveKeeps, ServersKeep
     DEF RequestsNext

\* The empty tables of a new installation.
LEMMA RequestsBegin ==
  ASSUME RequestsInit PROVE RequestInv
<1>1. /\ db.rows = << >> /\ db.sequence = 0 /\ db.grants = {} /\ db.evidence = 0 /\ DOMAIN db.rows = {}
      /\ db = [rows |-> db.rows, sequence |-> db.sequence, identities |-> db.identities,
               evidence |-> db.evidence, grants |-> db.grants]
  BY DEF RequestsInit
<1>2. Tables(db) /\ RowsFit(db) /\ GrantsFit(db)
  BY <1>1 DEF Tables, RowsFit, GrantsFit
<1>3. Limits(db)
  <2>1. (\A p \in Requesters : Pending(db, p) = {}) /\ Submitted(db) = {} /\ Captured(db) = {}
    BY <1>1 DEF Pending, Submitted, Captured
  <2>2. Cardinality({}) = 0
    BY FS_EmptySet
  <2>3. 0 <= MaxRows /\ 0 <= MaxPending /\ 0 <= MaxEvidence
    BY LimitsAssumption
  <2>4. \A p \in Requesters : Cardinality(Pending(db, p)) <= MaxPending
    BY <2>1, <2>2, <2>3
  <2>5. Cardinality(DOMAIN db.rows) <= MaxRows
    BY <1>1, <2>2, <2>3
  <2>6. /\ db.evidence = Cardinality(Submitted(db)) + Cardinality(Captured(db))
        /\ db.evidence <= MaxEvidence
    BY <2>1, <2>2, <2>3, <1>1
  <2> QED
    BY <2>4, <2>5, <2>6 DEF Limits
<1> QED
  BY <1>2, <1>3 DEF RequestsInit, RequestInv, Good, ServerSet

-----------------------------------------------------------------------------
(* The theorems. *)

(* The tables of grant requests stay within their limits, row by row and together, and every
   grant is the one its request was approved for (creation.go, lifecycle.go, approval.go). *)
THEOREM RequestsInvariant == RequestsSpec => []RequestInv
<1>1. RequestsInit => RequestInv
  BY RequestsBegin
<1>2. RequestInv /\ [RequestsNext]_requestVars => RequestInv'
  <2>1. RequestInv /\ RequestsNext => RequestInv'
    BY StepsKeep
  <2>2. RequestInv /\ UNCHANGED requestVars => RequestInv'
    BY Untouched DEF requestVars, RequestInv
  <2> QED
    BY <2>1, <2>2
<1> QED
  BY <1>1, <1>2, PTL DEF RequestsSpec

(* Whatever was created, closed and evicted, at whatever limits and with whatever clock, and
   whichever half of an uncertain commit survived, the next start accepts it (startup.go). *)
THEOREM EveryStartAccepts == RequestsSpec => []StartupAccepts
<1>1. RequestInv => StartupAccepts
  BY GoodIsAccepted DEF RequestInv, StartupAccepts
<1> QED
  BY <1>1, RequestsInvariant, PTL

(* A request is settled once, whoever races for it, and has at most the grant it was approved
   for (lifecycle.go, approval.go, request_approval.go). *)
THEOREM RequestsSettleOnce == RequestsSpec => SettledOnce
<1> DEFINE Step == /\ GrantMatchesRequest'
                   /\ \A q \in RequestRows : db.rows[q].state \in Terminal =>
                        \/ q \notin RequestRows' /\ \A g \in db'.grants \ db.grants : g.request # q
                        \/ q \in RequestRows' /\ db'.rows[q] = db.rows[q]
<1>1. RequestInv => GrantMatchesRequest
  BY DEF RequestInv, Good, GrantsFit, GrantFits, GrantMatchesRequest, RequestRows
<1>2. RequestInv /\ RequestsNext => Step \/ ~GrantMatchesRequest'
  BY StepsKeep DEF Settled, RequestRows
<1>3. RequestsSpec => [](RequestInv /\ GrantMatchesRequest)
  BY <1>1, RequestsInvariant, PTL
<1>4. RequestInv /\ GrantMatchesRequest' /\ [RequestsNext]_requestVars => [Step]_requestVars
  BY <1>2
<1> HIDE DEF Step
<1>5. RequestsSpec => [][Step]_requestVars
  BY <1>3, <1>4, PTL DEF RequestsSpec
<1> QED
  BY <1>5 DEF Step, SettledOnce

============================================================================
