--------------------------- MODULE CustodyProofs ---------------------------
(***************************************************************************)
(* Three components that keep secrets on disk: the custody of a secret,    *)
(* the master key (KeyRotation) and the installation (Installation).       *)
(*                                                                         *)
(* The custody of a secret, for any number of edits, requests, handles and *)
(* crashes: whatever the process stopped at, the next one starts and finds *)
(* what must be erased (DurableState); what a request dispatches and what  *)
(* a cutover undoes is current (NothingStale); and the cutover implements  *)
(* SecretSlot.                                                             *)
(*                                                                         *)
(* The invariant rests on the permits (Holding): only the process that     *)
(* holds the guard writes, so what a cutover established at one label is   *)
(* so at the next (EditorAt), and what a request confirmed under the guard *)
(* is so at its dispatch (RequestAt).                                      *)
(***************************************************************************)
EXTENDS Custody, KeyRotation, Installation, FiniteSetTheorems, TLAPS

Cutting == {"fence", "retract", "sweep", "erase", "unlist", "register", "write", "verify",
            "commit", "activate", "discard", "discarded", "undo", "invalidate", "release"}
Operating == Cutting \cup {"reading"}
Guarded == Cutting \cup {"guarded", "admit", "leave", "confirming", "confirmed", "dispatched"}

Holding ==
  \A p \in Procs : /\ pc[p] \in Operating => operation = p
                   /\ pc[p] \in Guarded => mutation = p

\* At most one generation is selected or listed, in terms of the tables.
OneRetained ==
  /\ db.selected # None => db.candidates = {}
  /\ \A a, b \in db.candidates : a = b

\* The history of the readable generations is right, and every one of them was drawn.
HistoryAgrees == ServedBy(db) \in served \cup {None} /\ served \subseteq used

\* What a cutover has established at each of its labels.
EditorAt(e) ==
  /\ pc[e] = "admit" /\ kind[e] # "delete" => Precondition(e)
  /\ pc[e] \in {"fence", "retract"} => Precondition(e)
  /\ pc[e] \in {"sweep", "erase", "unlist"} /\ sweeping[e] = "before" =>
       db.selected = None /\ db.fenced
  /\ pc[e] = "erase" => handle[e] \in db.candidates
  /\ pc[e] \in {"unlist", "discarded"} => handle[e] \notin db.stored
  /\ pc[e] = "register" => db.selected = None /\ db.candidates = {} /\ db.fenced
  /\ pc[e] \in {"write", "verify", "commit", "discard", "discarded"} =>
       db.selected = None /\ db.candidates = {handle[e]} /\ db.fenced
  /\ pc[e] = "commit" => handle[e] \in db.stored
  /\ pc[e] = "activate" => db.selected = handle[e] /\ db.fenced
  /\ pc[e] \in {"write", "verify", "commit", "activate"} =>
       handle[e] \in used /\ handle[e] \notin served
  /\ pc[e] = "undo" => db.selected \in {None, handle[e]}

\* What a request has established: the revision it goes by names the handle it read,
\* and under the guard that revision is the current one.
RequestAt(r) ==
  /\ pc[r] \in {"acquired", "confirming"} =>
       /\ expected[r] <= db.row.revision
       /\ Precondition(r) => db.row.handle = handle[r]
  /\ pc[r] \in {"confirmed", "dispatched"} =>
       Available(db) /\ Precondition(r) /\ handle[r] = db.selected

DbSafe == StartupValid /\ NothingOrphaned /\ OneRetained /\ HistoryAgrees

CustodyInv ==
  /\ TypeOK
  /\ Holding
  /\ DbSafe
  /\ \A e \in Editors : EditorAt(e)
  /\ \A r \in Requests : RequestAt(r)

RowSet == [revision : Nat, material : Nat, handle : Handles \cup {None}, deleted : BOOLEAN]
Databases ==
  [row : RowSet, selected : Handles \cup {None}, selectedRevision : Nat,
   candidates : SUBSET Handles, fenced : BOOLEAN, stored : SUBSET Handles]

USE ProcsDistinct, BoundsAssumption

-----------------------------------------------------------------------------
(* The operators of the model.                                             *)

\* A database is built from its tables.
LEMMA DatabaseParts ==
  ASSUME NEW row \in RowSet, NEW sel \in Handles \cup {None}, NEW n \in Nat,
         NEW c \in SUBSET Handles, NEW f \in BOOLEAN, NEW s \in SUBSET Handles
  PROVE  LET d == Database(row, sel, n, c, f, s)
         IN /\ d \in Databases
            /\ d.row = row /\ d.selected = sel /\ d.selectedRevision = n
            /\ d.candidates = c /\ d.fenced = f /\ d.stored = s
BY DEF Database, Databases

\* A row is built from its columns.
LEMMA RowParts ==
  ASSUME NEW rev \in Nat, NEW m \in Nat, NEW h \in Handles \cup {None}, NEW del \in BOOLEAN
  PROVE  LET r == Row(rev, m, h, del)
         IN /\ r \in RowSet
            /\ r.revision = rev /\ r.material = m /\ r.handle = h /\ r.deleted = del
BY DEF Row, RowSet

\* The tables of the database have their types.
LEMMA DbType ==
  ASSUME TypeOK
  PROVE  /\ db \in Databases /\ db.row \in RowSet
         /\ db.row.revision \in Nat /\ db.row.material \in Nat
         /\ db.row.handle \in Handles \cup {None} /\ db.row.deleted \in BOOLEAN
         /\ db.selected \in Handles \cup {None} /\ db.selectedRevision \in Nat
         /\ db.candidates \in SUBSET Handles /\ db.fenced \in BOOLEAN
         /\ db.stored \in SUBSET Handles /\ Retained(db) \in SUBSET Handles
BY DEF TypeOK, Databases, RowSet, Retained

\* A transaction leaves the database of before, or the one it was to write.
LEMMA TransactType ==
  ASSUME TypeOK, NEW p \in Procs, NEW allowed, NEW new \in Databases,
         NEW ok \in Labels, NEW bad \in Labels,
         Transact(p, allowed, new, ok, bad) \/ Effect(p, new, ok, bad)
  PROVE  /\ db' \in Databases /\ latched' \in BOOLEAN /\ served' \subseteq Handles
         /\ pc' \in [Procs -> Labels]
<1>1. ServedBy(new) \in Handles \cup {None}
  BY DEF ServedBy, Databases
<1>2. db \in Databases
  BY DbType
<1>3. db' = db \/ db' = new
  BY DEF Transact, Effect, Commits, CommitsUnseen, Fails, Write
<1>4. served' \subseteq Handles
  BY <1>1 DEF Transact, Effect, Commits, CommitsUnseen, Fails, Write, TypeOK
<1>5. pc' = [pc EXCEPT ![p] = ok] \/ pc' = [pc EXCEPT ![p] = bad]
  BY DEF Transact, Effect, Commits, CommitsUnseen, Fails, Goto
<1>6. pc' \in [Procs -> Labels]
  BY <1>5 DEF TypeOK
<1>7. latched' \in {latched, TRUE, FALSE}
  BY DEF Transact, Effect, Commits, CommitsUnseen, Fails
<1>8. latched' \in BOOLEAN
  BY <1>7 DEF TypeOK
<1> QED BY <1>2, <1>3, <1>4, <1>6, <1>8

\* Every transaction of a cutover writes a database of the right type.
LEMMA WrittenType ==
  ASSUME TypeOK, NEW e \in Editors
  PROVE  /\ Database(Row(db.row.revision + 1, db.row.material, db.row.handle, FALSE),
                     db.selected, db.selectedRevision, db.candidates, db.fenced, db.stored)
              \in Databases
         /\ Database(db.row, None, 0, Retained(db), TRUE, db.stored) \in Databases
         /\ Erased(db, handle[e]) \in Databases /\ Unlisted(db, handle[e]) \in Databases
         /\ Database(db.row, db.selected, db.selectedRevision, db.candidates, FALSE, db.stored)
              \in Databases
         /\ Invalidated(db, FALSE) \in Databases /\ Invalidated(db, TRUE) \in Databases
<1> USE DbType
<1>1. Row(db.row.revision + 1, db.row.material, db.row.handle, FALSE) \in RowSet
  BY DEF Row, RowSet
<1>2. \A del \in BOOLEAN : Row(db.row.revision + 1, db.row.material + 1, None, del) \in RowSet
  BY DEF Row, RowSet
<1>3. db.stored \ {handle[e]} \in SUBSET Handles /\ db.candidates \ {handle[e]} \in SUBSET Handles
  OBVIOUS
<1>4. Erased(db, handle[e]) \in Databases /\ Unlisted(db, handle[e]) \in Databases
  BY <1>3, DatabaseParts DEF Erased, Unlisted
<1>5. Invalidated(db, FALSE) \in Databases /\ Invalidated(db, TRUE) \in Databases
  <2>1. (IF db.row.deleted THEN db.row
         ELSE Row(db.row.revision + 1, db.row.material + 1, None, FALSE)) \in RowSet
    BY <1>2
  <2>2. (IF db.row.deleted THEN db.row
         ELSE Row(db.row.revision + 1, db.row.material + 1, None, TRUE)) \in RowSet
    BY <1>2
  <2> QED BY <2>1, <2>2 DEF Invalidated, Database, Databases
<1>6. Database(Row(db.row.revision + 1, db.row.material, db.row.handle, FALSE),
               db.selected, db.selectedRevision, db.candidates, db.fenced, db.stored) \in Databases
  <2>1. \A row \in RowSet : Database(row, db.selected, db.selectedRevision, db.candidates,
                                   db.fenced, db.stored) \in Databases
    BY DatabaseParts
  <2> QED BY <1>1, <2>1, Zenon
<1>7. Database(db.row, None, 0, Retained(db), TRUE, db.stored) \in Databases
  BY DatabaseParts
<1>8. Database(db.row, db.selected, db.selectedRevision, db.candidates, FALSE, db.stored)
        \in Databases
  BY DatabaseParts
<1> QED BY <1>4, <1>5, <1>6, <1>7, <1>8

\* Every step preserves the types.
LEMMA StepType == ASSUME CustodyInv, [Next]_vars PROVE TypeOK'
<1>t. TypeOK
  BY DEF CustodyInv
<1> USE <1>t
<1> USE DEF store, permits, locals, process, SetLocal, Goto
<1>0. /\ db \in Databases /\ latched \in BOOLEAN /\ draining \in BOOLEAN
      /\ operation \in Procs \cup {None} /\ mutation \in Procs \cup {None}
      /\ pc \in [Procs -> Labels]
      /\ kind \in [Editors -> {"update", "rotate", "delete", None}]
      /\ expected \in [Procs -> Nat] /\ generation \in [Procs -> Nat]
      /\ handle \in [Procs -> Handles \cup {None}]
      /\ sweeping \in [Editors -> {"before", "after"}]
      /\ used \subseteq Handles /\ served \subseteq Handles
      /\ crashes \in 0..MaxCrashes
  BY DbType DEF TypeOK
<1>a. \A l \in EditLabels \cup RequestLabels \cup {"idle", "leave", "returned"} : l \in Labels
  BY DEF Labels
<1>b. /\ db' \in Databases /\ latched' \in BOOLEAN /\ draining' \in BOOLEAN
      /\ operation' \in Procs \cup {None} /\ mutation' \in Procs \cup {None}
      /\ pc' \in [Procs -> Labels]
      /\ kind' \in [Editors -> {"update", "rotate", "delete", None}]
      /\ expected' \in [Procs -> Nat] /\ generation' \in [Procs -> Nat]
      /\ handle' \in [Procs -> Handles \cup {None}]
      /\ sweeping' \in [Editors -> {"before", "after"}]
      /\ used' \subseteq Handles /\ served' \subseteq Handles
      /\ crashes' \in 0..MaxCrashes
      => TypeOK'
  BY DEF TypeOK, Databases, RowSet
<1>c. Editors \subseteq Procs /\ Requests \subseteq Procs
  BY DEF Procs
<1> USE DEF EditLabels, RequestLabels
<1>1. ASSUME NEW e \in Editors, NEW k \in {"update", "rotate", "delete"}, Observe(e, k)
      PROVE  TypeOK'
  BY <1>1, <1>0, <1>a, <1>b, <1>c, DbType DEF Observe
<1>2. ASSUME NEW e \in Editors, TakeGuard(e) \/ GuardBusy(e) \/ Check(e) \/ TakeOperation(e)
                                \/ OperationRefused(e)
      PROVE  TypeOK'
  BY <1>2, <1>0, <1>a, <1>b, <1>c DEF TakeGuard, GuardBusy, Check, TakeOperation,
     OperationRefused
<1>3. ASSUME NEW e \in Editors, Update(e) PROVE TypeOK'
  <2>1. db' \in Databases /\ latched' \in BOOLEAN /\ served' \subseteq Handles
        /\ pc' \in [Procs -> Labels]
    BY <1>3, <1>a, <1>c, WrittenType, TransactType DEF Update
  <2> QED BY <1>3, <1>0, <1>b, <2>1 DEF Update
<1>4. ASSUME NEW e \in Editors, FenceAuthority(e) PROVE TypeOK'
  <2>1. db' \in Databases /\ latched' \in BOOLEAN /\ served' \subseteq Handles
        /\ pc' \in [Procs -> Labels]
    BY <1>4, <1>a, <1>c, WrittenType, TransactType DEF FenceAuthority
  <2> QED BY <1>4, <1>0, <1>b, <2>1 DEF FenceAuthority
<1>5. ASSUME NEW e \in Editors, SweepNext(e) PROVE TypeOK'
  BY <1>5, <1>0, <1>a, <1>b, <1>c, DbType DEF SweepNext
<1>6. ASSUME NEW e \in Editors, SweepDone(e) \/ SweepStops(e) \/ NoHandle(e) \/ Drained(e)
                                \/ Verify(e)
      PROVE  TypeOK'
  BY <1>6, <1>0, <1>a, <1>b, <1>c
     DEF SweepDone, SweepStops, NoHandle, Drained, Verify, SweepFailed
<1>7. ASSUME NEW e \in Editors, Erase(e) \/ Unlist(e) \/ Discard(e) \/ Discarded(e)
      PROVE  TypeOK'
  <2>1. SweepFailed(e) \in Labels
    BY <1>a DEF SweepFailed
  <2>2. db' \in Databases /\ latched' \in BOOLEAN /\ served' \subseteq Handles
        /\ pc' \in [Procs -> Labels]
    <3>1. CASE Erase(e)
      BY <3>1, <2>1, <1>a, <1>c, WrittenType, TransactType DEF Erase
    <3>2. CASE Unlist(e)
      BY <3>2, <2>1, <1>a, <1>c, WrittenType, TransactType DEF Unlist
    <3>3. CASE Discard(e)
      BY <3>3, <1>a, <1>c, WrittenType, TransactType DEF Discard
    <3>4. CASE Discarded(e)
      BY <3>4, <1>a, <1>c, WrittenType, TransactType DEF Discarded
    <3> QED BY <1>7, <3>1, <3>2, <3>3, <3>4
  <2> QED BY <1>7, <1>0, <1>b, <2>2 DEF Erase, Unlist, Discard, Discarded
<1>8. ASSUME NEW e \in Editors, RegisterCandidate(e) PROVE TypeOK'
  <2>1. PICK h \in Handles \ used :
          /\ handle' = SetLocal(handle, e, h) /\ used' = used \cup {h}
          /\ Transact(e, h \notin Retained(db) /\ Cardinality(db.candidates) < MaxCandidates,
                      Database(db.row, db.selected, db.selectedRevision,
                               db.candidates \cup {h}, db.fenced, db.stored),
                      IF draining THEN "undo" ELSE "write", "undo")
    BY <1>8 DEF RegisterCandidate
  <2>2. Database(db.row, db.selected, db.selectedRevision, db.candidates \cup {h}, db.fenced,
                 db.stored) \in Databases
    BY DbType, DatabaseParts
  <2>3. db' \in Databases /\ latched' \in BOOLEAN /\ served' \subseteq Handles
        /\ pc' \in [Procs -> Labels]
    BY <2>1, <2>2, <1>a, <1>c, TransactType
  <2> QED BY <1>8, <1>0, <1>b, <1>c, <2>1, <2>3 DEF RegisterCandidate
<1>9. ASSUME NEW e \in Editors, WriteGeneration(e) PROVE TypeOK'
  <2>1. handle[e] \in Handles
    BY <1>9, <1>0 DEF WriteGeneration, CustodyInv, EditorAt
  <2>2. Database(db.row, db.selected, db.selectedRevision, db.candidates, db.fenced,
                 db.stored \cup {handle[e]}) \in Databases
    BY <2>1, DbType, DatabaseParts
  <2>3. db' \in Databases /\ latched' \in BOOLEAN /\ served' \subseteq Handles
        /\ pc' \in [Procs -> Labels]
    BY <1>9, <2>2, <1>a, <1>c, TransactType DEF WriteGeneration
  <2> QED BY <1>9, <1>0, <1>b, <2>3 DEF WriteGeneration
<1>10. ASSUME NEW e \in Editors, CommitCandidate(e) PROVE TypeOK'
  <2>1. handle[e] \in Handles
    BY <1>10, <1>0 DEF CommitCandidate, CustodyInv, EditorAt
  <2>2. Row(db.row.revision + 1, db.row.material + 1, handle[e], FALSE) \in RowSet
    BY <2>1, DbType DEF Row, RowSet
  <2> DEFINE new == Database(Row(db.row.revision + 1, db.row.material + 1, handle[e], FALSE),
                             handle[e], db.row.material + 1,
                             (db.candidates \ {handle[e]}) \cup ({db.selected} \ {None}),
                             db.fenced, db.stored)
  <2>3. new \in Databases
    <3>1. (db.candidates \ {handle[e]}) \cup ({db.selected} \ {None}) \in SUBSET Handles
      BY DbType
    <3>2. db.row.material + 1 \in Nat
      BY DbType
    <3> QED BY <2>1, <2>2, <3>1, <3>2, DbType DEF Database, Databases
  <2>4. PICK bad \in {"undo", "discard"} :
          Transact(e, ~draining /\ handle[e] \in db.candidates /\ Precondition(e), new,
                   "activate", bad)
    BY <1>10 DEF CommitCandidate
  <2> HIDE DEF new
  <2>5. db' \in Databases /\ latched' \in BOOLEAN /\ served' \subseteq Handles
        /\ pc' \in [Procs -> Labels]
    BY <2>3, <2>4, <1>a, <1>c, TransactType
  <2>6. generation' \in [Procs -> Nat]
    BY <1>10, <1>0, <1>c, DbType DEF CommitCandidate
  <2> QED BY <1>10, <1>0, <1>b, <2>5, <2>6 DEF CommitCandidate
<1>11. ASSUME NEW e \in Editors, ActivateAuthority(e) \/ Undo(e) \/ Invalidate(e) PROVE TypeOK'
  <2>1. db' \in Databases /\ latched' \in BOOLEAN /\ served' \subseteq Handles
        /\ pc' \in [Procs -> Labels]
    <3>1. CASE ActivateAuthority(e)
      BY <3>1, <1>a, <1>c, WrittenType, TransactType DEF ActivateAuthority
    <3>2. CASE Undo(e)
      BY <3>2, <1>a, <1>c, WrittenType, TransactType DEF Undo
    <3>3. CASE Invalidate(e)
      BY <3>3, <1>a, <1>c, WrittenType, TransactType DEF Invalidate
    <3> QED BY <1>11, <3>1, <3>2, <3>3
  <2>2. sweeping' \in [Editors -> {"before", "after"}]
    BY <1>11, <1>0 DEF ActivateAuthority, Undo, Invalidate
  <2> QED BY <1>11, <1>0, <1>b, <2>1, <2>2 DEF ActivateAuthority, Undo, Invalidate
<1>12. ASSUME NEW p \in Procs, ReleaseGuard(p) \/ ReleaseOperation(p) PROVE TypeOK'
  BY <1>12, <1>0, <1>a, <1>b DEF ReleaseGuard, ReleaseOperation
<1>13. ASSUME NEW r \in Requests, Evaluate(r) PROVE TypeOK'
  BY <1>13, <1>0, <1>a, <1>b, <1>c, DbType DEF Evaluate
<1>14. ASSUME NEW r \in Requests, BeginRead(r) PROVE TypeOK'
  BY <1>14, <1>0, <1>a, <1>b, <1>c, DbType DEF BeginRead
<1>15. ASSUME NEW r \in Requests, FinishRead(r) \/ BeginConfirm(r) PROVE TypeOK'
  BY <1>15, <1>0, <1>a, <1>b, <1>c DEF FinishRead, BeginConfirm
<1>16. ASSUME NEW r \in Requests, ConfirmMaterial(r) \/ Detach(r) \/ Dispatched(r) \/ Refused(r)
       PROVE  TypeOK'
  BY <1>16, <1>0, <1>a, <1>b, <1>c DEF ConfirmMaterial, Detach, Dispatched, Refused
<1>17. CASE OtherLatch \/ Drain
  BY <1>17, <1>0, <1>b DEF OtherLatch, Drain
<1>18. CASE Crash
  <2>1. pc' \in [Procs -> Labels]
    BY <1>18, <1>0, <1>a DEF Crash
  <2>2. crashes' \in 0..MaxCrashes
    BY <1>18, <1>0 DEF Crash
  <2> QED BY <1>18, <1>0, <1>b, <2>1, <2>2 DEF Crash
<1>19. CASE UNCHANGED vars
  BY <1>19, <1>0, <1>b DEF vars
<1> QED
  BY <1>1, <1>2, <1>3, <1>4, <1>5, <1>6, <1>7, <1>8, <1>9, <1>10, <1>11, <1>12, <1>13, <1>14,
     <1>15, <1>16, <1>17, <1>18, <1>19, <1>c, Zenon DEF Next, Edit, Request
-----------------------------------------------------------------------------
(* Each step preserves the rest of the invariant.                          *)

\* What one editor does under the guard disturbs no other process: the others are not
\* under the guard, and a change of the row moves its revision on.
LEMMA OthersKeep ==
  ASSUME CustodyInv, TypeOK', NEW e \in Editors, NEW l, pc[e] \in Guarded,
         pc' = [pc EXCEPT ![e] = l], expected' = expected,
         \A q \in Procs : q # e => handle'[q] = handle[q],
         db'.row = db.row \/ db.row.revision < db'.row.revision
  PROVE  (\A f \in Editors : f # e => EditorAt(f)') /\ (\A r \in Requests : RequestAt(r)')
<1> USE DEF Procs, Guarded, Cutting
<1>1. \A q \in Procs : q # e => pc'[q] = pc[q] /\ pc[q] \notin Guarded
  BY DEF CustodyInv, Holding, TypeOK
<1>2. ASSUME NEW f \in Editors, f # e PROVE EditorAt(f)'
  BY <1>1, <1>2 DEF EditorAt
<1>3. ASSUME NEW r \in Requests PROVE RequestAt(r)'
  <2>1. r # e
    OBVIOUS
  <2>2. pc'[r] \notin {"confirming", "confirmed", "dispatched"}
    BY <1>1, <2>1
  <2>3. CASE pc[r] = "acquired"
    <3>1. expected[r] <= db.row.revision /\ (Precondition(r) => db.row.handle = handle[r])
      BY <2>3 DEF CustodyInv, RequestAt
    <3>2. expected[r] \in Nat /\ db.row.revision \in Nat /\ db'.row.revision \in Nat
      BY DEF CustodyInv, TypeOK
    <3> QED BY <2>1, <2>2, <3>1, <3>2 DEF RequestAt, Precondition
  <2> QED BY <1>1, <2>1, <2>2, <2>3 DEF RequestAt
<1> QED BY <1>2, <1>3

\* A cutover keeps both permits until it releases them.
LEMMA CuttingHolds ==
  ASSUME CustodyInv, NEW e \in Editors, NEW l \in Cutting, pc[e] \in Cutting,
         pc' = [pc EXCEPT ![e] = l], UNCHANGED permits
  PROVE  Holding'
BY DEF CustodyInv, Holding, TypeOK, Operating, Guarded, Cutting, permits, Procs

\* A transaction fails and changes nothing, or it writes what it was to write.
LEMMA Outcomes ==
  ASSUME NEW p, NEW allowed, NEW new, NEW ok, NEW bad, Transact(p, allowed, new, ok, bad)
  PROVE  \/ db' = db /\ served' = served /\ pc' = [pc EXCEPT ![p] = bad]
         \/ /\ allowed /\ db' = new /\ served' = served \cup ({ServedBy(new)} \ {None})
            /\ pc' = [pc EXCEPT ![p] = ok] \/ pc' = [pc EXCEPT ![p] = bad]
BY DEF Transact, Commits, CommitsUnseen, Fails, Write, Goto

\* An audited effect may also be written and reported as failed.
LEMMA EffectOutcomes ==
  ASSUME NEW p, NEW new, NEW ok, NEW bad, Effect(p, new, ok, bad)
  PROVE  \/ db' = db /\ served' = served /\ pc' = [pc EXCEPT ![p] = bad]
         \/ /\ db' = new /\ served' = served \cup ({ServedBy(new)} \ {None})
            /\ pc' = [pc EXCEPT ![p] = ok] \/ pc' = [pc EXCEPT ![p] = bad]
BY DEF Effect, Transact, Commits, CommitsUnseen, Fails, Write, Goto

\* A step that leaves the tables as they are leaves the database safe.
LEMMA SameDb ==
  ASSUME DbSafe, db' = db, served' = served, used \subseteq used' PROVE DbSafe'
BY DEF DbSafe, StartupValid, NothingOrphaned, OneRetained, HistoryAgrees, Retained, ServedBy

\* Erasing one generation of a sweep.
LEMMA EraseStep ==
  ASSUME CustodyInv, TypeOK', NEW e \in Editors, Erase(e)
  PROVE  DbSafe' /\ EditorAt(e)' /\ Holding' /\ db'.row = db.row
<1> USE DEF locals, permits, Procs
<1>1. /\ pc \in [Procs -> Labels] /\ pc[e] = "erase" /\ handle[e] \in db.candidates
      /\ EditorAt(e) /\ DbSafe
  BY DEF CustodyInv, Erase, EditorAt, TypeOK
<1>2. PICK l \in {"unlist", SweepFailed(e)} :
        /\ pc' = [pc EXCEPT ![e] = l]
        /\ \/ db' = db /\ served' = served /\ l = SweepFailed(e)
           \/ /\ db' = Erased(db, handle[e])
              /\ served' = served \cup ({ServedBy(Erased(db, handle[e]))} \ {None})
  BY EffectOutcomes DEF Erase
<1>3. l \in Cutting
  BY DEF SweepFailed, Cutting
<1>4. Holding'
  BY <1>1, <1>2, <1>3, CuttingHolds DEF Erase, Cutting
<1>5. pc'[e] = l
  BY <1>1, <1>2
<1>6. CASE db' = db /\ served' = served /\ l = SweepFailed(e)
  <2>1. DbSafe'
    BY <1>1, <1>6, SameDb DEF Erase
  <2>2. EditorAt(e)'
    BY <1>1, <1>5, <1>6 DEF EditorAt, SweepFailed, Erase
  <2> QED BY <1>4, <1>6, <2>1, <2>2
<1>7. CASE /\ db' = Erased(db, handle[e])
           /\ served' = served \cup ({ServedBy(Erased(db, handle[e]))} \ {None})
  <2>1. db.selected = None
    BY <1>1, DbType DEF DbSafe, OneRetained, CustodyInv
  <2>2. handle[e] # None
    BY <1>1, DbType DEF CustodyInv
  <2>3. /\ db'.row = db.row /\ db'.selected = None /\ db'.candidates = db.candidates
        /\ db'.fenced = db.fenced /\ db'.stored = db.stored \ {handle[e]}
        /\ served' = served
    BY <1>7, <2>1, <2>2 DEF Erased, Database, ServedBy
  <2>4. DbSafe'
    BY <1>1, <2>1, <2>3 DEF DbSafe, StartupValid, NothingOrphaned, OneRetained,
                            HistoryAgrees, Retained, ServedBy, Erase
  <2>5. EditorAt(e)'
    BY <1>1, <1>5, <2>1, <2>3 DEF EditorAt, SweepFailed, Erase
  <2> QED BY <1>4, <2>3, <2>4, <2>5
<1> QED BY <1>2, <1>6, <1>7

\* Taking an erased generation off the list of a sweep.
LEMMA UnlistStep ==
  ASSUME CustodyInv, TypeOK', NEW e \in Editors, Unlist(e)
  PROVE  /\ DbSafe' /\ EditorAt(e)' /\ Holding'
         /\ db'.row = db.row
<1> USE DEF locals, permits, Procs
<1>1. /\ pc \in [Procs -> Labels] /\ pc[e] = "unlist"
      /\ EditorAt(e) /\ DbSafe
  BY DEF CustodyInv, Unlist, TypeOK
<1>2. PICK l \in {"sweep", SweepFailed(e)} :
        /\ pc' = [pc EXCEPT ![e] = l]
        /\ \/ db' = db /\ served' = served /\ l = SweepFailed(e)
           \/ /\ db' = Unlisted(db, handle[e])
              /\ served' = served \cup ({ServedBy(Unlisted(db, handle[e]))} \ {None})
  BY Outcomes DEF Unlist
<1>3. l \in Cutting
  BY <1>1 DEF SweepFailed, Cutting
<1>4. Holding'
  BY <1>1, <1>2, <1>3, CuttingHolds DEF Unlist, Cutting
<1>5. pc'[e] = l
  BY <1>1, <1>2
<1>6. CASE db' = db /\ served' = served /\ l = SweepFailed(e)
  <2>1. DbSafe'
    BY <1>1, <1>6, SameDb DEF Unlist
  <2>2. EditorAt(e)'
    BY <1>1, <1>5, <1>6, DbType DEF EditorAt, SweepFailed, Unlist, Precondition, CustodyInv
  <2> QED BY <1>4, <1>6, <2>1, <2>2
<1>7. CASE /\ db' = Unlisted(db, handle[e])
           /\ served' = served \cup ({ServedBy(Unlisted(db, handle[e]))} \ {None})
  <2>1. handle[e] \notin db.stored
    BY <1>1, <1>7, DbType DEF EditorAt, DbSafe, OneRetained, HistoryAgrees, ServedBy,
       StartupValid,
                              CustodyInv, Precondition
  <2>2. /\ db'.row = db.row /\ db'.selected = db.selected /\ db'.candidates = db.candidates \ {handle[e]}
        /\ db'.selectedRevision = db.selectedRevision
        /\ db'.fenced = db.fenced /\ db'.stored = db.stored
        /\ served' = served \cup ({ServedBy(db)} \ {None})
    BY <1>7, <2>1, DbType DEF Unlisted, Database, Row, ServedBy, CustodyInv
  <2>3. DbSafe'
    <3>1. StartupValid'
      BY <1>1, <1>7, <2>1, <2>2, DbType DEF DbSafe, StartupValid, CustodyInv, Precondition
    <3>2. NothingOrphaned' /\ OneRetained'
      BY <1>1, <2>1, <2>2, DbType DEF DbSafe, NothingOrphaned, OneRetained, Retained, CustodyInv
    <3>3. HistoryAgrees'
      BY <1>1, <2>1, <2>2 DEF DbSafe, HistoryAgrees, ServedBy, EditorAt, Unlist
    <3> QED BY <3>1, <3>2, <3>3 DEF DbSafe
  <2>4. EditorAt(e)'
    BY <1>1, <1>5, <2>1, <2>2, DbType DEF EditorAt, SweepFailed, Unlist, Precondition,
       CustodyInv, DbSafe, NothingOrphaned, OneRetained, Retained, SetLocal, TypeOK
  <2> QED BY <1>4, <2>2, <2>3, <2>4, DbType DEF CustodyInv
<1> QED BY <1>2, <1>6, <1>7

\* The fence takes the generation in force out of force and lists it.
LEMMA FenceAuthorityStep ==
  ASSUME CustodyInv, TypeOK', NEW e \in Editors, FenceAuthority(e)
  PROVE  /\ DbSafe' /\ EditorAt(e)' /\ Holding'
         /\ db'.row = db.row
<1> USE DEF locals, permits, Procs
<1>1. /\ pc \in [Procs -> Labels] /\ pc[e] = "fence"
      /\ EditorAt(e) /\ DbSafe
  BY DEF CustodyInv, FenceAuthority, TypeOK
<1>2. PICK l \in {"sweep", "retract"} :
        /\ pc' = [pc EXCEPT ![e] = l]
        /\ \/ db' = db /\ served' = served /\ l = "retract"
           \/ /\ db' = Database(db.row, None, 0, Retained(db), TRUE, db.stored)
              /\ served' = served \cup ({ServedBy(Database(db.row, None, 0, Retained(db), TRUE, db.stored))} \ {None})
  BY DEF FenceAuthority, Transact, Commits, CommitsUnseen, Fails, Write, Goto
<1>3. l \in Cutting
  BY <1>1 DEF SweepFailed, Cutting
<1>4. Holding'
  BY <1>1, <1>2, <1>3, CuttingHolds DEF FenceAuthority, Cutting
<1>5. pc'[e] = l
  BY <1>1, <1>2
<1>6. CASE db' = db /\ served' = served /\ l = "retract"
  <2>1. DbSafe'
    BY <1>1, <1>6, SameDb DEF FenceAuthority
  <2>2. EditorAt(e)'
    BY <1>1, <1>5, <1>6, DbType DEF EditorAt, SweepFailed, FenceAuthority, Precondition,
       CustodyInv
  <2> QED BY <1>4, <1>6, <2>1, <2>2
<1>7. CASE /\ db' = Database(db.row, None, 0, Retained(db), TRUE, db.stored)
           /\ served' = served \cup ({ServedBy(Database(db.row, None, 0, Retained(db), TRUE, db.stored))} \ {None})
  <2>1. Precondition(e)
    BY <1>1, <1>7, DbType DEF EditorAt, DbSafe, OneRetained, HistoryAgrees, ServedBy,
       StartupValid,
                              CustodyInv, Precondition
  <2>2. /\ db'.row = db.row /\ db'.selected = None /\ db'.candidates = Retained(db)
        /\ db'.fenced = TRUE /\ db'.stored = db.stored /\ served' = served
    BY <1>7, <2>1, DbType DEF Database, Row, ServedBy, CustodyInv
  <2>3. DbSafe'
    <3>1. StartupValid'
      BY <1>1, <1>7, <2>1, <2>2, DbType DEF DbSafe, StartupValid, CustodyInv, Precondition
    <3>2. NothingOrphaned' /\ OneRetained'
      BY <1>1, <2>1, <2>2, DbType DEF DbSafe, NothingOrphaned, OneRetained, Retained, CustodyInv
    <3>3. HistoryAgrees'
      BY <1>1, <2>1, <2>2 DEF DbSafe, HistoryAgrees, ServedBy, EditorAt, FenceAuthority
    <3> QED BY <3>1, <3>2, <3>3 DEF DbSafe
  <2>4. EditorAt(e)'
    BY <1>1, <1>5, <2>1, <2>2, DbType DEF EditorAt, SweepFailed, FenceAuthority, Precondition,
       CustodyInv, DbSafe, NothingOrphaned, OneRetained, Retained, SetLocal, TypeOK
  <2> QED BY <1>4, <2>2, <2>3, <2>4, DbType DEF CustodyInv
<1> QED BY <1>2, <1>6, <1>7

\* The new generation is sealed while it is listed and fenced.
LEMMA WriteGenerationStep ==
  ASSUME CustodyInv, TypeOK', NEW e \in Editors, WriteGeneration(e)
  PROVE  /\ DbSafe' /\ EditorAt(e)' /\ Holding'
         /\ db'.row = db.row
<1> USE DEF locals, permits, Procs
<1>1. /\ pc \in [Procs -> Labels] /\ pc[e] = "write"
      /\ EditorAt(e) /\ DbSafe
  BY DEF CustodyInv, WriteGeneration, TypeOK
<1>2. PICK l \in {(IF draining THEN "undo" ELSE "verify"), "discard"} :
        /\ pc' = [pc EXCEPT ![e] = l]
        /\ \/ db' = db /\ served' = served /\ l = "discard"
           \/ /\ db' = Database(db.row, db.selected, db.selectedRevision, db.candidates, db.fenced, db.stored \cup {handle[e]})
              /\ served' = served \cup ({ServedBy(Database(db.row, db.selected, db.selectedRevision, db.candidates, db.fenced, db.stored \cup {handle[e]}))} \ {None})
  BY EffectOutcomes DEF WriteGeneration
<1>3. l \in Cutting
  BY <1>1 DEF SweepFailed, Cutting
<1>4. Holding'
  BY <1>1, <1>2, <1>3, CuttingHolds DEF WriteGeneration, Cutting
<1>5. pc'[e] = l
  BY <1>1, <1>2
<1>6. CASE db' = db /\ served' = served /\ l = "discard"
  <2>1. DbSafe'
    BY <1>1, <1>6, SameDb DEF WriteGeneration
  <2>2. EditorAt(e)'
    BY <1>1, <1>5, <1>6, DbType DEF EditorAt, SweepFailed, WriteGeneration, Precondition,
       CustodyInv
  <2> QED BY <1>4, <1>6, <2>1, <2>2
<1>7. CASE /\ db' = Database(db.row, db.selected, db.selectedRevision, db.candidates, db.fenced, db.stored \cup {handle[e]})
           /\ served' = served \cup ({ServedBy(Database(db.row, db.selected, db.selectedRevision, db.candidates, db.fenced, db.stored \cup {handle[e]}))} \ {None})
  <2>1. db.selected = None /\ db.candidates = {handle[e]} /\ db.fenced /\ handle[e] # None
    BY <1>1, <1>7, DbType DEF EditorAt, DbSafe, OneRetained, HistoryAgrees, ServedBy,
       StartupValid,
                              CustodyInv, Precondition
  <2>2. /\ db'.row = db.row /\ db'.selected = None /\ db'.candidates = {handle[e]}
        /\ db'.fenced = TRUE /\ db'.stored = db.stored \cup {handle[e]} /\ served' = served
    BY <1>7, <2>1, DbType DEF Database, Row, ServedBy, CustodyInv
  <2>3. DbSafe'
    <3>1. StartupValid'
      BY <1>1, <1>7, <2>1, <2>2, DbType DEF DbSafe, StartupValid, CustodyInv, Precondition
    <3>2. NothingOrphaned' /\ OneRetained'
      BY <1>1, <2>1, <2>2, DbType DEF DbSafe, NothingOrphaned, OneRetained, Retained, CustodyInv
    <3>3. HistoryAgrees'
      BY <1>1, <2>1, <2>2 DEF DbSafe, HistoryAgrees, ServedBy, EditorAt, WriteGeneration
    <3> QED BY <3>1, <3>2, <3>3 DEF DbSafe
  <2>4. EditorAt(e)'
    BY <1>1, <1>5, <2>1, <2>2, DbType DEF EditorAt, SweepFailed, WriteGeneration, Precondition,
       CustodyInv, DbSafe, NothingOrphaned, OneRetained, Retained, SetLocal, TypeOK
  <2> QED BY <1>4, <2>2, <2>3, <2>4, DbType DEF CustodyInv
<1> QED BY <1>2, <1>6, <1>7

\* A candidate that could not be committed is erased.
LEMMA DiscardStep ==
  ASSUME CustodyInv, TypeOK', NEW e \in Editors, Discard(e)
  PROVE  /\ DbSafe' /\ EditorAt(e)' /\ Holding'
         /\ db'.row = db.row
<1> USE DEF locals, permits, Procs
<1>1. /\ pc \in [Procs -> Labels] /\ pc[e] = "discard"
      /\ EditorAt(e) /\ DbSafe
  BY DEF CustodyInv, Discard, TypeOK
<1>2. PICK l \in {"discarded", "undo"} :
        /\ pc' = [pc EXCEPT ![e] = l]
        /\ \/ db' = db /\ served' = served /\ l = "undo"
           \/ /\ db' = Erased(db, handle[e])
              /\ served' = served \cup ({ServedBy(Erased(db, handle[e]))} \ {None})
  BY EffectOutcomes DEF Discard
<1>3. l \in Cutting
  BY <1>1 DEF SweepFailed, Cutting
<1>4. Holding'
  BY <1>1, <1>2, <1>3, CuttingHolds DEF Discard, Cutting
<1>5. pc'[e] = l
  BY <1>1, <1>2
<1>6. CASE db' = db /\ served' = served /\ l = "undo"
  <2>1. DbSafe'
    BY <1>1, <1>6, SameDb DEF Discard
  <2>2. EditorAt(e)'
    BY <1>1, <1>5, <1>6, DbType DEF EditorAt, SweepFailed, Discard, Precondition, CustodyInv
  <2> QED BY <1>4, <1>6, <2>1, <2>2
<1>7. CASE /\ db' = Erased(db, handle[e])
           /\ served' = served \cup ({ServedBy(Erased(db, handle[e]))} \ {None})
  <2>1. db.selected = None /\ db.candidates = {handle[e]} /\ db.fenced /\ handle[e] # None
    BY <1>1, <1>7, DbType DEF EditorAt, DbSafe, OneRetained, HistoryAgrees, ServedBy,
       StartupValid,
                              CustodyInv, Precondition
  <2>2. /\ db'.row = db.row /\ db'.selected = None /\ db'.candidates = {handle[e]}
        /\ db'.fenced = TRUE /\ db'.stored = db.stored \ {handle[e]} /\ served' = served
    BY <1>7, <2>1, DbType DEF Erased, Database, Row, ServedBy, CustodyInv
  <2>3. DbSafe'
    <3>1. StartupValid'
      BY <1>1, <1>7, <2>1, <2>2, DbType DEF DbSafe, StartupValid, CustodyInv, Precondition
    <3>2. NothingOrphaned' /\ OneRetained'
      BY <1>1, <2>1, <2>2, DbType DEF DbSafe, NothingOrphaned, OneRetained, Retained, CustodyInv
    <3>3. HistoryAgrees'
      BY <1>1, <2>1, <2>2 DEF DbSafe, HistoryAgrees, ServedBy, EditorAt, Discard
    <3> QED BY <3>1, <3>2, <3>3 DEF DbSafe
  <2>4. EditorAt(e)'
    BY <1>1, <1>5, <2>1, <2>2, DbType DEF EditorAt, SweepFailed, Discard, Precondition,
       CustodyInv, DbSafe, NothingOrphaned, OneRetained, Retained, SetLocal, TypeOK
  <2> QED BY <1>4, <2>2, <2>3, <2>4, DbType DEF CustodyInv
<1> QED BY <1>2, <1>6, <1>7

\* An erased candidate is taken off the list.
LEMMA DiscardedStep ==
  ASSUME CustodyInv, TypeOK', NEW e \in Editors, Discarded(e)
  PROVE  /\ DbSafe' /\ EditorAt(e)' /\ Holding'
         /\ db'.row = db.row
<1> USE DEF locals, permits, Procs
<1>1. /\ pc \in [Procs -> Labels] /\ pc[e] = "discarded"
      /\ EditorAt(e) /\ DbSafe
  BY DEF CustodyInv, Discarded, TypeOK
<1>2. PICK l \in {"undo", "undo"} :
        /\ pc' = [pc EXCEPT ![e] = l]
        /\ \/ db' = db /\ served' = served /\ l = "undo"
           \/ /\ db' = Unlisted(db, handle[e])
              /\ served' = served \cup ({ServedBy(Unlisted(db, handle[e]))} \ {None})
  BY Outcomes DEF Discarded
<1>3. l \in Cutting
  BY <1>1 DEF SweepFailed, Cutting
<1>4. Holding'
  BY <1>1, <1>2, <1>3, CuttingHolds DEF Discarded, Cutting
<1>5. pc'[e] = l
  BY <1>1, <1>2
<1>6. CASE db' = db /\ served' = served /\ l = "undo"
  <2>1. DbSafe'
    BY <1>1, <1>6, SameDb DEF Discarded
  <2>2. EditorAt(e)'
    BY <1>1, <1>5, <1>6, DbType DEF EditorAt, SweepFailed, Discarded, Precondition, CustodyInv
  <2> QED BY <1>4, <1>6, <2>1, <2>2
<1>7. CASE /\ db' = Unlisted(db, handle[e])
           /\ served' = served \cup ({ServedBy(Unlisted(db, handle[e]))} \ {None})
  <2>1. db.selected = None /\ db.candidates = {handle[e]} /\ db.fenced /\ handle[e] \notin db.stored
    BY <1>1, <1>7, DbType DEF EditorAt, DbSafe, OneRetained, HistoryAgrees, ServedBy,
       StartupValid,
                              CustodyInv, Precondition
  <2>2. /\ db'.row = db.row /\ db'.selected = None /\ db'.candidates = {}
        /\ db'.fenced = TRUE /\ db'.stored = db.stored /\ served' = served
    BY <1>7, <2>1, DbType DEF Unlisted, Database, Row, ServedBy, CustodyInv
  <2>3. DbSafe'
    <3>1. StartupValid'
      BY <1>1, <1>7, <2>1, <2>2, DbType DEF DbSafe, StartupValid, CustodyInv, Precondition
    <3>2. NothingOrphaned' /\ OneRetained'
      BY <1>1, <2>1, <2>2, DbType DEF DbSafe, NothingOrphaned, OneRetained, Retained, CustodyInv
    <3>3. HistoryAgrees'
      BY <1>1, <2>1, <2>2 DEF DbSafe, HistoryAgrees, ServedBy, EditorAt, Discarded
    <3> QED BY <3>1, <3>2, <3>3 DEF DbSafe
  <2>4. EditorAt(e)'
    BY <1>1, <1>5, <2>1, <2>2, DbType DEF EditorAt, SweepFailed, Discarded, Precondition,
       CustodyInv, DbSafe, NothingOrphaned, OneRetained, Retained, SetLocal, TypeOK
  <2> QED BY <1>4, <2>2, <2>3, <2>4, DbType DEF CustodyInv
<1> QED BY <1>2, <1>6, <1>7

\* The fence is lifted over a generation that was never readable before.
LEMMA ActivateAuthorityStep ==
  ASSUME CustodyInv, TypeOK', NEW e \in Editors, ActivateAuthority(e)
  PROVE  /\ DbSafe' /\ EditorAt(e)' /\ Holding'
         /\ db'.row = db.row
<1> USE DEF locals, permits, Procs
<1>1. /\ pc \in [Procs -> Labels] /\ pc[e] = "activate"
      /\ EditorAt(e) /\ DbSafe
  BY DEF CustodyInv, ActivateAuthority, TypeOK
<1>2. PICK l \in {"sweep", "undo"} :
        /\ pc' = [pc EXCEPT ![e] = l]
        /\ \/ db' = db /\ served' = served /\ l = "undo"
           \/ /\ db' = Database(db.row, db.selected, db.selectedRevision, db.candidates, FALSE, db.stored)
              /\ served' = served \cup ({ServedBy(Database(db.row, db.selected, db.selectedRevision, db.candidates, FALSE, db.stored))} \ {None})
  BY DEF ActivateAuthority, Transact, Commits, CommitsUnseen, Fails, Write, Goto
<1>3. l \in Cutting
  BY <1>1 DEF SweepFailed, Cutting
<1>4. Holding'
  BY <1>1, <1>2, <1>3, CuttingHolds DEF ActivateAuthority, Cutting
<1>5. pc'[e] = l
  BY <1>1, <1>2
<1>6. CASE db' = db /\ served' = served /\ l = "undo"
  <2>1. DbSafe'
    BY <1>1, <1>6, SameDb DEF ActivateAuthority
  <2>2. EditorAt(e)'
    BY <1>1, <1>5, <1>6, DbType DEF EditorAt, SweepFailed, ActivateAuthority, Precondition,
       CustodyInv
  <2> QED BY <1>4, <1>6, <2>1, <2>2
<1>7. CASE /\ db' = Database(db.row, db.selected, db.selectedRevision, db.candidates, FALSE, db.stored)
           /\ served' = served \cup ({ServedBy(Database(db.row, db.selected, db.selectedRevision, db.candidates, FALSE, db.stored))} \ {None})
  <2>1. db.selected = handle[e] /\ db.fenced /\ handle[e] \in used
    BY <1>1, <1>7, DbType DEF EditorAt, DbSafe, OneRetained, HistoryAgrees, ServedBy,
       StartupValid,
                              CustodyInv, Precondition
  <2>2. /\ db'.row = db.row /\ db'.selected = db.selected /\ db'.candidates = db.candidates
        /\ db'.selectedRevision = db.selectedRevision
        /\ db'.fenced = FALSE /\ db'.stored = db.stored
        /\ served' = served \cup ({db.selected} \ {None})
    BY <1>7, <2>1, DbType DEF Database, Row, ServedBy, CustodyInv
  <2>3. DbSafe'
    <3>1. StartupValid'
      BY <1>1, <1>7, <2>1, <2>2, DbType DEF DbSafe, StartupValid, CustodyInv, Precondition
    <3>2. NothingOrphaned' /\ OneRetained'
      BY <1>1, <2>1, <2>2, DbType DEF DbSafe, NothingOrphaned, OneRetained, Retained, CustodyInv
    <3>3. HistoryAgrees'
      BY <1>1, <2>1, <2>2 DEF DbSafe, HistoryAgrees, ServedBy, EditorAt, ActivateAuthority
    <3> QED BY <3>1, <3>2, <3>3 DEF DbSafe
  <2>4. EditorAt(e)'
    BY <1>1, <1>5, <2>1, <2>2, DbType DEF EditorAt, SweepFailed, ActivateAuthority,
       Precondition,
       CustodyInv, DbSafe, NothingOrphaned, OneRetained, Retained, SetLocal, TypeOK
  <2> QED BY <1>4, <2>2, <2>3, <2>4, DbType DEF CustodyInv
<1> QED BY <1>2, <1>6, <1>7

\* A failed cutover takes whatever is selected out of force and lists it.
LEMMA UndoStep ==
  ASSUME CustodyInv, TypeOK', NEW e \in Editors, Undo(e)
  PROVE  /\ DbSafe' /\ EditorAt(e)' /\ Holding'
         /\ db'.row = db.row \/ db.row.revision < db'.row.revision
<1> USE DEF locals, permits, Procs
<1>1. /\ pc \in [Procs -> Labels] /\ pc[e] \in {"undo", "retract"}
      /\ EditorAt(e) /\ DbSafe
  BY DEF CustodyInv, Undo, TypeOK
<1>2. PICK l \in {(IF pc[e] = "undo" THEN "sweep" ELSE "release"), "release"} :
        /\ pc' = [pc EXCEPT ![e] = l]
        /\ \/ db' = db /\ served' = served /\ l = "release"
           \/ /\ db' = Invalidated(db, FALSE)
              /\ served' = served \cup ({ServedBy(Invalidated(db, FALSE))} \ {None})
  BY Outcomes DEF Undo
<1>3. l \in Cutting
  BY <1>1 DEF SweepFailed, Cutting
<1>4. Holding'
  BY <1>1, <1>2, <1>3, CuttingHolds DEF Undo, Cutting
<1>5. pc'[e] = l
  BY <1>1, <1>2
<1>6. CASE db' = db /\ served' = served /\ l = "release"
  <2>1. DbSafe'
    BY <1>1, <1>6, SameDb DEF Undo
  <2>2. EditorAt(e)'
    BY <1>1, <1>5, <1>6, DbType DEF EditorAt, SweepFailed, Undo, Precondition, CustodyInv
  <2> QED BY <1>4, <1>6, <2>1, <2>2
<1>7. CASE /\ db' = Invalidated(db, FALSE)
           /\ served' = served \cup ({ServedBy(Invalidated(db, FALSE))} \ {None})
  <2>1. TRUE
    BY <1>1, <1>7, DbType DEF EditorAt, DbSafe, OneRetained, HistoryAgrees, ServedBy,
       StartupValid,
                              CustodyInv, Precondition
  <2>2. /\ db'.selected = None /\ db'.candidates = Retained(db)
        /\ db'.fenced = db.fenced /\ db'.stored = db.stored /\ served' = served
        /\ \/ db'.row = db.row
           \/ /\ db'.row.revision = db.row.revision + 1
              /\ db'.row.material = db.row.material + 1 /\ db'.row.handle = None
    BY <1>7, <2>1, DbType DEF Invalidated, Database, Row, ServedBy, CustodyInv
  <2>3. DbSafe'
    <3>1. StartupValid'
      <4>1. db.row.material \in Nat /\ db.row.revision \in Nat
        BY DbType DEF CustodyInv
      <4>2. /\ db.row.material <= db.row.revision
            /\ db.row.handle # None => db.row.material > 0 /\ ~db.row.deleted
        BY <1>1 DEF DbSafe, StartupValid
      <4>3. CASE db'.row = db.row
        BY <2>2, <4>2, <4>3 DEF StartupValid
      <4>4. CASE /\ db'.row.revision = db.row.revision + 1
                 /\ db'.row.material = db.row.material + 1 /\ db'.row.handle = None
        BY <2>2, <4>1, <4>2, <4>4 DEF StartupValid
      <4> QED BY <2>2, <4>3, <4>4
    <3>2. NothingOrphaned' /\ OneRetained'
      BY <1>1, <2>1, <2>2, DbType DEF DbSafe, NothingOrphaned, OneRetained, Retained, CustodyInv
    <3>3. HistoryAgrees'
      BY <1>1, <2>1, <2>2 DEF DbSafe, HistoryAgrees, ServedBy, EditorAt, Undo
    <3> QED BY <3>1, <3>2, <3>3 DEF DbSafe
  <2>4. EditorAt(e)'
    BY <1>1, <1>5, <2>1, <2>2, DbType DEF EditorAt, SweepFailed, Undo, Precondition,
       CustodyInv, DbSafe, NothingOrphaned, OneRetained, Retained, SetLocal, TypeOK
  <2> QED BY <1>4, <2>2, <2>3, <2>4, DbType DEF CustodyInv
<1> QED BY <1>2, <1>6, <1>7

\* A deletion takes the generation in force out of force, lists it and ends the row.
LEMMA InvalidateStep ==
  ASSUME CustodyInv, TypeOK', NEW e \in Editors, Invalidate(e)
  PROVE  /\ DbSafe' /\ EditorAt(e)' /\ Holding'
         /\ db'.row = db.row \/ db.row.revision < db'.row.revision
<1> USE DEF locals, permits, Procs
<1>1. /\ pc \in [Procs -> Labels] /\ pc[e] = "invalidate"
      /\ EditorAt(e) /\ DbSafe
  BY DEF CustodyInv, Invalidate, TypeOK
<1>2. PICK l \in {"sweep", "release"} :
        /\ pc' = [pc EXCEPT ![e] = l]
        /\ \/ db' = db /\ served' = served /\ l = "release"
           \/ /\ db' = Invalidated(db, TRUE)
              /\ served' = served \cup ({ServedBy(Invalidated(db, TRUE))} \ {None})
  BY DEF Invalidate, Transact, Commits, CommitsUnseen, Fails, Write, Goto
<1>3. l \in Cutting
  BY <1>1 DEF SweepFailed, Cutting
<1>4. Holding'
  BY <1>1, <1>2, <1>3, CuttingHolds DEF Invalidate, Cutting
<1>5. pc'[e] = l
  BY <1>1, <1>2
<1>6. CASE db' = db /\ served' = served /\ l = "release"
  <2>1. DbSafe'
    BY <1>1, <1>6, SameDb DEF Invalidate
  <2>2. EditorAt(e)'
    BY <1>1, <1>5, <1>6, DbType DEF EditorAt, SweepFailed, Invalidate, Precondition, CustodyInv
  <2> QED BY <1>4, <1>6, <2>1, <2>2
<1>7. CASE /\ db' = Invalidated(db, TRUE)
           /\ served' = served \cup ({ServedBy(Invalidated(db, TRUE))} \ {None})
  <2>1. TRUE
    BY <1>1, <1>7, DbType DEF EditorAt, DbSafe, OneRetained, HistoryAgrees, ServedBy,
       StartupValid,
                              CustodyInv, Precondition
  <2>2. /\ db'.selected = None /\ db'.candidates = Retained(db)
        /\ db'.fenced = db.fenced /\ db'.stored = db.stored /\ served' = served
        /\ \/ db'.row = db.row
           \/ /\ db'.row.revision = db.row.revision + 1
              /\ db'.row.material = db.row.material + 1 /\ db'.row.handle = None
    BY <1>7, <2>1, DbType DEF Invalidated, Database, Row, ServedBy, CustodyInv
  <2>3. DbSafe'
    <3>1. StartupValid'
      <4>1. db.row.material \in Nat /\ db.row.revision \in Nat
        BY DbType DEF CustodyInv
      <4>2. /\ db.row.material <= db.row.revision
            /\ db.row.handle # None => db.row.material > 0 /\ ~db.row.deleted
        BY <1>1 DEF DbSafe, StartupValid
      <4>3. CASE db'.row = db.row
        BY <2>2, <4>2, <4>3 DEF StartupValid
      <4>4. CASE /\ db'.row.revision = db.row.revision + 1
                 /\ db'.row.material = db.row.material + 1 /\ db'.row.handle = None
        BY <2>2, <4>1, <4>2, <4>4 DEF StartupValid
      <4> QED BY <2>2, <4>3, <4>4
    <3>2. NothingOrphaned' /\ OneRetained'
      BY <1>1, <2>1, <2>2, DbType DEF DbSafe, NothingOrphaned, OneRetained, Retained, CustodyInv
    <3>3. HistoryAgrees'
      BY <1>1, <2>1, <2>2 DEF DbSafe, HistoryAgrees, ServedBy, EditorAt, Invalidate
    <3> QED BY <3>1, <3>2, <3>3 DEF DbSafe
  <2>4. EditorAt(e)'
    BY <1>1, <1>5, <2>1, <2>2, DbType DEF EditorAt, SweepFailed, Invalidate, Precondition,
       CustodyInv, DbSafe, NothingOrphaned, OneRetained, Retained, SetLocal, TypeOK
  <2> QED BY <1>4, <2>2, <2>3, <2>4, DbType DEF CustodyInv
<1> QED BY <1>2, <1>6, <1>7

\* An update moves the revision on and leaves the material alone.
LEMMA UpdateStep ==
  ASSUME CustodyInv, TypeOK', NEW e \in Editors, Update(e)
  PROVE  /\ DbSafe' /\ EditorAt(e)' /\ Holding'
         /\ db'.row = db.row \/ db.row.revision < db'.row.revision
<1> USE DEF locals, permits, Procs
<1> DEFINE new == Database(Row(db.row.revision + 1, db.row.material, db.row.handle, FALSE),
                           db.selected, db.selectedRevision, db.candidates, db.fenced, db.stored)
<1>1. pc \in [Procs -> Labels] /\ pc[e] = "guarded" /\ DbSafe
  BY DEF CustodyInv, Update, TypeOK
<1>2. /\ pc' = [pc EXCEPT ![e] = "leave"]
      /\ \/ db' = db /\ served' = served
         \/ db' = new /\ served' = served \cup ({ServedBy(new)} \ {None})
  BY DEF Update, Transact, Commits, CommitsUnseen, Fails, Write, Goto
<1>3. Holding'
  BY <1>1, <1>2 DEF CustodyInv, Holding, Operating, Guarded, Cutting, Update
<1>4. EditorAt(e)'
  BY <1>1, <1>2 DEF EditorAt
<1>5. CASE db' = db /\ served' = served
  BY <1>1, <1>3, <1>4, <1>5, SameDb DEF Update
<1>6. CASE db' = new /\ served' = served \cup ({ServedBy(new)} \ {None})
  <2>1. /\ db'.row.revision = db.row.revision + 1 /\ db'.row.material = db.row.material
        /\ db'.row.handle = db.row.handle /\ db'.row.deleted = FALSE
        /\ db'.selected = db.selected /\ db'.selectedRevision = db.selectedRevision
        /\ db'.candidates = db.candidates
        /\ db'.fenced = db.fenced /\ db'.stored = db.stored
        /\ served' = served \cup ({ServedBy(db)} \ {None})
    BY <1>6 DEF Database, Row, ServedBy
  <2>2. db.row.material \in Nat /\ db.row.revision \in Nat
    BY DbType DEF CustodyInv
  <2>3. StartupValid'
    BY <1>1, <2>1, <2>2 DEF DbSafe, StartupValid
  <2>4. NothingOrphaned' /\ OneRetained'
    BY <1>1, <2>1 DEF DbSafe, NothingOrphaned, OneRetained, Retained
  <2>5. HistoryAgrees'
    BY <1>1, <2>1 DEF DbSafe, HistoryAgrees, ServedBy, Update
  <2> QED BY <1>3, <1>4, <2>1, <2>2, <2>3, <2>4, <2>5 DEF DbSafe
<1> QED BY <1>2, <1>5, <1>6

\* A handle never drawn before is listed, alone, before its generation is written.
LEMMA RegisterCandidateStep ==
  ASSUME CustodyInv, TypeOK', NEW e \in Editors, RegisterCandidate(e)
  PROVE  /\ DbSafe' /\ EditorAt(e)' /\ Holding'
         /\ db'.row = db.row
<1> USE DEF permits, Procs
<1>1. /\ pc \in [Procs -> Labels] /\ handle \in [Procs -> Handles \cup {None}]
      /\ pc[e] = "register" /\ DbSafe
      /\ db.selected = None /\ db.candidates = {} /\ db.fenced
      /\ served \subseteq used
  BY DEF CustodyInv, RegisterCandidate, TypeOK, EditorAt, DbSafe, HistoryAgrees
<1>2. PICK h \in Handles \ used, l \in {"write", "undo"} :
        /\ handle' = [handle EXCEPT ![e] = h] /\ used' = used \cup {h}
        /\ pc' = [pc EXCEPT ![e] = l]
        /\ \/ db' = db /\ served' = served /\ l = "undo"
           \/ LET new == Database(db.row, db.selected, db.selectedRevision,
                                  db.candidates \cup {h}, db.fenced, db.stored)
              IN  db' = new /\ served' = served \cup ({ServedBy(new)} \ {None})
  BY DEF RegisterCandidate, Transact, Commits, CommitsUnseen, Fails, Write, Goto, SetLocal
<1>3. Holding'
  BY <1>1, <1>2, CuttingHolds DEF RegisterCandidate, Cutting
<1>4. pc'[e] = l /\ handle'[e] = h /\ h # None /\ h \notin served
  BY <1>1, <1>2
<1>5. CASE db' = db /\ served' = served /\ l = "undo"
  <2>1. DbSafe'
    BY <1>1, <1>2, <1>5, SameDb
  <2>2. EditorAt(e)'
    BY <1>1, <1>4, <1>5 DEF EditorAt
  <2> QED BY <1>3, <1>5, <2>1, <2>2
<1>6. CASE LET new == Database(db.row, db.selected, db.selectedRevision,
                               db.candidates \cup {h}, db.fenced, db.stored)
           IN  db' = new /\ served' = served \cup ({ServedBy(new)} \ {None})
  <2>1. /\ db'.row = db.row /\ db'.selected = None /\ db'.candidates = {h}
        /\ db'.fenced = TRUE /\ db'.stored = db.stored /\ served' = served
    BY <1>1, <1>6, DbType DEF Database, ServedBy, CustodyInv
  <2>2. StartupValid'
    BY <1>1, <2>1 DEF DbSafe, StartupValid
  <2>3. NothingOrphaned' /\ OneRetained'
    BY <1>1, <2>1 DEF DbSafe, NothingOrphaned, OneRetained, Retained
  <2>4. HistoryAgrees'
    BY <1>1, <1>2, <2>1 DEF HistoryAgrees, ServedBy
  <2>5. EditorAt(e)'
    BY <1>1, <1>2, <1>4, <2>1 DEF EditorAt
  <2> QED BY <1>3, <2>1, <2>2, <2>3, <2>4, <2>5 DEF DbSafe
<1> QED BY <1>2, <1>5, <1>6

\* The candidate is selected and the row names it, behind the fence.
LEMMA CommitCandidateStep ==
  ASSUME CustodyInv, TypeOK', NEW e \in Editors, CommitCandidate(e)
  PROVE  /\ DbSafe' /\ EditorAt(e)' /\ Holding'
         /\ db'.row = db.row \/ db.row.revision < db'.row.revision
<1> USE DEF permits, Procs
<1> DEFINE new == Database(Row(db.row.revision + 1, db.row.material + 1, handle[e], FALSE),
                           handle[e], db.row.material + 1,
                           (db.candidates \ {handle[e]}) \cup ({db.selected} \ {None}),
                           db.fenced, db.stored)
<1>1. /\ pc \in [Procs -> Labels] /\ handle \in [Procs -> Handles \cup {None}]
      /\ pc[e] = "commit" /\ DbSafe
      /\ db.selected = None /\ db.candidates = {handle[e]} /\ db.fenced
      /\ handle[e] \in db.stored /\ handle[e] \in used /\ handle[e] \notin served
      /\ handle' = handle /\ used' = used
  BY DEF CustodyInv, CommitCandidate, TypeOK, EditorAt
<1>2. PICK l \in {"activate", "undo", "discard"} :
        /\ pc' = [pc EXCEPT ![e] = l]
        /\ \/ db' = db /\ served' = served /\ l \in {"undo", "discard"}
           \/ /\ db' = new /\ served' = served \cup ({ServedBy(new)} \ {None})
              /\ l \in {"activate", "undo"}
  BY DEF CommitCandidate, Transact, Commits, CommitsUnseen, Fails, Write, Goto
<1>3. Holding'
  BY <1>1, <1>2, CuttingHolds DEF CommitCandidate, Cutting
<1>4. pc'[e] = l
  BY <1>1, <1>2
<1>5. CASE db' = db /\ served' = served /\ l \in {"undo", "discard"}
  <2>1. DbSafe'
    BY <1>1, <1>5, SameDb
  <2>2. EditorAt(e)'
    BY <1>1, <1>4, <1>5 DEF EditorAt
  <2> QED BY <1>3, <1>5, <2>1, <2>2
<1>6. CASE /\ db' = new /\ served' = served \cup ({ServedBy(new)} \ {None})
           /\ l \in {"activate", "undo"}
  <2>1. /\ db'.row.revision = db.row.revision + 1 /\ db'.row.material = db.row.material + 1
        /\ db'.row.handle = handle[e] /\ db'.row.deleted = FALSE
        /\ db'.selected = handle[e] /\ db'.selectedRevision = db.row.material + 1
        /\ db'.candidates = {} /\ db'.fenced = TRUE /\ db'.stored = db.stored
        /\ served' = served
    BY <1>1, <1>6, DbType DEF Database, Row, ServedBy, CustodyInv
  <2>2. db.row.material \in Nat /\ db.row.revision \in Nat
    BY DbType DEF CustodyInv
  <2>3. StartupValid'
    BY <1>1, <2>1, <2>2 DEF DbSafe, StartupValid
  <2>4. NothingOrphaned' /\ OneRetained'
    BY <1>1, <2>1, DbType DEF DbSafe, NothingOrphaned, OneRetained, Retained, CustodyInv
  <2>5. HistoryAgrees'
    BY <1>1, <2>1 DEF DbSafe, HistoryAgrees, ServedBy
  <2>6. EditorAt(e)'
    BY <1>1, <1>4, <1>6, <2>1 DEF EditorAt
  <2> QED BY <1>3, <2>1, <2>2, <2>3, <2>4, <2>5, <2>6 DEF DbSafe
<1> QED BY <1>2, <1>5, <1>6

\* A step that leaves the store alone disturbs no other process.
LEMMA OthersSame ==
  ASSUME CustodyInv, NEW p \in Procs, NEW l, pc' = [pc EXCEPT ![p] = l],
         UNCHANGED <<db, served, used>>,
         \A q \in Procs : q # p => handle'[q] = handle[q] /\ expected'[q] = expected[q],
         \A q \in Editors : q # p => kind'[q] = kind[q] /\ sweeping'[q] = sweeping[q]
  PROVE  /\ \A f \in Editors : f # p => EditorAt(f)'
         /\ \A r \in Requests : r # p => RequestAt(r)'
<1>1. \A q \in Procs : q # p => pc'[q] = pc[q]
  BY DEF CustodyInv, TypeOK
<1>2. ASSUME NEW f \in Editors, f # p PROVE EditorAt(f)'
  <2>1. f \in Procs /\ EditorAt(f)
    BY DEF Procs, CustodyInv
  <2> QED BY <1>1, <1>2, <2>1 DEF EditorAt, Precondition
<1>3. ASSUME NEW r \in Requests, r # p PROVE RequestAt(r)'
  <2>1. r \in Procs /\ RequestAt(r)
    BY DEF Procs, CustodyInv
  <2> QED BY <1>1, <1>3, <2>1 DEF RequestAt, Precondition, Available
<1> QED BY <1>2, <1>3

\* The steps of an edit that write nothing.
LEMMA QuietEdit ==
  ASSUME CustodyInv, TypeOK', NEW e \in Editors,
         \/ \E k \in {"update", "rotate", "delete"} : Observe(e, k)
         \/ TakeGuard(e) \/ GuardBusy(e) \/ Check(e) \/ TakeOperation(e) \/ OperationRefused(e)
         \/ SweepNext(e) \/ SweepDone(e) \/ SweepStops(e) \/ NoHandle(e) \/ Drained(e)
         \/ Verify(e) \/ ReleaseOperation(e) \/ ReleaseGuard(e)
  PROVE  CustodyInv'
<1> USE DEF store, permits, locals, process, SetLocal, Goto
<1>0. /\ pc \in [Procs -> Labels] /\ handle \in [Procs -> Handles \cup {None}]
      /\ expected \in [Procs -> Nat]
      /\ kind \in [Editors -> {"update", "rotate", "delete", None}]
      /\ DbSafe /\ Holding /\ EditorAt(e) /\ e \in Procs /\ Editors \subseteq Procs
      /\ db.candidates \in SUBSET Handles
  BY DbType DEF CustodyInv, TypeOK, Procs
<1>s. UNCHANGED <<db, served, used>>
  BY DEF Observe, TakeGuard, GuardBusy, Check, TakeOperation, OperationRefused, SweepNext,
         SweepDone, SweepStops, NoHandle, Drained, Verify, ReleaseOperation, ReleaseGuard
<1>d. DbSafe'
  BY <1>0, <1>s, SameDb
<1>q. ASSUME NEW l, pc' = [pc EXCEPT ![e] = l], EditorAt(e)', Holding',
             \A q \in Procs : q # e => handle'[q] = handle[q] /\ expected'[q] = expected[q],
             \A q \in Editors : q # e => kind'[q] = kind[q] /\ sweeping'[q] = sweeping[q]
      PROVE  CustodyInv'
  <2>1. \A r \in Requests : r # e
    OBVIOUS
  <2>2. (\A f \in Editors : f # e => EditorAt(f)') /\ (\A r \in Requests : r # e => RequestAt(r)')
    BY <1>q, <1>s, <1>0, OthersSame
  <2> QED BY <1>q, <1>d, <2>1, <2>2 DEF CustodyInv
<1>1. ASSUME NEW k \in {"update", "rotate", "delete"}, Observe(e, k) PROVE CustodyInv'
  <2>1. pc' = [pc EXCEPT ![e] = "ready"] /\ pc'[e] = "ready"
    BY <1>0, <1>1 DEF Observe
  <2>2. EditorAt(e)'
    BY <2>1 DEF EditorAt
  <2>3. Holding'
    BY <1>0, <1>1, <2>1 DEF Holding, Operating, Guarded, Cutting, Observe
  <2> QED BY <1>0, <1>1, <1>q, <2>1, <2>2, <2>3 DEF Observe
<1>2. CASE TakeGuard(e)
  <2>1. PICK l \in {"admit", "guarded"} :
          pc' = [pc EXCEPT ![e] = l] /\ (l = "admit" => kind[e] = "delete")
    BY <1>2 DEF TakeGuard
  <2>2. EditorAt(e)'
    BY <1>0, <1>2, <2>1 DEF EditorAt, TakeGuard
  <2>3. Holding'
    BY <1>0, <1>2, <2>1 DEF Holding, Operating, Guarded, Cutting, TakeGuard
  <2> QED BY <1>0, <1>2, <1>q, <2>1, <2>2, <2>3 DEF TakeGuard
<1>3. CASE GuardBusy(e)
  <2>2. EditorAt(e)'
    BY <1>0, <1>3 DEF EditorAt, GuardBusy
  <2>3. Holding'
    BY <1>0, <1>3 DEF Holding, Operating, Guarded, Cutting, GuardBusy
  <2> QED BY <1>0, <1>3, <1>q, <2>2, <2>3 DEF GuardBusy
<1>4. CASE Check(e)
  <2>1. PICK l \in {"admit", "leave"} : pc' = [pc EXCEPT ![e] = l] /\ (l = "admit" => Precondition(e))
    BY <1>4 DEF Check
  <2>2. EditorAt(e)'
    BY <1>0, <1>4, <1>s, <2>1 DEF EditorAt, Check, Precondition
  <2>3. Holding'
    BY <1>0, <1>4, <2>1 DEF Holding, Operating, Guarded, Cutting, Check
  <2> QED BY <1>0, <1>4, <1>q, <2>1, <2>2, <2>3 DEF Check
<1>5. CASE TakeOperation(e)
  <2>1. PICK l \in {"invalidate", "fence"} :
          pc' = [pc EXCEPT ![e] = l] /\ (l = "fence" => kind[e] # "delete")
    BY <1>5 DEF TakeOperation
  <2>2. EditorAt(e)'
    BY <1>0, <1>5, <1>s, <2>1 DEF EditorAt, TakeOperation, Precondition
  <2>3. Holding'
    BY <1>0, <1>5, <2>1 DEF Holding, Operating, Guarded, Cutting, TakeOperation
  <2> QED BY <1>0, <1>5, <1>q, <2>1, <2>2, <2>3 DEF TakeOperation
<1>6. CASE OperationRefused(e)
  <2>2. EditorAt(e)'
    BY <1>0, <1>6 DEF EditorAt, OperationRefused
  <2>3. Holding'
    BY <1>0, <1>6 DEF Holding, Operating, Guarded, Cutting, OperationRefused
  <2> QED BY <1>0, <1>6, <1>q, <2>2, <2>3 DEF OperationRefused
<1>7. CASE SweepNext(e)
  <2>1. PICK h \in db.candidates : handle' = [handle EXCEPT ![e] = h]
    BY <1>7 DEF SweepNext
  <2>2. EditorAt(e)'
    BY <1>0, <1>7, <1>s, <2>1 DEF EditorAt, SweepNext
  <2>3. Holding'
    BY <1>0, <1>7, CuttingHolds DEF SweepNext, Cutting
  <2> QED BY <1>0, <1>7, <1>q, <2>1, <2>2, <2>3 DEF SweepNext
<1>8. CASE SweepDone(e) \/ SweepStops(e) \/ NoHandle(e) \/ Drained(e)
  <2>1. PICK l \in {"release", "undo", "register"} :
          /\ pc' = [pc EXCEPT ![e] = l]
          /\ l = "register" => pc[e] = "sweep" /\ db.candidates = {} /\ sweeping[e] # "after"
          /\ l = "undo" => \/ pc[e] = "sweep" /\ sweeping[e] # "after"
                           \/ pc[e] \in {"register", "write", "verify"}
    BY <1>8 DEF SweepDone, SweepStops, SweepFailed, NoHandle, Drained
  <2>2. sweeping[e] \in {"before", "after"}
    BY DEF CustodyInv, TypeOK
  <2>3. EditorAt(e)'
    BY <1>0, <1>s, <2>1, <2>2 DEF EditorAt
  <2>4. Holding'
    BY <1>0, <1>8, <2>1, CuttingHolds DEF Cutting, SweepDone, SweepStops, NoHandle, Drained
  <2> QED BY <1>0, <1>8, <1>q, <2>1, <2>3, <2>4 DEF SweepDone, SweepStops, NoHandle, Drained
<1>9. CASE Verify(e)
  <2>1. PICK l \in {"undo", "commit", "discard"} :
          pc' = [pc EXCEPT ![e] = l] /\ (l = "commit" => handle[e] \in db.stored)
    BY <1>9 DEF Verify
  <2>2. EditorAt(e)'
    BY <1>0, <1>9, <1>s, <2>1 DEF EditorAt, Verify
  <2>3. Holding'
    BY <1>0, <1>9, <2>1, CuttingHolds DEF Cutting, Verify
  <2> QED BY <1>0, <1>9, <1>q, <2>1, <2>2, <2>3 DEF Verify
<1>10. CASE ReleaseOperation(e) \/ ReleaseGuard(e)
  <2>1. PICK l \in {"leave", "returned"} : pc' = [pc EXCEPT ![e] = l]
    BY <1>10 DEF ReleaseOperation, ReleaseGuard
  <2>2. EditorAt(e)'
    BY <1>0, <2>1 DEF EditorAt
  <2>3. Holding'
    BY <1>0, <1>10 DEF Holding, Operating, Guarded, Cutting, ReleaseOperation, ReleaseGuard
  <2> QED BY <1>0, <1>10, <1>q, <2>1, <2>2, <2>3 DEF ReleaseOperation, ReleaseGuard
<1> QED BY <1>1, <1>2, <1>3, <1>4, <1>5, <1>6, <1>7, <1>8, <1>9, <1>10

\* The steps of a request.
LEMMA RequestStep ==
  ASSUME CustodyInv, TypeOK', NEW r \in Requests, Request(r) \/ Evaluate(r)
  PROVE  CustodyInv'
<1> USE DEF store, permits, locals, process, SetLocal, Goto
<1>0. /\ pc \in [Procs -> Labels] /\ handle \in [Procs -> Handles \cup {None}]
      /\ expected \in [Procs -> Nat]
      /\ DbSafe /\ Holding /\ RequestAt(r) /\ r \in Procs /\ Requests \subseteq Procs
      /\ db.row.revision \in Nat
  BY DbType DEF CustodyInv, TypeOK, Procs
<1>s. UNCHANGED <<db, served, used, kind, sweeping>>
  BY DEF Request, Evaluate, BeginRead, FinishRead, BeginConfirm, ConfirmMaterial, Detach,
         Dispatched, Refused, ReleaseGuard
<1>d. DbSafe'
  BY <1>0, <1>s, SameDb
<1>q. ASSUME NEW l, pc' = [pc EXCEPT ![r] = l], RequestAt(r)', Holding',
             \A q \in Procs : q # r => handle'[q] = handle[q] /\ expected'[q] = expected[q]
      PROVE  CustodyInv'
  <2>1. \A f \in Editors : f # r
    OBVIOUS
  <2>2. (\A f \in Editors : f # r => EditorAt(f)') /\ (\A q \in Requests : q # r => RequestAt(q)')
    BY <1>q, <1>s, <1>0, OthersSame
  <2> QED BY <1>q, <1>d, <2>1, <2>2 DEF CustodyInv
<1>1. CASE Evaluate(r)
  <2>1. RequestAt(r)'
    BY <1>0, <1>1 DEF RequestAt, Evaluate
  <2>2. Holding'
    BY <1>0, <1>1 DEF Holding, Operating, Guarded, Cutting, Evaluate
  <2> QED BY <1>0, <1>1, <1>q, <2>1, <2>2 DEF Evaluate
<1>2. CASE BeginRead(r)
  <2>1. RequestAt(r)'
    BY <1>0, <1>2 DEF RequestAt, BeginRead
  <2>2. Holding'
    BY <1>0, <1>2 DEF Holding, Operating, Guarded, Cutting, BeginRead
  <2> QED BY <1>0, <1>2, <1>q, <2>1, <2>2 DEF BeginRead
<1>3. CASE FinishRead(r)
  <2>1. PICK l \in {"acquired", "returned"} :
          /\ pc' = [pc EXCEPT ![r] = l]
          /\ l = "acquired" => Precondition(r) /\ db.row.handle = handle[r]
    BY <1>3 DEF FinishRead
  <2>2. RequestAt(r)'
    BY <1>0, <1>3, <1>s, <2>1 DEF RequestAt, Precondition, FinishRead
  <2>3. Holding'
    BY <1>0, <1>3, <2>1 DEF Holding, Operating, Guarded, Cutting, FinishRead
  <2> QED BY <1>0, <1>3, <1>q, <2>1, <2>2, <2>3 DEF FinishRead
<1>4. CASE BeginConfirm(r)
  <2>1. RequestAt(r)'
    BY <1>0, <1>4, <1>s DEF RequestAt, BeginConfirm, Precondition
  <2>2. Holding'
    BY <1>0, <1>4 DEF Holding, Operating, Guarded, Cutting, BeginConfirm
  <2> QED BY <1>0, <1>4, <1>q, <2>1, <2>2 DEF BeginConfirm
<1>5. CASE ConfirmMaterial(r)
  <2>1. PICK l \in {"confirmed", "leave"} :
          pc' = [pc EXCEPT ![r] = l] /\ (l = "confirmed" => Available(db) /\ Precondition(r))
    BY <1>5 DEF ConfirmMaterial
  <2>2. RequestAt(r)'
    BY <1>0, <1>5, <1>s, <2>1 DEF RequestAt, Precondition, Available, ConfirmMaterial
  <2>3. Holding'
    BY <1>0, <1>5, <2>1 DEF Holding, Operating, Guarded, Cutting, ConfirmMaterial
  <2> QED BY <1>0, <1>5, <1>q, <2>1, <2>2, <2>3 DEF ConfirmMaterial
<1>6. CASE Detach(r) \/ Dispatched(r)
  <2>1. PICK l \in {"dispatched", "leave"} :
          pc' = [pc EXCEPT ![r] = l] /\ (l = "dispatched" => pc[r] = "confirmed")
    BY <1>6 DEF Detach, Dispatched
  <2>2. RequestAt(r)'
    BY <1>0, <1>6, <1>s, <2>1 DEF RequestAt, Precondition, Available, Detach, Dispatched
  <2>3. Holding'
    BY <1>0, <1>6, <2>1 DEF Holding, Operating, Guarded, Cutting, Detach, Dispatched
  <2> QED BY <1>0, <1>6, <1>q, <2>1, <2>2, <2>3 DEF Detach, Dispatched
<1>7. CASE Refused(r) \/ ReleaseGuard(r)
  <2>1. RequestAt(r)'
    BY <1>0, <1>7 DEF RequestAt, Refused, ReleaseGuard
  <2>2. Holding'
    BY <1>0, <1>7 DEF Holding, Operating, Guarded, Cutting, Refused, ReleaseGuard
  <2> QED BY <1>0, <1>7, <1>q, <2>1, <2>2 DEF Refused, ReleaseGuard
<1> QED BY <1>1, <1>2, <1>3, <1>4, <1>5, <1>6, <1>7 DEF Request

\* The steps of an edit that may write.
Writes(e) ==
  \/ Update(e) \/ FenceAuthority(e) \/ Erase(e) \/ Unlist(e) \/ RegisterCandidate(e)
  \/ WriteGeneration(e) \/ CommitCandidate(e) \/ Discard(e) \/ Discarded(e)
  \/ ActivateAuthority(e) \/ Undo(e) \/ Invalidate(e)

LEMMA WritingEdit ==
  ASSUME CustodyInv, TypeOK', NEW e \in Editors, Writes(e)
  PROVE  CustodyInv'
<1>1. /\ DbSafe' /\ EditorAt(e)' /\ Holding'
      /\ db'.row = db.row \/ db.row.revision < db'.row.revision
  BY UpdateStep, FenceAuthorityStep, EraseStep, UnlistStep, RegisterCandidateStep,
     WriteGenerationStep, CommitCandidateStep, DiscardStep, DiscardedStep,
     ActivateAuthorityStep, UndoStep, InvalidateStep DEF Writes
<1>2. pc[e] \in Guarded
  BY DEF Writes, Guarded, Cutting, Update, FenceAuthority, Erase, Unlist, RegisterCandidate,
         WriteGeneration, CommitCandidate, Discard, Discarded, ActivateAuthority, Undo, Invalidate
<1>3. \E l : pc' = [pc EXCEPT ![e] = l]
  BY DEF Writes, Update, FenceAuthority, Erase, Unlist, RegisterCandidate, WriteGeneration,
         CommitCandidate, Discard, Discarded, ActivateAuthority, Undo, Invalidate,
         Effect, Transact, Commits, CommitsUnseen, Fails, Goto
<1>4. expected' = expected /\ \A q \in Procs : q # e => handle'[q] = handle[q]
  BY DEF Writes, Update, FenceAuthority, Erase, Unlist, RegisterCandidate, WriteGeneration,
         CommitCandidate, Discard, Discarded, ActivateAuthority, Undo, Invalidate,
         locals, SetLocal, CustodyInv, TypeOK
<1>5. (\A f \in Editors : f # e => EditorAt(f)') /\ (\A r \in Requests : RequestAt(r)')
  BY <1>1, <1>2, <1>3, <1>4, OthersKeep
<1> QED BY <1>1, <1>5 DEF CustodyInv

\* Every step preserves the invariant.
LEMMA CustodyStep == CustodyInv /\ [Next]_vars => CustodyInv'
<1> SUFFICES ASSUME CustodyInv, [Next]_vars PROVE CustodyInv'
  OBVIOUS
<1>0. TypeOK'
  BY StepType
<1>1. ASSUME NEW e \in Editors, Edit(e) \/ \E k \in {"update", "rotate", "delete"} : Observe(e, k)
      PROVE  CustodyInv'
  <2>1. CASE Writes(e)
    BY <1>0, <2>1, WritingEdit
  <2>2. CASE ~Writes(e)
    BY <1>0, <1>1, <2>2, QuietEdit DEF Edit, Writes
  <2> QED BY <2>1, <2>2
<1>2. ASSUME NEW r \in Requests, Request(r) \/ Evaluate(r) PROVE CustodyInv'
  BY <1>0, <1>2, RequestStep
<1>3. CASE OtherLatch \/ Drain \/ UNCHANGED vars
  <2>1. UNCHANGED <<db, served, pc, operation, mutation, kind, expected, handle, sweeping, used>>
    BY <1>3 DEF OtherLatch, Drain, vars, store, permits, locals
  <2>2. DbSafe'
    BY <2>1, SameDb DEF CustodyInv
  <2>3. Holding'
    BY <2>1 DEF CustodyInv, Holding
  <2>4. \A e \in Editors : EditorAt(e)'
    BY <2>1 DEF CustodyInv, EditorAt, Precondition
  <2>5. \A r \in Requests : RequestAt(r)'
    BY <2>1 DEF CustodyInv, RequestAt, Precondition, Available
  <2> QED BY <1>0, <2>2, <2>3, <2>4, <2>5 DEF CustodyInv
<1>4. CASE Crash
  <2>1. DbSafe'
    BY <1>4, SameDb DEF CustodyInv, Crash, locals
  <2>2. \A p \in Procs : pc'[p] \in {"idle", "returned"}
    BY <1>4 DEF Crash
  <2>3. Holding'
    BY <2>2 DEF Holding, Operating, Guarded, Cutting
  <2>4. \A e \in Editors : EditorAt(e)'
    BY <2>2 DEF EditorAt, Procs
  <2>5. \A r \in Requests : RequestAt(r)'
    BY <2>2 DEF RequestAt, Procs
  <2> QED BY <1>0, <2>1, <2>3, <2>4, <2>5 DEF CustodyInv
<1> QED BY <1>1, <1>2, <1>3, <1>4, Zenon DEF Next

LEMMA CustodyInit == Init => CustodyInv
<1> SUFFICES ASSUME Init PROVE CustodyInv
  OBVIOUS
<1>1. /\ db.row = Row(1, 0, None, FALSE) /\ db.selected = None /\ db.selectedRevision = 0
      /\ db.candidates = {} /\ db.fenced = FALSE /\ db.stored = {}
      /\ db.row.revision = 1 /\ db.row.material = 0 /\ db.row.handle = None
      /\ db.row.deleted = FALSE
  BY DEF Init, Database, Row
<1>2. TypeOK
  <2>1. db.row \in RowSet
    BY <1>1 DEF RowSet, Row
  <2>2. db \in Databases
    BY <1>1, <2>1 DEF Init, Database, Databases
  <2>3. /\ latched \in BOOLEAN /\ draining \in BOOLEAN
        /\ operation \in Procs \cup {None} /\ mutation \in Procs \cup {None}
        /\ used \subseteq Handles /\ served \subseteq Handles
    BY Zenon DEF Init
  <2>5. crashes \in 0..MaxCrashes
    <3>1. crashes = 0
      BY DEF Init
    <3> QED BY <3>1
  <2>4. /\ pc \in [Procs -> Labels] /\ handle \in [Procs -> Handles \cup {None}]
        /\ kind \in [Editors -> {"update", "rotate", "delete", None}]
        /\ expected \in [Procs -> Nat] /\ generation \in [Procs -> Nat]
        /\ sweeping \in [Editors -> {"before", "after"}]
    BY DEF Init, Labels
  <2> QED BY <2>2, <2>3, <2>4, <2>5, Zenon DEF TypeOK, Databases, RowSet
<1>3. Holding /\ (\A e \in Editors : EditorAt(e)) /\ (\A r \in Requests : RequestAt(r))
  <2>1. \A p \in Procs : pc[p] = "idle"
    BY DEF Init
  <2>2. Holding
    BY <2>1 DEF Holding, Operating, Guarded, Cutting
  <2>3. \A e \in Editors : EditorAt(e)
    BY <2>1 DEF EditorAt, Procs
  <2>4. \A r \in Requests : RequestAt(r)
    BY <2>1 DEF RequestAt, Procs
  <2> QED BY <2>2, <2>3, <2>4
<1>4. DbSafe
  <2>1. StartupValid
    <3>a. db.row.material = 0 /\ db.row.revision = 1
      BY <1>1, Zenon
    <3>1. db.row.material <= db.row.revision
      BY <3>a
    <3>2. db.row.handle = None /\ db.selected = None
      BY <1>1
    <3> QED BY <3>1, <3>2 DEF StartupValid
  <2>2. NothingOrphaned /\ OneRetained
    BY <1>1 DEF NothingOrphaned, OneRetained
  <2>3. HistoryAgrees
    BY <1>1, Zenon DEF HistoryAgrees, ServedBy, Init
  <2> QED BY <2>1, <2>2, <2>3 DEF DbSafe
<1> QED BY <1>2, <1>3, <1>4 DEF CustodyInv
-----------------------------------------------------------------------------
(* The theorems.                                                           *)

\* The invariant holds in every state, whatever fails and wherever a process stops.
THEOREM CustodyInvariant == Spec => []CustodyInv
BY CustodyInit, CustodyStep, PTL DEF Spec

\* A process that stops at any transaction leaves a database the next start accepts,
\* in which every ciphertext is selected or listed, and of one generation at most
\* (keyring/cutover.go, custody.go; httpcredentials/recovery.go).
THEOREM DatabaseIsRecoverable == Spec => []DurableState
<1>1. ASSUME CustodyInv PROVE DurableState
  <2>1. PICK x : Retained(db) = {} \/ Retained(db) = {x}
    <3>1. CASE Retained(db) = {}
      BY <3>1
    <3>2. CASE Retained(db) # {}
      <4>1. PICK x : x \in Retained(db)
        BY <3>2
      <4>2. \A y \in Retained(db) : y = x
        BY <1>1, <4>1 DEF CustodyInv, DbSafe, OneRetained, Retained
      <4> QED BY <4>1, <4>2
    <3> QED BY <3>1, <3>2
  <2>2. Cardinality({}) = 0 /\ Cardinality({x}) = 1
    BY FS_EmptySet, FS_Singleton
  <2>3. Cardinality(Retained(db)) <= 1
    BY <2>1, <2>2
  <2> QED BY <1>1, <2>3 DEF CustodyInv, DbSafe, DurableState, OneGeneration
<1> QED BY <1>1, CustodyInvariant, PTL

\* What a request dispatches and what a cutover undoes is current
\* (invocation/http_admission.go, ConfirmMaterial; keyring/cutover.go).
THEOREM NothingIsStale == Spec => []NothingStale
<1>1. ASSUME CustodyInv PROVE NothingStale
  BY <1>1 DEF CustodyInv, NothingStale, DispatchIsCurrent, CutoverNotStale, EditorAt, RequestAt
<1> QED BY <1>1, CustodyInvariant, PTL

\* A step that moves the readable generation as SecretSlot allows.
LEMMA SlotMove ==
  ASSUME TypeOK', served' = served \cup ({ServedBy(db')} \ {None}),
         ServedBy(db) \in served \cup {None},
         \/ ServedBy(db') \in {None, ServedBy(db)}
         \/ ServedBy(db) = None /\ ServedBy(db') \notin served
  PROVE  [Slot!Next]_<<ServedBy(db), served>>
<1>1. ServedBy(db') \in Handles \cup {None}
  BY DEF TypeOK, ServedBy
<1> QED BY <1>1 DEF Slot!Next, Slot!Withdraw, Slot!Install

\* What a transaction of an edit does to the readable generation.
LEMMA WritesServed ==
  ASSUME CustodyInv, NEW e \in Editors, Writes(e)
  PROVE  \/ db' = db /\ served' = served
         \/ /\ served' = served \cup ({ServedBy(db')} \ {None})
            /\ \/ db'.selected = None
               \/ db'.selected = db.selected /\ db'.fenced = db.fenced
               \/ db.fenced /\ db'.fenced
               \/ db.fenced /\ db'.selected = handle[e] /\ handle[e] \notin served
<1> USE DEF Transact, Effect, Commits, CommitsUnseen, Fails, Write
<1>1. CASE Update(e)
  <2> DEFINE new == Database(Row(db.row.revision + 1, db.row.material, db.row.handle, FALSE),
                               db.selected, db.selectedRevision, db.candidates, db.fenced, db.stored)
  <2>1. \/ db' = db /\ served' = served
        \/ db' = new /\ served' = served \cup ({ServedBy(new)} \ {None})
    BY <1>1 DEF Update
  <2>3. db' = new => db'.selected = db.selected /\ db'.fenced = db.fenced
    BY DEF Database
  <2> HIDE DEF new
  <2> QED BY <2>1, <2>3
<1>2. CASE FenceAuthority(e)
  <2> DEFINE new == Database(db.row, None, 0, Retained(db), TRUE, db.stored)
  <2>1. \/ db' = db /\ served' = served
        \/ db' = new /\ served' = served \cup ({ServedBy(new)} \ {None})
    BY <1>2 DEF FenceAuthority
  <2>3. db' = new => db'.selected = None
    BY DEF Database
  <2> HIDE DEF new
  <2> QED BY <2>1, <2>3
<1>3. CASE Erase(e)
  <2> DEFINE new == Erased(db, handle[e])
  <2>1. \/ db' = db /\ served' = served
        \/ db' = new /\ served' = served \cup ({ServedBy(new)} \ {None})
    BY <1>3 DEF Erase
  <2> QED BY <2>1 DEF Erased, Database
<1>4. CASE Unlist(e)
  <2> DEFINE new == Unlisted(db, handle[e])
  <2>1. \/ db' = db /\ served' = served
        \/ db' = new /\ served' = served \cup ({ServedBy(new)} \ {None})
    BY <1>4 DEF Unlist
  <2> QED BY <2>1 DEF Unlisted, Database
<1>5. CASE Discard(e)
  <2> DEFINE new == Erased(db, handle[e])
  <2>1. \/ db' = db /\ served' = served
        \/ db' = new /\ served' = served \cup ({ServedBy(new)} \ {None})
    BY <1>5 DEF Discard
  <2> QED BY <2>1 DEF Erased, Database
<1>6. CASE Discarded(e)
  <2> DEFINE new == Unlisted(db, handle[e])
  <2>1. \/ db' = db /\ served' = served
        \/ db' = new /\ served' = served \cup ({ServedBy(new)} \ {None})
    BY <1>6 DEF Discarded
  <2> QED BY <2>1 DEF Unlisted, Database
<1>7. CASE WriteGeneration(e)
  <2> DEFINE new == Database(db.row, db.selected, db.selectedRevision, db.candidates, db.fenced,
                               db.stored \cup {handle[e]})
  <2>1. \/ db' = db /\ served' = served
        \/ db' = new /\ served' = served \cup ({ServedBy(new)} \ {None})
    BY <1>7 DEF WriteGeneration
  <2> QED BY <2>1 DEF Database
<1>8. CASE Undo(e)
  <2> DEFINE new == Invalidated(db, FALSE)
  <2>1. \/ db' = db /\ served' = served
        \/ db' = new /\ served' = served \cup ({ServedBy(new)} \ {None})
    BY <1>8 DEF Undo
  <2>3. db' = new => db'.selected = None
    BY DEF Invalidated, Database
  <2> HIDE DEF new
  <2> QED BY <2>1, <2>3
<1>9. CASE Invalidate(e)
  <2> DEFINE new == Invalidated(db, TRUE)
  <2>1. \/ db' = db /\ served' = served
        \/ db' = new /\ served' = served \cup ({ServedBy(new)} \ {None})
    BY <1>9 DEF Invalidate
  <2>3. db' = new => db'.selected = None
    BY DEF Invalidated, Database
  <2> HIDE DEF new
  <2> QED BY <2>1, <2>3
<1>10. CASE ActivateAuthority(e)
  <2> DEFINE new == Database(db.row, db.selected, db.selectedRevision, db.candidates, FALSE, db.stored)
  <2>1. \/ db' = db /\ served' = served
        \/ db' = new /\ served' = served \cup ({ServedBy(new)} \ {None})
    BY <1>10 DEF ActivateAuthority
  <2>2. db.fenced = TRUE /\ (pc[e] = "activate" => db.selected = handle[e]) /\ handle[e] \notin served
    BY <1>10, DbType DEF ActivateAuthority, CustodyInv, EditorAt
  <2>3. db' = new => db'.selected = db.selected
    BY DEF Database
  <2> HIDE DEF new
  <2>4. pc[e] = "activate"
    BY <1>10 DEF ActivateAuthority
  <2> QED BY <2>1, <2>2, <2>3, <2>4
<1>11. CASE CommitCandidate(e)
  <2> DEFINE new == Database(Row(db.row.revision + 1, db.row.material + 1, handle[e], FALSE),
                               handle[e], db.row.material + 1,
                               (db.candidates \ {handle[e]}) \cup ({db.selected} \ {None}),
                               db.fenced, db.stored)
  <2>1. \/ db' = db /\ served' = served
        \/ db' = new /\ served' = served \cup ({ServedBy(new)} \ {None})
    BY <1>11 DEF CommitCandidate
  <2>2. db.fenced = TRUE /\ (pc[e] = "activate" => db.selected = handle[e]) /\ handle[e] \notin served
    BY <1>11, DbType DEF CommitCandidate, CustodyInv, EditorAt
  <2>3. db' = new => db'.fenced = db.fenced
    BY DEF Database
  <2> HIDE DEF new
  <2> QED BY <2>1, <2>3, <2>2
<1>12. CASE RegisterCandidate(e)
  <2> DEFINE new(h) == Database(db.row, db.selected, db.selectedRevision, db.candidates \cup {h},
                               db.fenced, db.stored)
  <2>1. PICK h \in Handles :
          \/ db' = db /\ served' = served
          \/ db' = new(h) /\ served' = served \cup ({ServedBy(new(h))} \ {None})
    BY <1>12 DEF RegisterCandidate
  <2> QED BY <2>1 DEF Database
<1> QED BY <1>1, <1>2, <1>3, <1>4, <1>5, <1>6, <1>7, <1>8, <1>9, <1>10, <1>11, <1>12 DEF Writes

\* Every step of the cutover is a step of SecretSlot or leaves it alone.
LEMMA SlotStep ==
  ASSUME CustodyInv, [Next]_vars PROVE [Slot!Next]_<<ServedBy(db), served>>
<1>0. TypeOK' /\ ServedBy(db) \in served \cup {None}
  BY StepType DEF CustodyInv, DbSafe, HistoryAgrees
<1>1. ASSUME NEW e \in Editors, Writes(e) PROVE [Slot!Next]_<<ServedBy(db), served>>
  <2>1. CASE db' = db /\ served' = served
    BY <2>1 DEF ServedBy
  <2>2. CASE /\ served' = served \cup ({ServedBy(db')} \ {None})
             /\ \/ db'.selected = None
                \/ db'.selected = db.selected /\ db'.fenced = db.fenced
                \/ db.fenced /\ db'.fenced
                \/ db.fenced /\ db'.selected = handle[e] /\ handle[e] \notin served
    <3>1. \/ ServedBy(db') \in {None, ServedBy(db)}
          \/ ServedBy(db) = None /\ ServedBy(db') \notin served
      BY <2>2 DEF ServedBy
    <3> QED BY <1>0, <2>2, <3>1, SlotMove
  <2> QED BY <1>1, <2>1, <2>2, WritesServed
<1>2. CASE UNCHANGED <<db, served>>
  BY <1>2 DEF ServedBy
<1>3. ASSUME NEW e \in Editors, Edit(e) \/ \E k \in {"update", "rotate", "delete"} : Observe(e, k),
             ~Writes(e)
      PROVE  UNCHANGED <<db, served>>
  BY <1>3 DEF Edit, Writes, store, Observe, TakeGuard, GuardBusy, Check, TakeOperation,
              OperationRefused, SweepNext, SweepDone, SweepStops, NoHandle, Drained, Verify,
              ReleaseOperation, ReleaseGuard
<1>4. ASSUME NEW r \in Requests, Request(r) \/ Evaluate(r) PROVE UNCHANGED <<db, served>>
  BY <1>4 DEF store, Request, Evaluate, BeginRead, FinishRead, BeginConfirm, ConfirmMaterial,
              Detach, Dispatched, Refused, ReleaseGuard
<1>5. CASE OtherLatch \/ Drain \/ Crash \/ UNCHANGED vars
  BY <1>5, <1>2 DEF OtherLatch, Drain, Crash, vars, store
<1> QED BY <1>1, <1>2, <1>3, <1>4, <1>5, Zenon DEF Next

\* The fenced cutover implements SecretSlot: one readable generation at a time, installed
\* only where none is, and never again once it was withdrawn (internal/keyring).
THEOREM CutoverImplementsSlot == Spec => SlotSpec
<1>1. Init => Slot!Init
  BY DEF Init, Slot!Init, ServedBy, Database
<1>2. CustodyInv /\ [Next]_vars => [Slot!Next]_<<ServedBy(db), served>>
  BY SlotStep
<1> QED BY <1>1, <1>2, CustodyInvariant, PTL DEF Spec, SlotSpec, Slot!Spec

-----------------------------------------------------------------------------
(***************************************************************************)
(* No crash separates the database from its master key, for every number   *)
(* of keys, rotations, recoveries and power losses.                        *)
(*                                                                         *)
(* KeyOpensCustody is not inductive: that a step is safe depends on what   *)
(* the operation wrote and synced before it.  RotationInv says so, phase   *)
(* by phase (InPhase), and states what holds of the directory at any time  *)
(* (SlotFits, EmptySlotOpens).  That a fresh key is drawn once is not      *)
(* needed: the argument rests on the order of the writes and syncs alone.  *)
(***************************************************************************)

Bundles == [old : MasterKeys, new : MasterKeys]
Directories ==
  [master : MasterKeys \cup {NoKey, PartialKey}, slot : SUBSET Bundles, retained : SUBSET Bundles]

RotationPhases ==
  {"stopped", "create", "created", "bind", "running", "prepare", "armed", "rewrap",
   "checkpoint", "publish", "published", "verify", "retain", "retained"}

RotationTypeOK ==
  /\ files \in Directories /\ durable \in Directories
  /\ boundKey \in MasterKeys \cup {NoKey} /\ walOpen \in BOOLEAN
  /\ phase \in RotationPhases
  /\ oldKey \in MasterKeys \cup {NoKey} /\ newKey \in MasterKeys \cup {NoKey}
  /\ drawn \in SUBSET MasterKeys /\ bound \in SUBSET MasterKeys

\* Every bundle that is or may come back in the slot names the key the database is
\* sealed under, and every key file that may come back fits it.
SlotFits ==
  \A b \in files.slot \cup durable.slot :
    /\ boundKey \in {b.old, b.new}
    /\ KeyFileFits(files.master, b) /\ KeyFileFits(durable.master, b)

\* The slot holds, and may come back with, one bundle.
SlotHoldsOne == \A b, c \in files.slot \cup durable.slot : b = c

\* While the slot may come back empty, every key file that may come back opens the
\* database.
EmptySlotOpens ==
  (files.slot = {} \/ durable.slot = {}) /\ boundKey # NoKey =>
    files.master = boundKey /\ durable.master = boundKey

\* A database bound to no key was never sealed under one.
UnboundIsFresh == boundKey = NoKey => bound = {}

Staged == files.slot = {Bundle(oldKey, newKey)} /\ durable.slot = files.slot

\* What the operation that owns the root has established when it reaches a phase.
InPhase ==
  /\ phase \in {"create", "created", "bind"} =>
       boundKey = NoKey /\ files.slot = {} /\ newKey \in MasterKeys
  /\ phase = "created" => files.master = newKey
  /\ phase = "bind" => durable = files /\ files.master = newKey
  /\ phase \in {"prepare", "armed", "rewrap"} =>
       /\ oldKey \in MasterKeys /\ newKey \in MasterKeys /\ boundKey = oldKey
       /\ files.master = oldKey /\ durable.master = oldKey
  /\ phase = "prepare" => files.slot = {} /\ durable = files
  /\ phase = "armed" => files.slot = {Bundle(oldKey, newKey)} /\ durable.slot = {}
  /\ phase \in {"rewrap", "checkpoint", "publish", "published", "verify", "retain"} => Staged
  /\ phase \in {"checkpoint", "publish", "published", "verify"} => boundKey = newKey
  /\ phase \in {"verify", "retain"} => durable = files
  /\ phase = "published" => files.master = newKey
  /\ phase = "retain" => files.master = boundKey
  /\ phase = "retained" => files.slot = {}

\* KeysAreKept over the parts of the two directories: a key file and a pair of slot and
\* retained bundles may come back from either.
Keeps(k, master, g) == k = master \/ \E b \in g.slot \cup g.retained : k \in {b.old, b.new}
PartsKeep ==
  \A k \in bound, f \in {files, durable}, g \in {files, durable} : Keeps(k, f.master, g)

RotationInv ==
  /\ RotationTypeOK
  /\ SlotFits
  /\ SlotHoldsOne
  /\ EmptySlotOpens
  /\ UnboundIsFresh
  /\ InPhase
  /\ PartsKeep

USE MasterKeysAssumption

\* The initial state, a root without a key, satisfies the invariant.
LEMMA RotationInitInv == RotationInit => RotationInv
<1> SUFFICES ASSUME RotationInit PROVE RotationInv
  OBVIOUS
<1>1. files \in Directories /\ durable \in Directories /\ files.slot = {} /\ durable.slot = {}
  BY DEF RotationInit, Directory, Directories
<1> QED
  BY <1>1 DEF RotationInit, RotationInv, RotationTypeOK, RotationPhases, SlotFits,
              SlotHoldsOne, EmptySlotOpens, UnboundIsFresh, InPhase, PartsKeep

\* A directory is built from its parts.
LEMMA DirectoryParts ==
  ASSUME NEW m \in MasterKeys \cup {NoKey, PartialKey}, NEW s \in SUBSET Bundles,
         NEW r \in SUBSET Bundles
  PROVE  /\ Directory(m, s, r) \in Directories
         /\ Directory(m, s, r).master = m
         /\ Directory(m, s, r).slot = s
         /\ Directory(m, s, r).retained = r
BY DEF Directory, Directories

\* What survives a power loss is put together from the two directories.
LEMMA SurvivorParts ==
  ASSUME RotationTypeOK, NEW d \in Survivors
  PROVE  /\ d \in Directories
         /\ \E f \in {files, durable}, g \in {files, durable} :
              d.master = f.master /\ d.slot = g.slot /\ d.retained = g.retained
<1>1. PICK f \in {files, durable}, g \in {files, durable} :
        d = Directory(f.master, g.slot, g.retained)
  BY DEF Survivors
<1>2. f \in Directories /\ g \in Directories
  BY DEF RotationTypeOK
<1>3. /\ f.master \in MasterKeys \cup {NoKey, PartialKey}
      /\ g.slot \in SUBSET Bundles /\ g.retained \in SUBSET Bundles
  BY <1>2 DEF Directories
<1> QED BY <1>1, <1>3, DirectoryParts

\* Every step preserves the types.
LEMMA RotationStepType ==
  ASSUME RotationInv, [RotationNext]_rotationVars PROVE RotationTypeOK'
<1> USE DEF RotationInv, RotationTypeOK, RotationPhases, database, material, SyncRoot
<1>0. /\ files.master \in MasterKeys \cup {NoKey, PartialKey}
      /\ files.slot \in SUBSET Bundles /\ files.retained \in SUBSET Bundles
  BY DEF Directories
<1>1. CASE AdoptKey
  BY <1>1, <1>0 DEF AdoptKey
<1>2. CASE CreateKey
  BY <1>2, <1>0, DirectoryParts DEF CreateKey
<1>3. CASE WriteKey
  BY <1>3, <1>0, DirectoryParts DEF WriteKey
<1>4. CASE SyncCreated
  BY <1>4 DEF SyncCreated
<1>5. CASE BindCustody
  BY <1>5 DEF BindCustody, BindTo, InPhase
<1>6. CASE StartGateway \/ StopGateway \/ GatewayDies
  BY <1>6 DEF StartGateway, StopGateway, GatewayDies
<1>7. CASE BeginRotation
  BY <1>7 DEF BeginRotation
<1>8. CASE ArmSlot
  <2>1. {Bundle(oldKey, newKey)} \in SUBSET Bundles
    BY <1>8 DEF ArmSlot, InPhase, Bundle, Bundles
  <2> QED BY <1>8, <1>0, <2>1, DirectoryParts DEF ArmSlot
<1>9. CASE SyncArmed \/ CloseDatabase \/ SyncPublished \/ VerifyPublished \/ SyncRetained
  BY <1>9 DEF SyncArmed, CloseDatabase, SyncPublished, VerifyPublished, SyncRetained
<1>10. CASE Rewrap
  <2>1. newKey \in MasterKeys
    BY <1>10 DEF Rewrap, InPhase
  <2> QED BY <1>10, <2>1 DEF Rewrap, BindTo
<1>11. CASE PublishKey
  BY <1>11, <1>0, DirectoryParts DEF PublishKey
<1>12. CASE RetainBundle
  <2>1. files.retained \cup files.slot \in SUBSET Bundles /\ {} \in SUBSET Bundles
    BY <1>0
  <2> QED BY <1>12, <1>0, <2>1, DirectoryParts DEF RetainBundle
<1>13. CASE BeginRecovery
  BY <1>13, <1>0 DEF BeginRecovery, Bundles
<1>14. CASE OperationFails
  BY <1>14 DEF OperationFails
<1>15. CASE PowerLoss
  BY <1>15, SurvivorParts DEF PowerLoss
<1>16. CASE UNCHANGED rotationVars
  BY <1>16 DEF rotationVars
<1> QED
  BY <1>1, <1>2, <1>3, <1>4, <1>5, <1>6, <1>7, <1>8, <1>9, <1>10, <1>11, <1>12, <1>13,
     <1>14, <1>15, <1>16, Zenon DEF RotationNext

\* Every step leaves a directory that can be resumed, with every key kept, and
\* establishes what the next phase relies on.
LEMMA RotationStepSafe ==
  ASSUME RotationInv, [RotationNext]_rotationVars
  PROVE  (SlotFits /\ SlotHoldsOne /\ EmptySlotOpens /\ UnboundIsFresh /\ InPhase /\ PartsKeep)'
<1> DEFINE Safe == SlotFits /\ SlotHoldsOne /\ EmptySlotOpens /\ UnboundIsFresh /\ InPhase /\ PartsKeep
<1> SUFFICES Safe'
  OBVIOUS
<1>0. /\ files.master \in MasterKeys \cup {NoKey, PartialKey}
      /\ files.slot \in SUBSET Bundles /\ files.retained \in SUBSET Bundles
      /\ durable.slot \in SUBSET Bundles
      /\ \A b \in Bundles : b.old \in MasterKeys /\ b.new \in MasterKeys
  BY DEF RotationInv, RotationTypeOK, Directories, Bundles
<1>a. ASSUME PowerLoss
      PROVE  \E f \in {files, durable}, g \in {files, durable} :
               files'.master = f.master /\ files'.slot = g.slot /\ files'.retained = g.retained
  BY <1>a, SurvivorParts DEF PowerLoss, RotationInv
<1> USE DEF RotationInv, RotationTypeOK, SlotFits, SlotHoldsOne, EmptySlotOpens, UnboundIsFresh,
            InPhase, PartsKeep, Keeps, Staged, KeyFileFits, database, material, SyncRoot
<1>1. CASE AdoptKey
  BY <1>1, <1>0 DEF AdoptKey
<1>2. CASE CreateKey
  <2>1. /\ files'.master = PartialKey /\ files'.slot = files.slot
        /\ files'.retained = files.retained
    BY <1>2, <1>0, DirectoryParts DEF CreateKey
  <2> QED BY <1>2, <1>0, <2>1 DEF CreateKey
<1>3. CASE WriteKey
  <2>1. files'.master = newKey /\ files'.slot = files.slot /\ files'.retained = files.retained
    BY <1>3, <1>0, DirectoryParts DEF WriteKey
  <2> QED BY <1>3, <1>0, <2>1 DEF WriteKey
<1>4. CASE SyncCreated
  BY <1>4, <1>0 DEF SyncCreated
<1>5. CASE BindCustody
  BY <1>5, <1>0 DEF BindCustody, BindTo
<1>6. CASE StartGateway \/ StopGateway \/ GatewayDies
  BY <1>6 DEF StartGateway, StopGateway, GatewayDies
<1>7. CASE BeginRotation
  BY <1>7, <1>0 DEF BeginRotation
<1>8. CASE ArmSlot
  <2>1. /\ {Bundle(oldKey, newKey)} \in SUBSET Bundles
        /\ Bundle(oldKey, newKey).old = oldKey /\ Bundle(oldKey, newKey).new = newKey
    BY <1>8 DEF ArmSlot, Bundle, Bundles
  <2>2. /\ files'.master = files.master /\ files'.slot = {Bundle(oldKey, newKey)}
        /\ files'.retained = files.retained
    BY <1>8, <1>0, <2>1, DirectoryParts DEF ArmSlot
  <2>3. SlotFits' /\ SlotHoldsOne' /\ EmptySlotOpens' /\ UnboundIsFresh'
    BY <1>8, <1>0, <2>1, <2>2 DEF ArmSlot
  <2>4. InPhase'
    BY <1>8, <1>0, <2>1, <2>2 DEF ArmSlot
  <2>5. PartsKeep'
    BY <1>8, <1>0, <2>2 DEF ArmSlot
  <2> QED BY <2>3, <2>4, <2>5, Zenon
<1>9. CASE SyncArmed
  BY <1>9, <1>0 DEF SyncArmed
<1>10. CASE Rewrap
  <2>1. Bundle(oldKey, newKey).old = oldKey /\ Bundle(oldKey, newKey).new = newKey
    BY DEF Bundle
  <2> QED BY <1>10, <1>0, <2>1 DEF Rewrap, BindTo
<1>11. CASE CloseDatabase
  BY <1>11, <1>0 DEF CloseDatabase
<1>12. CASE PublishKey
  <2>1. Bundle(oldKey, newKey).old = oldKey /\ Bundle(oldKey, newKey).new = newKey
    BY DEF Bundle
  <2>2. files'.master = newKey /\ files'.slot = files.slot /\ files'.retained = files.retained
    BY <1>12, <1>0, DirectoryParts DEF PublishKey
  <2>3. SlotFits' /\ SlotHoldsOne' /\ EmptySlotOpens' /\ UnboundIsFresh'
    BY <1>12, <1>0, <2>1, <2>2 DEF PublishKey
  <2>4. files.master = newKey => files' = files
    BY <1>12 DEF PublishKey, Directory, Directories
  <2>5. phase' \in {"verify", "published"} /\ (phase' = "verify" => durable' = files')
    BY <1>12, <2>4 DEF PublishKey
  <2>6. InPhase'
    BY <1>12, <1>0, <2>2, <2>5 DEF PublishKey
  <2>7. PartsKeep'
    BY <1>12, <1>0, <2>1, <2>2 DEF PublishKey
  <2> QED BY <2>3, <2>6, <2>7, Zenon
<1>13. CASE SyncPublished
  BY <1>13, <1>0 DEF SyncPublished
<1>14. CASE VerifyPublished
  BY <1>14, <1>0 DEF VerifyPublished
<1>15. CASE RetainBundle
  <2>1. /\ files'.master = files.master /\ files'.slot = {}
        /\ files'.retained = files.retained \cup files.slot
    BY <1>15, <1>0, DirectoryParts DEF RetainBundle
  <2>2. SlotFits' /\ SlotHoldsOne' /\ EmptySlotOpens' /\ UnboundIsFresh' /\ InPhase'
    BY <1>15, <1>0, <2>1 DEF RetainBundle
  <2>3. PartsKeep'
    <3>1. files'.slot \cup files'.retained = files.slot \cup files.retained
      BY <2>1
    <3>2. bound' = bound /\ durable' = durable
      BY <1>15 DEF RetainBundle
    <3> QED BY <2>1, <3>1, <3>2
  <2> QED BY <2>2, <2>3, Zenon
<1>16. CASE SyncRetained
  BY <1>16, <1>0 DEF SyncRetained
<1>17. CASE BeginRecovery
  <2>1. PICK b \in files.slot : /\ boundKey \in {b.old, b.new} /\ KeyFileFits(files.master, b)
                                 /\ oldKey' = b.old /\ newKey' = b.new
                                 /\ phase' = IF boundKey = b.new THEN "publish" ELSE "retain"
    BY <1>17 DEF BeginRecovery
  <2>2. Bundle(oldKey', newKey') = b
    BY <1>0, <2>1 DEF Bundle, Bundles
  <2>3. Staged' /\ durable' = files'
    BY <1>17, <2>2 DEF BeginRecovery
  <2>4. InPhase'
    BY <1>17, <1>0, <2>1, <2>3 DEF BeginRecovery
  <2> QED BY <1>17, <1>0, <2>4 DEF BeginRecovery
<1>18. CASE OperationFails
  BY <1>18, <1>0 DEF OperationFails
<1>19. CASE PowerLoss
  <2>1. PICK f \in {files, durable}, g \in {files, durable} :
          files'.master = f.master /\ files'.slot = g.slot /\ files'.retained = g.retained
    BY <1>19, <1>a
  <2>2. SlotFits' /\ SlotHoldsOne' /\ EmptySlotOpens' /\ UnboundIsFresh' /\ InPhase'
    BY <1>19, <1>0, <2>1 DEF PowerLoss
  <2>3. PartsKeep'
    BY <1>19, <1>0, <2>1 DEF PowerLoss
  <2> QED BY <2>2, <2>3, Zenon
<1>20. CASE UNCHANGED rotationVars
  BY <1>20 DEF rotationVars
<1> QED
  BY <1>1, <1>2, <1>3, <1>4, <1>5, <1>6, <1>7, <1>8, <1>9, <1>10, <1>11, <1>12, <1>13,
     <1>14, <1>15, <1>16, <1>17, <1>18, <1>19, <1>20, Zenon DEF RotationNext

\* The invariant holds of every state of every behaviour of setups, rotations,
\* recoveries, gateways and crashes.
THEOREM RotationInvariant == RotationSpec => []RotationInv
<1>1. RotationInv /\ [RotationNext]_rotationVars => RotationInv'
  BY RotationStepType, RotationStepSafe DEF RotationInv
<1> QED BY <1>1, RotationInitInv, PTL DEF RotationSpec

\* After any crash the installation can be resumed, and every key that ever sealed the
\* database is still in the root (keyring/rotation.go, paths/key_rotation_unix.go).
THEOREM CustodyStaysOpen == RotationSpec => []KeyOpensCustody
<1>1. ASSUME RotationInv PROVE KeyOpensCustody
  <2> USE <1>1 DEF RotationInv
  <2>1. CanResume
    <3> SUFFICES ASSUME NEW d \in Survivors
                 PROVE  /\ d.slot = {} /\ boundKey # NoKey => d.master = boundKey
                        /\ \A b \in d.slot :
                             boundKey \in {b.old, b.new} /\ KeyFileFits(d.master, b)
      BY DEF CanResume
    <3> QED BY SurvivorParts DEF SlotFits, EmptySlotOpens
  <2>2. KeysAreKept
    <3> SUFFICES ASSUME NEW d \in Survivors, NEW k \in bound
                 PROVE  Keeps(k, d.master, d)
      BY DEF KeysAreKept, Keeps
    <3> QED BY SurvivorParts DEF PartsKeep, Keeps
  <2> QED BY <2>1, <2>2 DEF KeyOpensCustody
<1> QED BY <1>1, RotationInvariant, PTL

-----------------------------------------------------------------------------
(***************************************************************************)
(* InstallationIsWhole for every set of commands.  What the property says  *)
(* of every directory that a loss of power may leave follows from what     *)
(* `survives` may hold (Kept); that each step keeps it so follows from     *)
(* what the owner of the lock has already made durable (OwnerAt, StageAt). *)
(***************************************************************************)

\* A loss of power leaves this content of the file, and no other.
Only(f, content) == \A x \in survives[f] : x = content

Types ==
  /\ disk \in [Files -> Contents] /\ survives \in [Files -> SUBSET Contents]
  /\ \A f \in Files : disk[f] \in survives[f]
  /\ tables \in [Rows -> Contents] /\ \A row \in Rows \ {"ca"} : tables[row] # Partial
  /\ imports \in [Runs -> BOOLEAN]
  /\ runs \in [Runs -> [does : {"new", "fresh", "resume", "cleanup", "serve", "ended"},
                        plan : Runs \cup {Absent}]]
  /\ owner \in Runs \cup {NoOwner}

(* The database has its secrets; a finished database is durable; rows are in it. *)
SecretsKept ==
  /\ tables["key"] # Absent => Only("key", tables["key"])
  /\ tables["admin"] # Absent => Only("bearer", tables["admin"])
  /\ tables["traffic"] # Absent => Only("history", tables["traffic"])
DatabaseKept ==
  /\ disk["database"] \in Runs => Only("database", disk["database"])
  /\ \A row \in Rows : tables[row] # Absent => disk["database"] \in Runs
  /\ tables["import"] # Absent
       => disk["database"] = tables["import"] /\ imports[tables["import"]]

(* What the last receipt confirms, and what the database presupposes. *)
Whole ==
  /\ disk["plan"] \in Runs /\ Only("plan", disk["plan"]) /\ disk["database"] = disk["plan"]
  /\ tables["traffic"] = disk["plan"]
  /\ tables["key"] \in Runs /\ tables["admin"] \in Runs /\ tables["ca"] \in Runs
  /\ Only("public", tables["ca"])
  /\ imports[disk["plan"]] => tables["import"] = disk["plan"]
Consented ==
  /\ disk["plan"] \in Runs /\ Only("plan", disk["plan"])
  /\ \A x \in survives["database"] : x \in {Absent, Partial, disk["plan"]}
  /\ imports[disk["plan"]] => Only("input", disk["plan"]) \/ Only("complete", disk["plan"])
ReceiptKept == ~Only("complete", Absent) => Whole
ConsentKept == ~Only("database", Absent) => Consented

Kept == SecretsKept /\ DatabaseKept /\ ReceiptKept /\ ConsentKept

(* What the owner has done when it is at a step. *)
Publishing == {"stage", "staged", "import", "verify", "complete"}
Signed == {"ca", "public", "certificate"} \cup Publishing
Bound == {"custody", "history", "select", "traffic", "announce", "bearer", "enroll",
          "administrator", "close", "cutover", "settle", "signer"} \cup Signed
Opened == {"control", "custody-attempt", "key", "bind"} \cup Bound
Begun == {"database"} \cup Opened

OwnerAt ==
  /\ owner # NoOwner => disk["lock"] # Absent /\ runs[owner].does # "new"
  /\ at \in {"plan", "input"} => Only("database", Absent) /\ Only("complete", Absent)
  /\ at = "confirm" => /\ plan \in Runs /\ disk["plan"] = plan
                       /\ imports[plan] => disk["input"] = plan
  /\ at \in Begun => /\ plan \in Runs /\ Only("plan", plan)
                     /\ imports[plan] => Only("input", plan)
  /\ at \in Opened => disk["database"] = plan
  /\ at = "bind" => disk["key"] \in Runs /\ Only("key", disk["key"])
  /\ at \in Bound => tables["key"] \in Runs
  /\ at \in {"history", "select"} => tables["traffic"] = Absent
  /\ at = "select" => Only("history", plan)
  /\ at \in {"announce", "bearer", "enroll"} => tables["admin"] = Absent
  /\ at = "enroll" => Only("bearer", owner)
  /\ at = "settle" => tables["ca"] = Partial
  /\ at \in Signed => tables["ca"] \in Runs
  /\ at = "certificate" => disk["public"] = tables["ca"]
  /\ at \in Publishing => Only("public", tables["ca"])
  /\ at \in {"stage", "staged", "import"} => imports[plan]
  /\ at \in {"staged", "import"} => tables["import"] = plan
  /\ at \in {"verify", "complete"} => (imports[plan] => tables["import"] = plan)
  /\ at = "complete" => tables["traffic"] = plan /\ tables["admin"] \in Runs

(* And how far the file of the step has got. *)
StageAt ==
  /\ owner = NoOwner => at = "idle" /\ stage = "start"
  /\ stage = "created" /\ at \in Written \cup {"database"} => disk[at] = Partial
  /\ stage = "created" /\ at \in {"database", "public"} => Absent \in survives[at]
  /\ stage = "created" /\ at = "key" => tables["key"] = Absent
  /\ stage = "created" /\ at = "remove"
       => disk["plan"] \in Runs /\ Only("complete", disk["plan"])
  /\ stage = "written" /\ at = "key" => disk["key"] \in Runs
  /\ stage = "written" /\ at = "history" => disk["history"] = plan
  /\ stage = "written" /\ at = "bearer" => disk["bearer"] = owner
  /\ stage = "written" /\ at = "public" => disk["public"] = tables["ca"]

InstallInv == Types /\ Kept /\ OwnerAt /\ StageAt
-----------------------------------------------------------------------------
\* Which names are files and rows.
LEMMA Names ==
  /\ {"key", "bearer", "history", "database", "plan", "input", "complete", "public"}
       \subseteq Files \ {"lock"}
  /\ "lock" \in Files /\ Written \subseteq Files \ {"lock"} /\ DataFiles \subseteq Files
  /\ {"key", "admin", "traffic", "import", "ca", "attempt"} \subseteq Rows
BY DEF Files, Evidence, Receipts, Rows, Written, DataFiles

(* A file that a loss of power leaves holds what may survive of it. *)
LEMMA RemainsSurvive ==
  ASSUME Types, NEW d \in Remains
  PROVE  d \in [Files -> Contents] /\ \A f \in Files : d[f] \in survives[f]
BY DEF Types, Remains, Loose

(* Nothing is lost where the possible contents only become fewer: a sync, the end of a
   command, a loss of power. *)
LEMMA Shrinking ==
  ASSUME Types, Types', Kept, tables' = tables, imports' = imports,
         \A f \in Files \ {"lock"} : survives'[f] \subseteq survives[f],
         disk'["database"] \in Runs => Only("database", disk["database"])'
  PROVE  Kept'
<1> USE DEF Only
<1>1. SecretsKept'
  BY Names DEF Kept, SecretsKept
<1>2. DatabaseKept'
  BY Names, RunsAssumption DEF Kept, DatabaseKept, Types
<1>3. ReceiptKept'
  BY Names, <1>2, RunsAssumption DEF Kept, ReceiptKept, Whole, Types, DatabaseKept
<1>4. ConsentKept'
  BY Names, RunsAssumption DEF Kept, ConsentKept, Consented, Types
<1> QED BY <1>1, <1>2, <1>3, <1>4 DEF Kept

(* Whatever a loss of power leaves of a state that satisfies the invariant is whole. *)
LEMMA InvariantSuffices == InstallInv => InstallationIsWhole
<1> SUFFICES ASSUME InstallInv, NEW d \in Remains
             PROVE  MaterialIsKept(d) /\ AcceptedIsWhole(d) /\ ConsentIsKept(d)
  BY DEF InstallationIsWhole
<1>d. \A f \in Files : d[f] \in survives[f]
  BY RemainsSurvive DEF InstallInv
<1>1. MaterialIsKept(d)
  BY Names, <1>d DEF InstallInv, Kept, SecretsKept, Only, MaterialIsKept
<1>2. AcceptedIsWhole(d)
  <2> SUFFICES ASSUME d["complete"] # Absent PROVE AcceptedIsWhole(d)
    BY DEF AcceptedIsWhole, Complete
  <2>1. Whole
    BY Names, <1>d DEF InstallInv, Kept, ReceiptKept, Only
  <2>2. d["plan"] = disk["plan"] /\ d["database"] = disk["database"] /\ d["public"] = tables["ca"]
    BY Names, <1>d, <2>1 DEF InstallInv, Kept, DatabaseKept, Whole, Only
  <2> QED BY <2>1, <2>2 DEF AcceptedIsWhole, Whole
<1>3. ConsentIsKept(d)
  <2>1. ASSUME d["database"] # Absent
        PROVE  /\ d["plan"] \in Runs /\ d["database"] \in {Partial, d["plan"]}
               /\ imports[d["plan"]] /\ d["complete"] = Absent => d["input"] = d["plan"]
    BY Names, <1>d, <2>1, RunsAssumption DEF InstallInv, Kept, ConsentKept, Consented, Only
  <2>2. ASSUME tables["import"] # Absent
        PROVE  d["database"] = tables["import"] /\ imports[tables["import"]]
    BY Names, <1>d, <2>2 DEF InstallInv, Kept, DatabaseKept, Only
  <2> QED BY <2>1, <2>2 DEF ConsentIsKept
<1> QED BY <1>1, <1>2, <1>3

LEMMA InvariantHoldsInitially == InstallInit => InstallInv
<1> SUFFICES ASSUME InstallInit PROVE InstallInv
  OBVIOUS
<1>1. Types
  BY RunsAssumption DEF InstallInit, Types, Contents, Run, NoOwner, Absent, Partial
<1>2. Kept
  BY Names DEF InstallInit, Kept, SecretsKept, DatabaseKept, ReceiptKept, ConsentKept, Only
<1>3. OwnerAt
  BY DEF InstallInit, OwnerAt, Begun, Opened, Bound, Signed, Publishing, NoOwner
<1>4. StageAt
  BY DEF InstallInit, StageAt, Written
<1> QED BY <1>1, <1>2, <1>3, <1>4 DEF InstallInv
-----------------------------------------------------------------------------
(* The steps of the specification, by what they leave alone. *)

LEMMA NamedShrinks ==
  ASSUME Types, NEW fs \in SUBSET Files
  PROVE  /\ Named(fs) \in [Files -> SUBSET Contents]
         /\ \A f \in Files : Named(fs)[f] \subseteq survives[f] /\ disk[f] \in Named(fs)[f]
BY DEF Types, Named

\* A command that waits for the lock changes nothing that matters here; init takes a
\* directory for fresh only when it is empty.
LEMMA PlanningKeepsInv ==
  ASSUME InstallInv, NEW r \in Runs,
         PlanFresh(r) \/ PlanResume(r) \/ PlanCleanup(r) \/ PlanServe(r)
  PROVE  InstallInv'
<1> USE DEF InstallInv
<1>a. /\ runs[r].does = "new" /\ UNCHANGED <<disk, survives, tables, wal, owner, at, stage>>
      /\ \E does \in {"fresh", "resume", "cleanup", "serve"}, p \in Runs \cup {Absent} :
            runs' = [runs EXCEPT ![r] = Run(does, p)]
      /\ imports' \in [Runs -> BOOLEAN]
      /\ imports' = imports \/ Empty(disk)
  BY Names DEF PlanFresh, PlanResume, PlanCleanup, PlanServe, Intends, Types, Complete, Readable
<1>1. Types'
  <2>1. PICK does \in {"fresh", "resume", "cleanup", "serve"}, p \in Runs \cup {Absent} :
          runs' = [runs EXCEPT ![r] = Run(does, p)]
    BY <1>a
  <2>2. Run(does, p) \in [does : {"new", "fresh", "resume", "cleanup", "serve", "ended"},
                         plan : Runs \cup {Absent}]
    BY DEF Run
  <2> QED BY <1>a, <2>1, <2>2 DEF Types
<1>2. Kept'
  <2>1. CASE imports' = imports
    BY <1>a, <1>1, <2>1, Shrinking DEF Kept, DatabaseKept, Only
  <2>2. CASE Empty(disk)
    <3>1. disk["database"] = Absent /\ disk["plan"] = Absent
      BY <2>2, Names DEF Empty
    <3>2. Only("complete", Absent) /\ Only("database", Absent) /\ tables["import"] = Absent
      BY <3>1, Names, RunsAssumption DEF Kept, ReceiptKept, Whole, ConsentKept, Consented,
         DatabaseKept
    <3> QED BY <1>a, <3>1, <3>2 DEF Kept, SecretsKept, DatabaseKept, ReceiptKept, ConsentKept,
               Only
  <2> QED BY <1>a, <2>1, <2>2
<1>3. owner # NoOwner => imports' = imports /\ owner # r /\ runs'[owner] = runs[owner]
  BY <1>a, Names DEF Empty, OwnerAt, Types, NoOwner
<1>4. OwnerAt' /\ StageAt'
  <2>1. CASE owner = NoOwner
    BY <1>a, <2>1 DEF OwnerAt, StageAt, Begun, Opened, Bound, Signed, Publishing, Written
  <2>2. CASE owner # NoOwner
    <3>1. plan' = plan /\ runs'[owner] = runs[owner] /\ imports' = imports
      BY <1>3, <1>a, <2>2 DEF plan
    <3> QED BY <1>a, <2>2, <3>1 DEF OwnerAt, StageAt, Only
  <2> QED BY <2>1, <2>2
<1> QED BY <1>1, <1>2, <1>4

\* Who takes the lock for a fresh directory finds it empty, and makes that durable.
LEMMA TakingKeepsInv ==
  ASSUME InstallInv, NEW r \in Runs,
         AcquireInitialization(r) \/ AcquireStoppedControl(r) \/ AcquireExisting(r)
  PROVE  InstallInv'
<1> USE DEF InstallInv
<1>a. /\ owner = NoOwner /\ owner' = r /\ stage' = "start" /\ runs[r].does # "new"
      /\ UNCHANGED <<tables, wal, runs, imports>>
  BY DEF AcquireInitialization, AcquireStoppedControl, AcquireExisting, Takes
<1>1. CASE AcquireInitialization(r)
  <2> DEFINE key == IF disk["lock"] = Absent THEN r ELSE disk["lock"]
  <2>1. disk' = [disk EXCEPT !["lock"] = key]
    BY <1>1 DEF AcquireInitialization
  <2>2. key \in Contents /\ key # Absent
    BY Names, RunsAssumption DEF Types, Contents
  <2> HIDE DEF key
  <2>3. \A f \in Files : survives'[f] = IF f = "lock" THEN {key} ELSE Named(DataFiles)[f]
    BY <1>1, <2>1, <2>2, Names DEF AcquireInitialization, Types
  <2>4. survives' \in [Files -> SUBSET Contents]
    BY <1>1, <2>1, <2>2, Names, NamedShrinks DEF AcquireInitialization, Types
  <2>5. Types'
    BY <1>a, <2>1, <2>2, <2>3, <2>4, Names, NamedShrinks DEF Types
  <2>6. disk'["database"] = Absent /\ disk'["complete"] = Absent
    BY <1>1, <2>1, Names DEF AcquireInitialization, DataFiles, Types
  <2>7. Kept'
    BY <1>a, <2>3, <2>5, <2>6, Names, NamedShrinks, Shrinking, RunsAssumption
  <2>8. Only("database", Absent)' /\ Only("complete", Absent)'
    BY <1>1, <2>3, <2>6, Names DEF Only, Named, AcquireInitialization, DataFiles, Types
  <2>9. at' = "plan" /\ disk'["lock"] # Absent
    BY <1>1, <2>1, <2>2, Names DEF AcquireInitialization, Takes, Types
  <2>10. OwnerAt'
    BY <1>a, <2>8, <2>9 DEF OwnerAt, Begun, Opened, Bound, Signed, Publishing
  <2>11. StageAt'
    BY <1>a, <2>9, RunsAssumption DEF StageAt, NoOwner
  <2> QED BY <2>5, <2>7, <2>10, <2>11
<1>2. CASE AcquireStoppedControl(r) \/ AcquireExisting(r)
  <2>1. /\ at' \in {"inspect", "remove", "serving"} /\ disk["lock"] # Absent
        /\ UNCHANGED <<disk, survives>>
    BY <1>2, RunsAssumption DEF AcquireStoppedControl, AcquireExisting, Takes
  <2>2. Types'
    BY <1>a, <2>1 DEF Types
  <2>3. Kept'
    BY <1>a, <2>1, <2>2, Shrinking DEF Kept, DatabaseKept, Only
  <2>4. OwnerAt' /\ StageAt'
    BY <1>a, <2>1, RunsAssumption
    DEF OwnerAt, StageAt, Begun, Opened, Bound, Signed, Publishing, NoOwner
  <2> QED BY <2>2, <2>3, <2>4
<1> QED BY <1>1, <1>2

\* Inspection, the opening and closing of the database and the last verification.
LEMMA InspectingKeepsInv ==
  ASSUME InstallInv,
         \/ Inspect \/ OpenDatabase \/ CloseStore \/ ValidateSigner \/ CheckpointImport
         \/ VerifyAll \/ KeepCertificate
  PROVE  InstallInv'
<1> USE DEF InstallInv
<1>a. /\ owner # NoOwner /\ stage = "start"
      /\ UNCHANGED <<disk, survives, tables, stage, runs, imports, owner>>
  BY DEF Inspect, OpenDatabase, CloseStore, ValidateSigner, CheckpointImport, VerifyAll,
         KeepCertificate, Goes, SameRun
<1>1. Types'
  BY <1>a DEF Types
<1>2. Kept'
  BY <1>a, <1>1, Shrinking DEF Kept, DatabaseKept, Only
<1>3. StageAt'
  BY <1>a DEF StageAt
<1>4. plan' = plan /\ \A f, x : Only(f, x)' <=> Only(f, x)
  BY <1>a DEF plan, Only
<1>5. OwnerAt'
  <2>1. CASE Inspect
    BY <1>a, <1>4, <2>1 DEF OwnerAt, Inspect, Goes, Readable, RetainedInput, Begun, Opened,
       Bound,
       Signed, Publishing
  <2>2. CASE OpenDatabase
    BY <1>a, <1>4, <2>2, Names DEF OwnerAt, OpenDatabase, Goes, Begun, Opened, Bound, Signed,
       Publishing
  <2>3. CASE CloseStore
    BY <1>a, <1>4, <2>3, Names DEF OwnerAt, CloseStore, Goes, Begun, Opened, Bound, Signed,
       Publishing
  <2>4. CASE ValidateSigner
    BY <1>a, <1>4, <2>4, Names DEF OwnerAt, ValidateSigner, LoadSigner, Goes, Begun, Opened,
       Bound,
       Signed, Publishing
  <2>5. CASE CheckpointImport
    BY <1>a, <1>4, <2>5, Names DEF OwnerAt, CheckpointImport, Goes, Begun, Opened, Bound,
       Signed, Publishing
  <2>6. CASE VerifyAll
    <3>1. tables["admin"] \in Runs
      BY <2>6, Names DEF VerifyAll, Types, Contents
    <3> QED BY <1>a, <1>4, <2>6, <3>1, Names DEF OwnerAt, VerifyAll, Goes, Begun, Opened,
               Bound, Signed, Publishing
  <2>7. CASE KeepCertificate
    BY <1>a, <1>4, <2>7, Names DEF OwnerAt, KeepCertificate, Begun, Opened, Bound, Signed,
       Publishing
  <2> QED BY <2>1, <2>2, <2>3, <2>4, <2>5, <2>6, <2>7
<1> QED BY <1>1, <1>2, <1>3, <1>5

\* Plan and input are durable before the database is made for them.
LEMMA ConfirmKeepsInv ==
  ASSUME InstallInv, Confirm
  PROVE  InstallInv'
<1> USE DEF InstallInv
<1>a. /\ owner # NoOwner /\ at = "confirm" /\ at' = "database" /\ stage = "start"
      /\ UNCHANGED <<disk, tables, stage, runs, imports, owner>>
      /\ survives' = [[Named(DataFiles) EXCEPT !["plan"] = {disk["plan"]}]
                        EXCEPT !["input"] = {disk["input"]}]
  BY DEF Confirm, Goes, Synced
<1>n. /\ Named(DataFiles) \in [Files -> SUBSET Contents]
      /\ \A f \in Files :
           Named(DataFiles)[f] \subseteq survives[f] /\ disk[f] \in Named(DataFiles)[f]
  BY Names, NamedShrinks
<1>b. \A f \in Files :
        survives'[f] = IF f \in {"plan", "input"} THEN {disk[f]} ELSE Named(DataFiles)[f]
  BY <1>a, <1>n, Names
<1>1. Types'
  BY <1>a, <1>b, Names, NamedShrinks DEF Types
<1>2. Kept'
  <2>1. \A f \in Files : survives'[f] \subseteq survives[f]
    BY <1>b, <1>n DEF Types
  <2> QED BY <1>a, <1>1, <2>1, Names, Shrinking DEF Kept, DatabaseKept, Only
<1>3. OwnerAt'
  <2>1. /\ plan' = plan /\ plan \in Runs /\ survives'["plan"] = {plan}
        /\ imports[plan] => survives'["input"] = {plan}
    BY <1>a, <1>b, Names DEF OwnerAt, plan
  <2>2. plan' \in Runs /\ Only("plan", plan)' /\ (imports'[plan'] => Only("input", plan)')
    BY <1>a, <2>1 DEF Only
  <2> QED BY <1>a, <2>2 DEF OwnerAt, Begun, Opened, Bound, Signed, Publishing
<1>4. StageAt'
  BY <1>a DEF StageAt
<1> QED BY <1>1, <1>2, <1>3, <1>4

\* The database is made for a plan that is durable, and where none is.
LEMMA MakingKeepsInv ==
  ASSUME InstallInv, CreateDatabase \/ Migrate
  PROVE  InstallInv'
<1> USE DEF InstallInv
<1>a. /\ owner # NoOwner /\ at = "database" /\ plan' = plan
      /\ UNCHANGED <<tables, runs, imports, owner>>
  BY DEF CreateDatabase, Migrate, SameRun, plan
<1>b. /\ plan \in Runs /\ Only("plan", plan) /\ disk["plan"] = plan
      /\ imports[plan] => Only("input", plan)
  BY <1>a, Names DEF OwnerAt, Begun, Only, Types
<1>c. disk["database"] \notin Runs /\ \A row \in Rows : tables[row] = Absent
  <2>1. disk["database"] \in {Absent, Partial}
    BY <1>a DEF CreateDatabase, Migrate, StageAt
  <2> QED BY <2>1, RunsAssumption DEF Kept, DatabaseKept
<1>d. Only("complete", Absent)
  BY <1>b, <1>c, Names DEF Kept, ReceiptKept, Whole
<1>1. CASE CreateDatabase
  <2>a. /\ disk["database"] = Absent /\ disk' = [disk EXCEPT !["database"] = Partial]
        /\ survives' = [survives EXCEPT !["database"] = survives["database"] \cup {Partial}]
        /\ at' = at /\ stage' = "created"
    BY <1>1 DEF CreateDatabase, Puts
  <2>b. /\ \A f \in Files \ {"database"} : disk'[f] = disk[f] /\ survives'[f] = survives[f]
        /\ disk'["database"] = Partial
        /\ survives'["database"] = survives["database"] \cup {Partial}
    BY <2>a, Names DEF Types
  <2>1. Types'
    BY <1>a, <2>a, <2>b, Names DEF Types, Contents
  <2>2. \A x \in survives'["database"] : x \in {Absent, Partial, plan}
    BY <1>b, <2>b DEF Kept, ConsentKept, Consented, Only
  <2>3. Kept'
    <3>1. SecretsKept' /\ ReceiptKept'
      BY <1>a, <1>c, <1>d, <2>b, Names DEF SecretsKept, ReceiptKept, Only
    <3>2. DatabaseKept'
      BY <1>a, <1>c, <2>b, Names, RunsAssumption DEF DatabaseKept
    <3>3. ConsentKept'
      BY <1>a, <1>b, <2>b, <2>2, Names DEF ConsentKept, Consented, Only
    <3> QED BY <3>1, <3>2, <3>3 DEF Kept
  <2>4. OwnerAt'
    BY <1>a, <1>b, <2>a, <2>b, Names DEF OwnerAt, Only, Begun, Opened, Bound, Signed, Publishing
  <2>5. StageAt'
    BY <1>a, <2>a, <2>b, Names DEF StageAt, Types
  <2> QED BY <2>1, <2>3, <2>4, <2>5
<1>2. CASE Migrate
  <2>a. /\ disk' = [disk EXCEPT !["database"] = plan]
        /\ survives' = [survives EXCEPT !["database"] = {plan}]
        /\ at' = "control" /\ stage' = "start"
    BY <1>2 DEF Migrate
  <2>b. /\ \A f \in Files \ {"database"} : disk'[f] = disk[f] /\ survives'[f] = survives[f]
        /\ disk'["database"] = plan /\ survives'["database"] = {plan}
    BY <2>a, Names DEF Types
  <2>1. Types'
    BY <1>a, <1>b, <2>a, <2>b, Names DEF Types, Contents
  <2>2. Kept'
    <3>1. SecretsKept' /\ ReceiptKept'
      BY <1>a, <1>c, <1>d, <2>b, Names DEF SecretsKept, ReceiptKept, Only
    <3>2. DatabaseKept'
      BY <1>a, <1>c, <2>b, Names DEF DatabaseKept, Only
    <3>3. ConsentKept'
      BY <1>a, <1>b, <2>b, Names DEF ConsentKept, Consented, Only
    <3> QED BY <3>1, <3>2, <3>3 DEF Kept
  <2>3. OwnerAt'
    BY <1>a, <1>b, <2>a, <2>b, Names DEF OwnerAt, Only, Begun, Opened, Bound, Signed, Publishing
  <2>4. StageAt'
    BY <1>a, <2>a, <2>b, Names DEF StageAt
  <2> QED BY <2>1, <2>2, <2>3, <2>4
<1> QED BY <1>1, <1>2

\* A row is committed once, after what it refers to is durable.
LEMMA CommittingKeepsInv ==
  ASSUME InstallInv,
         BindKey \/ SelectTraffic \/ Announce \/ Enroll \/ FenceCA \/ SettleCA \/ StageImport
  PROVE  InstallInv'
<1> USE DEF InstallInv
<1>p. at \in {"bind", "select", "announce", "enroll", "cutover", "settle", "stage"}
  BY DEF BindKey, SelectTraffic, Announce, Enroll, FenceCA, SettleCA, StageImport
<1>g. /\ owner # NoOwner /\ stage = "start"
      /\ UNCHANGED <<disk, survives, stage, runs, imports, owner>>
  BY DEF BindKey, SelectTraffic, Announce, Enroll, FenceCA, SettleCA, StageImport, Commit, Goes
<1>a. /\ owner # NoOwner /\ stage = "start" /\ at \in Opened /\ plan' = plan
      /\ UNCHANGED <<disk, survives, stage, runs, imports, owner>>
  BY <1>p, <1>g DEF Opened, Bound, Signed, Publishing, plan
<1>b. /\ plan \in Runs /\ Only("plan", plan) /\ disk["plan"] = plan /\ disk["database"] = plan
      /\ imports[plan] => Only("input", plan)
  BY <1>a, Names DEF OwnerAt, Begun, Only, Types
<1>c. owner \in Runs
  BY <1>a DEF Types, NoOwner
<1>o. \A f, x : Only(f, x)' <=> Only(f, x)
  BY <1>a DEF Only
<1>s. StageAt'
  BY <1>a DEF StageAt
<1>q. ConsentKept'
  BY <1>a, <1>o DEF Kept, ConsentKept, Consented
<1>u. ASSUME tables' = tables PROVE Types' /\ Kept'
  <2>1. Types'
    BY <1>a, <1>u DEF Types
  <2> QED BY <1>a, <1>u, <2>1, Shrinking DEF Kept, DatabaseKept, Only
<1>t. ASSUME NEW row \in Rows, NEW content \in Runs, tables' = [tables EXCEPT ![row] = content]
      PROVE  /\ Types' /\ tables'[row] = content
             /\ \A other \in Rows \ {row} : tables'[other] = tables[other]
  BY <1>a, <1>t, RunsAssumption DEF Types, Contents
<1>1. CASE BindKey
  <2>1. CASE tables["key"] = Absent /\ Commit("key", disk["key"], "custody")
    <3>1. at = "bind" /\ tables' = [tables EXCEPT !["key"] = disk["key"]] /\ at' = "custody"
      BY <1>1, <2>1 DEF BindKey, Commit, Goes
    <3>2. disk["key"] \in Runs /\ Only("key", disk["key"])
      BY <3>1 DEF OwnerAt
    <3>3. /\ Types' /\ tables'["key"] = disk["key"]
          /\ \A other \in Rows \ {"key"} : tables'[other] = tables[other]
      BY <1>t, <3>1, <3>2, Names
    <3>4. SecretsKept' /\ DatabaseKept'
      BY <1>a, <1>b, <1>o, <3>2, <3>3, Names DEF Kept, SecretsKept, DatabaseKept
    <3>5. ReceiptKept'
      BY <1>a, <1>o, <2>1, <3>3, RunsAssumption DEF Kept, ReceiptKept, Whole
    <3>6. OwnerAt'
      BY <1>a, <1>b, <1>o, <3>1, <3>2, <3>3 DEF OwnerAt, Begun, Opened, Bound, Signed,
         Publishing
    <3> QED BY <1>q, <1>s, <3>3, <3>4, <3>5, <3>6 DEF Kept
  <2>2. CASE tables["key"] # Absent /\ Goes("custody") /\ UNCHANGED <<disk, survives, tables, wal>>
    <3>1. tables["key"] \in Runs
      BY <2>2, Names DEF Types, Contents
    <3>2. OwnerAt'
      BY <1>a, <1>b, <1>o, <2>2, <3>1 DEF OwnerAt, Goes, Begun, Opened, Bound, Signed,
         Publishing
    <3> QED BY <1>s, <1>u, <2>2, <3>2
  <2> QED BY <1>1, <2>1, <2>2 DEF BindKey
<1>2. CASE SelectTraffic
  <2>1. /\ at = "select" /\ tables' = [tables EXCEPT !["traffic"] = plan] /\ at' = "traffic"
        /\ tables["traffic"] = Absent
    BY <1>2 DEF SelectTraffic, Commit, Goes
  <2>2. /\ Types' /\ tables'["traffic"] = plan
        /\ \A other \in Rows \ {"traffic"} : tables'[other] = tables[other]
    BY <1>b, <1>t, <2>1, Names
  <2>3. SecretsKept' /\ DatabaseKept'
    BY <1>a, <1>b, <1>o, <2>1, <2>2, Names DEF Kept, SecretsKept, DatabaseKept, OwnerAt
  <2>4. ReceiptKept'
    BY <1>a, <1>b, <1>o, <2>1, <2>2, RunsAssumption DEF Kept, ReceiptKept, Whole
  <2>5. OwnerAt'
    BY <1>a, <1>b, <1>o, <2>1, <2>2, Names DEF OwnerAt, Begun, Opened, Bound, Signed, Publishing
  <2> QED BY <1>q, <1>s, <2>2, <2>3, <2>4, <2>5 DEF Kept
<1>3. CASE Announce
  <2>1. at = "announce" /\ tables' = [tables EXCEPT !["attempt"] = owner] /\ at' = "bearer"
    BY <1>3 DEF Announce, Commit, Goes
  <2>2. /\ Types' /\ \A other \in Rows \ {"attempt"} : tables'[other] = tables[other]
    BY <1>c, <1>t, <2>1, Names
  <2>3. SecretsKept' /\ DatabaseKept'
    BY <1>a, <1>b, <1>o, <2>2, Names DEF Kept, SecretsKept, DatabaseKept
  <2>4. ReceiptKept'
    BY <1>a, <1>o, <2>2, Names DEF Kept, ReceiptKept, Whole
  <2>5. OwnerAt'
    BY <1>a, <1>b, <1>o, <2>1, <2>2, Names DEF OwnerAt, Begun, Opened, Bound, Signed, Publishing
  <2> QED BY <1>q, <1>s, <2>2, <2>3, <2>4, <2>5 DEF Kept
<1>4. CASE Enroll
  <2>1. /\ at = "enroll" /\ tables' = [tables EXCEPT !["admin"] = owner] /\ at' = "administrator"
        /\ tables["admin"] = Absent
    BY <1>4 DEF Enroll, Commit, Goes
  <2>2. /\ Types' /\ tables'["admin"] = owner
        /\ \A other \in Rows \ {"admin"} : tables'[other] = tables[other]
    BY <1>c, <1>t, <2>1, Names
  <2>3. SecretsKept' /\ DatabaseKept'
    BY <1>a, <1>b, <1>o, <2>1, <2>2, Names DEF Kept, SecretsKept, DatabaseKept, OwnerAt
  <2>4. ReceiptKept'
    BY <1>a, <1>o, <2>1, <2>2, Names, RunsAssumption DEF Kept, ReceiptKept, Whole
  <2>5. OwnerAt'
    BY <1>a, <1>b, <1>o, <2>1, <2>2, Names DEF OwnerAt, Begun, Opened, Bound, Signed, Publishing
  <2> QED BY <1>q, <1>s, <2>2, <2>3, <2>4, <2>5 DEF Kept
<1>5. CASE FenceCA
  <2>1. /\ at = "cutover" /\ tables' = [tables EXCEPT !["ca"] = Partial] /\ at' = "settle"
        /\ tables["ca"] = Absent
    BY <1>5 DEF FenceCA, Commit, Goes
  <2>2. /\ Types' /\ tables'["ca"] = Partial
        /\ \A other \in Rows \ {"ca"} : tables'[other] = tables[other]
    BY <1>a, <2>1, Names DEF Types, Contents
  <2>3. SecretsKept' /\ DatabaseKept'
    BY <1>a, <1>b, <1>o, <2>2, Names DEF Kept, SecretsKept, DatabaseKept
  <2>4. ReceiptKept'
    BY <1>a, <1>o, <2>1, Names, RunsAssumption DEF Kept, ReceiptKept, Whole
  <2>5. OwnerAt'
    BY <1>a, <1>b, <1>o, <2>1, <2>2, Names DEF OwnerAt, Begun, Opened, Bound, Signed, Publishing
  <2> QED BY <1>q, <1>s, <2>2, <2>3, <2>4, <2>5 DEF Kept
<1>6. CASE SettleCA
  <2>1. at = "settle" /\ tables' = [tables EXCEPT !["ca"] = owner] /\ at' = "signer"
    BY <1>6 DEF SettleCA, Commit, Goes
  <2>2. /\ Types' /\ tables'["ca"] = owner
        /\ \A other \in Rows \ {"ca"} : tables'[other] = tables[other]
    BY <1>c, <1>t, <2>1, Names
  <2>3. SecretsKept' /\ DatabaseKept'
    BY <1>a, <1>b, <1>o, <2>2, Names DEF Kept, SecretsKept, DatabaseKept
  <2>4. ReceiptKept'
    BY <1>a, <1>o, <2>1, Names, RunsAssumption DEF Kept, ReceiptKept, Whole, OwnerAt
  <2>5. OwnerAt'
    BY <1>a, <1>b, <1>o, <2>1, <2>2, Names DEF OwnerAt, Begun, Opened, Bound, Signed, Publishing
  <2> QED BY <1>q, <1>s, <2>2, <2>3, <2>4, <2>5 DEF Kept
<1>7. CASE StageImport
  <2>a. at = "stage" /\ at' = "staged" /\ imports[plan]
    BY <1>7 DEF StageImport, Commit, Goes, OwnerAt
  <2>1. CASE Commit("import", plan, "staged")
    <3>1. tables' = [tables EXCEPT !["import"] = plan]
      BY <2>1 DEF Commit
    <3>2. /\ Types' /\ tables'["import"] = plan
          /\ \A other \in Rows \ {"import"} : tables'[other] = tables[other]
      BY <1>b, <1>t, <3>1, Names
    <3>3. SecretsKept' /\ DatabaseKept'
      BY <1>a, <1>b, <1>o, <2>a, <3>2, Names DEF Kept, SecretsKept, DatabaseKept
    <3>4. ReceiptKept'
      BY <1>a, <1>b, <1>o, <3>2, Names DEF Kept, ReceiptKept, Whole
    <3>5. OwnerAt'
      BY <1>a, <1>b, <1>o, <2>a, <3>2, Names DEF OwnerAt, Begun, Opened, Bound, Signed,
         Publishing
    <3> QED BY <1>q, <1>s, <3>2, <3>3, <3>4, <3>5 DEF Kept
  <2>2. CASE tables["import"] = plan /\ UNCHANGED <<disk, survives, tables, wal>>
    <3>1. OwnerAt'
      BY <1>a, <1>b, <1>o, <2>a, <2>2, Names DEF OwnerAt, Begun, Opened, Bound, Signed,
         Publishing
    <3> QED BY <1>s, <1>u, <2>2, <3>1
  <2> QED BY <1>7, <2>1, <2>2 DEF StageImport
<1> QED BY <1>1, <1>2, <1>3, <1>4, <1>5, <1>6, <1>7

\* A file is written where there was none; only the last receipt speaks for others.
LEMMA PuttingKeepsInv ==
  ASSUME InstallInv, owner # NoOwner, at \in Written, NEW c \in Contents, Puts(at, c),
         UNCHANGED <<tables, runs, imports, owner, at>>,
         disk[at] \in {Absent, Partial}, at = "key" => tables["key"] = Absent
  PROVE  Types' /\ Kept' /\ OwnerAt'
<1> USE DEF InstallInv
<1>a. at \in Files \ {"lock", "database"}
  BY DEF Files, Written, Evidence, Receipts
<1>b. /\ \A f \in Files \ {at} : disk'[f] = disk[f] /\ survives'[f] = survives[f]
      /\ disk'[at] = c /\ survives'[at] = survives[at] \cup {c}
  BY <1>a DEF Puts, Types
<1>1. Types'
  BY <1>a, <1>b DEF Types, Puts
<1>o. \A f \in Files \ {at} : \A x : Only(f, x)' <=> Only(f, x)
  BY <1>b DEF Only
<1>d. disk'["database"] = disk["database"] /\ survives'["database"] = survives["database"]
  BY <1>a, <1>b, Names
<1>2. SecretsKept'
  BY <1>a, <1>o, Names DEF Kept, SecretsKept, OwnerAt
<1>3. DatabaseKept'
  BY <1>a, <1>b, <1>d, <1>o, Names DEF Kept, DatabaseKept
<1>4. ReceiptKept'
  <2>1. CASE at = "complete"
    <3>1. /\ plan \in Runs /\ Only("plan", plan) /\ disk["plan"] = plan /\ disk["database"] = plan
          /\ tables["key"] \in Runs /\ tables["ca"] \in Runs /\ Only("public", tables["ca"])
          /\ (imports[plan] => tables["import"] = plan)
          /\ tables["traffic"] = plan /\ tables["admin"] \in Runs
      BY <2>1, Names DEF OwnerAt, Begun, Opened, Bound, Signed, Publishing, Only, Types
    <3>2. Whole
      BY <3>1 DEF Whole
    <3> QED BY <1>b, <1>o, <2>1, <3>2, Names DEF ReceiptKept, Whole
  <2>2. CASE at = "plan"
    BY <1>o, <2>2, Names DEF ReceiptKept, OwnerAt
  <2>3. CASE at \notin {"plan", "complete"}
    <3>1. SUFFICES ASSUME Whole PROVE Whole'
      BY <1>o, <2>3, Names DEF Kept, ReceiptKept
    <3>2. at # "public"
      BY <3>1, Names, RunsAssumption DEF Whole, Only, Types
    <3> QED BY <1>b, <1>o, <1>d, <2>3, <3>1, <3>2, Names DEF Whole
  <2> QED BY <2>1, <2>2, <2>3
<1>5. ConsentKept'
  <2>1. SUFFICES ASSUME ~Only("database", Absent), Consented PROVE Consented'
    BY <1>a, <1>o, Names DEF Kept, ConsentKept
  <2>2. at \notin {"plan", "input"}
    BY <2>1 DEF OwnerAt
  <2>3. CASE at = "complete"
    <3>1. disk["plan"] = plan /\ (imports[plan] => Only("input", plan))
      BY <2>3, Names DEF OwnerAt, Begun, Opened, Bound, Signed, Publishing, Only, Types
    <3> QED BY <1>b, <1>d, <1>o, <2>1, <2>3, <3>1, Names DEF Consented
  <2>4. CASE at # "complete"
    BY <1>b, <1>d, <1>o, <2>1, <2>2, <2>4, Names DEF Consented
  <2> QED BY <2>3, <2>4
<1>6. OwnerAt'
  <2>p. plan' = plan
    BY DEF plan
  <2>l. disk'["lock"] = disk["lock"]
    BY <1>a, <1>b, Names
  <2>1. at \in Written /\ at \notin {"confirm", "bind", "select", "enroll", "settle"}
    BY DEF Written, Evidence, Receipts
  <2> QED BY <1>b, <1>d, <1>o, <2>p, <2>l, <2>1, Names
          DEF OwnerAt, Begun, Opened, Bound, Signed, Publishing
<1> QED BY <1>1, <1>2, <1>3, <1>4, <1>5, <1>6 DEF Kept

LEMMA WritingKeepsInv ==
  ASSUME InstallInv, CreateFile \/ WriteFile \/ Reseal
  PROVE  InstallInv'
<1> USE DEF InstallInv
<1>a. /\ owner # NoOwner /\ at \in Written /\ owner \in Runs
      /\ UNCHANGED <<tables, runs, imports, owner, at>> /\ plan' = plan
  BY DEF CreateFile, WriteFile, Reseal, SameRun, Sealed, Written, Types, NoOwner, plan
<1>b. at \in Files \ {"lock", "database"} /\ at # "remove"
  BY <1>a DEF Files, Written, Evidence, Receipts
<1>1. CASE CreateFile
  <2>1. /\ disk[at] = Absent /\ Puts(at, Partial) /\ stage' = "created"
        /\ (at = "key" => tables["key"] = Absent)
    BY <1>1 DEF CreateFile, MayWrite
  <2>2. Types' /\ Kept' /\ OwnerAt'
    BY <1>a, <2>1, PuttingKeepsInv DEF Contents
  <2>3. disk'[at] = Partial /\ survives'[at] = survives[at] \cup {Partial}
    BY <1>b, <2>1 DEF Puts, Types
  <2>4. Absent \in survives'[at]
    BY <1>b, <2>1, <2>3 DEF Types
  <2>5. StageAt'
    BY <1>a, <1>b, <2>1, <2>3, <2>4 DEF StageAt
  <2> QED BY <2>2, <2>5
<1>2. CASE WriteFile
  <2> DEFINE c == Content(at)
  <2>1. disk[at] = Partial /\ Puts(at, c) /\ stage = "created" /\ stage' = "written"
    BY <1>2 DEF WriteFile, StageAt
  <2>2. plan \in Runs \cup {Absent}
    BY <1>a DEF Types, plan
  <2>3. c \in Contents
    BY <1>a, <2>2, Names DEF Content, Types, Contents
  <2>4. /\ at \in {"key", "bearer"} => c = owner
        /\ at = "history" => c = plan
        /\ at = "public" => c = tables["ca"]
    BY DEF Content
  <2> HIDE DEF c
  <2>5. at = "key" => tables["key"] = Absent
    BY <2>1 DEF StageAt
  <2>6. Types' /\ Kept' /\ OwnerAt'
    BY <1>a, <2>1, <2>3, <2>5, PuttingKeepsInv
  <2>7. disk'[at] = c
    BY <1>b, <2>1 DEF Puts, Types
  <2>8. StageAt'
    BY <1>a, <1>b, <2>1, <2>4, <2>7 DEF StageAt
  <2> QED BY <2>6, <2>8
<1>3. CASE Reseal
  <2>1. at \in Sealed /\ disk[at] \in Runs /\ stage' = "written" /\ UNCHANGED <<disk, survives>>
    BY <1>3 DEF Reseal
  <2>2. Types'
    BY <1>a, <2>1 DEF Types
  <2>3. Kept'
    BY <1>a, <2>1, <2>2, Shrinking DEF Kept, DatabaseKept, Only
  <2>4. \A f, x : Only(f, x)' <=> Only(f, x)
    BY <2>1 DEF Only
  <2>5. OwnerAt'
    BY <1>a, <2>1, <2>4 DEF OwnerAt
  <2>6. at \notin {"history", "bearer", "public"}
    BY <2>1 DEF Sealed, Evidence, Receipts
  <2>7. StageAt'
    BY <1>a, <2>1, <2>6 DEF StageAt
  <2> QED BY <2>2, <2>3, <2>5, <2>7
<1> QED BY <1>1, <1>2, <1>3

\* A sync gives up no content that is there, and settles the file of the step.
LEMMA SyncedShrinks ==
  ASSUME Types, NEW f \in Files, NEW fs \in SUBSET Files
  PROVE  /\ Synced(f, fs) \in [Files -> SUBSET Contents]
         /\ Synced(f, fs)[f] = {disk[f]}
         /\ \A g \in Files : Synced(f, fs)[g] \subseteq survives[g] /\ disk[g] \in Synced(f, fs)[g]
         /\ "public" \in fs => Synced(f, fs)["public"] = {disk["public"]}
<1>n. /\ Named(fs) \in [Files -> SUBSET Contents]
      /\ \A g \in Files : Named(fs)[g] \subseteq survives[g] /\ disk[g] \in Named(fs)[g]
  BY NamedShrinks
<1>1. \A g \in Files : Synced(f, fs)[g] = IF g = f THEN {disk[f]} ELSE Named(fs)[g]
  BY <1>n DEF Synced
<1>2. Synced(f, fs) \in [Files -> SUBSET Contents]
  BY <1>n DEF Synced, Types
<1>3. "public" \in fs => Named(fs)["public"] = {disk["public"]}
  BY Names DEF Named, Linked
<1> QED BY <1>n, <1>1, <1>2, <1>3, Names DEF Types

LEMMA SyncingKeepsInv ==
  ASSUME InstallInv, SyncFile
  PROVE  InstallInv'
<1> USE DEF InstallInv
<1> DEFINE fs == IF at = "bearer" THEN {"bearer"} ELSE DataFiles
<1>a. /\ owner # NoOwner /\ at \in Written /\ stage = "written" /\ at' = After(at)
      /\ stage' = "start" /\ UNCHANGED <<disk, tables, runs, imports, owner>> /\ plan' = plan
      /\ survives' = Synced(at, fs)
  BY DEF SyncFile, SameRun, plan
<1>f. at \in Files /\ fs \in SUBSET Files /\ (at # "bearer" => "public" \in fs)
  BY <1>a, Names DEF DataFiles
<1> HIDE DEF fs
<1>b. /\ survives' \in [Files -> SUBSET Contents] /\ survives'[at] = {disk[at]}
      /\ \A g \in Files : survives'[g] \subseteq survives[g] /\ disk[g] \in survives'[g]
      /\ at # "bearer" => survives'["public"] = {disk["public"]}
  BY <1>a, <1>f, SyncedShrinks
<1>1. Types'
  BY <1>a, <1>b DEF Types
<1>2. Kept'
  BY <1>a, <1>b, <1>1, Names, Shrinking DEF Kept, DatabaseKept, Only
<1>3. StageAt'
  BY <1>a DEF StageAt
<1>m. \A f \in Files : \A x : Only(f, x) => Only(f, x)'
  BY <1>b DEF Only
<1>4. OwnerAt'
  <2>1. CASE at = "plan"
    BY <1>a, <1>m, <2>1, Names DEF After, OwnerAt, Begun, Opened, Bound, Signed, Publishing
  <2>2. CASE at \in {"input", "complete", "input-removed"}
    BY <1>a, <2>2 DEF After, OwnerAt, Begun, Opened, Bound, Signed, Publishing
  <2>3. CASE at \in {"control", "custody-attempt"}
    BY <1>a, <1>m, <2>3, Names DEF After, OwnerAt, Begun, Opened, Bound, Signed, Publishing
  <2>4. CASE at = "key"
    <3>1. disk["key"] \in Runs /\ Only("key", disk["key"])'
      BY <1>a, <1>b, <2>4 DEF StageAt, Only
    <3> QED BY <1>a, <1>m, <2>4, <3>1, Names DEF After, OwnerAt, Begun, Opened, Bound, Signed,
               Publishing
  <2>5. CASE at = "custody"
    BY <1>a, <1>m, <2>5, Names DEF After, OwnerAt, Begun, Opened, Bound, Signed, Publishing
  <2>6. CASE at = "history"
    <3>1. Only("history", plan)'
      BY <1>a, <1>b, <2>6 DEF StageAt, Only
    <3> QED BY <1>a, <1>m, <2>6, <3>1, Names DEF After, OwnerAt, Begun, Opened, Bound, Signed,
               Publishing
  <2>7. CASE at = "traffic"
    BY <1>a, <1>m, <2>7, Names DEF After, OwnerAt, Begun, Opened, Bound, Signed, Publishing
  <2>8. CASE at = "bearer"
    <3>1. Only("bearer", owner)'
      BY <1>a, <1>b, <2>8 DEF StageAt, Only
    <3> QED BY <1>a, <1>m, <2>8, <3>1, Names DEF After, OwnerAt, Begun, Opened, Bound, Signed,
               Publishing
  <2>9. CASE at \in {"administrator", "ca"}
    BY <1>a, <1>m, <2>9, Names DEF After, OwnerAt, Begun, Opened, Bound, Signed, Publishing
  <2>10. CASE at = "public"
    BY <1>a, <1>m, <2>10, Names DEF After, OwnerAt, StageAt, Begun, Opened, Bound, Signed,
       Publishing
  <2>11. CASE at = "certificate"
    <3>1. Only("public", tables["ca"])'
      BY <1>a, <1>b, <2>11 DEF OwnerAt, Only
    <3> QED BY <1>a, <1>m, <2>11, <3>1, Names DEF After, OwnerAt, Begun, Opened, Bound, Signed,
               Publishing
  <2>12. CASE at = "import"
    BY <1>a, <1>m, <2>12, Names DEF After, OwnerAt, Begun, Opened, Bound, Signed, Publishing
  <2> QED BY <1>a, <2>1, <2>2, <2>3, <2>4, <2>5, <2>6, <2>7, <2>8, <2>9, <2>10, <2>11, <2>12
          DEF Written, Evidence, Receipts
<1> QED BY <1>1, <1>2, <1>3, <1>4

\* The input goes once the last receipt, which speaks for it, is durable.
LEMMA RemovingKeepsInv ==
  ASSUME InstallInv, ConfirmComplete \/ RemoveInput \/ SyncRemoval
  PROVE  InstallInv'
<1> USE DEF InstallInv
<1>a. /\ owner # NoOwner /\ at = "remove" /\ at' \in {"remove", "input-removed"}
      /\ UNCHANGED <<tables, runs, imports, owner>>
  BY DEF ConfirmComplete, RemoveInput, SyncRemoval, SameRun
<1>b. ASSUME Types', disk' = disk, \A f \in Files : survives'[f] \subseteq survives[f]
      PROVE  Kept'
  BY <1>a, <1>b, Names, Shrinking DEF Kept, DatabaseKept, Only
<1>c. ASSUME disk'["lock"] = disk["lock"] PROVE OwnerAt'
  BY <1>a, <1>c DEF OwnerAt, Begun, Opened, Bound, Signed, Publishing
<1>1. CASE ConfirmComplete
  <2>1. /\ disk' = disk /\ survives' = Synced("complete", DataFiles) /\ Complete(disk)
        /\ \/ at' = "input-removed" /\ stage' = "start"
           \/ at' = "remove" /\ stage' = "created"
    BY <1>1 DEF ConfirmComplete
  <2>2. /\ survives' \in [Files -> SUBSET Contents] /\ survives'["complete"] = {disk["complete"]}
        /\ \A g \in Files : survives'[g] \subseteq survives[g] /\ disk[g] \in survives'[g]
    BY <2>1, Names, SyncedShrinks
  <2>3. Types'
    BY <1>a, <2>1, <2>2 DEF Types
  <2>4. disk["plan"] \in Runs /\ disk["complete"] = disk["plan"]
    BY <2>1 DEF Complete, Readable
  <2>5. disk'["plan"] \in Runs /\ Only("complete", disk["plan"])'
    BY <2>1, <2>2, <2>4 DEF Only
  <2>6. StageAt'
    BY <1>a, <2>1, <2>5 DEF StageAt, Written, Evidence, Receipts
  <2> QED BY <1>b, <1>c, <2>1, <2>2, <2>3, <2>6
<1>2. CASE RemoveInput
  <2>1. /\ stage = "created" /\ stage' = "written" /\ at' = at
        /\ disk' = [disk EXCEPT !["input"] = Absent]
        /\ survives' = [survives EXCEPT !["input"] = survives["input"] \cup {Absent}]
    BY <1>2 DEF RemoveInput, Puts
  <2>2. /\ \A f \in Files \ {"input"} : disk'[f] = disk[f] /\ survives'[f] = survives[f]
        /\ disk'["input"] = Absent /\ survives'["input"] = survives["input"] \cup {Absent}
    BY <2>1, Names DEF Types
  <2>3. Types'
    BY <1>a, <2>1, <2>2, Names DEF Types, Contents
  <2>o. \A f \in Files \ {"input"} : \A x : Only(f, x)' <=> Only(f, x)
    BY <2>2 DEF Only
  <2>4. SecretsKept' /\ DatabaseKept'
    BY <1>a, <2>2, <2>o, Names DEF Kept, SecretsKept, DatabaseKept
  <2>5. ReceiptKept'
    BY <1>a, <2>2, <2>o, Names DEF Kept, ReceiptKept, Whole
  <2>6. Only("complete", disk["plan"])
    BY <1>a, <2>1 DEF StageAt
  <2>7. ConsentKept'
    BY <1>a, <2>2, <2>o, <2>6, Names DEF Kept, ConsentKept, Consented
  <2>8. StageAt'
    BY <1>a, <2>1 DEF StageAt
  <2>9. OwnerAt'
    BY <1>c, <2>2, Names
  <2> QED BY <2>3, <2>4, <2>5, <2>7, <2>8, <2>9 DEF Kept
<1>3. CASE SyncRemoval
  <2>1. disk' = disk /\ survives' = Named(DataFiles) /\ stage' = "start"
    BY <1>3 DEF SyncRemoval
  <2>2. /\ survives' \in [Files -> SUBSET Contents]
        /\ \A g \in Files : survives'[g] \subseteq survives[g] /\ disk[g] \in survives'[g]
    BY <2>1, Names, NamedShrinks
  <2>3. Types'
    BY <1>a, <2>1, <2>2 DEF Types
  <2>4. StageAt'
    BY <1>a, <2>1 DEF StageAt
  <2> QED BY <1>b, <1>c, <2>1, <2>2, <2>3, <2>4
<1> QED BY <1>1, <1>2, <1>3

\* A command that ends discards only what nobody relies on; a loss of power leaves what
\* may survive it.
LEMMA EndingKeepsInv ==
  ASSUME InstallInv, Ends \/ LosePower
  PROVE  InstallInv'
<1> USE DEF InstallInv
<1>a. /\ owner' = NoOwner /\ at' = "idle" /\ stage' = "start" /\ UNCHANGED <<tables, imports>>
  BY DEF Ends, LosePower
<1>1. OwnerAt' /\ StageAt'
  BY <1>a DEF OwnerAt, StageAt, Begun, Opened, Bound, Signed, Publishing, Written
<1>e. Run("ended", Absent) \in [does : {"new", "fresh", "resume", "cleanup", "serve", "ended"},
                               plan : Runs \cup {Absent}]
  BY DEF Run
<1>2. CASE Ends
  <2>1. /\ survives' = survives /\ disk' \in Discards
        /\ runs' = [runs EXCEPT ![owner] = Run("ended", Absent)]
    BY <1>2 DEF Ends
  <2>2. /\ disk' \in [Files -> Contents] /\ \A f \in Files : disk'[f] \in survives[f]
        /\ disk'["database"] \in Runs => disk'["database"] = disk["database"]
    <3>1. CASE disk' = disk
      BY <3>1 DEF Types
    <3>2. CASE /\ stage = "created" /\ at \in {"database", "public"}
               /\ disk' = [disk EXCEPT ![at] = Absent]
      BY <3>2, Names, RunsAssumption DEF Types, StageAt, Contents
    <3> QED BY <2>1, <3>1, <3>2 DEF Discards
  <2>3. Types'
    BY <1>a, <1>e, <2>1, <2>2 DEF Types, NoOwner
  <2>4. disk'["database"] \in Runs => Only("database", disk["database"])'
    BY <2>1, <2>2 DEF Kept, DatabaseKept, Only
  <2>5. Kept'
    BY <1>a, <2>1, <2>3, <2>4, Shrinking
  <2> QED BY <1>1, <2>3, <2>5
<1>3. CASE LosePower
  <2>1. /\ disk' \in Remains /\ survives' = [f \in Files |-> {disk'[f]}]
        /\ runs' = [r \in Runs |-> IF runs[r].does = "new" THEN runs[r] ELSE Run("ended", Absent)]
    BY <1>3 DEF LosePower
  <2>2. disk' \in [Files -> Contents] /\ \A f \in Files : disk'[f] \in survives[f]
    BY <2>1, RemainsSurvive
  <2>3. Types'
    BY <1>a, <1>e, <2>1, <2>2 DEF Types, NoOwner
  <2>4. Kept'
    BY <1>a, <2>1, <2>2, <2>3, Names, Shrinking DEF Only
  <2> QED BY <1>1, <2>3, <2>4
<1> QED BY <1>2, <1>3

LEMMA StutteringKeepsInv ==
  ASSUME InstallInv, UNCHANGED installVars
  PROVE  InstallInv'
<1> USE DEF InstallInv
<1>a. UNCHANGED <<disk, survives, tables, runs, imports, owner, at, stage>>
  BY DEF installVars
<1>1. Types'
  BY <1>a DEF Types
<1>2. Kept'
  BY <1>a, <1>1, Shrinking DEF Kept, DatabaseKept, Only
<1>3. plan' = plan /\ \A f, x : Only(f, x)' <=> Only(f, x)
  BY <1>a DEF plan, Only
<1>4. OwnerAt' /\ StageAt'
  BY <1>a, <1>3 DEF OwnerAt, StageAt
<1> QED BY <1>1, <1>2, <1>4

LEMMA InvariantIsInductive == InstallInv /\ [InstallNext]_installVars => InstallInv'
<1> SUFFICES ASSUME InstallInv, [InstallNext]_installVars PROVE InstallInv'
  OBVIOUS
<1>1. CASE UNCHANGED installVars
  BY <1>1, StutteringKeepsInv
<1>2. CASE InstallNext
  BY <1>2, PlanningKeepsInv, TakingKeepsInv, WritingKeepsInv, SyncingKeepsInv,
     InspectingKeepsInv,
     ConfirmKeepsInv, MakingKeepsInv, CommittingKeepsInv, RemovingKeepsInv, EndingKeepsInv
  DEF InstallNext
<1> QED BY <1>1, <1>2
-----------------------------------------------------------------------------
(* At every step of init, of its resumptions and of its clean-up, the owner of the lock
   has made durable what the next step relies on, and a loss of power may leave nothing
   that contradicts the committed rows. *)
THEOREM InstallationInvariant == InstallSpec => []InstallInv
BY InvariantHoldsInitially, InvariantIsInductive, PTL DEF InstallSpec

(* Whatever set of commands is started, ends or is interrupted by a loss of power, no
   directory is left that serve accepts and that is incomplete, none whose database has
   lost its master key, its bearer or its history, and none that is begun without its
   plan and its input. *)
THEOREM InstallationStaysWhole == InstallSpec => []InstallationIsWhole
BY InstallationInvariant, InvariantSuffices, PTL

=============================================================================
