------------------------- MODULE AdminSessionsProofs -------------------------
(***************************************************************************)
(* Proofs of the safety properties of AdminSessions, for any number of     *)
(* credentials, sign-ins, streams and changes.                             *)
(***************************************************************************)
EXTENDS AdminSessions, FiniteSetTheorems, TLAPS

SignStates == [pc : {"idle", "recorded", "reserved", "installed", "returned"},
               cred : Credentials \cup {None}]
StreamStates ==
  [pc : {"idle", "authenticated", "admitted", "subscribed", "open", "returned"},
   cred : Credentials \cup {None}, session : SignIns \cup {None}]
ChangeStates ==
  [pc : {"idle", "rotating", "committed", "notifying", "returned"},
   cred : Credentials \cup {None}, expected : Nat,
   pending : SUBSET {"sessions", "events"}]

(* The types of what the streams do not touch, and of the streams. *)
CoreType ==
  /\ cred \in [Credentials -> {"absent", "active", "revoked", "pruned"}]
  /\ lapsed \subseteq Credentials \ NonExpiring
  /\ revision \in Nat
  /\ sessions \subseteq SignIns
  /\ parent \in [SignIns -> Credentials \cup {None}]
  /\ \A s \in sessions : parent[s] \in Credentials
  /\ overdue \subseteq SignIns
  /\ reserved \in Nat
  /\ shutting \in BOOLEAN
  /\ subscribed \in BOOLEAN
  /\ sign \in [SignIns -> SignStates]
  /\ change \in [Admins -> ChangeStates]
StreamType ==
  /\ stream \in [Streamers -> StreamStates]
  /\ hub \subseteq Streamers
  /\ drain \in {"serving", "draining", "fenced", "closing", "done", "expired"}

(* A sign-in under way has a credential; only a change that notifies has   *)
(* callbacks left; the manager hears of invalidations until it shuts down. *)
Progress ==
  /\ \A x \in SignIns : sign[x].pc \in {"recorded", "reserved", "installed"}
                          => sign[x].cred \in Credentials
  /\ \A a \in Admins : change[a].pc # "notifying" => change[a].pending = {}
  /\ ~subscribed => shutting
  /\ drain \in {"serving", "draining"} \/ shutting

IInv ==
  /\ CoreType /\ StreamType /\ Progress
  /\ SlotsAccounted /\ RevokedHasNoSession /\ NoSessionWhileShutting /\ AuthorityRemains

USE SessionsAssumption DEF authority, table, handlers

\* The two halves of the type invariant.
LEMMA TypeSplit == TypeOK <=> CoreType /\ StreamType
  BY Zenon DEF TypeOK, CoreType, StreamType, SignStates, StreamStates, ChangeStates

\* The steps of the streams and most of those of the shutdown touch nothing
\* of the core.
LEMMA Frame ==
  ASSUME [Next]_vars
  PROVE  \/ /\ UNCHANGED <<authority, table, sign, change>>
            /\ UNCHANGED drain \/ BeginDrain \/ Drained \/ DeadlinePasses
         \/ \E c \in Credentials : Lapse(c)
         \/ \E s \in SignIns : BecomeOverdue(s) \/ CloseUnusable(s) \/ Logout(s)
         \/ \E x \in SignIns : SignStep(x) \/ \E c \in Credentials : Exchange(x, c)
         \/ \E a \in Admins :
              \/ ChangeStep(a) \/ ReadAuthority(a)
              \/ \E c \in Credentials : Revoke(a, c)
              \/ \E c \in Credentials, v \in Credentials \cup {None} : Create(a, c, v)
         \/ ShutdownSessions \/ ShutdownServer
<1>1. ASSUME NEW t \in Streamers, StreamStep(t) PROVE UNCHANGED <<authority, table, sign, change, drain>>
  <2>1. CASE RefuseDraining(t)
    BY <2>1 DEF RefuseDraining, StreamReturns
  <2>2. CASE Admit(t)
    BY <2>2 DEF Admit
  <2>3. CASE SubscribeSession(t)
    BY <2>3 DEF SubscribeSession, StreamReturns
  <2>4. CASE SubscribeHub(t)
    BY <2>4 DEF SubscribeHub, StreamReturns
  <2>5. CASE StreamClosed(t)
    BY <2>5 DEF StreamClosed, StreamReturns
  <2> QED BY <1>1, <2>1, <2>2, <2>3, <2>4, <2>5 DEF StreamStep
<1>3. ASSUME BeginDrain \/ Drained \/ DeadlinePasses
      PROVE  UNCHANGED <<authority, table, sign, change>>
  BY <1>3 DEF BeginDrain, Drained, DeadlinePasses
<1>4. ASSUME NEW t \in Streamers, SessionEnded(t) \/ ClientLeaves(t)
      PROVE  UNCHANGED <<authority, table, sign, change, drain>>
  BY <1>4 DEF SessionEnded, ClientLeaves, StreamReturns
<1>5. ASSUME NEW t \in Streamers, NEW c \in Credentials, OpenByBearer(t, c)
      PROVE  UNCHANGED <<authority, table, sign, change, drain>>
  BY <1>5 DEF OpenByBearer
<1>6. ASSUME NEW t \in Streamers, NEW s \in SignIns, OpenBySession(t, s)
      PROVE  UNCHANGED <<authority, table, sign, change, drain>>
  BY <1>6 DEF OpenBySession
<1>7. CASE UNCHANGED vars
  BY <1>7 DEF vars
<1>8. UNCHANGED <<authority, table, sign, change, drain>>
        <=> UNCHANGED <<authority, table, sign, change>> /\ UNCHANGED drain
  OBVIOUS
<1> QED BY <1>1, <1>3, <1>4, <1>5, <1>6, <1>7, <1>8, Zenon DEF Next, ShutdownStep

\* The constructors of the states of the handlers.
LEMMA StateTypes ==
  /\ \A p \in {"idle", "recorded", "reserved", "installed", "returned"} :
       \A c \in Credentials \cup {None} : SignState(p, c) \in SignStates
  /\ \A p \in {"idle", "authenticated", "admitted", "subscribed", "open", "returned"} :
       \A c \in Credentials \cup {None}, s \in SignIns \cup {None} :
         StreamState(p, c, s) \in StreamStates
  /\ \A p \in {"idle", "rotating", "committed", "notifying", "returned"} :
       \A c \in Credentials \cup {None}, e \in Nat, w \in SUBSET {"sessions", "events"} :
         ChangeState(p, c, e, w) \in ChangeStates
  BY DEF SignState, SignStates, StreamState, StreamStates, ChangeState, ChangeStates

\* A step of a sign-in moves one of them and leaves the rest.
LEMMA SignMoves ==
  ASSUME IInv, NEW x \in SignIns, SignStep(x) \/ \E c \in Credentials : Exchange(x, c)
  PROVE  /\ UNCHANGED <<authority, overdue, shutting, subscribed, change, stream, hub, drain>>
         /\ \E new \in SignStates :
              /\ sign' = [sign EXCEPT ![x] = new]
              /\ new.pc \in {"recorded", "reserved", "installed"} => new.cred \in Credentials
         /\ \/ UNCHANGED <<sessions, parent>>
            \/ sessions' \subseteq sessions /\ parent' = parent
            \/ Install(x)
<1> USE DEF IInv, CoreType, Progress
<1>1. ASSUME NEW c \in Credentials, Exchange(x, c)
      PROVE  sign' = [sign EXCEPT ![x] = SignState("recorded", c)]
             /\ UNCHANGED <<authority, table, change, stream, hub, drain>>
  BY <1>1 DEF Exchange
<1>2. ASSUME NEW p \in {"recorded", "reserved", "installed", "returned"},
             NEW c \in Credentials \cup {None},
             p # "returned" => c \in Credentials,
             sign' = [sign EXCEPT ![x] = SignState(p, c)]
      PROVE  \E new \in SignStates :
               /\ sign' = [sign EXCEPT ![x] = new]
               /\ new.pc \in {"recorded", "reserved", "installed"} => new.cred \in Credentials
  <2>1. SignState(p, c) \in SignStates
    BY <1>2, StateTypes
  <2>2. SignState(p, c).pc = p /\ SignState(p, c).cred = c
    BY DEF SignState
  <2> QED BY <1>2, <2>1, <2>2
<1>3. CASE \E c \in Credentials : Exchange(x, c)
  BY <1>1, <1>2, <1>3
<1>4. CASE Reserve(x)
  BY <1>2, <1>4 DEF Reserve
<1>5. CASE ReserveRefused(x)
  BY <1>2, <1>5 DEF ReserveRefused
<1>6. CASE Install(x)
  BY <1>2, <1>6 DEF Install
<1>7. CASE ReleaseReservation(x)
  BY <1>2, <1>7 DEF ReleaseReservation
<1>8. CASE FinishExchange(x)
  BY <1>2, <1>8 DEF FinishExchange, CloseSessions
<1> QED BY <1>3, <1>4, <1>5, <1>6, <1>7, <1>8 DEF SignStep

\* A change of credentials moves one change and leaves the sign-ins; what it
\* does to the credentials and to the sessions.
LEMMA ChangeMoves ==
  ASSUME IInv, NEW a \in Admins,
         \/ ChangeStep(a) \/ ReadAuthority(a)
         \/ \E c \in Credentials : Revoke(a, c)
         \/ \E c \in Credentials, v \in Credentials \cup {None} : Create(a, c, v)
  PROVE  /\ UNCHANGED <<lapsed, parent, overdue, reserved, shutting, subscribed, sign, drain>>
         /\ revision' \in Nat
         /\ \E new \in ChangeStates :
              /\ change' = [change EXCEPT ![a] = new]
              /\ new.pc # "notifying" => new.pending = {}
<1> USE DEF IInv, CoreType, Progress
<1>0. ASSUME NEW p \in {"idle", "rotating", "committed", "notifying", "returned"},
             NEW c \in Credentials \cup {None}, NEW e \in Nat,
             NEW w \in SUBSET {"sessions", "events"},
             p # "notifying" => w = {},
             change' = [change EXCEPT ![a] = ChangeState(p, c, e, w)]
      PROVE  \E new \in ChangeStates :
               /\ change' = [change EXCEPT ![a] = new]
               /\ new.pc # "notifying" => new.pending = {}
  <2>1. ChangeState(p, c, e, w) \in ChangeStates
    BY StateTypes
  <2>2. ChangeState(p, c, e, w).pc = p /\ ChangeState(p, c, e, w).pending = w
    BY DEF ChangeState
  <2> QED BY <1>0, <2>1, <2>2
<1>a. /\ change[a].pc \in {"idle", "rotating", "committed", "notifying", "returned"}
      /\ change[a].cred \in Credentials \cup {None}
      /\ change[a].pending \in SUBSET {"sessions", "events"}
  BY DEF ChangeStates
<1>1. ASSUME NEW c \in Credentials, NEW d \in Credentials, CompleteRotation(a, c, d)
      PROVE  /\ change' = [change EXCEPT ![a] = ChangeState("committed", c, 0, {})]
             /\ revision' = revision + 1
             /\ UNCHANGED <<lapsed, table, sign, stream, hub, drain>>
  BY <1>1 DEF CompleteRotation, Committed
<1>2. CASE \E c, d \in Credentials : CompleteRotation(a, c, d)
  BY <1>0, <1>1, <1>2
<1>3. CASE ChangeRefused(a)
  BY <1>0, <1>3 DEF ChangeRefused
<1>4. CASE CopyCallbacks(a)
  <2>1. {"events"} \cup (IF subscribed THEN {"sessions"} ELSE {}) \in SUBSET {"sessions", "events"}
    OBVIOUS
  <2> QED BY <1>0, <1>a, <1>4, <2>1 DEF CopyCallbacks
<1>5. CASE InvalidateSessions(a)
  <2>1. change' = [change EXCEPT ![a] = ChangeState("notifying", change[a].cred, 0,
                                                    change[a].pending \ {"sessions"})]
    BY <1>5 DEF InvalidateSessions, Notified
  <2>2. change[a].pending \ {"sessions"} \in SUBSET {"sessions", "events"}
    BY <1>a
  <2>3. UNCHANGED <<authority, parent, overdue, reserved, shutting, subscribed, sign, drain>>
    BY <1>5 DEF InvalidateSessions
  <2> QED BY <1>0, <1>a, <2>1, <2>2, <2>3
<1>6. CASE InvalidateStreams(a)
  <2>1. change' = [change EXCEPT ![a] = ChangeState("notifying", change[a].cred, 0,
                                                    change[a].pending \ {"events"})]
    BY <1>6 DEF InvalidateStreams, Notified
  <2>2. change[a].pending \ {"events"} \in SUBSET {"sessions", "events"}
    BY <1>a
  <2>3. UNCHANGED <<authority, table, sign, drain>>
    BY <1>6 DEF InvalidateStreams
  <2> QED BY <1>0, <1>a, <2>1, <2>2, <2>3
<1>7. CASE ChangeReturns(a)
  BY <1>0, <1>7 DEF ChangeReturns
<1>8. CASE ReadAuthority(a)
  BY <1>0, <1>8 DEF ReadAuthority
<1>9. ASSUME NEW c \in Credentials, Revoke(a, c)
      PROVE  /\ change' = [change EXCEPT ![a] = ChangeState("committed", c, 0, {})]
             /\ revision' = revision + 1
             /\ UNCHANGED <<lapsed, table, sign, stream, hub, drain>>
  BY <1>9, Zenon DEF Revoke, Committed
<1>10. CASE \E c \in Credentials : Revoke(a, c)
  <2>1. PICK c \in Credentials : Revoke(a, c)
    BY <1>10
  <2>2. /\ change' = [change EXCEPT ![a] = ChangeState("committed", c, 0, {})]
        /\ revision' = revision + 1
        /\ UNCHANGED <<lapsed, table, sign, stream, hub, drain>>
    BY <1>9, <2>1
  <2>3. \E new \in ChangeStates :
          /\ change' = [change EXCEPT ![a] = new]
          /\ new.pc # "notifying" => new.pending = {}
    BY <1>0, <2>2
  <2>4. /\ UNCHANGED <<lapsed, parent, overdue, reserved, shutting, subscribed, sign, drain>>
        /\ revision' \in Nat
    BY <2>2
  <2> QED BY <2>3, <2>4
<1>11. ASSUME NEW c \in Credentials, NEW v \in Credentials \cup {None}, Create(a, c, v)
       PROVE  /\ \E e \in Nat : change' = [change EXCEPT ![a] =
                                ChangeState(change[a].pc, None, e, {})]
              /\ revision' = revision + 1
              /\ UNCHANGED <<lapsed, table, sign, stream, hub, drain>>
  <2>1. /\ change' = [change EXCEPT ![a] = ChangeState(change[a].pc, None,
                         IF change[a].pc = "rotating" THEN revision' ELSE 0, {})]
        /\ revision' = revision + 1
        /\ UNCHANGED <<lapsed, table, sign, stream, hub, drain>>
    BY <1>11, Zenon DEF Create
  <2>2. (IF change[a].pc = "rotating" THEN revision' ELSE 0) \in Nat
    BY <2>1
  <2> QED BY <2>1, <2>2, Zenon
<1>12. CASE \E c \in Credentials, v \in Credentials \cup {None} : Create(a, c, v)
  <2>1. PICK e \in Nat : change' = [change EXCEPT ![a] = ChangeState(change[a].pc, None, e, {})]
    BY <1>11, <1>12
  <2>2. UNCHANGED <<lapsed, table, sign, stream, hub, drain>> /\ revision' = revision + 1
    BY <1>11, <1>12
  <2>3. \E new \in ChangeStates :
          /\ change' = [change EXCEPT ![a] = new]
          /\ new.pc # "notifying" => new.pending = {}
    BY <1>0, <1>a, <2>1
  <2>4. /\ UNCHANGED <<lapsed, parent, overdue, reserved, shutting, subscribed, sign, drain>>
        /\ revision' \in Nat
    BY <2>2
  <2> QED BY <2>3, <2>4
<1> QED BY <1>2, <1>3, <1>4, <1>5, <1>6, <1>7, <1>8, <1>10, <1>12 DEF ChangeStep

\* What a change of credentials does to the sessions and to the credentials.
LEMMA ChangeEffects ==
  ASSUME IInv, NEW a \in Admins,
         \/ ChangeStep(a) \/ ReadAuthority(a)
         \/ \E c \in Credentials : Revoke(a, c)
         \/ \E c \in Credentials, v \in Credentials \cup {None} : Create(a, c, v)
  PROVE  /\ sessions' \subseteq sessions
         /\ cred' \in [Credentials -> {"absent", "active", "revoked", "pruned"}]
         /\ AuthorityRemains'
<1> USE DEF IInv, CoreType, AuthorityRemains
<1>1. ASSUME NEW c \in Credentials, NEW d \in Credentials, CompleteRotation(a, c, d)
      PROVE  /\ UNCHANGED sessions
             /\ cred' = [cred EXCEPT ![c] = "revoked"]
             /\ d # c /\ d \in NonExpiring /\ cred[d] = "active"
  BY <1>1 DEF CompleteRotation, Valid
<1>2. CASE \E c, d \in Credentials : CompleteRotation(a, c, d)
  BY <1>1, <1>2
<1>3. ASSUME NEW c \in Credentials, Revoke(a, c)
      PROVE  /\ UNCHANGED sessions
             /\ cred' = [cred EXCEPT ![c] = "revoked"]
             /\ \E d \in NonExpiring : d # c /\ cred[d] = "active"
  <2>1. UNCHANGED sessions /\ cred' = [cred EXCEPT ![c] = "revoked"] /\ MayRevoke(c)
    BY <1>3 DEF Revoke
  <2>2. CASE c \in NonExpiring
    BY <2>1, <2>2 DEF MayRevoke
  <2>3. CASE c \notin NonExpiring
    BY <2>1, <2>3
  <2> QED BY <2>1, <2>2, <2>3
<1>4. CASE \E c \in Credentials : Revoke(a, c)
  BY <1>3, <1>4
<1>5. ASSUME NEW c \in Credentials, NEW v \in Credentials \cup {None}, Create(a, c, v)
      PROVE  /\ UNCHANGED sessions
             /\ \/ cred' = [cred EXCEPT ![c] = "active"]
                \/ /\ v \in Credentials /\ Terminal(v)
                   /\ cred' = [cred EXCEPT ![c] = "active", ![v] = "pruned"]
  BY <1>5 DEF Create
<1>6. CASE \E c \in Credentials, v \in Credentials \cup {None} : Create(a, c, v)
  <2>1. PICK c \in Credentials, v \in Credentials \cup {None} : Create(a, c, v)
    BY <1>6
  <2>2. CASE cred' = [cred EXCEPT ![c] = "active"]
    BY <1>5, <2>1, <2>2
  <2>3. CASE /\ v \in Credentials /\ Terminal(v)
             /\ cred' = [cred EXCEPT ![c] = "active", ![v] = "pruned"]
    <3>1. ASSUME NEW d \in NonExpiring, cred[d] = "active" PROVE d # v
      BY <2>3, <3>1 DEF Terminal
    <3>2. ASSUME NEW d \in NonExpiring, cred[d] = "active" PROVE cred'[d] = "active"
      BY <2>3, <3>1, <3>2
    <3> QED BY <1>5, <2>1, <2>3, <3>2
  <2> QED BY <1>5, <2>1, <2>2, <2>3
<1>7. CASE \/ ChangeRefused(a) \/ CopyCallbacks(a) \/ InvalidateSessions(a)
          \/ InvalidateStreams(a) \/ ChangeReturns(a) \/ ReadAuthority(a)
  <2>1. UNCHANGED cred /\ sessions' \subseteq sessions
    BY <1>7 DEF ChangeRefused, CopyCallbacks, InvalidateSessions, InvalidateStreams,
                ChangeReturns, ReadAuthority, CloseSessions
  <2> QED BY <2>1
<1> QED BY <1>2, <1>4, <1>6, <1>7 DEF ChangeStep

\* The sign-ins that hold a reservation.
Holders == {x \in SignIns : sign[x].pc = "reserved"}

\* How a move of one sign-in changes the set of holders.
LEMMA HoldersMove ==
  ASSUME CoreType, NEW x \in SignIns, NEW new \in SignStates,
         sign' = [sign EXCEPT ![x] = new]
  PROVE  /\ new.pc = "reserved" => Holders' = Holders \cup {x}
         /\ new.pc # "reserved" => Holders' = Holders \ {x}
<1>1. \A y \in SignIns : sign'[y] = IF y = x THEN new ELSE sign[y]
  BY DEF CoreType
<1> QED BY <1>1 DEF Holders

\* The holders and the sessions are finite, so their number can be counted.
LEMMA Counting ==
  ASSUME CoreType
  PROVE  /\ IsFiniteSet(Holders) /\ IsFiniteSet(sessions)
         /\ Cardinality(Holders) \in Nat /\ Cardinality(sessions) \in Nat
         /\ \A x \in SignIns : x \notin Holders
              => Cardinality(Holders \cup {x}) = Cardinality(Holders) + 1
         /\ \A x \in Holders : Cardinality(Holders \ {x}) = Cardinality(Holders) - 1
         /\ \A x \in SignIns : Cardinality(sessions \cup {x}) <= Cardinality(sessions) + 1
         /\ \A S \in SUBSET sessions : Cardinality(S) <= Cardinality(sessions)
<1>1. Holders \subseteq SignIns /\ sessions \subseteq SignIns
  BY DEF Holders, CoreType
<1> HIDE DEF Holders
<1>2. IsFiniteSet(Holders) /\ IsFiniteSet(sessions)
  BY <1>1, FS_Subset
<1>3. Cardinality(Holders) \in Nat /\ Cardinality(sessions) \in Nat
  BY <1>2, FS_CardinalityType
<1>4. ASSUME NEW x \in SignIns
      PROVE  /\ x \notin Holders => Cardinality(Holders \cup {x}) = Cardinality(Holders) + 1
             /\ Cardinality(sessions \cup {x}) <= Cardinality(sessions) + 1
  <2>1. Cardinality(Holders \cup {x}) =
          IF x \in Holders THEN Cardinality(Holders) ELSE Cardinality(Holders) + 1
    BY <1>2, FS_AddElement
  <2>2. Cardinality(sessions \cup {x}) =
          IF x \in sessions THEN Cardinality(sessions) ELSE Cardinality(sessions) + 1
    BY <1>2, FS_AddElement
  <2> QED BY <1>3, <2>1, <2>2
<1>5. \A x \in Holders : Cardinality(Holders \ {x}) = Cardinality(Holders) - 1
  BY <1>2, FS_RemoveElement
<1>6. \A S \in SUBSET sessions : Cardinality(S) <= Cardinality(sessions)
  BY <1>2, FS_Subset
<1> QED BY <1>2, <1>3, <1>4, <1>5, <1>6

\* A step of a sign-in keeps the account of the slots.
LEMMA SlotsBySign ==
  ASSUME IInv, NEW x \in SignIns, SignStep(x) \/ \E c \in Credentials : Exchange(x, c)
  PROVE  reserved' \in Nat /\ SlotsAccounted'
<1> USE DEF SlotsAccounted
<1>0. CoreType /\ reserved = Cardinality(Holders)
      /\ Cardinality(sessions) + reserved <= MaxSessions
  BY DEF IInv, Holders
<1>a. SUFFICES /\ reserved' \in Nat
               /\ reserved' = Cardinality(Holders')
               /\ Cardinality(sessions') + reserved' <= MaxSessions
  BY DEF Holders
<1>b. ASSUME NEW p \in {"recorded", "reserved", "installed", "returned"},
             NEW c \in Credentials \cup {None},
             sign' = [sign EXCEPT ![x] = SignState(p, c)]
      PROVE  Holders' = IF p = "reserved" THEN Holders \cup {x} ELSE Holders \ {x}
  <2>1. SignState(p, c) \in SignStates /\ SignState(p, c).pc = p
    BY StateTypes DEF SignState
  <2> QED BY <1>0, <1>b, <2>1, HoldersMove
<1>c. sign[x].cred \in Credentials \cup {None}
  BY <1>0 DEF CoreType, SignStates
<1>d. x \in Holders <=> sign[x].pc = "reserved"
  BY DEF Holders
<1>e. Cardinality(Holders) \in Nat /\ Cardinality(sessions) \in Nat /\ MaxSessions \in Nat
  BY <1>0, Counting
<1>1. CASE \E c \in Credentials : Exchange(x, c)
  <2>1. PICK c \in Credentials : Exchange(x, c)
    BY <1>1
  <2>2. Holders' = Holders \ {x} /\ x \notin Holders /\ UNCHANGED <<reserved, sessions>>
    BY <1>b, <1>d, <2>1 DEF Exchange
  <2>3. Holders' = Holders
    BY <2>2
  <2> QED BY <1>0, <1>e, <2>2, <2>3
<1>2. CASE Reserve(x)
  <2>1. /\ Holders' = Holders \cup {x} /\ x \notin Holders
        /\ reserved' = reserved + 1 /\ UNCHANGED sessions
        /\ Cardinality(sessions) + reserved < MaxSessions
    BY <1>b, <1>c, <1>d, <1>2 DEF Reserve, CanReserve
  <2>2. Cardinality(Holders') = Cardinality(Holders) + 1
    BY <1>0, <2>1, Counting
  <2> QED BY <1>0, <1>e, <2>1, <2>2
<1>3. CASE ReserveRefused(x) \/ FinishExchange(x)
  <2>1. /\ Holders' = Holders \ {x} /\ x \notin Holders
        /\ UNCHANGED reserved /\ sessions' \subseteq sessions
    BY <1>b, <1>d, <1>3 DEF ReserveRefused, FinishExchange, CloseSessions
  <2>2. Holders' = Holders
    BY <2>1
  <2>3. Cardinality(sessions') <= Cardinality(sessions) /\ Cardinality(sessions') \in Nat
    BY <1>0, <2>1, Counting, FS_Subset, FS_CardinalityType
  <2> QED BY <1>0, <1>e, <2>1, <2>2, <2>3
<1>4. CASE Install(x)
  <2>1. /\ Holders' = Holders \ {x} /\ x \in Holders
        /\ reserved' = reserved - 1 /\ sessions' = sessions \cup {x}
    BY <1>b, <1>c, <1>d, <1>4 DEF Install
  <2>2. Cardinality(Holders') = Cardinality(Holders) - 1
    BY <1>0, <2>1, Counting
  <2>3. Cardinality(sessions') <= Cardinality(sessions) + 1 /\ Cardinality(sessions') \in Nat
    BY <1>0, <2>1, Counting, FS_AddElement, FS_CardinalityType
  <2>4. Cardinality(Holders') \in Nat
    BY <1>0, <2>1, Counting, FS_RemoveElement, FS_CardinalityType
  <2> QED BY <1>0, <1>e, <2>1, <2>2, <2>3, <2>4
<1>5. CASE ReleaseReservation(x)
  <2>1. /\ Holders' = Holders \ {x} /\ x \in Holders
        /\ reserved' = reserved - 1 /\ UNCHANGED sessions
    BY <1>b, <1>d, <1>5 DEF ReleaseReservation
  <2>2. Cardinality(Holders') = Cardinality(Holders) - 1
    BY <1>0, <2>1, Counting
  <2>4. Cardinality(Holders') \in Nat
    BY <1>0, <2>1, Counting, FS_RemoveElement, FS_CardinalityType
  <2> QED BY <1>0, <1>e, <2>1, <2>2, <2>4
<1> QED BY <1>1, <1>2, <1>3, <1>4, <1>5 DEF SignStep

\* Every other step keeps it too.
LEMMA SlotsKept ==
  ASSUME IInv, UNCHANGED <<sign, reserved>>, sessions' \subseteq sessions
  PROVE  reserved' \in Nat /\ SlotsAccounted'
<1>1. CoreType /\ SlotsAccounted
  BY DEF IInv
<1>2. Cardinality(sessions') <= Cardinality(sessions) /\ Cardinality(sessions) \in Nat
      /\ Cardinality(sessions') \in Nat
  BY <1>1, Counting, FS_Subset, FS_CardinalityType
<1>3. reserved \in Nat
  BY <1>1 DEF CoreType
<1> QED BY <1>1, <1>2, <1>3 DEF SlotsAccounted

\* A change that will still close the sessions of credential c.
Announces(a, c) ==
  change[a].cred = c /\ (change[a].pc = "committed" \/ "sessions" \in change[a].pending)

\* A revocation is announced until the sessions of its credential are gone.
LEMMA RevokedByChange ==
  ASSUME IInv, NEW a \in Admins,
         \/ ChangeStep(a) \/ ReadAuthority(a)
         \/ \E c \in Credentials : Revoke(a, c)
         \/ \E c \in Credentials, v \in Credentials \cup {None} : Create(a, c, v)
  PROVE  RevokedHasNoSession'
<1>0. /\ CoreType /\ Progress /\ NoSessionWhileShutting
      /\ \A s \in sessions : cred[parent[s]] = "revoked" => \E b \in Admins : Announces(b, parent[s])
  BY DEF IInv, RevokedHasNoSession, Announces
<1>a. UNCHANGED parent /\ sessions' \subseteq sessions
  BY ChangeMoves, ChangeEffects
<1>b. PICK new \in ChangeStates : change' = [change EXCEPT ![a] = new]
  BY ChangeMoves
<1>c. SUFFICES ASSUME NEW s \in sessions', cred'[parent[s]] = "revoked"
               PROVE  \E b \in Admins : Announces(b, parent[s])'
  BY <1>a DEF RevokedHasNoSession, Announces
<1>d. s \in sessions /\ parent[s] \in Credentials
  BY <1>0, <1>a DEF CoreType
<1>e. change'[a] = new /\ a \in Admins
  BY <1>0, <1>b DEF CoreType
<1>f. change[a].pc \in {"idle", "rotating", "returned"} => ~Announces(a, parent[s])
  BY <1>0 DEF Announces, Progress
<1>g. ASSUME cred[parent[s]] = "revoked", ~Announces(a, parent[s])
      PROVE  \E b \in Admins : Announces(b, parent[s])'
  <2>1. PICK b \in Admins : Announces(b, parent[s])
    BY <1>0, <1>d, <1>g
  <2>2. b # a
    BY <1>g, <2>1
  <2>3. change'[b] = change[b]
    BY <1>0, <1>b, <2>2 DEF CoreType
  <2>4. Announces(b, parent[s])'
    BY <1>a, <2>1, <2>3 DEF Announces
  <2> QED BY <2>4
<1>1. ASSUME NEW c \in Credentials,
             /\ change[a].pc \in {"idle", "rotating"}
             /\ cred' = [cred EXCEPT ![c] = "revoked"]
             /\ Committed(a, c)
      PROVE  \E b \in Admins : Announces(b, parent[s])'
  <2>1. CASE parent[s] = c
    <3>1. change'[a] = ChangeState("committed", c, 0, {})
      BY <1>0, <1>1 DEF Committed, CoreType
    <3>2. change'[a].cred = c /\ change'[a].pc = "committed"
      BY <3>1 DEF ChangeState
    <3> QED BY <1>a, <2>1, <3>2 DEF Announces
  <2>2. CASE parent[s] # c
    <3>1. cred[parent[s]] = "revoked"
      BY <1>0, <1>1, <1>c, <1>d, <2>2 DEF CoreType
    <3> QED BY <1>f, <1>g, <1>1, <3>1
  <2> QED BY <2>1, <2>2
<1>2. CASE \E c, d \in Credentials : CompleteRotation(a, c, d)
  <2>1. PICK c \in Credentials, d \in Credentials : CompleteRotation(a, c, d)
    BY <1>2
  <2> QED BY <1>1, <2>1 DEF CompleteRotation
<1>3. CASE \E c \in Credentials : Revoke(a, c)
  <2>1. PICK c \in Credentials : Revoke(a, c)
    BY <1>3
  <2>2. change[a].pc = "idle" /\ cred' = [cred EXCEPT ![c] = "revoked"] /\ Committed(a, c)
    BY <2>1 DEF Revoke
  <2> QED BY <1>1, <2>2
<1>4. CASE \E c \in Credentials, v \in Credentials \cup {None} : Create(a, c, v)
  <2>1. PICK c \in Credentials, v \in Credentials \cup {None} : Create(a, c, v)
    BY <1>4
  <2>2. /\ change[a].pc \in {"idle", "rotating"}
        /\ \/ cred' = [cred EXCEPT ![c] = "active"]
           \/ cred' = [cred EXCEPT ![c] = "active", ![v] = "pruned"]
    BY <2>1 DEF Create
  <2>3. cred[parent[s]] = "revoked"
    BY <1>0, <1>c, <1>d, <2>2 DEF CoreType
  <2> QED BY <1>f, <1>g, <2>2, <2>3
<1>5. CASE ChangeRefused(a) \/ ReadAuthority(a)
  <2>1. change[a].pc \in {"idle", "rotating"} /\ UNCHANGED cred
    BY <1>5 DEF ChangeRefused, ReadAuthority
  <2> QED BY <1>c, <1>f, <1>g, <2>1
<1>6. CASE ChangeReturns(a)
  <2>1. change[a].pc = "notifying" /\ change[a].pending = {} /\ UNCHANGED cred
    BY <1>6 DEF ChangeReturns
  <2>2. ~Announces(a, parent[s])
    BY <2>1 DEF Announces
  <2> QED BY <1>c, <1>g, <2>1, <2>2
<1>7. CASE CopyCallbacks(a)
  <2>1. /\ UNCHANGED cred
        /\ change' = [change EXCEPT ![a] = ChangeState("notifying", change[a].cred, 0,
                          {"events"} \cup (IF subscribed THEN {"sessions"} ELSE {}))]
    BY <1>7 DEF CopyCallbacks
  <2>2. subscribed
    BY <1>0, <1>d DEF Progress, NoSessionWhileShutting
  <2>3. change'[a] = ChangeState("notifying", change[a].cred, 0, {"events", "sessions"})
    <3>1. {"events"} \cup (IF subscribed THEN {"sessions"} ELSE {}) = {"events", "sessions"}
      BY <2>2
    <3> QED BY <1>0, <2>1, <3>1 DEF CoreType
  <2>4. change'[a].cred = change[a].cred /\ change'[a].pending = {"events", "sessions"}
    BY <2>3 DEF ChangeState
  <2>5. Announces(a, parent[s]) => Announces(a, parent[s])'
    BY <1>a, <2>4 DEF Announces
  <2> QED BY <1>c, <1>g, <2>1, <2>5
<1>8. CASE InvalidateSessions(a)
  <2>1. UNCHANGED cred /\ parent[s] # change[a].cred
    BY <1>8, <1>d DEF InvalidateSessions, CloseSessions
  <2>2. ~Announces(a, parent[s])
    BY <2>1 DEF Announces
  <2> QED BY <1>c, <1>g, <2>1, <2>2
<1>9. CASE InvalidateStreams(a)
  <2>1. /\ UNCHANGED cred
        /\ "events" \in change[a].pending
        /\ change' = [change EXCEPT ![a] = ChangeState("notifying", change[a].cred, 0,
                                                       change[a].pending \ {"events"})]
    BY <1>9 DEF InvalidateStreams, Notified
  <2>2. change'[a] = ChangeState("notifying", change[a].cred, 0, change[a].pending \ {"events"})
    BY <1>0, <2>1 DEF CoreType
  <2>3. change'[a].cred = change[a].cred /\ change'[a].pending = change[a].pending \ {"events"}
    BY <2>2 DEF ChangeState
  <2>4. change[a].pc # "committed"
    BY <1>0, <2>1 DEF Progress
  <2>5. Announces(a, parent[s]) => Announces(a, parent[s])'
    BY <1>a, <2>3, <2>4 DEF Announces
  <2> QED BY <1>c, <1>g, <2>1, <2>5
<1> QED BY <1>2, <1>3, <1>4, <1>5, <1>6, <1>7, <1>8, <1>9 DEF ChangeStep

\* The requests for a stream keep their types, and the shutdown of the process
\* has shut the session manager down before it goes past it.
LEMMA StreamTypeKept ==
  ASSUME IInv, [Next]_vars
  PROVE  StreamType'
<1> USE DEF StreamType
<1>0. StreamType /\ parent \in [SignIns -> Credentials \cup {None}]
  BY DEF IInv, CoreType
<1>a. ASSUME NEW t \in Streamers,
             NEW p \in {"idle", "authenticated", "admitted", "subscribed", "open", "returned"},
             NEW c \in Credentials \cup {None}, NEW s \in SignIns \cup {None},
             stream' = [stream EXCEPT ![t] = StreamState(p, c, s)]
      PROVE  stream' \in [Streamers -> StreamStates]
  BY <1>0, <1>a, StateTypes
<1>b. ASSUME NEW t \in Streamers, StreamReturns(t)
      PROVE  stream' \in [Streamers -> StreamStates] /\ UNCHANGED drain
  BY <1>a, <1>b DEF StreamReturns
<1>c. \A t \in Streamers : /\ stream[t].cred \in Credentials \cup {None}
                           /\ stream[t].session \in SignIns \cup {None}
  BY <1>0 DEF StreamStates
<1>1. ASSUME NEW t \in Streamers, StreamStep(t)
      PROVE  StreamType'
  <2>1. CASE RefuseDraining(t) \/ StreamClosed(t)
    BY <1>0, <1>b, <2>1 DEF RefuseDraining, StreamClosed
  <2>2. CASE Admit(t)
    BY <1>0, <1>a, <1>c, <2>2 DEF Admit
  <2>3. CASE SubscribeSession(t)
    BY <1>0, <1>a, <1>b, <1>c, <2>3 DEF SubscribeSession
  <2>4. CASE SubscribeHub(t)
    BY <1>0, <1>a, <1>b, <1>c, <2>4 DEF SubscribeHub
  <2> QED BY <1>1, <2>1, <2>2, <2>3, <2>4 DEF StreamStep
<1>2. ASSUME NEW t \in Streamers, SessionEnded(t) \/ ClientLeaves(t)
      PROVE  StreamType'
  BY <1>0, <1>b, <1>2 DEF SessionEnded, ClientLeaves
<1>3. ASSUME NEW t \in Streamers, NEW c \in Credentials, OpenByBearer(t, c)
      PROVE  StreamType'
  BY <1>0, <1>a, <1>3 DEF OpenByBearer
<1>4. ASSUME NEW t \in Streamers, NEW s \in SignIns, OpenBySession(t, s)
      PROVE  StreamType'
  <2>1. parent[s] \in Credentials \cup {None}
    BY <1>0
  <2> QED BY <1>0, <1>a, <1>4, <2>1 DEF OpenBySession
<1>5. ASSUME BeginDrain \/ ShutdownStep
      PROVE  StreamType'
  BY <1>0, <1>5 DEF BeginDrain, ShutdownStep, ShutdownSessions, ShutdownServer, Drained,
                    DeadlinePasses
<1>6. ASSUME NEW x \in SignIns, SignStep(x) \/ \E c \in Credentials : Exchange(x, c)
      PROVE  StreamType'
  BY <1>0, <1>6, SignMoves
<1>7. ASSUME NEW a \in Admins,
             \/ ChangeStep(a) \/ ReadAuthority(a)
             \/ \E c \in Credentials : Revoke(a, c)
             \/ \E c \in Credentials, v \in Credentials \cup {None} : Create(a, c, v)
      PROVE  StreamType'
  <2>1. UNCHANGED drain
    BY <1>7, ChangeMoves
  <2>2. UNCHANGED stream /\ hub' \subseteq hub
    <3>1. CASE \E c, d \in Credentials : CompleteRotation(a, c, d)
      BY <3>1 DEF CompleteRotation
    <3>2. CASE \E c \in Credentials : Revoke(a, c)
      BY <3>2 DEF Revoke
    <3>3. CASE \E c \in Credentials, v \in Credentials \cup {None} : Create(a, c, v)
      BY <3>3 DEF Create
    <3>4. CASE \/ ChangeRefused(a) \/ CopyCallbacks(a) \/ InvalidateSessions(a)
              \/ InvalidateStreams(a) \/ ChangeReturns(a) \/ ReadAuthority(a)
      BY <3>4 DEF ChangeRefused, CopyCallbacks, InvalidateSessions, InvalidateStreams,
                  ChangeReturns, ReadAuthority
    <3> QED BY <1>7, <3>1, <3>2, <3>3, <3>4 DEF ChangeStep
  <2> QED BY <1>0, <2>1, <2>2
<1>8. ASSUME \/ \E c \in Credentials : Lapse(c)
             \/ \E s \in SignIns : BecomeOverdue(s) \/ CloseUnusable(s) \/ Logout(s)
      PROVE  StreamType'
  BY <1>0, <1>8 DEF Lapse, BecomeOverdue, CloseUnusable, Logout
<1>9. CASE UNCHANGED vars
  BY <1>0, <1>9 DEF vars
<1> QED BY <1>1, <1>2, <1>3, <1>4, <1>5, <1>6, <1>7, <1>8, <1>9, Zenon DEF Next

\* Every conjunct of the invariant that does not speak of streams is preserved.
Core ==
  /\ CoreType /\ Progress
  /\ SlotsAccounted /\ RevokedHasNoSession /\ NoSessionWhileShutting /\ AuthorityRemains

LEMMA CoreKept ==
  ASSUME IInv, [Next]_vars
  PROVE  Core'
<1>0. Core /\ StreamType
  BY DEF IInv, Core
<1>1. CASE /\ UNCHANGED <<authority, table, sign, change>>
           /\ UNCHANGED drain \/ BeginDrain \/ Drained \/ DeadlinePasses
  <2>1. drain' \in {"serving", "draining"} \/ shutting'
    BY <1>0, <1>1 DEF Core, Progress, BeginDrain, Drained, DeadlinePasses
  <2>2. Progress'
    BY <1>0, <1>1, <2>1 DEF Core, Progress
  <2>3. CoreType' /\ SlotsAccounted' /\ NoSessionWhileShutting' /\ AuthorityRemains'
    BY <1>0, <1>1 DEF Core, CoreType, SlotsAccounted, NoSessionWhileShutting, AuthorityRemains
  <2>4. RevokedHasNoSession'
    BY <1>0, <1>1 DEF Core, RevokedHasNoSession
  <2> QED BY <2>2, <2>3, <2>4 DEF Core
<1>2. CASE \/ \E c \in Credentials : Lapse(c)
          \/ \E s \in SignIns : BecomeOverdue(s) \/ CloseUnusable(s) \/ Logout(s)
  <2>1. /\ UNCHANGED <<cred, revision, parent, reserved, shutting, subscribed, sign, change, drain>>
        /\ sessions' \subseteq sessions
        /\ lapsed' \subseteq Credentials \ NonExpiring
        /\ overdue' \subseteq SignIns
    BY <1>0, <1>2 DEF Core, CoreType, Lapse, BecomeOverdue, CloseUnusable, Logout, CloseSessions
  <2>2. reserved' \in Nat /\ SlotsAccounted'
    BY <2>1, SlotsKept
  <2>3. CoreType'
    BY <1>0, <2>1, <2>2 DEF Core, CoreType
  <2>4. Progress' /\ NoSessionWhileShutting' /\ AuthorityRemains'
    BY <1>0, <2>1 DEF Core, Progress, NoSessionWhileShutting, AuthorityRemains
  <2>5. RevokedHasNoSession'
    BY <1>0, <2>1 DEF Core, RevokedHasNoSession
  <2> QED BY <2>2, <2>3, <2>4, <2>5 DEF Core
<1>3. ASSUME NEW x \in SignIns, SignStep(x) \/ \E c \in Credentials : Exchange(x, c)
      PROVE  Core'
  <2>1. UNCHANGED <<authority, overdue, shutting, subscribed, change, drain>>
    BY <1>3, SignMoves
  <2>2. PICK new \in SignStates :
          /\ sign' = [sign EXCEPT ![x] = new]
          /\ new.pc \in {"recorded", "reserved", "installed"} => new.cred \in Credentials
    BY <1>3, SignMoves
  <2>3. reserved' \in Nat /\ SlotsAccounted'
    BY <1>3, SlotsBySign
  <2>4. /\ sign' \in [SignIns -> SignStates]
        /\ \A y \in SignIns : sign'[y].pc \in {"recorded", "reserved", "installed"}
                               => sign'[y].cred \in Credentials
    BY <1>0, <2>2 DEF Core, CoreType, Progress
  <2>5. Progress' /\ AuthorityRemains'
    BY <1>0, <2>1, <2>4 DEF Core, Progress, AuthorityRemains
  <2>6. CASE sessions' \subseteq sessions /\ parent' = parent
    <3>1. CoreType' /\ NoSessionWhileShutting'
      BY <1>0, <2>1, <2>3, <2>4, <2>6 DEF Core, CoreType, NoSessionWhileShutting
    <3>2. RevokedHasNoSession'
      BY <1>0, <2>1, <2>6 DEF Core, RevokedHasNoSession
    <3> QED BY <2>3, <2>5, <3>1, <3>2 DEF Core
  <2>7. CASE Install(x)
    <3>1. /\ sessions' = sessions \cup {x}
          /\ parent' = [parent EXCEPT ![x] = sign[x].cred]
          /\ sign[x].pc = "reserved" /\ ~shutting /\ cred[sign[x].cred] = "active"
      BY <2>7 DEF Install, CanInstall, Valid
    <3>2. sign[x].cred \in Credentials
      BY <1>0, <3>1 DEF Core, Progress
    <3>3. \A s \in SignIns : parent'[s] = IF s = x THEN sign[x].cred ELSE parent[s]
      BY <1>0, <3>1 DEF Core, CoreType
    <3>4. CoreType' /\ NoSessionWhileShutting'
      BY <1>0, <2>1, <2>3, <2>4, <3>1, <3>2, <3>3 DEF Core, CoreType, NoSessionWhileShutting
    <3>5. RevokedHasNoSession'
      <4>1. SUFFICES ASSUME NEW s \in sessions', cred[parent'[s]] = "revoked"
                     PROVE  \E a \in Admins :
                              /\ change[a].cred = parent'[s]
                              /\ change[a].pc = "committed" \/ "sessions" \in change[a].pending
        BY <2>1 DEF RevokedHasNoSession
      <4>2. s # x /\ s \in sessions /\ parent'[s] = parent[s]
        BY <1>0, <3>1, <3>3, <4>1 DEF Core, CoreType
      <4> QED BY <1>0, <4>1, <4>2 DEF Core, RevokedHasNoSession
    <3> QED BY <2>3, <2>5, <3>4, <3>5 DEF Core
  <2> QED BY <1>3, <2>6, <2>7, SignMoves
<1>4. ASSUME NEW a \in Admins,
             \/ ChangeStep(a) \/ ReadAuthority(a)
             \/ \E c \in Credentials : Revoke(a, c)
             \/ \E c \in Credentials, v \in Credentials \cup {None} : Create(a, c, v)
      PROVE  Core'
  <2>1. /\ UNCHANGED <<lapsed, parent, overdue, reserved, shutting, subscribed, sign, drain>>
        /\ revision' \in Nat
    BY <1>4, ChangeMoves
  <2>2. PICK new \in ChangeStates :
          /\ change' = [change EXCEPT ![a] = new]
          /\ new.pc # "notifying" => new.pending = {}
    BY <1>4, ChangeMoves
  <2>3. /\ change' \in [Admins -> ChangeStates]
        /\ \A b \in Admins : change'[b].pc # "notifying" => change'[b].pending = {}
    BY <1>0, <2>2 DEF Core, CoreType, Progress
  <2>4. /\ sessions' \subseteq sessions
        /\ cred' \in [Credentials -> {"absent", "active", "revoked", "pruned"}]
        /\ AuthorityRemains'
    BY <1>4, ChangeEffects
  <2>5. reserved' \in Nat /\ SlotsAccounted'
    BY <2>1, <2>4, SlotsKept
  <2>6. CoreType' /\ NoSessionWhileShutting'
    BY <1>0, <2>1, <2>3, <2>4 DEF Core, CoreType, NoSessionWhileShutting
  <2>7. Progress'
    BY <1>0, <2>1, <2>3 DEF Core, Progress
  <2>8. RevokedHasNoSession'
    BY <1>4, RevokedByChange
  <2> QED BY <2>4, <2>5, <2>6, <2>7, <2>8 DEF Core
<1>5. CASE ShutdownSessions \/ ShutdownServer
  <2>1. /\ UNCHANGED <<authority, parent, overdue, reserved, sign, change>>
        /\ sessions' \subseteq sessions
        /\ shutting' /\ subscribed' \in BOOLEAN /\ shutting' \in BOOLEAN
    BY <1>0, <1>5 DEF Core, CoreType, Progress, StreamType, ShutdownSessions, ShutdownServer,
                      CloseSessions
  <2>2. NoSessionWhileShutting'
    BY <1>0, <1>5 DEF Core, Progress, NoSessionWhileShutting, ShutdownSessions, ShutdownServer,
                      CloseSessions
  <2>3. reserved' \in Nat /\ SlotsAccounted'
    BY <2>1, SlotsKept
  <2>4. CoreType' /\ Progress' /\ AuthorityRemains'
    BY <1>0, <2>1 DEF Core, CoreType, Progress, AuthorityRemains
  <2>5. RevokedHasNoSession'
    BY <1>0, <2>1 DEF Core, RevokedHasNoSession
  <2> QED BY <2>2, <2>3, <2>4, <2>5 DEF Core
<1> QED BY <1>1, <1>2, <1>3, <1>4, <1>5, Frame, Zenon

LEMMA InitIInv == Init => IInv
<1> SUFFICES ASSUME Init PROVE IInv
  OBVIOUS
<1>1. CoreType
  BY StateTypes DEF Init, CoreType
<1>2. StreamType
  BY StateTypes DEF Init, StreamType
<1>3. Progress
  BY DEF Init, Progress, SignState, ChangeState
<1>4. SlotsAccounted
  <2>1. {x \in SignIns : sign[x].pc = "reserved"} = {}
    BY DEF Init, SignState
  <2> QED BY <2>1, FS_EmptySet DEF Init, SlotsAccounted
<1>5. RevokedHasNoSession /\ NoSessionWhileShutting
  BY DEF Init, RevokedHasNoSession, NoSessionWhileShutting
<1>6. AuthorityRemains
  BY DEF Init, AuthorityRemains
<1> QED BY <1>1, <1>2, <1>3, <1>4, <1>5, <1>6 DEF IInv

\* The inductive invariant holds in every state the process can reach.
THEOREM SessionsSafety == Spec => []IInv
<1>1. IInv /\ [Next]_vars => IInv'
  BY CoreKept, StreamTypeKept, Zenon DEF IInv, Core
<1> QED BY <1>1, InitIInv, PTL DEF Spec

\* The variables keep their types.
THEOREM SessionsTypeCorrect == Spec => []TypeOK
<1>1. IInv => TypeOK
  BY TypeSplit DEF IInv
<1> QED BY <1>1, SessionsSafety, PTL

\* Reservations are held by exactly the sign-ins between reserve and its end, and
\* sessions and reservations respect the limit (sessions.go:112-156, 329-346).
THEOREM SlotsAreAccounted == Spec => []SlotsAccounted
<1>1. IInv => SlotsAccounted
  BY DEF IInv
<1> QED BY <1>1, SessionsSafety, PTL

\* A revoked credential has a session only while its revocation is still to be
\* announced to the session manager (sessions.go:137-140, 348-356).
THEOREM RevocationEndsSessions == Spec => []RevokedHasNoSession
<1>1. IInv => RevokedHasNoSession
  BY DEF IInv
<1> QED BY <1>1, SessionsSafety, PTL

\* A session manager that has shut down has no session (sessions.go:134-136).
THEOREM ShutdownEndsSessions == Spec => []NoSessionWhileShutting
<1>1. IInv => NoSessionWhileShutting
  BY DEF IInv
<1> QED BY <1>1, SessionsSafety, PTL

\* One active credential that never expires always remains
\* (credentials.go:142-235, 306-371).
THEOREM AuthorityAlwaysRemains == Spec => []AuthorityRemains
<1>1. IInv => AuthorityRemains
  BY DEF IInv
<1> QED BY <1>1, SessionsSafety, PTL
=============================================================================
