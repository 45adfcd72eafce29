---------------------------- MODULE AdminSessions ----------------------------
(***************************************************************************)
(* Administrative authority and what lives from it: administrator          *)
(* credentials (admin/credentials.go), the sessions signed in with them    *)
(* (admin/sessions.go), the event streams opened by a bearer or by a       *)
(* session (api/handler.go, events/hub.go) and the order in which the      *)
(* process shuts them down (cmd/agent-gateway/root.go).                    *)
(*                                                                         *)
(* A transaction and a critical section of manager.mu or hub.mu are one    *)
(* step each; a handler is several.  Session ids are random and never      *)
(* reused, so a session is named by the sign-in that makes it.  Audit      *)
(* records appear as the failures they can cause.  Time appears as two     *)
(* facts: a credential has lapsed, a session is overdue.                   *)
(***************************************************************************)
EXTENDS Naturals, FiniteSets

CONSTANTS
  Credentials,     \* ids of administrator credentials
  NonExpiring,     \* those made without an expiry
  Initial,         \* the credentials of the installation at start-up
  SignIns,         \* bearer-to-session exchanges
  Streamers,       \* requests for the event stream
  Admins,          \* requests that change credentials
  MaxCredentials,  \* admin_credentials
  MaxSessions,     \* admin_sessions
  MaxStreams,      \* event_streams
  None

ASSUME SessionsAssumption ==
  /\ NonExpiring \subseteq Credentials
  /\ Initial \subseteq Credentials
  /\ Initial \cap NonExpiring # {}
  /\ IsFiniteSet(SignIns)
  /\ MaxCredentials \in Nat /\ MaxSessions \in Nat /\ MaxStreams \in Nat
  /\ None \notin Credentials \cup SignIns

VARIABLES
  cred,         \* credential -> absent, active, revoked or pruned
  lapsed,       \* credentials whose expiry has passed
  revision,     \* the authority revision: changes committed so far
  sessions,     \* manager.sessions
  parent,       \* session -> its credential
  overdue,      \* sessions past their idle or absolute bound
  reserved,     \* manager.reserved
  shutting,     \* manager.shutting
  subscribed,   \* the manager hears of credential invalidations
  sign,         \* progress of each sign-in
  stream,       \* progress of each stream request
  hub,          \* hub.streams: the requests whose stream is open
  change,       \* progress of each credential change
  drain         \* progress of the process's shutdown

vars == <<cred, lapsed, revision, sessions, parent, overdue, reserved, shutting,
          subscribed, sign, stream, hub, change, drain>>
authority == <<cred, lapsed, revision>>
table == <<sessions, parent, overdue, reserved, shutting, subscribed>>
handlers == <<sign, stream, change>>

SignState(p, c) == [pc |-> p, cred |-> c]
StreamState(p, c, s) == [pc |-> p, cred |-> c, session |-> s]
ChangeState(p, c, e, w) == [pc |-> p, cred |-> c, expected |-> e, pending |-> w]

Init ==
  /\ cred = [c \in Credentials |-> IF c \in Initial THEN "active" ELSE "absent"]
  /\ lapsed = {}
  /\ revision = 0
  /\ sessions = {}
  /\ parent = [s \in SignIns |-> None]
  /\ overdue = {}
  /\ reserved = 0
  /\ shutting = FALSE
  /\ subscribed = TRUE
  /\ sign = [x \in SignIns |-> SignState("idle", None)]
  /\ stream = [t \in Streamers |-> StreamState("idle", None, None)]
  /\ hub = {}
  /\ change = [a \in Admins |-> ChangeState("idle", None, 0, {})]
  /\ drain = "serving"

(* AuthenticateTx and Get: the record is active and its expiry has not come. *)
Valid(c) == cred[c] = "active" /\ c \notin lapsed

(* The listener takes requests until server.Shutdown. *)
Listening == drain \in {"serving", "draining", "fenced"}

(* closeSession: the slot is free and the done channel closed. *)
CloseSessions(gone) == sessions' = sessions \ gone
-----------------------------------------------------------------------------
(* Time. *)

Lapse(c) ==
  /\ cred[c] = "active"
  /\ c \notin NonExpiring \cup lapsed
  /\ lapsed' = lapsed \cup {c}
  /\ UNCHANGED <<cred, revision, table, handlers, hub, drain>>

BecomeOverdue(s) ==
  /\ s \in sessions \ overdue
  /\ overdue' = overdue \cup {s}
  /\ UNCHANGED <<authority, sessions, parent, reserved, shutting, subscribed,
                 handlers, hub, drain>>
-----------------------------------------------------------------------------
(* Exchange of a bearer for a session. *)

(* Exchange: authenticate, then record the attempt. *)
Exchange(x, c) ==
  /\ Listening
  /\ sign[x].pc = "idle"
  /\ Valid(c)
  /\ sign' = [sign EXCEPT ![x] = SignState("recorded", c)]
  /\ UNCHANGED <<authority, table, stream, change, hub, drain>>

(* exchange: authenticate again and reserve a slot, in one step: a revocation between
   the two is met by the third authentication, in Install. *)
CanReserve(x) ==
  /\ Valid(sign[x].cred)
  /\ ~shutting
  /\ Cardinality(sessions) + reserved < MaxSessions

Reserve(x) ==
  /\ sign[x].pc = "recorded"
  /\ CanReserve(x)
  /\ reserved' = reserved + 1
  /\ sign' = [sign EXCEPT ![x] = SignState("reserved", sign[x].cred)]
  /\ UNCHANGED <<authority, sessions, parent, overdue, shutting, subscribed,
                 stream, change, hub, drain>>

ReserveRefused(x) ==
  /\ sign[x].pc = "recorded"
  /\ ~CanReserve(x)
  /\ sign' = [sign EXCEPT ![x] = SignState("returned", None)]
  /\ UNCHANGED <<authority, table, stream, change, hub, drain>>

\* Mutant: the credential is not authenticated again under the lock.
CanInstallUnchecked(x) == ~shutting

(* Under manager.mu: the credential is authenticated a third time before   *)
(* the session is installed.                                               *)
CanInstall(x) == ~shutting /\ Valid(sign[x].cred)

Install(x) ==
  /\ sign[x].pc = "reserved"
  /\ CanInstall(x)
  /\ sessions' = sessions \cup {x}
  /\ parent' = [parent EXCEPT ![x] = sign[x].cred]
  /\ reserved' = reserved - 1
  /\ sign' = [sign EXCEPT ![x] = SignState("installed", sign[x].cred)]
  /\ UNCHANGED <<authority, overdue, shutting, subscribed, stream, change, hub, drain>>

(* The deferred release of the reservation, when the session could not be  *)
(* installed or entropy failed before.                                     *)
ReleaseReservation(x) ==
  /\ sign[x].pc = "reserved"
  /\ reserved' = reserved - 1
  /\ sign' = [sign EXCEPT ![x] = SignState("returned", None)]
  /\ UNCHANGED <<authority, sessions, parent, overdue, shutting, subscribed,
                 stream, change, hub, drain>>

(* The outcome is recorded; if that fails the session is logged out. *)
FinishExchange(x) ==
  /\ sign[x].pc = "installed"
  /\ CloseSessions({}) \/ CloseSessions({x})
  /\ sign' = [sign EXCEPT ![x] = SignState("returned", None)]
  /\ UNCHANGED <<authority, parent, overdue, reserved, shutting, subscribed,
                 stream, change, hub, drain>>
-----------------------------------------------------------------------------
(* Use of a session. *)

(* Authenticate and Bootstrap refuse a session that is overdue or whose    *)
(* credential is not active, and close it.                                 *)
Usable(s) == s \in sessions /\ ~shutting /\ s \notin overdue /\ Valid(parent[s])

CloseUnusable(s) ==
  /\ s \in sessions
  /\ ~shutting
  /\ ~Usable(s)
  /\ CloseSessions({s})
  /\ UNCHANGED <<authority, parent, overdue, reserved, shutting, subscribed,
                 handlers, hub, drain>>

(* Logout; its caller was authenticated earlier. *)
Logout(s) ==
  /\ s \in sessions
  /\ CloseSessions({s})
  /\ UNCHANGED <<authority, parent, overdue, reserved, shutting, subscribed,
                 handlers, hub, drain>>
-----------------------------------------------------------------------------
(* The event stream of a bearer or of a session. *)

OpenByBearer(t, c) ==
  /\ Listening
  /\ stream[t].pc = "idle"
  /\ Valid(c)
  /\ stream' = [stream EXCEPT ![t] = StreamState("authenticated", c, None)]
  /\ UNCHANGED <<authority, table, sign, change, hub, drain>>

OpenBySession(t, s) ==
  /\ Listening
  /\ stream[t].pc = "idle"
  /\ Usable(s)
  /\ stream' = [stream EXCEPT ![t] = StreamState("authenticated", parent[s], s)]
  /\ UNCHANGED <<authority, table, sign, change, hub, drain>>

StreamReturns(t) ==
  /\ stream' = [stream EXCEPT ![t] = StreamState("returned", None, None)]
  /\ UNCHANGED <<authority, table, sign, change, drain>>

(* The boundary refuses requests of a draining process. *)
RefuseDraining(t) ==
  /\ stream[t].pc = "authenticated"
  /\ drain # "serving"
  /\ StreamReturns(t)
  /\ UNCHANGED hub

Admit(t) ==
  /\ stream[t].pc = "authenticated"
  /\ drain = "serving"
  /\ stream' = [stream EXCEPT ![t] =
               StreamState("admitted", stream[t].cred, stream[t].session)]
  /\ UNCHANGED <<authority, table, sign, change, hub, drain>>

(* sessions.Subscribe hands out the done channel of a live session. *)
SubscribeSession(t) ==
  /\ stream[t].pc = "admitted"
  /\ stream[t].session # None
  /\ IF stream[t].session \in sessions /\ ~shutting
     THEN /\ stream' = [stream EXCEPT ![t] =
               StreamState("subscribed", stream[t].cred, stream[t].session)]
          /\ UNCHANGED <<authority, table, sign, change, drain>>
     ELSE StreamReturns(t)
  /\ UNCHANGED hub

(* events.Subscribe adds the stream to the hub, below its limit. *)
SubscribeHub(t) ==
  /\ stream[t].pc = IF stream[t].session = None THEN "admitted" ELSE "subscribed"
  /\ IF drain # "done" /\ Cardinality(hub) < MaxStreams
     THEN /\ hub' = hub \cup {t}
          /\ stream' = [stream EXCEPT ![t] =
               StreamState("open", stream[t].cred, stream[t].session)]
          /\ UNCHANGED <<authority, table, sign, change, drain>>
     ELSE StreamReturns(t) /\ UNCHANGED hub

\* Mutant: the watcher of a stream does not hear of the end of its session.
SessionEndedIgnored(t) ==
  /\ t \in hub
  /\ stream[t].session # None
  /\ stream[t].session \notin sessions
  /\ UNCHANGED vars

(* The watcher of the stream closes it when its session has ended. *)
SessionEnded(t) ==
  /\ t \in hub
  /\ stream[t].session # None
  /\ stream[t].session \notin sessions
  /\ hub' = hub \ {t}
  /\ UNCHANGED <<authority, table, handlers, drain>>

(* The handler returns when its stream is closed. *)
StreamClosed(t) ==
  /\ stream[t].pc = "open"
  /\ t \notin hub
  /\ StreamReturns(t)
  /\ UNCHANGED hub

(* The client goes away or cannot be written to: the handler closes. *)
ClientLeaves(t) ==
  /\ stream[t].pc = "open"
  /\ hub' = hub \ {t}
  /\ StreamReturns(t)
-----------------------------------------------------------------------------
(* Changes of the credentials. *)

Committed(a, c) ==
  /\ revision' = revision + 1
  /\ change' = [change EXCEPT ![a] = ChangeState("committed", c, 0, {})]

\* Mutant: any valid credential may be revoked.
MayRevokeAny(c) == Valid(c)

(* Revoke keeps one active credential that does not expire. *)
MayRevoke(c) ==
  /\ Valid(c)
  /\ c \in NonExpiring => \E d \in NonExpiring \ {c} : cred[d] = "active"

Revoke(a, c) ==
  /\ Listening
  /\ change[a].pc = "idle"
  /\ MayRevoke(c)
  /\ cred' = [cred EXCEPT ![c] = "revoked"]
  /\ Committed(a, c)
  /\ UNCHANGED <<lapsed, table, sign, stream, hub, drain>>

(* A rotation reads the authority revision first. *)
ReadAuthority(a) ==
  /\ Listening
  /\ change[a].pc = "idle"
  /\ change' = [change EXCEPT ![a] = ChangeState("rotating", None, revision, {})]
  /\ UNCHANGED <<authority, table, sign, stream, hub, drain>>

CompleteRotation(a, old, replacement) ==
  /\ change[a].pc = "rotating"
  /\ change[a].expected = revision
  /\ old # replacement
  /\ Valid(old) /\ Valid(replacement) /\ replacement \in NonExpiring
  /\ cred' = [cred EXCEPT ![old] = "revoked"]
  /\ Committed(a, old)
  /\ UNCHANGED <<lapsed, table, sign, stream, hub, drain>>

(* pruneForInsert makes room by deleting a revoked or lapsed record; which *)
(* one is the oldest is left open.                                         *)
Records == {c \in Credentials : cred[c] \in {"active", "revoked"}}
Terminal(c) == c \in Records /\ (cred[c] = "revoked" \/ c \in lapsed)

Create(a, c, victim) ==
  /\ Listening
  /\ \/ change[a].pc = "idle"
     \/ change[a].pc = "rotating" /\ change[a].expected = revision
  /\ cred[c] = "absent"
  /\ IF Cardinality(Records) < MaxCredentials
     THEN victim = None /\ cred' = [cred EXCEPT ![c] = "active"]
     ELSE /\ victim # None /\ Terminal(victim)
          /\ cred' = [cred EXCEPT ![c] = "active", ![victim] = "pruned"]
  /\ revision' = revision + 1
  /\ change' = [change EXCEPT ![a] =
       ChangeState(change[a].pc, None,
                   IF change[a].pc = "rotating" THEN revision' ELSE 0, {})]
  /\ UNCHANGED <<lapsed, table, sign, stream, hub, drain>>

(* A change that cannot be made any more is answered as a conflict. *)
ChangeRefused(a) ==
  /\ change[a].pc = "rotating"
  /\ change' = [change EXCEPT ![a] = ChangeState("returned", None, 0, {})]
  /\ UNCHANGED <<authority, table, sign, stream, hub, drain>>

(* notifyCredentialInvalidation copies the callbacks, then calls them in   *)
(* the order of a map.                                                     *)
CopyCallbacks(a) ==
  /\ change[a].pc = "committed"
  /\ change' = [change EXCEPT ![a] =
       ChangeState("notifying", change[a].cred, 0,
                   {"events"} \cup (IF subscribed THEN {"sessions"} ELSE {}))]
  /\ UNCHANGED <<authority, table, sign, stream, hub, drain>>

Notified(a, w) ==
  change' = [change EXCEPT ![a] =
    ChangeState("notifying", change[a].cred, 0, change[a].pending \ {w})]

(* SessionManager.invalidateCredential. *)
InvalidateSessions(a) ==
  /\ "sessions" \in change[a].pending
  /\ CloseSessions({s \in sessions : parent[s] = change[a].cred})
  /\ Notified(a, "sessions")
  /\ UNCHANGED <<authority, parent, overdue, reserved, shutting, subscribed,
                 sign, stream, hub, drain>>

(* Hub.InvalidateCredential. *)
InvalidateStreams(a) ==
  /\ "events" \in change[a].pending
  /\ hub' = {t \in hub : stream[t].cred # change[a].cred}
  /\ Notified(a, "events")
  /\ UNCHANGED <<authority, table, sign, stream, drain>>

ChangeReturns(a) ==
  /\ change[a].pc = "notifying"
  /\ change[a].pending = {}
  /\ change' = [change EXCEPT ![a] = ChangeState("returned", None, 0, {})]
  /\ UNCHANGED <<authority, table, sign, stream, hub, drain>>
-----------------------------------------------------------------------------
(* Shutdown of the process. *)

BeginDrain ==
  /\ drain = "serving"
  /\ drain' = "draining"
  /\ UNCHANGED <<authority, table, handlers, hub>>

(* sessions.Shutdown: close every session, then stop listening for         *)
(* invalidations.                                                          *)
ShutdownSessions ==
  /\ drain = "draining"
  /\ shutting' = TRUE
  /\ CloseSessions(sessions)
  /\ drain' = "fenced"
  /\ UNCHANGED <<authority, parent, overdue, reserved, subscribed, handlers, hub>>

(* server.Shutdown: no new request from here on. *)
ShutdownServer ==
  /\ drain = "fenced"
  /\ subscribed' = FALSE
  /\ drain' = "closing"
  /\ UNCHANGED <<authority, sessions, parent, overdue, reserved, shutting,
                 handlers, hub>>

Finished == {"idle", "returned"}
NoHandler ==
  /\ \A x \in SignIns : sign[x].pc \in Finished
  /\ \A t \in Streamers : stream[t].pc \in Finished
  /\ \A a \in Admins : change[a].pc \in Finished

(* Every handler has returned: the hub is shut down and the process ends.  *)
Drained ==
  /\ drain = "closing"
  /\ NoHandler
  /\ hub' = {}
  /\ drain' = "done"
  /\ UNCHANGED <<authority, table, handlers>>

(* The ten seconds of graceful shutdown pass.  They are long compared with *)
(* the steps of a handler: only a stream that waits for hints outlives     *)
(* them.  The process then fails, and its deferred calls close the hub.    *)
Waiting(t) ==
  /\ stream[t].pc = "open"
  /\ t \in hub
  /\ stream[t].session = None \/ stream[t].session \in sessions

DeadlinePasses ==
  /\ drain = "closing"
  /\ ~NoHandler
  /\ \A x \in SignIns : sign[x].pc \in Finished
  /\ \A a \in Admins : change[a].pc \in Finished
  /\ \A t \in Streamers : stream[t].pc \in Finished \/ Waiting(t)
  /\ hub' = {}
  /\ drain' = "expired"
  /\ UNCHANGED <<authority, table, handlers>>
-----------------------------------------------------------------------------
SignStep(x) ==
  \/ Reserve(x) \/ ReserveRefused(x) \/ Install(x) \/ ReleaseReservation(x)
  \/ FinishExchange(x)

StreamStep(t) ==
  \/ RefuseDraining(t) \/ Admit(t) \/ SubscribeSession(t) \/ SubscribeHub(t)
  \/ StreamClosed(t)

ChangeStep(a) ==
  \/ \E c, d \in Credentials : CompleteRotation(a, c, d)
  \/ ChangeRefused(a) \/ CopyCallbacks(a)
  \/ InvalidateSessions(a) \/ InvalidateStreams(a) \/ ChangeReturns(a)

ShutdownStep == ShutdownSessions \/ ShutdownServer \/ Drained \/ DeadlinePasses

Next ==
  \/ \E c \in Credentials : Lapse(c)
  \/ \E s \in SignIns : BecomeOverdue(s) \/ CloseUnusable(s) \/ Logout(s)
  \/ \E x \in SignIns : SignStep(x) \/ \E c \in Credentials : Exchange(x, c)
  \/ \E t \in Streamers :
       \/ StreamStep(t) \/ SessionEnded(t) \/ ClientLeaves(t)
       \/ \E c \in Credentials : OpenByBearer(t, c)
       \/ \E s \in SignIns : OpenBySession(t, s)
  \/ \E a \in Admins :
       \/ ChangeStep(a) \/ ReadAuthority(a)
       \/ \E c \in Credentials : Revoke(a, c)
       \/ \E c \in Credentials, v \in Credentials \cup {None} : Create(a, c, v)
  \/ BeginDrain
  \/ ShutdownStep

(* What some goroutine is obliged to do: a request that has begun goes on, *)
(* watchers run, and so does a shutdown that has begun.  Nobody has to     *)
(* make a request, log out or leave.                                       *)
Obliged ==
  \/ \E x \in SignIns : SignStep(x)
  \/ \E t \in Streamers : StreamStep(t) \/ SessionEnded(t)
  \/ \E a \in Admins : ChangeStep(a)
  \/ ShutdownStep

(* While some goroutine can run, one runs. *)
Fairness == WF_vars(Obliged)

Spec == Init /\ [][Next]_vars /\ Fairness
-----------------------------------------------------------------------------
(* The type invariant. *)
TypeOK ==
  /\ cred \in [Credentials -> {"absent", "active", "revoked", "pruned"}]
  /\ lapsed \subseteq Credentials \ NonExpiring
  /\ revision \in Nat
  /\ sessions \subseteq SignIns
  /\ parent \in [SignIns -> Credentials \cup {None}]
  /\ \A s \in sessions : parent[s] \in Credentials
  /\ overdue \subseteq SignIns
  /\ reserved \in Nat
  /\ shutting \in BOOLEAN
  /\ subscribed \in BOOLEAN
  /\ sign \in [SignIns -> [pc : {"idle", "recorded", "reserved", "installed", "returned"},
                           cred : Credentials \cup {None}]]
  /\ stream \in [Streamers ->
       [pc : {"idle", "authenticated", "admitted", "subscribed", "open", "returned"},
        cred : Credentials \cup {None}, session : SignIns \cup {None}]]
  /\ hub \subseteq Streamers
  /\ change \in [Admins ->
       [pc : {"idle", "rotating", "committed", "notifying", "returned"},
        cred : Credentials \cup {None}, expected : Nat,
        pending : SUBSET {"sessions", "events"}]]
  /\ drain \in {"serving", "draining", "fenced", "closing", "done", "expired"}

(* The slots: a reservation is held by exactly the sign-ins between        *)
(* reserve and the installation or its deferred release, and sessions and  *)
(* reservations together respect the limit (sessions.go:112-156, 329-346). *)
SlotsAccounted ==
  /\ reserved = Cardinality({x \in SignIns : sign[x].pc = "reserved"})
  /\ Cardinality(sessions) + reserved <= MaxSessions

(* A revoked credential has no session once its revocation has been        *)
(* announced to the session manager, whatever sign-in was under way        *)
(* (sessions.go:137-140, 348-356, credentials.go:231-233).                 *)
RevokedHasNoSession ==
  \A s \in sessions : cred[parent[s]] = "revoked" =>
    \E a \in Admins :
      /\ change[a].cred = parent[s]
      /\ change[a].pc = "committed" \/ "sessions" \in change[a].pending

(* No session appears in a manager that has shut down, so none outlives    *)
(* its last invalidation (sessions.go:134-136, 311-327).                   *)
NoSessionWhileShutting == shutting => sessions = {}

(* No sequence of revocations, rotations and creations takes the last      *)
(* credential away that never expires (credentials.go:142-235, 306-371).   *)
AuthorityRemains == \E c \in NonExpiring : cred[c] = "active"

(* The stream of a session that has ended is closed (hub.go:71-79,         *)
(* api/handler.go:804-848).                                                *)
SessionStreamsEnd ==
  \A t \in Streamers :
    (t \in hub /\ stream[t].session # None /\ stream[t].session \notin sessions)
      ~> (t \notin hub)

(* A drain that has begun ends, in order or by its deadline                *)
(* (root.go:535-563).                                                      *)
DrainEnds == (drain = "draining") ~> (drain \in {"done", "expired"})

(* Streams do not outlive what they depend on, and the process ends.       *)
StreamsEnd == SessionStreamsEnd /\ DrainEnds
=============================================================================
