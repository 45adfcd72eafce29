------------------------------ MODULE Ingress ------------------------------
(***************************************************************************)
(* The MCP ingress (internal/mcpingress/handler.go): agent requests that   *)
(* arrive with a lease of their own, the table of legacy sessions, which   *)
(* take over the lease of the request that created them, and everything    *)
(* that may close a session: its idle and absolute timers, the goroutine   *)
(* that watches its lease, a request that finds it expired, a DELETE, a    *)
(* failed initialisation, and Shutdown.                                    *)
(*                                                                         *)
(* A request is one goroutine.  The legacySession a request creates is     *)
(* named after the request.  The lease is the one module Authority models; *)
(* here its done channel is open ("current") until somebody releases it or *)
(* the authority cancels it.  The embedded MCP SDK is external: its  *)
(* handler answers, with success or failure, after a finite time, except   *)
(* for the stream of a GET, which stays open.                              *)
(***************************************************************************)
EXTENDS Naturals, FiniteSets

CONSTANTS
  Initializers,  \* the agent requests without a session id, one goroutine each
  Users,         \* the agent requests that name a session
  Ids,           \* the session ids the entropy source may produce
  Credentials,   \* principal, credential and credential revision of a lease
  MaxLegacy,     \* legacy_sessions
  MaxWork,       \* mcp_work
  MaxStreams,    \* mcp_streams
  Timers,        \* the timers of a session: idle, and absolute
  None

Requests == Initializers \cup Users

ASSUME RequestsFinite == IsFiniteSet(Requests)
ASSUME NoneAssumption == None \notin Requests \cup Ids \cup Credentials
ASSUME LimitsAssumption ==
  /\ MaxLegacy \in Nat \ {0} /\ MaxWork \in Nat \ {0} /\ MaxStreams \in Nat \ {0}
ASSUME TimersAssumption == "idle" \in Timers /\ Timers \subseteq {"idle", "absolute"}
ASSUME RequestsDistinct == Initializers \cap Users = {}
ASSUME RequestsAreNoRoles == Requests \cap {"idle", "absolute", "watch", "shutdown"} = {}

Closers == Requests \cup Timers \cup {"watch", "shutdown"}
Kinds   == {"modern", "initialize", "post", "get", "delete"}
Labels  == {"start", "authenticated", "working", "reserved", "created",
            "published", "initializing", "stream", "streaming", "deleting", "closing",
            "unreserve", "leave", "returned"}
\* Where the initialising request is between arming the timers and publishing.
Installing == {"created"}

VARIABLES
  pc,            \* where each request is
  kind,          \* what each request asks for
  credential,    \* the binding of each request's lease
  lease,         \* the lease each request obtained
  halted,        \* the store is latched or the authority drains
  early,         \* history: sessions a timer of which fired while they were installed
  owned,         \* requestLease: is the lease still the request's to release?
  holds,         \* the requests that hold a reservation (the local `reserved`)
  id,            \* the session id of each request
  target,        \* the session each request works on
  legacy,        \* the published sessions, by id
  reserved,      \* the reservation counter
  shuttingDown,
  work, streams, \* permits taken
  session,       \* the state of each session's closeOnce
  timer,         \* is the timer armed?
  watching,      \* the sessions whose lease is being watched
  stage,         \* how far each closer of a session has come
  shutdown       \* the Shutdown call: "idle", "closing" or "returned"

vars == <<pc, kind, credential, lease, halted, early, owned, holds, id, target, legacy,
          reserved, shuttingDown, work, streams, session, timer, watching, stage, shutdown>>

requestVars == <<kind, credential, id, halted, early>>
tableVars   == <<legacy, reserved, holds>>
permitVars  == <<work, streams>>
sessionVars == <<session, timer, watching>>
closeVars   == <<stage, shuttingDown, shutdown>>

Published(s) == \E i \in Ids : legacy[i] = s
PublishedIds == {i \in Ids : legacy[i] # None}
Current(s)   == lease[s] = "current" /\ ~halted   \* Lease.Current
Goto(r, label) == pc' = [pc EXCEPT ![r] = label]
Drop(f, i)   == [f EXCEPT ![i] = None]

Init ==
  /\ pc = [r \in Requests |-> "start"]
  /\ kind = [r \in Requests |-> None]
  /\ credential = [r \in Requests |-> None]
  /\ lease = [r \in Requests |-> "none"]
  /\ halted = FALSE /\ early = {}
  /\ owned = [r \in Requests |-> FALSE]
  /\ holds = {}
  /\ id = [r \in Requests |-> None]
  /\ target = [r \in Requests |-> None]
  /\ legacy = [i \in Ids |-> None]
  /\ reserved = 0
  /\ shuttingDown = FALSE
  /\ work = 0 /\ streams = 0
  /\ session = [r \in Requests |-> "none"]
  /\ timer = [t \in Timers |-> [r \in Requests |-> FALSE]]
  /\ watching = {}
  /\ stage = [c \in Closers |-> [r \in Requests |-> "off"]]
  /\ shutdown = "idle"
-----------------------------------------------------------------------------
(* A request: authentication, the boundary, the work permit.               *)

\* Authenticate, for a bearer the authority accepts.  A bearer it refuses
\* leaves no trace.
Authenticate(r) ==
  /\ pc[r] = "start"
  /\ \E c \in Credentials : credential' = [credential EXCEPT ![r] = c]
  /\ \/ /\ r \in Initializers
        /\ \E k \in {"modern", "initialize"} : kind' = [kind EXCEPT ![r] = k]
        /\ UNCHANGED id
     \/ /\ r \in Users
        /\ \E k \in {"post", "get", "delete"} : kind' = [kind EXCEPT ![r] = k]
        /\ \E i \in Ids : id' = [id EXCEPT ![r] = i]
  /\ lease' = [lease EXCEPT ![r] = "current"]
  /\ owned' = [owned EXCEPT ![r] = TRUE]
  /\ Goto(r, "authenticated")
  /\ UNCHANGED <<halted, early, target, tableVars, permitVars, sessionVars, closeVars>>

\* requestLease.Release, the last of the deferred calls of a request: a lease
\* that was transferred is no longer the request's to release.  What the
\* goroutine knew is forgotten.
Release(r) ==
  /\ lease' = IF owned[r] THEN [lease EXCEPT ![r] = "done"] ELSE lease
  /\ owned' = [owned EXCEPT ![r] = FALSE]
  /\ kind' = [kind EXCEPT ![r] = None]
  /\ target' = [target EXCEPT ![r] = None]
  /\ Goto(r, "returned")
  /\ UNCHANGED <<credential, id, halted, early>>

\* The boundary refuses an authenticated request while the process drains; the
\* ingress refuses it when its lease is gone or no work permit is free.
\* Either way the lease is released, by the cleanup Authenticate registered.
Refuse(r) ==
  /\ pc[r] = "authenticated"
  /\ Release(r)
  /\ UNCHANGED <<tableVars, permitVars, sessionVars, closeVars>>

\* ServeHTTP up to the work permit.
TakeWork(r) ==
  /\ pc[r] = "authenticated"
  /\ Current(r)
  /\ work < MaxWork
  /\ work' = work + 1
  /\ Goto(r, "working")
  /\ UNCHANGED <<requestVars, lease, owned, target, tableVars, streams, sessionVars,
                 closeVars>>

\* ServeHTTP from the permit to the answer, for a request that reaches no
\* session: malformed, of a method not allowed, or modern, which the stateless
\* handler answers.
Answer(r) ==
  /\ pc[r] = "working"
  /\ Goto(r, "leave")
  /\ UNCHANGED <<requestVars, lease, owned, target, tableVars, permitVars, sessionVars,
                 closeVars>>

\* The deferred calls of ServeHTTP and of the boundary, innermost first.
Leave(r) ==
  /\ pc[r] = "leave"
  /\ work' = work - 1
  /\ Release(r)
  /\ UNCHANGED <<tableVars, streams, sessionVars, closeVars>>
-----------------------------------------------------------------------------
(* Closing a session: finishLegacySession behind its closeOnce.            *)

\* A closer of session s begins, by removing s from the table
\* (closeLegacyCandidate) or, when it has done that already or must not, at
\* the closeOnce (finishLegacySession).
Begin(c, s, where) == stage' = [stage EXCEPT ![c][s] = where]

\* closeLegacyCandidate: the section under the mutex.
CloseRemove(c, s) ==
  /\ stage[c][s] = "remove"
  /\ legacy' = [i \in Ids |-> IF legacy[i] = s THEN None ELSE legacy[i]]
  /\ Begin(c, s, "once")
  /\ UNCHANGED <<pc, requestVars, lease, owned, target, reserved, holds, permitVars,
                 sessionVars, shuttingDown, shutdown>>

\* The first closer enters the closeOnce: it stops the timers and closes the
\* session's done channel, which ends the watch.  Later ones wait there until
\* it is over, and return.
CloseOnce(c, s) ==
  /\ stage[c][s] = "once"
  /\ \/ /\ session[s] = "open"
        /\ session' = [session EXCEPT ![s] = "closing"]
        /\ timer' = [t \in Timers |-> [timer[t] EXCEPT ![s] = FALSE]]
        /\ Begin(c, s, "release")
     \/ /\ session[s] = "closed"
        /\ Begin(c, s, "off")
        /\ UNCHANGED <<session, timer>>
  /\ UNCHANGED <<pc, requestVars, lease, owned, target, tableVars, permitVars, watching,
                 shuttingDown, shutdown>>

\* The rest of the closeOnce: the session's lease is released and the SDK's
\* session terminated.
CloseRelease(c, s) ==
  /\ stage[c][s] = "release"
  /\ lease' = [lease EXCEPT ![s] = "done"]
  /\ session' = [session EXCEPT ![s] = "closed"]
  /\ Begin(c, s, "off")
  /\ UNCHANGED <<pc, requestVars, owned, target, tableVars, permitVars, timer, watching,
                 shuttingDown, shutdown>>

\* A timer fires: its callback is closeLegacyCandidate.
TimerFires(t, s) ==
  /\ timer[t][s] /\ stage[t][s] = "off"
  /\ timer' = [timer EXCEPT ![t][s] = FALSE]
  /\ early' = IF pc[s] \in Installing THEN early \cup {s} ELSE early
  /\ Begin(t, s, "remove")
  /\ UNCHANGED <<pc, kind, credential, id, halted, lease, owned, target, tableVars,
                 permitVars, session, watching, shuttingDown, shutdown>>

\* Mutant: the watch ends without closing the session.
WatchEndsIdly(s) ==
  /\ s \in watching
  /\ lease[s] = "done" \/ session[s] \in {"closing", "closed"}
  /\ watching' = watching \ {s}
  /\ UNCHANGED <<pc, requestVars, lease, owned, target, tableVars, permitVars, session,
                 timer, closeVars>>

\* The goroutine that watches the lease: a select between the lease and the
\* session's done channel, which may take either when both are closed.
WatchEnds(s) ==
  /\ s \in watching
  /\ \/ lease[s] = "done" /\ Begin("watch", s, "remove")
     \/ session[s] \in {"closing", "closed"} /\ UNCHANGED stage
  /\ watching' = watching \ {s}
  /\ UNCHANGED <<pc, requestVars, lease, owned, target, tableVars, permitVars, session,
                 timer, shuttingDown, shutdown>>

\* The authority cancels a lease: a credential is replaced or revoked, a
\* principal disabled, the process drained.
CancelLease(s) ==
  /\ lease[s] = "current"
  /\ lease' = [lease EXCEPT ![s] = "done"]
  /\ UNCHANGED <<pc, requestVars, owned, target, tableVars, permitVars, sessionVars,
                 closeVars>>

\* A commit of unknown outcome latches the store, or the process begins to
\* drain: from then on no lease is current, although its done channel is open
\* until it is released or cancelled.
Halt ==
  /\ ~halted
  /\ halted' = TRUE
  /\ UNCHANGED <<pc, kind, credential, id, early, lease, owned, target, tableVars, permitVars,
                 sessionVars, closeVars>>
-----------------------------------------------------------------------------
(* serveLegacyInitialize.                                                  *)

Reserve(r) ==
  /\ pc[r] = "working" /\ kind[r] = "initialize"
  /\ ~shuttingDown
  /\ Cardinality(PublishedIds) + reserved < MaxLegacy
  /\ reserved' = reserved + 1
  /\ holds' = holds \cup {r}
  /\ Goto(r, "reserved")
  /\ UNCHANGED <<requestVars, lease, owned, target, legacy, permitVars, sessionVars,
                 closeVars>>

\* The lease is no longer current, or the entropy source fails.
InitializeFails(r) ==
  /\ pc[r] = "reserved"
  /\ Goto(r, "unreserve")
  /\ UNCHANGED <<requestVars, lease, owned, target, tableVars, permitVars, sessionVars,
                 closeVars>>

\* A session is created and its timers are armed; nothing refers to it yet but
\* this goroutine and the timers' callbacks.
CreateSession(r) ==
  /\ pc[r] = "reserved"
  /\ Current(r)
  /\ \E i \in Ids : id' = [id EXCEPT ![r] = i]
  /\ target' = [target EXCEPT ![r] = r]
  /\ session' = [session EXCEPT ![r] = "open"]
  /\ timer' = [t \in Timers |-> [timer[t] EXCEPT ![r] = TRUE]]
  /\ Goto(r, "created")
  /\ UNCHANGED <<kind, credential, halted, early, lease, owned, tableVars, permitVars, watching, closeVars>>

\* Mutant: publication does not look at shuttingDown again.
CannotPublishBeforeShutdown(r) == ~Current(r) \/ legacy[id[r]] # None

\* The new session cannot be published: the lease is gone (looked at before
\* the mutex and under it), the process shuts down, or the id is taken.
CannotPublish(r) == ~Current(r) \/ shuttingDown \/ legacy[id[r]] # None

RejectSession(r) ==
  /\ pc[r] = "created"
  /\ CannotPublish(r)
  /\ Begin(r, r, "once")
  /\ Goto(r, "closing")
  /\ UNCHANGED <<requestVars, lease, owned, target, tableVars, permitVars, sessionVars,
                 shuttingDown, shutdown>>

\* Mutant: the lease stays with the request as well.
PublishWithoutTransfer(r) ==
  /\ pc[r] = "created"
  /\ ~CannotPublish(r)
  /\ reserved' = reserved - 1
  /\ holds' = holds \ {r}
  /\ legacy' = [legacy EXCEPT ![id[r]] = r]
  /\ watching' = watching \cup {r}
  /\ Goto(r, "published")
  /\ UNCHANGED <<requestVars, lease, owned, target, permitVars, session, timer, closeVars>>

\* The section under the mutex that publishes the session in exchange for the
\* reservation and takes the lease over from the request; then the watch on
\* the lease begins.
Publish(r) ==
  /\ pc[r] = "created"
  /\ ~CannotPublish(r)
  /\ reserved' = reserved - 1
  /\ holds' = holds \ {r}
  /\ legacy' = [legacy EXCEPT ![id[r]] = r]
  /\ owned' = [owned EXCEPT ![r] = FALSE]
  /\ watching' = watching \cup {r}
  /\ Goto(r, "published")
  /\ UNCHANGED <<requestVars, lease, target, permitVars, session, timer, closeVars>>

\* The lease is looked at again, now that the session can be found.
Recheck(r) ==
  /\ pc[r] = "published"
  /\ IF Current(r)
     THEN Goto(r, "initializing") /\ UNCHANGED stage
     ELSE Goto(r, "closing") /\ Begin(r, r, "remove")
  /\ UNCHANGED <<requestVars, lease, owned, target, tableVars, permitVars, sessionVars,
                 shuttingDown, shutdown>>

\* The SDK has answered the initialisation: with an error, or not.
Initialized(r) ==
  /\ pc[r] = "initializing"
  /\ \/ Current(r) /\ Goto(r, "leave") /\ UNCHANGED stage
     \/ Goto(r, "closing") /\ Begin(r, r, "remove")
  /\ UNCHANGED <<requestVars, lease, owned, target, tableVars, permitVars, sessionVars,
                 shuttingDown, shutdown>>

\* A request has closed the session it had to close.
Closed(r) ==
  /\ pc[r] = "closing"
  /\ stage[r][target[r]] = "off"
  /\ Goto(r, IF r \in holds THEN "unreserve" ELSE "leave")
  /\ UNCHANGED <<requestVars, lease, owned, target, tableVars, permitVars, sessionVars,
                 closeVars>>

\* The deferred releaseLegacyReservation.
Unreserve(r) ==
  /\ pc[r] = "unreserve"
  /\ reserved' = reserved - 1
  /\ holds' = holds \ {r}
  /\ Goto(r, "leave")
  /\ UNCHANGED <<requestVars, lease, owned, target, legacy, permitVars, sessionVars,
                 closeVars>>
-----------------------------------------------------------------------------
(* serveLegacyExisting.                                                    *)

\* The section under the mutex, up to the checks: the session of the given id
\* must have been created with the same credential.
Finds(r, s) ==
  /\ pc[r] = "working" /\ r \in Users
  /\ legacy[id[r]] = s
  /\ credential[s] = credential[r]

\* The session has outlived a lifetime, by the clock, or its lease is gone.
FindExpired(r, s) ==
  /\ Finds(r, s)
  /\ legacy' = Drop(legacy, id[r])
  /\ target' = [target EXCEPT ![r] = s]
  /\ Begin(r, s, "once")
  /\ Goto(r, "closing")
  /\ UNCHANGED <<requestVars, lease, owned, reserved, holds, permitVars, sessionVars,
                 shuttingDown, shutdown>>

\* The session is in use: the idle timer starts afresh, whether or not it was
\* running.  A DELETE takes the session out of the table.
\* A POST is served, by a feature call under the request's own lease or by the
\* SDK, without touching the table again.
FindLive(r, s) ==
  /\ Finds(r, s)
  /\ Current(s)
  /\ timer' = [timer EXCEPT !["idle"][s] = TRUE]
  /\ legacy' = IF kind[r] = "delete" THEN Drop(legacy, id[r]) ELSE legacy
  /\ target' = [target EXCEPT ![r] = s]
  /\ Goto(r, CASE kind[r] = "post" -> "leave"
               [] kind[r] = "get" -> "stream"
               [] kind[r] = "delete" -> "deleting")
  /\ UNCHANGED <<requestVars, lease, owned, reserved, holds, permitVars, session, watching,
                 closeVars>>

\* A GET takes a stream permit and keeps it while the stream is open.
OpenStream(r) ==
  /\ pc[r] = "stream"
  /\ IF streams < MaxStreams
     THEN streams' = streams + 1 /\ Goto(r, "streaming")
     ELSE UNCHANGED streams /\ Goto(r, "leave")
  /\ UNCHANGED <<requestVars, lease, owned, target, tableVars, work, sessionVars, closeVars>>

\* The stream ends: the client leaves, the request's lease is cancelled (the
\* goroutine of requestWithLeaseCancellation cancels its context) or the SDK's
\* session is terminated.
CloseStream(r) ==
  /\ pc[r] = "streaming"
  /\ streams' = streams - 1
  /\ Goto(r, "leave")
  /\ UNCHANGED <<requestVars, lease, owned, target, tableVars, work, sessionVars, closeVars>>

\* The SDK has handled the DELETE; the deferred finishLegacySession follows.
Deleted(r) ==
  /\ pc[r] = "deleting"
  /\ Begin(r, target[r], "once")
  /\ Goto(r, "closing")
  /\ UNCHANGED <<requestVars, lease, owned, target, tableVars, permitVars, sessionVars,
                 shuttingDown, shutdown>>
-----------------------------------------------------------------------------
(* Shutdown.                                                               *)

\* No session is published from here on.  The ids of the published ones are
\* noted and their sessions closed one after another.
ShutdownBegin ==
  /\ shutdown = "idle"
  /\ shuttingDown' = TRUE
  /\ shutdown' = "closing"
  /\ stage' = [stage EXCEPT !["shutdown"] =
                 [s \in Requests |-> IF Published(s) THEN "noted" ELSE "off"]]
  /\ UNCHANGED <<pc, requestVars, lease, owned, target, tableVars, permitVars, sessionVars>>

\* closeLegacy looks a noted id up again.  A session that is gone by then is
\* left to whoever removed it.
ShutdownLookup(s) ==
  /\ stage["shutdown"][s] = "noted"
  /\ \A other \in Requests : stage["shutdown"][other] \in {"off", "noted"}
  /\ Begin("shutdown", s, IF Published(s) THEN "remove" ELSE "off")
  /\ UNCHANGED <<pc, requestVars, lease, owned, target, tableVars, permitVars, sessionVars,
                 shuttingDown, shutdown>>

ShutdownReturns ==
  /\ shutdown = "closing"
  /\ \A s \in Requests : stage["shutdown"][s] = "off"
  /\ shutdown' = "returned"
  /\ UNCHANGED <<pc, requestVars, lease, owned, target, tableVars, permitVars, sessionVars,
                 stage, shuttingDown>>
-----------------------------------------------------------------------------
Request(r) ==
  \/ Authenticate(r) \/ Refuse(r) \/ TakeWork(r) \/ Answer(r)
  \/ Reserve(r) \/ InitializeFails(r) \/ CreateSession(r) \/ RejectSession(r)
  \/ Publish(r) \/ Recheck(r) \/ Initialized(r) \/ Closed(r) \/ Unreserve(r)
  \/ \E s \in Requests : FindExpired(r, s) \/ FindLive(r, s)
  \/ OpenStream(r) \/ CloseStream(r) \/ Deleted(r)
  \/ Leave(r)

Close(c, s) == CloseRemove(c, s) \/ CloseOnce(c, s) \/ CloseRelease(c, s)

Next ==
  \/ \E r \in Requests : Request(r)
  \/ \E c \in Closers, s \in Requests : Close(c, s)
  \/ \E t \in Timers, s \in Requests : TimerFires(t, s)
  \/ \E s \in Requests : WatchEnds(s) \/ CancelLease(s) \/ ShutdownLookup(s)
  \/ ShutdownBegin \/ ShutdownReturns \/ Halt

\* What some goroutine is obliged to do.  Nothing obliges a client to send a
\* request or to leave a stream, a timer to fire, the authority to cancel a
\* lease or the process to shut down; but a stream whose session or lease has
\* ended ends.
StreamEnded(r) == lease[r] = "done" \/ session[target[r]] = "closed"
Obliged ==
  \/ \E r \in Requests : /\ pc[r] # "start"
                         /\ pc[r] = "streaming" => StreamEnded(r)
                         /\ Request(r)
  \/ \E c \in Closers, s \in Requests : Close(c, s)
  \/ \E s \in Requests : WatchEnds(s) \/ ShutdownLookup(s)
  \/ ShutdownReturns

\* While some goroutine can run, one runs.
Fairness == WF_vars(Obliged)

Spec == Init /\ [][Next]_vars /\ Fairness
-----------------------------------------------------------------------------
(* Properties.                                                             *)

TypeOK ==
  /\ pc \in [Requests -> Labels]
  /\ kind \in [Requests -> Kinds \cup {None}]
  /\ credential \in [Requests -> Credentials \cup {None}]
  /\ lease \in [Requests -> {"none", "current", "done"}]
  /\ halted \in BOOLEAN /\ early \subseteq Requests /\ owned \in [Requests -> BOOLEAN]
  /\ holds \in SUBSET Requests
  /\ id \in [Requests -> Ids \cup {None}]
  /\ target \in [Requests -> Requests \cup {None}]
  /\ legacy \in [Ids -> Requests \cup {None}]
  /\ reserved \in Nat /\ work \in Nat /\ streams \in Nat
  /\ shuttingDown \in BOOLEAN
  /\ session \in [Requests -> {"none", "open", "closing", "closed"}]
  /\ timer \in [Timers -> [Requests -> BOOLEAN]]
  /\ watching \in SUBSET Requests
  /\ stage \in [Closers -> [Requests -> {"off", "noted", "remove", "once", "release"}]]
  /\ shutdown \in {"idle", "closing", "returned"}

\* Slots and permits: every reservation belongs to one request that will give
\* it back or turn it into a published session, sessions and reservations
\* together never exceed the limit, and the work and stream permits taken are
\* those of the requests at work, on every path through ServeHTTP.
Capacity ==
  /\ reserved = Cardinality(holds)
  /\ Cardinality(PublishedIds) + reserved <= MaxLegacy
  /\ \A r \in holds : pc[r] \in {"reserved", "created", "closing", "unreserve"}
  /\ work = Cardinality({r \in Requests :
                pc[r] \notin {"start", "authenticated", "returned"}})
  /\ work <= MaxWork
  /\ streams = Cardinality({r \in Requests : pc[r] = "streaming"})
  /\ streams <= MaxStreams

\* Some goroutine is on its way to close session s.
BeingClosed(s) ==
  \/ \E c \in Closers : stage[c][s] \in {"remove", "once", "release"}
  \/ \E r \in Requests : pc[r] = "deleting" /\ target[r] = s
  \/ s \in watching /\ lease[s] = "done"

\* No lease is lost between its two owners: when a request has returned with
\* its lease still current, the session that took it over is published, where
\* a request, a timer or a cancellation finds it, or is being closed.
LeaseHasOwner ==
  \A r \in Requests : pc[r] = "returned" /\ lease[r] = "current" => Published(r) \/ BeingClosed(r)

\* No lease has two owners: the deferred Release of a request never takes the
\* lease from under a session that was published with it.
SessionKeepsLease ==
  [][\A r \in Requests :
       pc[r] = "leave" /\ pc'[r] = "returned" /\ session[r] \in {"open", "closing"}
         => lease'[r] = lease[r]]_vars

\* Once Shutdown has returned, no session is published, whatever the requests
\* that were being initialised meanwhile do.
NothingAfterShutdown == shutdown = "returned" => PublishedIds = {}

\* A session is closed only after it left the table, so that no request is
\* ever handed a session whose SDK side is gone, unless one of its timers fired
\* while it was being installed.
ClosedIsUnpublished ==
  \A s \in Requests \ early : session[s] \in {"closing", "closed"} => ~Published(s)

\* What the table, the permits and the leases owe each other at any time.
SessionsAccounted ==
  TypeOK /\ Capacity /\ LeaseHasOwner /\ NothingAfterShutdown /\ ClosedIsUnpublished

\* A session whose lease is cancelled leaves the table.
CancelledSessionLeaves ==
  \A s \in Initializers : (Published(s) /\ lease[s] = "done" /\ s \notin early) ~> ~Published(s)

\* A Shutdown that begins returns, although it may have to wait for another
\* closer inside a closeOnce.
ShutdownCompletes == (shutdown = "closing") ~> (shutdown = "returned")

\* Whoever has to leave the table does: the sessions that lost their lease, and
\* all of them when the process shuts down.
SessionsEnd == CancelledSessionLeaves /\ ShutdownCompletes
=============================================================================
