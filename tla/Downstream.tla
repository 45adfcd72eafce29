----------------------------- MODULE Downstream -----------------------------
(***************************************************************************)
(* A call's way to a downstream server: the route registry                 *)
(* (internal/catalog/routes.go), the dispatcher, its capabilities and      *)
(* leases (internal/downstream/capability.go), the one-shot call (call.go) *)
(* and the runtime, coordinator and transport that carry it                *)
(* (negotiation.go, downstream.go, internal/remote).                       *)
(*                                                                         *)
(* One server is modelled with one runtime.  Its catalog may be published  *)
(* again while calls run: a publication makes a new capability, fences the *)
(* old one and cancels its leases.  A call whose context ends asks the     *)
(* server to stop if the request was handed over.  Consecutive checks that *)
(* only refuse are one step; everything that takes a lock to change state  *)
(* is a step of its own.                                                   *)
(***************************************************************************)
EXTENDS Integers, Sequences, FiniteSets

CONSTANTS
    Calls,                     \* calls of agents, each with its goroutine
    Capabilities,              \* one per publication of the server's catalog
    Objects,                   \* serverAdmission objects in memory
    GlobalLimit,               \* downstream_dispatch
    ServerLimits,              \* values of per_server_downstream_dispatch
    Nothing

ASSUME CallsFinite == IsFiniteSet(Calls)
ASSUME ObjectsExist == Objects # {}
ASSUME DispatchLimits == GlobalLimit \in Nat /\ ServerLimits \subseteq Nat
ASSUME NothingIsNone == Nothing \notin Calls \cup Capabilities \cup Objects
ASSUME PendingIsNoCall == "pending" \notin Calls

VARIABLES
    transport,   \* [kind, era, closed, reading]: the runtime's transport and protocol,
                 \* and whether the server reads its input: yet, not or again
    route,       \* the capability that the registry resolves the tool to
    capability,  \* [Capabilities -> [current, availability, leases, withdrawing]]
    dispatcher,  \* [global, limit, server, objects]: tokens and the server's admission
    runtime,     \* [closed, active, closing, coordinator]
    mutex,       \* the call that holds the stdio transport's exchangeMu
    wire,        \* [delivered, answered, frames]: what the server got and sent
    call         \* [Calls -> ...]: the goroutine, its lease and its one-shot call

downstreamVars == <<transport, route, capability, dispatcher, runtime, mutex, wire, call>>

\* The goroutine's position, the capability it resolved, its caller's context;
\* the lease (cancelled, released, used, whether lease.call is set); the call
\* (cancelRequested, cancelLocal, the context it executes in, handedOff,
\* cancellationSent and who sends it, done); what was read and what came of it.
Fresh == [pc |-> "idle", cap |-> Nothing, object |-> Nothing, cancelled |-> FALSE,
            leaseCancelled |-> FALSE, released |-> FALSE, used |-> FALSE, started |-> FALSE,
            requested |-> FALSE, local |-> FALSE, expired |-> FALSE, handedOff |-> FALSE,
            sent |-> 0, sender |-> Nothing, done |-> FALSE, answer |-> Nothing, result |-> Nothing]

Failed == [id |-> Nothing, body |-> "failed"]

NewCapability == [current |-> TRUE, availability |-> "current", leases |-> {}, withdrawing |-> {}]

DownstreamInit ==
    /\ transport \in [kind : {"stdio", "http"}, era : {"modern", "legacy"}, closed : {FALSE}, reading : {"yet"}]
    /\ route \in Capabilities
    /\ capability = [k \in Capabilities |-> NewCapability]
    /\ dispatcher \in [global : {0}, limit : ServerLimits, server : {Nothing}, objects : {[o \in Objects |-> [slots |-> 0, users |-> 0]]}]
    /\ runtime = [closed |-> FALSE, active |-> {}, closing |-> Nothing, coordinator |-> "open"]
    /\ mutex = Nothing
    /\ wire = [delivered |-> {}, answered |-> {}, frames |-> <<>>]
    /\ call = [c \in Calls |-> Fresh]

Moves(c, pc) == call' = [call EXCEPT ![c].pc = pc]

\* (external) A stdio server that stops reading lets the pipe of its input fill
\* up.  It may read again, or its process may end, which frees a writer too.
ServerStopsReading ==
    /\ transport.kind = "stdio" /\ transport.reading = "yet"
    /\ transport' = [transport EXCEPT !.reading = "not"]
    /\ UNCHANGED <<route, capability, dispatcher, runtime, mutex, wire, call>>

ServerReadsAgain ==
    /\ transport.reading = "not"
    /\ transport' = [transport EXCEPT !.reading = "again"]
    /\ UNCHANGED <<route, capability, dispatcher, runtime, mutex, wire, call>>

\* Input().Write returns: a full pipe holds it whatever becomes of the context,
\* until somebody reads or Close, which stops the process, closes the input.
Reading == transport.reading # "not"
WriteReturns == Reading \/ transport.closed

-----------------------------------------------------------------------------
(* Cancellation *)

\* Call.shouldNotify: a modern HTTP request is cancelled by closing it.
shouldNotify == transport.kind # "http" \/ transport.era = "legacy"

\* Call.requestCancellation by the goroutine `who`, which sends the
\* notification if the request has been handed over and none was sent.
RequestCancellation(x, who) ==
    IF x.done THEN x
    ELSE LET send == x.handedOff /\ x.sent = 0 /\ shouldNotify
         IN  [x EXCEPT !.requested = TRUE, !.expired = @ \/ x.local,
                       !.sent = IF send THEN @ + 1 ELSE @, !.sender = IF send THEN who ELSE @]

\* Call.finish(true): a cancellation that came before the handoff is sent now.
Finish(x) ==
    LET send == x.requested /\ x.handedOff /\ x.sent = 0 /\ shouldNotify
    IN  [x EXCEPT !.done = TRUE, !.sent = IF send THEN @ + 1 ELSE @, !.sender = IF send THEN "self" ELSE @]

\* The context a call executes in ends: the agent goes away, the caller's
\* request is over, or MaximumDownstreamCallDeadline has passed.
ContextEnds(c) ==
    /\ call[c].pc \notin {"idle", "done"}
    /\ ~call[c].cancelled
    /\ call' = [call EXCEPT ![c].cancelled = TRUE, ![c].expired = @ \/ call[c].local]
    /\ UNCHANGED <<transport, route, capability, dispatcher, runtime, mutex, wire>>

\* context.AfterFunc: the watch asks for cancellation in its own goroutine.
WatchFires(c) ==
    /\ call[c].expired /\ ~call[c].done /\ ~call[c].requested
    /\ call' = [call EXCEPT ![c] = RequestCancellation(@, "watch")]
    /\ UNCHANGED <<transport, route, capability, dispatcher, runtime, mutex, wire>>

\* sendCancellation: on stdio the notification waits for the exchange lock and
\* for its write, and lets go of the lock in the same step; a closed
\* coordinator or transport only returns an error.
SendCancellation(c) ==
    /\ call[c].sender # Nothing
    /\ transport.kind = "stdio" => mutex = Nothing /\ WriteReturns
    /\ call' = [call EXCEPT ![c].sender = Nothing]
    /\ UNCHANGED <<transport, route, capability, dispatcher, runtime, mutex, wire>>

-----------------------------------------------------------------------------
(* The dispatcher *)

\* acquireServer: the server's object, made when nobody uses one.
acquireServer ==
    LET free == {o \in Objects : o # dispatcher.server /\ \A c \in Calls : call[c].object # o}
        object == IF dispatcher.server # Nothing THEN dispatcher.server ELSE CHOOSE o \in free : TRUE
    IN  [dispatcher EXCEPT !.server = object,
            !.objects[object] = IF dispatcher.server = Nothing THEN [slots |-> 0, users |-> 1]
                                ELSE [slots |-> @.slots, users |-> @.users + 1]]

\* releaseServer and the global token, in one step: a call that comes between
\* the two is refused like one that came before.  The object is forgotten with
\* its last user.
releaseServer(d, o) ==
    LET objects == [d.objects EXCEPT ![o].users = @ - 1]
        last == objects[o].users = 0 /\ objects[o].slots = 0 /\ d.server = o
    IN  [d EXCEPT !.global = @ - 1, !.objects = objects, !.server = IF last THEN Nothing ELSE @]

Slot(d, o, n) == [d EXCEPT !.objects[o].slots = @ + n]

\* Acquire, up to the token of the dispatcher.
AcquireGlobal(c) ==
    /\ call[c].pc = "acquire"
    /\ IF call[c].cancelled \/ ~capability[call[c].cap].current \/ dispatcher.global = GlobalLimit
       THEN /\ call' = [call EXCEPT ![c].pc = "done", ![c].result = "pre_start"]
            /\ UNCHANGED dispatcher
       ELSE /\ Moves(c, "users")
            /\ dispatcher' = [dispatcher EXCEPT !.global = @ + 1]
    /\ UNCHANGED <<transport, route, capability, runtime, mutex, wire>>

AcquireServer(c) ==
    /\ call[c].pc = "users"
    /\ dispatcher' = acquireServer
    /\ call' = [call EXCEPT ![c].pc = "slot", ![c].object = dispatcher'.server]
    /\ UNCHANGED <<transport, route, capability, runtime, mutex, wire>>

\* The server's slot, or RejectionServerSaturated and everything given back.
AcquireSlot(c) ==
    /\ call[c].pc = "slot"
    /\ LET o == call[c].object
       IN  IF dispatcher.objects[o].slots < dispatcher.limit
           THEN Moves(c, "revalidate") /\ dispatcher' = Slot(dispatcher, o, 1)
           ELSE /\ call' = [call EXCEPT ![c].pc = "done", ![c].result = "pre_start", ![c].object = Nothing]
                /\ dispatcher' = releaseServer(dispatcher, o)
    /\ UNCHANGED <<transport, route, capability, runtime, mutex, wire>>

\* revalidate: what the active registry says of the binding now.
Available(c) == capability[call[c].cap].availability = "current"

\* The rest of Acquire: the binding is revalidated outside the capability's
\* lock and the lease is registered under it.
AcquireRevalidate(c) ==
    /\ call[c].pc = "revalidate"
    /\ Moves(c, IF call[c].cancelled \/ ~Available(c) THEN "refuse" ELSE "register")
    /\ UNCHANGED <<transport, route, capability, dispatcher, runtime, mutex, wire>>

AcquireRegister(c) ==
    /\ call[c].pc = "register"
    /\ IF capability[call[c].cap].current
       THEN Moves(c, "leased") /\ capability' = [capability EXCEPT ![call[c].cap].leases = @ \cup {c}]
       ELSE Moves(c, "refuse") /\ UNCHANGED capability
    /\ UNCHANGED <<transport, route, dispatcher, runtime, mutex, wire>>

\* Acquire's own release, before a lease exists.
AcquireRefused(c) ==
    /\ call[c].pc = "refuse"
    /\ dispatcher' = releaseServer(Slot(dispatcher, call[c].object, -1), call[c].object)
    /\ call' = [call EXCEPT ![c].pc = "done", ![c].result = "pre_start", ![c].object = Nothing]
    /\ UNCHANGED <<transport, route, capability, runtime, mutex, wire>>

-----------------------------------------------------------------------------
(* The lease *)

\* Lease.Execute: used once; the binding is revalidated again, the capability
\* must still be current, the parameter headers must mirror and NewCall refuses
\* a closed runtime and a call that is not valid.
ExecuteChecks(c) ==
    /\ call[c].pc = "leased"
    /\ \E refused \in BOOLEAN :
          /\ ~refused => /\ ~call[c].leaseCancelled /\ ~call[c].cancelled
                         /\ Available(c) /\ capability[call[c].cap].current /\ ~runtime.closed
          /\ call' = [call EXCEPT ![c].used = TRUE, ![c].pc = IF refused THEN "release" ELSE "start",
                                  ![c].result = IF refused THEN "pre_start" ELSE @]
    /\ UNCHANGED <<transport, route, capability, dispatcher, runtime, mutex, wire>>

\* lease.call is set unless the lease was cancelled meanwhile.
ExecuteStarts(c) ==
    /\ call[c].pc = "start"
    /\ call' = IF call[c].leaseCancelled
               THEN [call EXCEPT ![c].pc = "release", ![c].result = "pre_start"]
               ELSE [call EXCEPT ![c].pc = "execute", ![c].started = TRUE]
    /\ UNCHANGED <<transport, route, capability, dispatcher, runtime, mutex, wire>>

\* Lease.release: once, whoever comes first.  The slot goes before its user.
ReleaseSlot(c) ==
    /\ call[c].pc = "release"
    /\ call[c].sender # "self"
    /\ IF call[c].released
       THEN Moves(c, "done") /\ UNCHANGED <<capability, dispatcher>>
       ELSE /\ call' = [call EXCEPT ![c].pc = "released", ![c].released = TRUE]
            /\ capability' = [capability EXCEPT ![call[c].cap].leases = @ \ {c}]
            /\ dispatcher' = Slot(dispatcher, call[c].object, -1)
    /\ UNCHANGED <<transport, route, runtime, mutex, wire>>

ReleaseUser(c) ==
    /\ call[c].pc = "released"
    /\ dispatcher' = releaseServer(dispatcher, call[c].object)
    /\ call' = [call EXCEPT ![c].pc = "done", ![c].object = Nothing]
    /\ UNCHANGED <<transport, route, capability, runtime, mutex, wire>>

-----------------------------------------------------------------------------
(* The one-shot call *)

\* Call.Execute: a call cancelled before it starts never starts; from here its
\* own deadline runs.
Execute(c) ==
    /\ call[c].pc = "execute"
    /\ call' = IF call[c].requested \/ call[c].cancelled
               THEN [call EXCEPT ![c].pc = "release", ![c].done = TRUE, ![c].result = "pre_start"]
               ELSE [call EXCEPT ![c].pc = "enroll", ![c].local = TRUE]
    /\ UNCHANGED <<transport, route, capability, dispatcher, runtime, mutex, wire>>

\* registerCall.
Enroll(c) ==
    /\ call[c].pc = "enroll"
    /\ IF runtime.closed
       THEN /\ call' = [call EXCEPT ![c].pc = "release", ![c].done = TRUE, ![c].result = "pre_start"]
            /\ UNCHANGED runtime
       ELSE Moves(c, "perform") /\ runtime' = [runtime EXCEPT !.active = @ \cup {c}]
    /\ UNCHANGED <<transport, route, capability, dispatcher, mutex, wire>>

\* perform and rawRequest, then Exchange up to its lock, where the context is
\* looked at for the first time.
ExchangeBegins(c) ==
    /\ call[c].pc = "perform"
    /\ LET refused == runtime.closed \/ runtime.coordinator # "open" \/ call[c].expired
       IN  \/ refused /\ call' = [call EXCEPT ![c].pc = "returned", ![c].answer = Failed]
           \/ ~refused /\ Moves(c, IF transport.kind = "stdio" THEN "waiting" ELSE "locked")
    /\ UNCHANGED <<transport, route, capability, dispatcher, runtime, mutex, wire>>

\* On stdio one exchange at a time: exchangeMu is waited for whatever becomes of
\* the context, which is looked at again under it.
TakeExchange(c) ==
    /\ call[c].pc = "waiting"
    /\ mutex = Nothing
    /\ IF call[c].expired
       THEN call' = [call EXCEPT ![c].pc = "returned", ![c].answer = Failed] /\ UNCHANGED mutex
       ELSE Moves(c, "locked") /\ mutex' = c
    /\ UNCHANGED <<transport, route, capability, dispatcher, runtime, wire>>

Unlocked(c) == IF mutex = c THEN Nothing ELSE mutex

\* Mutant: the handoff is marked when the answer is awaited.
MarkHandoffLate(c) ==
    /\ call[c].pc = "locked"
    /\ \/ call' = [call EXCEPT ![c].pc = "returned", ![c].answer = Failed] /\ mutex' = Unlocked(c)
       \/ ~transport.closed /\ Moves(c, "write") /\ UNCHANGED mutex
    /\ UNCHANGED <<transport, route, capability, dispatcher, runtime, wire>>

\* MarkHandoff, before the first byte can leave: writeMessage, Factory.Open.  A
\* closed transport, a frame beyond the limit or a request that cannot be built
\* fails before it.  The context is not looked at again.
MarkHandoff(c) ==
    /\ call[c].pc = "locked"
    /\ \/ call' = [call EXCEPT ![c].pc = "returned", ![c].answer = Failed] /\ mutex' = Unlocked(c)
       \/ ~transport.closed /\ call' = [call EXCEPT ![c].pc = "write", ![c].handedOff = TRUE] /\ UNCHANGED mutex
    /\ UNCHANGED <<transport, route, capability, dispatcher, runtime, wire>>

\* The request is written, or the write or the connection fails; a stdio call
\* that the pipe holds keeps the exchange lock.
WriteRequest(c) ==
    /\ call[c].pc = "write"
    /\ WriteReturns
    /\ \/ /\ ~transport.closed
          /\ wire' = [wire EXCEPT !.delivered = @ \cup {c}]
          /\ Moves(c, "await")
          /\ UNCHANGED mutex
       \/ /\ call' = [call EXCEPT ![c].pc = "returned", ![c].answer = Failed]
          /\ mutex' = Unlocked(c)
          /\ UNCHANGED wire
    /\ UNCHANGED <<transport, route, capability, dispatcher, runtime>>

\* (external) The server answers a request it got, over HTTP on the connection
\* that is still waiting for it; there it may also say that the session is gone.
ServerAnswers(c) ==
    /\ c \in wire.delivered \ wire.answered
    /\ ~transport.closed
    /\ transport.kind = "http" => call[c].pc = "await"
    /\ \E body \in {"ok", "error"} \cup (IF transport.kind = "http" /\ transport.era = "legacy" THEN {"lost"} ELSE {}) :
          wire' = [wire EXCEPT !.answered = @ \cup {c}, !.frames = Append(@, [id |-> c, body |-> body])]
    /\ UNCHANGED <<transport, route, capability, dispatcher, runtime, mutex, call>>

\* Mutant: an exchange that ends with its context keeps the lock.
ExchangeReturnsLocked(c) ==
    /\ call[c].pc = "await"
    /\ \/ \E i \in 1 .. Len(wire.frames) :
             /\ IF transport.kind = "stdio" THEN i = 1 ELSE wire.frames[i].id = c
             /\ call' = [call EXCEPT ![c].pc = IF wire.frames[i].body = "lost" THEN "lost" ELSE "returned",
                                     ![c].answer = wire.frames[i]]
             /\ wire' = [wire EXCEPT !.frames = SubSeq(@, 1, i - 1) \o SubSeq(@, i + 1, Len(@))]
             /\ mutex' = Unlocked(c)
       \/ /\ call[c].expired \/ transport.closed
          /\ call' = [call EXCEPT ![c].pc = "returned", ![c].answer = Failed]
          /\ UNCHANGED <<wire, mutex>>
    /\ UNCHANGED <<transport, route, capability, dispatcher, runtime>>

\* Exchange returns: the next frame of the process or the response to this
\* request; the context that ended; a transport that closed.
ExchangeReturns(c) ==
    /\ call[c].pc = "await"
    /\ \/ \E i \in 1 .. Len(wire.frames) :
             /\ IF transport.kind = "stdio" THEN i = 1 ELSE wire.frames[i].id = c
             /\ call' = [call EXCEPT ![c].pc = IF wire.frames[i].body = "lost" THEN "lost" ELSE "returned",
                                     ![c].answer = wire.frames[i]]
             /\ wire' = [wire EXCEPT !.frames = SubSeq(@, 1, i - 1) \o SubSeq(@, i + 1, Len(@))]
       \/ /\ call[c].expired \/ transport.closed
          /\ call' = [call EXCEPT ![c].pc = "returned", ![c].answer = Failed]
          /\ UNCHANGED wire
    /\ mutex' = Unlocked(c)
    /\ UNCHANGED <<transport, route, capability, dispatcher, runtime>>

\* After perform: a context that ended overrides a valid response and asks for
\* cancellation in the same goroutine.
PerformReturns(c) ==
    /\ call[c].pc = "returned"
    /\ LET x == call[c]
           answer == IF x.answer.id \in {c, Nothing} THEN Failed ELSE x.answer
       IN  call' = [call EXCEPT ![c] = IF x.expired THEN [RequestCancellation(x, "self") EXCEPT !.pc = "finish", !.answer = answer]
                                       ELSE [x EXCEPT !.pc = "finish"]]
    /\ UNCHANGED <<transport, route, capability, dispatcher, runtime, mutex, wire>>

\* decodeResponse: a frame with another ID is a complete, invalid response; a
\* lost session is an error without one.
Decode(c, frame) ==
    IF frame = Failed \/ frame.body = "lost"
    THEN IF call[c].handedOff THEN "start_uncertain" ELSE "pre_start"
    ELSE IF frame.id # c THEN "response_invalid" ELSE frame.body

\* finish(true), unregisterCall and the failure class.
ExecuteReturns(c) ==
    /\ call[c].pc = "finish"
    /\ call[c].sender # "self"
    /\ call' = [call EXCEPT ![c] = [Finish(@) EXCEPT !.pc = "release", !.result = Decode(c, call[c].answer)]]
    /\ runtime' = [runtime EXCEPT !.active = @ \ {c}]
    /\ UNCHANGED <<transport, route, capability, dispatcher, mutex, wire>>

-----------------------------------------------------------------------------
(* The runtime stops, the catalog is published again *)

\* Runtime.Close: new calls are refused, then each active call is cancelled in
\* turn, then the transport is closed.  It runs in the manager's goroutine, or
\* in that of a call that learned that the session is lost.
CloseBegins ==
    /\ ~runtime.closed
    /\ runtime' = [runtime EXCEPT !.closed = TRUE, !.closing = runtime.active]
    /\ UNCHANGED <<transport, route, capability, dispatcher, mutex, wire, call>>

SessionLost(c) ==
    /\ call[c].pc = "lost"
    /\ \/ ~runtime.closed /\ runtime' = [runtime EXCEPT !.closed = TRUE, !.closing = runtime.active] /\ UNCHANGED call
       \/ runtime.coordinator = "closed" /\ Moves(c, "returned") /\ UNCHANGED runtime
    /\ UNCHANGED <<transport, route, capability, dispatcher, mutex, wire>>

CloseCancels(c) ==
    /\ runtime.closing # Nothing /\ c \in runtime.closing
    /\ \A d \in Calls : call[d].sender # "close"
    /\ call' = [call EXCEPT ![c] = RequestCancellation(@, "close")]
    /\ runtime' = [runtime EXCEPT !.closing = @ \ {c}]
    /\ UNCHANGED <<transport, route, capability, dispatcher, mutex, wire>>

CloseTransport ==
    /\ runtime.closing = {}
    /\ \A d \in Calls : call[d].sender # "close"
    /\ transport' = [transport EXCEPT !.closed = TRUE]
    /\ runtime' = [runtime EXCEPT !.closing = Nothing, !.coordinator = "closed"]
    /\ UNCHANGED <<route, capability, dispatcher, mutex, wire, call>>

\* RouteRegistry.replace or withdraw, under the active registry's lock: the
\* old capability is fenced and its binding is no longer the registry's.  The
\* leases are cancelled after the locks are released.
Replace(next) ==
    /\ route # Nothing
    /\ next # Nothing => capability[next] = NewCapability /\ next # route
    /\ capability' = [capability EXCEPT ![route] = [@ EXCEPT !.current = FALSE,
                          !.availability = IF next = Nothing THEN "unavailable" ELSE "stale", !.withdrawing = {"pending"}]]
    /\ route' = next
    /\ UNCHANGED <<transport, dispatcher, runtime, mutex, wire, call>>

\* Capability.Withdraw takes the leases of the moment.
WithdrawBegins(k) ==
    /\ capability[k].withdrawing = {"pending"}
    /\ capability' = [capability EXCEPT ![k].withdrawing = capability[k].leases]
    /\ UNCHANGED <<transport, route, dispatcher, runtime, mutex, wire, call>>

\* Lease.Cancel: the call is asked to stop; an unused lease is released here.
WithdrawCancels(k, c) ==
    /\ c \in capability[k].withdrawing
    /\ \A d \in Calls : call[d].sender # "withdraw"
    /\ LET x == [call[c] EXCEPT !.leaseCancelled = TRUE]
           unused == ~x.used /\ ~x.released
       IN  /\ call' = [call EXCEPT ![c] = IF x.started THEN RequestCancellation(x, "withdraw")
                                          ELSE IF unused THEN [x EXCEPT !.released = TRUE, !.object = Nothing] ELSE x]
           /\ dispatcher' = IF unused THEN releaseServer(Slot(dispatcher, x.object, -1), x.object) ELSE dispatcher
           /\ capability' = [capability EXCEPT ![k].withdrawing = @ \ {c}, ![k].leases = IF unused THEN @ \ {c} ELSE @]
    /\ UNCHANGED <<transport, route, runtime, mutex, wire>>

-----------------------------------------------------------------------------
DispatchStep(c) ==
    \/ AcquireGlobal(c) \/ AcquireServer(c) \/ AcquireSlot(c) \/ AcquireRevalidate(c) \/ AcquireRegister(c) \/ AcquireRefused(c)
    \/ ExecuteChecks(c) \/ ExecuteStarts(c) \/ ReleaseSlot(c) \/ ReleaseUser(c)
    \/ Execute(c) \/ Enroll(c) \/ ExchangeBegins(c) \/ TakeExchange(c) \/ MarkHandoff(c) \/ WriteRequest(c)
    \/ ExchangeReturns(c) \/ PerformReturns(c) \/ ExecuteReturns(c) \/ SessionLost(c)

DownstreamStep ==
    \/ \E c \in Calls : DispatchStep(c) \/ ContextEnds(c) \/ WatchFires(c) \/ SendCancellation(c) \/ ServerAnswers(c) \/ CloseCancels(c)
    \/ CloseBegins \/ CloseTransport \/ ServerStopsReading \/ ServerReadsAgain
    \/ \E next \in Capabilities \cup {Nothing} : Replace(next)
    \/ \E k \in Capabilities : WithdrawBegins(k) \/ \E c \in Calls : WithdrawCancels(k, c)

-----------------------------------------------------------------------------
(* Properties *)

Holding(c) == call[c].pc \in {"revalidate", "register", "refuse"} \/ (call[c].pc \notin {"idle", "resolve", "acquire", "users", "slot", "released", "done"} /\ ~call[c].released)

\* The limits of the dispatcher hold across publications: never more calls than
\* its limit hold a slot of the server, whichever admission object they took
\* it from, and a call that is over holds nothing (capability.go Acquire,
\* release, releaseServer).
SlotsAreBounded ==
    /\ Cardinality({c \in Calls : Holding(c)}) <= dispatcher.limit
    /\ dispatcher.global <= GlobalLimit
    /\ (\A c \in Calls : call[c].pc \in {"idle", "resolve", "acquire", "done"}) => dispatcher.global = 0 /\ dispatcher.server = Nothing

\* A call that was cancelled while the server may be working on it has exactly
\* one cancellation notification sent for it, whether the cancellation came
\* before or after the handoff and however many goroutines asked for it
\* (call.go requestCancellation, Execute, finish).
CancellationIsSent ==
    \A c \in Calls :
       /\ call[c].sent <= 1
       /\ call[c].done /\ call[c].requested /\ call[c].handedOff /\ shouldNotify => call[c].sent = 1
=============================================================================
