---------------------------- MODULE MCInvocation ----------------------------
(* Calls, dispatch and the history of calls on a small instance. *)
EXTENDS Invocation, TLC

CONSTANTS c1, c2, k1, k2, o1, o2

\* A behaviour puts its weight on one part: the dispatcher's limits and leases
\* ("admission"), the transport that two calls share ("exchange"), the history of
\* calls that are dispatched in one step ("history"), or a negotiation
\* ("process").
VARIABLE focus

MCInit ==
    /\ CallsInit
    /\ route = k1
    /\ \/ focus = "admission" /\ dispatcher.limit = 1 /\ transport.kind = "http" /\ transport.era = "modern"
       \/ focus = "exchange" /\ dispatcher.limit = 2 /\ transport.era = "legacy"
       \/ focus \in {"history", "process"} /\ dispatcher.limit = 1 /\ transport.kind = "http" /\ transport.era = "modern"
    /\ focus # "process" => negotiation.mode = "modern"

Acquiring == {"users", "slot", "revalidate", "register", "refuse", "leased", "start", "release", "released"}
Exchanging == {"execute", "enroll", "perform", "waiting", "locked", "write", "await", "lost", "returned", "finish"}

\* While a call is at one of these points no other call moves and no catalog is
\* published.
Alone(points) ==
    \A c \in Calls : call[c].pc \in points => UNCHANGED <<route, fence>> /\ \A d \in Calls \ {c} : call'[d].pc = call[d].pc

\* The server's catalog is published again, or its runtime closed, once.
Troubles == (IF runtime.closed THEN 1 ELSE 0) + Cardinality({k \in Capabilities : ~capability[k].current})

\* A context ends only from the exchange on; a call is rejected, and its lease
\* refused, only without a route or a runtime; no answer is an error; the server is withdrawn rather than
\* published again; c2 comes once c1's request was written; the server stops
\* reading when a request or a notification is about to be written, and is not
\* withdrawn too.
EndsInExchange ==
    /\ transport'.reading = "yet" \/ route' # Nothing
    /\ transport'.reading = "not" => transport.reading = "not" \/ \E c \in Calls : call[c].pc = "write" \/ call[c].sender # Nothing
    /\ route' \in {route, Nothing}
    /\ \A j \in DOMAIN wire'.frames : wire'.frames[j].body # "error"
    /\ call'[c2].pc # "idle" => transport.kind = "stdio" /\ wire.delivered # {}
    /\ \A c \in Calls :
          /\ call'[c].cancelled => call[c].cancelled \/ call[c].pc \in (IF transport.kind = "http" THEN {"perform", "await"} ELSE {"waiting", "write", "await"})
          /\ response'[c] = "rejected" \/ (call[c].pc = "leased" /\ call'[c].pc = "release") => route = Nothing \/ runtime.closed

InOrder == call'[c2].pc # "idle" => call[c1].pc # "idle"

\* Of the two calls c1 enters first, and only c1 gets an error for an answer.
Dispatch ==
    /\ UNCHANGED <<trafficVars, processVars>>
    /\ Troubles' <= 1
    /\ InOrder
    /\ call'[c2].cancelled => call[c2].cancelled \/ call[c2].pc \in {"perform", "await"}
    /\ c2 \in wire'.answered => c2 \in wire.answered \/ wire'.frames[Len(wire'.frames)].body = "ok"

\* Everything between an admission and its terminal.
DispatchAtOnce(c) ==
    /\ call[c].pc = "acquire"
    /\ call' = [call EXCEPT ![c].pc = "done", ![c].result = "ok", ![c].answer = [id |-> c, body |-> "ok"]]
    /\ wire' = [wire EXCEPT !.delivered = @ \cup {c}, !.answered = @ \cup {c}]
    /\ UNCHANGED <<transport, route, capability, dispatcher, runtime, mutex, trafficVars, fence, response>>

\* c1 is dispatched and c2 rejected, one collision is queued at a time, and the
\* second failure comes during a recovery.
History ==
    /\ UNCHANGED <<transport, route, capability, dispatcher, runtime, mutex, wire, processVars>>
    /\ \A c \in Calls : ~call'[c].cancelled /\ call'[c].pc # "users"
    /\ InOrder /\ call'[c2].pc # "acquire" /\ response'[c1] # "rejected"
    /\ faults' > 1 => faults > 1 \/ writer.pc = "recover"
    /\ Cardinality({j \in DOMAIN queue' : queue'[j].facts = "other"}) <= 1

\* The fresh process is not at fault and has no children.
Negotiation ==
    /\ UNCHANGED <<downstreamVars, trafficVars, fence>>
    /\ ~process'["fresh"].children /\ "context" \notin process'["fresh"].callers /\ ~process'["fresh"].failure

MCNext ==
    /\ UNCHANGED focus
    /\ \/ /\ CallsNext
          /\ focus = "admission" => Dispatch /\ Alone(Exchanging) /\ wire'.answered = wire'.answered \cap {c1}
          /\ focus = "exchange" => Dispatch /\ Alone(Acquiring) /\ EndsInExchange
          /\ focus = "history" => History
          /\ focus = "process" => Negotiation
       \/ focus = "history" /\ (\E c \in Calls : DispatchAtOnce(c)) /\ UNCHANGED processVars

mcVars == <<callsVars, focus>>

\* What goroutines do by themselves: a call's own steps, those that send and
\* cancel, the end of a context (every call has a deadline) and a Close that
\* began.  Nothing is assumed of the server: whether it reads is a hypothesis of
\* the property.
CallProgress ==
    /\ UNCHANGED <<processVars, focus>>
    /\ \/ /\ focus # "history"
          /\ \E c \in Calls : DispatchStep(c) \/ SendCancellation(c) \/ CloseCancels(c) \/ ContextEnds(c)
          /\ UNCHANGED <<trafficVars, fence, response>>
       \/ focus # "history" /\ CloseTransport /\ UNCHANGED <<trafficVars, fence, response>>
       \/ focus = "history" /\ \E c \in Calls : DispatchAtOnce(c)
       \/ \E c \in Calls : Admit(c) \/ Respond(c)

\* The history's writer, opener and Close.
HistoryProgress ==
    /\ WriterStep \/ OpenerStep \/ CloseFacade \/ CloseReturns
    /\ UNCHANGED <<downstreamVars, processVars, fence, response, focus>>

\* One condition for all goroutines of a half: a call takes finitely many steps,
\* so the condition forces each of them in the end.
MCSpec == MCInit /\ [][MCNext]_mcVars /\ WF_mcVars(CallProgress) /\ WF_mcVars(HistoryProgress)
=============================================================================
