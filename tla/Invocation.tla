----------------------------- MODULE Invocation -----------------------------
(***************************************************************************)
(* tools/call from the ingress to its response                             *)
(* (internal/invocation/service.go, result.go, pipeline.go): the pipeline  *)
(* fence, classification and admission, dispatch (Downstream) and what the *)
(* optional history gets to see of it (Traffic).                           *)
(*                                                                         *)
(* The decision of the authority is external here: Authority models it.    *)
(* Processes that are being negotiated with stand beside the runtime that  *)
(* carries the calls.                                                      *)
(***************************************************************************)
EXTENDS Downstream, Traffic, Process

ASSUME NothingIsNoResponse == Nothing \notin {"rejected", "prestart_failure", "succeeded"}

VARIABLES
    fence,      \* PipelineFence: [draining, active]
    response    \* [Calls -> the terminal class, or the rejection, that the agent was told]

callsVars == <<downstreamVars, trafficVars, processVars, fence, response>>

CallsInit ==
    /\ DownstreamInit
    /\ TrafficInit
    /\ ProcessInit
    /\ fence = [draining |-> FALSE, active |-> {}]
    /\ response = [c \in Calls |-> Nothing]

\* SanitizeCallResult.
TerminalClass(result) ==
    CASE result = "ok" -> "succeeded"
      [] result \in {"error", "response_invalid"} -> "downstream_failure"
      [] result = "pre_start" -> "prestart_failure"
      [] result = "start_uncertain" -> "outcome_unknown"

\* TryEnter; its bound of 1024 active calls is far beyond the calls of an instance.
Enter(c) ==
    /\ call[c].pc = "idle"
    /\ ~fence.draining
    /\ fence' = [fence EXCEPT !.active = @ \cup {c}]
    /\ Moves(c, "resolve")
    /\ UNCHANGED <<transport, route, capability, dispatcher, runtime, mutex, wire, trafficVars, response>>

\* Call up to Admit's observation: parameters, route and arguments are
\* classified, the authority evaluates, and the admission is offered to the
\* history.  An ALLOW still has to be confirmed; a rejection is the response.
Admit(c) ==
    /\ call[c].pc = "resolve"
    /\ \/ /\ call' = [call EXCEPT ![c].pc = "done"]
          /\ response' = [response EXCEPT ![c] = "rejected"]
          /\ fence' = [fence EXCEPT !.active = @ \ {c}]
       \/ /\ route # Nothing
          /\ call' = [call EXCEPT ![c].pc = "acquire", ![c].cap = route]
          /\ UNCHANGED <<response, fence>>
    /\ ObserveMCP(c)
    /\ UNCHANGED <<transport, route, capability, dispatcher, runtime, mutex, wire>>

\* finish: the terminal is offered to the history and the agent is answered,
\* whatever becomes of the offer.
Respond(c) ==
    /\ call[c].pc = "done" /\ c \in fence.active
    /\ LET class == TerminalClass(call[c].result)
       IN  /\ response' = [response EXCEPT ![c] = class]
           /\ ObserveMCPCompletion(c, class)
    /\ fence' = [fence EXCEPT !.active = @ \ {c}]
    /\ UNCHANGED downstreamVars

\* The process drains: the fence and the history stop taking work.
Drain ==
    /\ ~fence.draining
    /\ fence' = [fence EXCEPT !.draining = TRUE]
    /\ BeginDrain
    /\ UNCHANGED <<downstreamVars, response>>

CallStep(c) == Enter(c) \/ Admit(c) \/ Respond(c)

HistoryStep ==
    /\ \/ WriterStep \/ OpenerStep \/ StartOpening \/ ReadFails \/ CloseFacade \/ CloseReturns
       \/ \E i \in TrafficIds : ObserveCollision(i)
    /\ UNCHANGED <<downstreamVars, fence, response>>

CallsNext ==
    \/ (\E c \in Calls : CallStep(c)) /\ UNCHANGED processVars
    \/ Drain /\ UNCHANGED processVars
    \/ DownstreamStep /\ UNCHANGED <<trafficVars, processVars, fence, response>>
    \/ HistoryStep /\ UNCHANGED processVars
    \/ ProcessStep /\ UNCHANGED <<downstreamVars, trafficVars, fence, response>>

CallsSpec == CallsInit /\ [][CallsNext]_callsVars

-----------------------------------------------------------------------------
(* Properties *)

\* What the agent is told is true of the server: a call that is said not to have
\* started never reached it, and a success is the server's answer to that very
\* call (call.go Execute, result.go SanitizeCallResult).
HonestOutcome ==
    \A c \in Calls :
       /\ response[c] \in {"prestart_failure", "rejected"} => c \notin wire.delivered
       /\ response[c] = "succeeded" => call[c].answer = [id |-> c, body |-> "ok"]

\* A retained terminal is the response that the agent got (service.go finish).
TerminalIsResponse ==
    \A j \in 1 .. Len(history.rows) :
       LET row == history.rows[j] IN row.facts = "own" /\ row.terminal # Nil => row.terminal = response[row.id]

\* Every call that entered ends, and so the pipeline drains: no cancellation,
\* withdrawal or shutdown leaves a call waiting for a lock, a frame or a token,
\* whether the server answers or not (pipeline.go, call.go, capability.go).  A
\* stdio server that never reads its input again does hold a call, and everyone
\* who waits for the exchange lock (downstream.go writeMessage): the hypothesis.
CallsEnd == []<>Reading => \A c \in Calls : (call[c].pc # "idle" ~> c \notin fence.active)

\* What the agent and the server are told about one call agrees.
OneStory == HonestOutcome /\ CancellationIsSent

\* The history holds what was observed and what the agents were told, and it is
\* healthy again only after a validation that began since the last failure.
HistoryIsTrue == HistoryIsSound /\ RecoveryIsCurrent /\ TerminalIsResponse

\* What a call or a process occupies is bounded and given back.
ResourcesAreOwned == SlotsAreBounded /\ ProcessesAreOwned /\ FallbackAfterReap

\* Calls end, and the history closes after them.
EverythingEnds == CallsEnd /\ HistoryCloses
=============================================================================
