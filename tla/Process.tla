------------------------------- MODULE Process -------------------------------
(***************************************************************************)
(* Negotiation with a stdio server (internal/downstream/negotiation.go)    *)
(* over the processes of the supervisor (internal/runtimes/stdio.go): one  *)
(* process is probed, and in automatic mode a fresh one may be started for *)
(* the legacy protocol.                                                    *)
(*                                                                         *)
(* A process has a waiter and two readers.  Stops come from the negotiator, *)
(* from a reader that found the output at fault and from the end of the    *)
(* context, and take turns.  Children of the process may outlive it and    *)
(* keep its output open.                                                   *)
(***************************************************************************)
EXTENDS Integers

CONSTANTS
    FrameQueue,   \* capacity of the channel of frames
    Absent

Procs == {"probe", "fresh"}

VARIABLES
    negotiation,  \* [mode, pc, coordinator]
    process       \* [Procs -> ...]

processVars == <<negotiation, process>>

\* The supervisor's slot; whether the process and its children run; its
\* readers; queued frames; StdioRuntime's failure, requested, exited, finished
\* and context; who waits to stop it, and where Stop is.
NotStarted == [slot |-> "none", alive |-> FALSE, children |-> FALSE, stdout |-> "none", stderr |-> "none", frames |-> 0,
               failure |-> FALSE, requested |-> FALSE, exited |-> FALSE, finished |-> FALSE, cancelled |-> FALSE,
               callers |-> {}, stopper |-> Absent, stop |-> "none"]

ProcessInit ==
    /\ negotiation \in [mode : {"modern", "legacy", "auto"}, pc : {"idle"}, coordinator : {Absent}]
    /\ process = [p \in Procs |-> NotStarted]

-----------------------------------------------------------------------------
(* The supervisor *)

\* StdioSupervisor.Start: the runtime's slot is reserved, the process spawned
\* and its group verified; or everything is taken back.
Start(p, started) ==
    /\ \A q \in Procs : process[q].slot = "none"
    /\ negotiation' = [negotiation EXCEPT !.pc = started, !.coordinator = p]
    /\ process' = [process EXCEPT ![p] = [NotStarted EXCEPT !.slot = "held", !.alive = TRUE, !.stdout = "reading", !.stderr = "reading"]]

StartFails ==
    /\ negotiation' = [negotiation EXCEPT !.pc = "failed", !.coordinator = Absent]
    /\ UNCHANGED process

\* StopNow: another goroutine will stop the process.
StoppedBy(x, caller) == [x EXCEPT !.callers = @ \cup {caller}]

\* readFrames: a frame is queued; a full queue, a rate or a frame beyond the
\* limits ends the reader and the process; so does a frame after the context's
\* end, without a fault.
ReadFrame(p) ==
    LET x == process[p]
    IN  /\ x.stdout = "reading" /\ (x.alive \/ x.children)
        /\ process' = [process EXCEPT ![p] =
              IF x.cancelled THEN [x EXCEPT !.stdout = "done"]
              ELSE IF x.frames = FrameQueue THEN StoppedBy([x EXCEPT !.stdout = "done", !.failure = TRUE], "reader")
              ELSE [x EXCEPT !.frames = @ + 1]]
        /\ UNCHANGED negotiation

\* readStderr: what is beyond the budget is cut, output beyond the rate is at
\* fault, and after any output the context is looked at.
ReadStderr(p) ==
    LET x == process[p]
    IN  /\ x.stderr = "reading" /\ (x.alive \/ x.children)
        /\ \/ process' = [process EXCEPT ![p] = StoppedBy([x EXCEPT !.stderr = "done", !.failure = TRUE], "reader")]
           \/ x.cancelled /\ process' = [process EXCEPT ![p].stderr = "done"]
        /\ UNCHANGED negotiation

\* A reader meets the end of its stream, which comes when nobody can write.  A
\* last line that is not complete is a fault.
ReaderEnds(p) ==
    LET x == process[p]
        ended == [x EXCEPT !.stdout = "done", !.stderr = "done"]
    IN  /\ ~x.alive /\ ~x.children /\ "reading" \in {x.stdout, x.stderr}
        /\ \/ process' = [process EXCEPT ![p] = ended]
           \/ x.stdout = "reading" /\ process' = [process EXCEPT ![p] = StoppedBy([ended EXCEPT !.failure = TRUE], "reader")]
        /\ UNCHANGED negotiation

\* (external) The process makes children, ends by itself, or they end.
ChildAppears(p) == process[p].alive /\ process' = [process EXCEPT ![p].children = TRUE] /\ UNCHANGED negotiation
ProcessEnds(p) == process[p].alive /\ process' = [process EXCEPT ![p].alive = FALSE] /\ UNCHANGED negotiation
ChildEnds(p) == process[p].children /\ process' = [process EXCEPT ![p].children = FALSE] /\ UNCHANGED negotiation

\* supervise: Wait returned.
WaitReturns(p) ==
    /\ process[p].slot = "held" /\ ~process[p].alive /\ ~process[p].exited
    /\ process' = [process EXCEPT ![p].exited = TRUE]
    /\ UNCHANGED negotiation

\* Then both readers are waited for; the slot is released before the exit is
\* published.
Reaped(p) ==
    /\ process[p].exited /\ ~process[p].finished
    /\ process[p].stdout = "done" /\ process[p].stderr = "done"
    /\ process' = [process EXCEPT ![p].slot = "none", ![p].finished = TRUE, ![p].cancelled = TRUE]
    /\ UNCHANGED negotiation

-----------------------------------------------------------------------------
(* Stop *)

\* The context that Start was given ends.
ContextDone(p) ==
    /\ process[p].slot = "held" /\ ~process[p].finished /\ ~process[p].requested
    /\ process' = [process EXCEPT ![p] = StoppedBy(@, "context")]
    /\ UNCHANGED negotiation

\* stopMu is taken.  A process that was waited for is only joined; otherwise its
\* input is closed and its group is signalled, which is refused when the group
\* is not the one captured.
StopBegins(p, caller) ==
    LET x == process[p]
    IN  /\ caller \in x.callers /\ x.stop = "none"
        /\ \/ process' = [process EXCEPT ![p] = [x EXCEPT !.callers = @ \ {caller}, !.stopper = caller,
                              !.stop = IF x.exited THEN "join" ELSE "graceful",
                              !.requested = @ \/ ~x.exited, !.cancelled = @ \/ ~x.exited]]
           \/ /\ ~x.exited
              /\ process' = [process EXCEPT ![p] = [x EXCEPT !.callers = @ \ {caller}, !.stopper = caller,
                                 !.stop = "unconfirmed", !.requested = TRUE, !.cancelled = TRUE]]
        /\ UNCHANGED negotiation

\* The graceful deadline passes: the group is killed, or has changed, or its
\* leader was waited for and the group is not found.
StopForces(p) ==
    /\ process[p].stop = "graceful" /\ ~process[p].finished
    /\ \/ ~process[p].exited /\ process' = [process EXCEPT ![p].alive = FALSE, ![p].children = FALSE, ![p].stop = "join"]
       \/ process' = [process EXCEPT ![p].stop = IF process[p].exited THEN "join" ELSE "unconfirmed"]
    /\ UNCHANGED negotiation

\* The exit was published, or the last deadline or the context ended first.
StopSettles(p) ==
    /\ process[p].stop \in {"graceful", "join"}
    /\ \/ process[p].finished /\ process' = [process EXCEPT ![p].stop = "confirmed"]
       \/ process[p].stop = "join" /\ ~process[p].finished /\ process' = [process EXCEPT ![p].stop = "unconfirmed"]
    /\ UNCHANGED negotiation

\* A stop that nobody waits for.
StopNowReturns(p) ==
    /\ process[p].stop \in {"confirmed", "unconfirmed"} /\ process[p].stopper # "close"
    /\ process' = [process EXCEPT ![p].stop = "none", ![p].stopper = Absent]
    /\ UNCHANGED negotiation

-----------------------------------------------------------------------------
(* The negotiator *)

OpenProbe ==
    /\ negotiation.pc = "idle"
    /\ \/ Start("probe", IF negotiation.mode = "legacy" THEN "initialize" ELSE "discover")
       \/ StartFails

Goes(pc) == negotiation' = [negotiation EXCEPT !.pc = pc]

\* negotiateModern: a valid answer selects the modern protocol; exact evidence
\* of a legacy server allows the fallback; anything else is an error.
Discover ==
    /\ negotiation.pc = "discover"
    /\ \/ process[negotiation.coordinator].alive /\ Goes("modern")
       \/ Goes(IF negotiation.mode = "auto" THEN "close_probe" ELSE "close_failed")
       \/ Goes("close_failed")
    /\ UNCHANGED process

\* negotiateLegacy: initialize and the initialized notification.
Initialize ==
    /\ negotiation.pc = "initialize"
    /\ \/ process[negotiation.coordinator].alive /\ Goes("legacy")
       \/ Goes("close_failed")
    /\ UNCHANGED process

\* Coordinator.Close: StdioTransport.Close stops the process.
CloseCoordinator ==
               /\ negotiation.pc \in {"close_probe", "close_failed"}
               /\ Goes(IF negotiation.pc = "close_probe" THEN "closing_probe" ELSE "closing_failed")
               /\ process' = [process EXCEPT ![negotiation.coordinator] = StoppedBy(@, "close")]

\* Mutant: the legacy attempt starts whatever became of the probe.
AfterCloseCareless(confirmed) == "open_fresh"

\* Only a probe that is known to be gone makes room for a fresh process.
AfterClose(confirmed) == IF confirmed THEN "open_fresh" ELSE "failed"

CloseReturned ==
    LET p == negotiation.coordinator
    IN  /\ negotiation.pc \in {"closing_probe", "closing_failed"}
        /\ process[p].stopper = "close" /\ process[p].stop \in {"confirmed", "unconfirmed"}
        /\ Goes(IF negotiation.pc = "closing_probe" THEN AfterClose(process[p].stop = "confirmed") ELSE "failed")
        /\ process' = [process EXCEPT ![p].stop = "none", ![p].stopper = Absent]

OpenFresh ==
    /\ negotiation.pc = "open_fresh"
    /\ Start("fresh", "initialize") \/ StartFails

NegotiationStep == OpenProbe \/ Discover \/ Initialize \/ CloseCoordinator \/ CloseReturned \/ OpenFresh

SuperviseStep(p) ==
    \/ ReaderEnds(p) \/ WaitReturns(p) \/ Reaped(p)
    \/ StopForces(p) \/ StopSettles(p) \/ StopNowReturns(p)
    \/ \E caller \in process[p].callers : StopBegins(p, caller)

ProcessStep ==
    \/ NegotiationStep
    \/ \E p \in Procs : \/ SuperviseStep(p)
                        \/ ReadFrame(p) \/ ReadStderr(p) \/ ContextDone(p)
                        \/ ChildAppears(p) \/ ProcessEnds(p) \/ ChildEnds(p)

-----------------------------------------------------------------------------
(* Properties *)

\* No process runs unowned: while a process, or a child that holds its output,
\* may still write to a reader, the supervisor counts it; and a negotiation that
\* failed after a start has asked for a stop or has seen the exit (stdio.go
\* Start, supervise; negotiation.go Negotiate).
ProcessesAreOwned ==
    /\ \A p \in Procs : process[p].alive \/ "reading" \in {process[p].stdout, process[p].stderr} => process[p].slot = "held"
    /\ negotiation.pc = "failed" => \A p \in Procs : process[p].alive => process[p].requested

\* A fresh legacy process is started only after the probe was reaped: the two
\* never run, or hold a slot, at once.  What driver_process_test.go expects of
\* one fallback, here for every exit, fault and stop that races with it.
FallbackAfterReap ==
    process["fresh"].slot = "held" \/ negotiation.pc = "open_fresh" => process["probe"].finished /\ ~process["probe"].alive
=============================================================================
