----------------------------- MODULE MCConsole -----------------------------
(* The web console on a small instance, one concern at a time: "views" follows the
   panels through sessions, streams and navigation; "lists" the reader of one history
   list while records come and go; "export" a complete download; "related" the list
   beside one record; and "hub" the server's end of the event streams. *)
EXTENDS Console, EventHub

CONSTANTS invocations, system_status, servers   \* kinds of hints

CONSTANT Focuses

VARIABLE focus

MCInit ==
  /\ ConsoleInit /\ HubInit
  /\ focus \in Focuses
  /\ focus \in {"views", "hub"} => config.kind = "http"
  /\ focus = "hub" => config.scope = "view" /\ ui.view = "list" /\ session = "ok"
  /\ focus = "lists" => config.kind \in Traffic \union {"audit"} /\ config.scope = "view" /\ ui.view = "list" /\ session = "ok"
  /\ focus = "export" => config.kind = "export" /\ config.scope = "view" /\ ui.view = "list" /\ session = "ok"
  /\ focus = "related" => config.kind = "related" /\ config.scope = "view"

\* What is disturbed in each instance.
Disturbances == used'.drops + used'.moves + used'.fails + used'.losses + used'.clicks
Quiet == Connected /\ unpublished = 0 /\ stream.queue = 0 /\ ui.pending = {}
Changed == historyVars' # historyVars
Allowed ==
  /\ focus = "views" => Disturbances <= 2 /\ (config.scope = "session" => used'.clicks = 0) /\ used'.moves + used'.clicks <= 1 /\ hist'.high <= 1 /\ hist'.gen = 1 /\ names' = 1 /\ Pruning' = 0
  /\ focus = "lists" => /\ used'.losses + used'.drops + used'.moves = 0 /\ used'.clicks <= 2
                        /\ hist'.gen + names' + used'.fails <= 3 /\ (hist'.gen = 2 => hist'.high <= 1)
                        /\ (Changed => Quiet)
  /\ focus = "export" => /\ used'.losses + used'.drops = 0 /\ used'.clicks + used'.moves + used'.fails <= 2 /\ names' = 1
                         /\ (Changed => Quiet)
  /\ focus = "related" => used'.losses + used'.drops = 0 /\ Disturbances <= 2 /\ hist'.high <= 2 /\ hist'.gen = 1 /\ (Changed => Quiet)

MCNext ==
  /\ \/ focus # "hub" /\ ConsoleNext /\ Allowed /\ UNCHANGED vars
     \/ focus = "hub" /\ Next /\ UNCHANGED pageVars
  /\ UNCHANGED focus
MCvars == <<vars, pageVars, focus>>

\* The goroutines and timers of the browser and of the hub run.
Obliged ==
  /\ \/ focus # "hub" /\ Browser /\ UNCHANGED vars
     \/ focus = "hub" /\ (TimerFires \/ FlushCoalesced \/ ShutdownReturns) /\ UNCHANGED pageVars
  /\ UNCHANGED focus
MCFairSpec == MCInit /\ [][MCNext]_MCvars /\ WF_MCvars(Obliged)

\* Hints take effect: a pending flush of the hub always runs, so that with NothingLost a
\* hint reaches every stream it is meant for or the stream is closed; and whenever the
\* disturbances stop, a signed-in console has its stream and every panel that follows the
\* server is up to date or says that it failed.
HintsArrive == []<>(IF focus = "hub" THEN ~FlushPending ELSE AtRest)
=============================================================================
