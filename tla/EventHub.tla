------------------------------ MODULE EventHub ------------------------------
(***************************************************************************)
(* Delivery of invalidation hints to administrative event streams          *)
(* (internal/events/hub.go, read by api.streamEvents).                     *)
(*                                                                         *)
(* Every method runs under hub.mu, so a method is one action; what the     *)
(* lock does not cover is the coalescing timer, whose callback waits for   *)
(* the lock like everybody else, the watcher of a stream's session, and    *)
(* the wait at the end of Shutdown.  A stream's buffer is the number of    *)
(* hints in it: hints carry no order or payload that a property needs.     *)
(***************************************************************************)
EXTENDS Naturals, FiniteSets

CONSTANTS
  Kinds,        \* the closed set of invalidation kinds
  Coalesced,    \* those published through the 250 ms timer
  Limit,        \* event_streams
  Buffer,       \* event_buffered_invalidations
  MaxStreams,   \* bound on the identifiers handed out
  Nobody

Ids == 0 .. MaxStreams - 1

ASSUME HubAssumption ==
  /\ IsFiniteSet(Kinds)
  /\ Coalesced \subseteq Kinds
  /\ Limit \in Nat
  /\ Buffer \in Nat
  /\ MaxStreams \in Nat
  /\ Nobody \notin Nat

VARIABLES
  streams,    \* identifiers in hub.streams: the open streams
  nextID,     \* the next identifier
  buffered,   \* identifier -> hints waiting in its channel
  coalesced,  \* kind -> the last identifier it is meant for, or Nobody
  timer,      \* nil; armed; fired: its callback waits for the lock; stopped
  timerWork,  \* the WaitGroup that Shutdown waits on
  shutting,   \* hub.shutting
  shutdown,   \* the caller of Shutdown
  owed,       \* history: kinds an open stream has not received since published
  seen        \* history: kinds published since an open stream was opened

vars == <<streams, nextID, buffered, coalesced, timer, timerWork, shutting,
          shutdown, owed, seen>>
history == <<owed, seen>>

(* The callback of the timer has yet to run. *)
FlushPending == timer \in {"armed", "fired"}

HubInit ==
  /\ streams = {}
  /\ nextID = 0
  /\ buffered = [i \in Ids |-> 0]
  /\ coalesced = [k \in Coalesced |-> Nobody]
  /\ timer = "nil"
  /\ timerWork = 0
  /\ shutting = FALSE
  /\ shutdown = "idle"
  /\ owed = [i \in Ids |-> {}]
  /\ seen = [i \in Ids |-> {}]

(* A stream is admitted below the limit and gets the next identifier. *)
Subscribe ==
  /\ ~shutting
  /\ Cardinality(streams) < Limit
  /\ nextID \in Ids
  /\ streams' = streams \cup {nextID}
  /\ nextID' = nextID + 1
  /\ UNCHANGED <<buffered, coalesced, timer, timerWork, shutting, shutdown,
                 history>>

(* A history is kept for the streams that are open after the step. *)
OfOpen(h) == [i \in Ids |-> IF i \in streams' THEN h[i] ELSE {}]
Noted(h, k) == [i \in Ids |-> h[i] \cup {k}]

(* A kind that is not coalesced goes to every open stream at once; a full  *)
(* stream is closed instead.                                               *)
PublishNow(k) ==
  /\ ~shutting
  /\ k \in Kinds \ Coalesced
  /\ streams' = {i \in streams : buffered[i] < Buffer}
  /\ buffered' = [i \in Ids |->
       IF i \in streams' THEN buffered[i] + 1 ELSE buffered[i]]
  /\ owed' = OfOpen(owed)
  /\ seen' = OfOpen(Noted(seen, k))
  /\ UNCHANGED <<nextID, coalesced, timer, timerWork, shutting, shutdown>>

\* Mutant: the newest stream is left out of a coalesced hint.
ThroughPrevious == IF nextID > 1 THEN nextID - 2 ELSE 0

(* The streams a coalesced hint is meant for: those opened so far. *)
Through == nextID - 1

(* A coalesced kind only notes whom it is for and arms the timer. *)
PublishLater(k) ==
  /\ ~shutting
  /\ k \in Coalesced
  /\ streams # {}
  /\ streams' = streams
  /\ coalesced' = [coalesced EXCEPT ![k] = Through]
  /\ timer' = IF timer = "nil" THEN "armed" ELSE timer
  /\ timerWork' = IF timer = "nil" THEN timerWork + 1 ELSE timerWork
  /\ owed' = OfOpen(Noted(owed, k))
  /\ seen' = OfOpen(Noted(seen, k))
  /\ UNCHANGED <<nextID, buffered, shutting, shutdown>>

TimerFires ==
  /\ timer = "armed"
  /\ timer' = "fired"
  /\ UNCHANGED <<streams, nextID, buffered, coalesced, timerWork, shutting,
                 shutdown, history>>

(* The hints that a flush puts into the channel of stream i. *)
Due(i) == {k \in Coalesced : coalesced[k] # Nobody /\ i <= coalesced[k]}

(* What becomes of the open streams and of the pending kinds in a flush: a *)
(* stream without room for all that is due to it is closed with a full     *)
(* buffer.                                                                 *)
Deliver ==
  /\ streams' = {i \in streams : buffered[i] + Cardinality(Due(i)) <= Buffer}
  /\ buffered' = [i \in Ids |->
       IF i \in streams' THEN buffered[i] + Cardinality(Due(i))
       ELSE IF i \in streams THEN Buffer ELSE buffered[i]]
  /\ owed' = [i \in Ids |-> IF i \in streams' THEN owed[i] \ Due(i) ELSE {}]
  /\ seen' = OfOpen(seen)
  /\ coalesced' = [k \in Coalesced |-> Nobody]

(* The timer's callback.  It clears hub.timer and gives up its place in    *)
(* the WaitGroup even when the hub has shut down meanwhile.                *)
FlushCoalesced ==
  /\ timer = "fired"
  /\ timer' = "nil"
  /\ timerWork' = timerWork - 1
  /\ IF shutting THEN UNCHANGED <<streams, buffered, owed, seen, coalesced>>
     ELSE Deliver
  /\ UNCHANGED <<nextID, shutting, shutdown>>

(* The reader of the stream takes a hint, also from a closed channel. *)
ReceiveHint(i) ==
  /\ buffered[i] > 0
  /\ buffered' = [buffered EXCEPT ![i] = @ - 1]
  /\ UNCHANGED <<streams, nextID, coalesced, timer, timerWork, shutting,
                 shutdown, history>>

(* The reader leaves, its session ends or its credential is invalidated. *)
Close(gone) ==
  /\ gone \cap streams # {}
  /\ streams' = streams \ gone
  /\ owed' = OfOpen(owed)
  /\ seen' = OfOpen(seen)
  /\ UNCHANGED <<nextID, buffered, coalesced, timer, timerWork, shutting,
                 shutdown>>

(* Shutdown: a timer that can still be stopped gives its place in the      *)
(* WaitGroup back here, a callback that has started gives it back itself.  *)
StopTimer ==
  /\ timer' = IF timer = "armed" THEN "stopped" ELSE timer
  /\ timerWork' = IF timer = "armed" THEN timerWork - 1 ELSE timerWork

Shutdown ==
  /\ shutdown = "idle"
  /\ shutdown' = "waiting"
  /\ shutting' = TRUE
  /\ streams' = {}
  /\ owed' = OfOpen(owed)
  /\ seen' = OfOpen(seen)
  /\ StopTimer
  /\ UNCHANGED <<nextID, buffered, coalesced>>

ShutdownReturns ==
  /\ shutdown = "waiting"
  /\ timerWork = 0
  /\ shutdown' = "done"
  /\ UNCHANGED <<streams, nextID, buffered, coalesced, timer, timerWork,
                 shutting, history>>

Next ==
  \/ Subscribe
  \/ \E k \in Kinds : PublishNow(k)
  \/ \E k \in Kinds : PublishLater(k)
  \/ TimerFires
  \/ FlushCoalesced
  \/ \E i \in Ids : ReceiveHint(i)
  \/ \E gone \in SUBSET Ids : Close(gone)
  \/ Shutdown
  \/ ShutdownReturns

(* Timers fire, callbacks run and a waiting Shutdown wakes: the Go runtime *)
(* schedules every runnable goroutine.  Nobody has to subscribe, publish,  *)
(* read or shut down.                                                      *)
Fairness ==
  /\ WF_vars(TimerFires)
  /\ WF_vars(FlushCoalesced)
  /\ WF_vars(ShutdownReturns)

Spec == HubInit /\ [][Next]_vars /\ Fairness
-----------------------------------------------------------------------------
(* The type invariant. *)
TypeOK ==
  /\ streams \subseteq Ids
  /\ nextID \in 0 .. MaxStreams
  /\ \A i \in streams : i < nextID
  /\ buffered \in [Ids -> 0 .. Buffer]
  /\ coalesced \in [Coalesced -> Ids \cup {Nobody}]
  /\ timer \in {"nil", "armed", "fired", "stopped"}
  /\ timerWork \in Nat
  /\ shutting \in BOOLEAN
  /\ shutdown \in {"idle", "waiting", "done"}
  /\ owed \in [Ids -> SUBSET Kinds]
  /\ seen \in [Ids -> SUBSET Kinds]

(* No hint is lost in silence: a stream that is still open has received    *)
(* every kind published since it was opened, or a flush that will deliver  *)
(* it is under way.  A stream that could not take a hint is closed, which  *)
(* tells its client to reload (hub.go:80-134).                             *)
NothingLost ==
  \A i \in streams : \A k \in owed[i] :
    k \in Coalesced /\ FlushPending /\ k \in Due(i)

(* What the next flush puts into a stream was published after the stream   *)
(* was opened, although the flush runs after later subscriptions           *)
(* (hub.go:92, 110-112).                                                   *)
NoEarlierHint == \A i \in streams : Due(i) \subseteq seen[i]

(* Shutdown joins the timer: the WaitGroup counts exactly the callback     *)
(* that has yet to run, and a Shutdown that has returned leaves none       *)
(* behind, whichever of Stop and the callback came first (hub.go:152-166). *)
TimerJoined ==
  /\ timerWork = IF FlushPending THEN 1 ELSE 0
  /\ shutdown = "done" => ~FlushPending /\ streams = {}
=============================================================================
