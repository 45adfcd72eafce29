--------------------------- MODULE RuntimesProofs ---------------------------
(***************************************************************************)
(* The runtime manager, for any number of servers, edits and callbacks and *)
(* for any limits and any number of failures: a served route is current or *)
(* about to be withdrawn, an operation settles once, and a success that is *)
(* recorded is the success of the definition the operation stands for.     *)
(*                                                                         *)
(* A worker may complete its operation only while it holds the current     *)
(* generation, so the invariant says what holds as long as that is so: the *)
(* candidate keeps its place in the entry and its ownership, and no other  *)
(* goroutine is about to stop it.  Of a served route it says who answers   *)
(* for it: the entry whose generation it has, the worker that published    *)
(* it, or a goroutine that has yet to withdraw it.                         *)
(***************************************************************************)
EXTENDS Runtimes, FiniteSetTheorems, TLAPS

Maybe(S) == S \cup {None}
Snapshot == [on : BOOLEAN, version : Nat, rev : Nat]

CallSet ==
  [pc : {"idle", "refresh", "rejected", "trigger", "withdraw", "done"}, server : Maybe(Servers),
   rev : Nat, off : BOOLEAN, gen : Nat, targets : SUBSET Candidate]

Statuses == {"inactive", "activating", "active", "stopping", "retry", "degraded"}
EntrySet ==
  [gen : Nat, pending : BOOLEAN, pendingDisplaced : BOOLEAN, operation : Maybe(Ops),
   unsettled : BOOLEAN, activating : Maybe(Candidate), active : Maybe(Candidate),
   blocked : Maybe(Candidate), failure : BOOLEAN, timer : Maybe(Nat), status : Statuses]

Early   == {"read", "record", "begin", "stopPrevious", "decide"}
Trial   == {"resolve", "admit", "construct", "publish", "recheck", "install", "fence"}
Halting == {"withdraw", "stop", "release", "stopped"}
Going   == {"stale", "fail", "clear", "finish"}
Resume  == {"decide", "cleaned", "durable", "undone", "retry", "final", "stale"}

WorkSet ==
  [pc : {"idle", "succeed", "complete"} \cup Early \cup Trial \cup Halting \cup Going,
   gen : Nat, op : Maybe(Ops), cleanupOnly : BOOLEAN, displaced : BOOLEAN, settled : BOOLEAN,
   failed : BOOLEAN, attempt : BOOLEAN, snap : Maybe(Snapshot), cand : Maybe(Candidate),
   outcome : Maybe({"active", "retry", "final", "storage", "stale"}), started : BOOLEAN,
   target : Maybe(Candidate), next : Maybe(Resume), bad : BOOLEAN, verified : BOOLEAN,
   retry : BOOLEAN, tries : Nat]

StopperSet ==
  [server : Servers, cand : Candidate, gen : Nat, kind : {"lost", "refused", "drain"},
   pc : Halting, bad : BOOLEAN, verified : BOOLEAN]

DrainPcs == {"none", "routes", "manager", "stopping", "waiting", "done"}
RouteSet == [id : Nat, gen : Nat, live : BOOLEAN]

\* What the variables that the proof uses may hold.
Shape ==
  /\ desired \in [Servers -> Snapshot]
  /\ ops \in [Ops -> {"none"} \cup Nonterminal \cup Terminal]
  /\ call \in [Callers -> CallSet]
  /\ entry \in [Servers -> EntrySet]
  /\ work \in [Servers -> WorkSet]
  /\ stoppers \in SUBSET StopperSet
  /\ owner \in [Servers -> Maybe(Nat)]
  /\ handles \in SUBSET Candidate /\ quiet \in SUBSET Candidate
  /\ route \in [Servers -> Maybe(RouteSet)]
  /\ lock \in Maybe(Servers)
  /\ "pc" \in DOMAIN drain /\ drain.pc \in DrainPcs
  /\ issued \in Nat

\* An operation that is under way stands for the revision that is stored.
Standing ==
  /\ \A c \in Callers : /\ call[c].pc = "idle" <=> call[c].server = None
                        /\ call[c].targets # {} => call[c].pc = "withdraw"
                        /\ call[c].pc = "refresh" => c \in Callbacks
  /\ \A o \in Ops : ops[o] # "none" <=> call[o].server \in Servers
  /\ \A o \in Ops : call[o].server \in Servers => call[o].rev <= desired[call[o].server].rev
  /\ \A o \in Ops : ops[o] \in Nonterminal => call[o].rev = desired[call[o].server].rev

\* Identifiers are given out once.
Known(e, w) == {e.activating, e.active, e.blocked, w.cand, w.target} \ {None}
Numbered ==
  /\ \A s \in Servers : \A c \in Known(entry[s], work[s]) : c.id <= issued
  /\ \A t \in stoppers : t.cand.id <= issued
  /\ \A c \in handles : c.id <= issued
Mine(e, w) == {w.cand, e.active} \ {None}
Distinct ==
  \A s \in Servers : \A c \in Mine(entry[s], work[s]) :
    /\ \A r \in Servers \ {s} : \A d \in Mine(entry[r], work[r]) : d.id # c.id
    /\ \A d \in Mine(entry[s], work[s]) \cup handles : d.id = c.id => d = c

\* What a worker of server s works for, and what it has read.
Entrusted(s, e, w) ==
  /\ e.operation # None => call[e.operation].server = s
  /\ w.op # None => call[w.op].server = s
  /\ w.snap # None =>
       /\ w.snap.rev <= desired[s].rev
       /\ w.snap.rev = desired[s].rev => w.snap.on = desired[s].on
       /\ w.op # None => call[w.op].rev <= w.snap.rev

\* How far a worker has come.
Underway(w) ==
  /\ w.pc = "idle" => w = Idle
  /\ w.cleanupOnly => w.pc \in {"stopPrevious", "finish"} \cup Halting /\ w.cand = None
  /\ w.cand # None => w.cand.gen = w.gen
  /\ w.pc \in Early => w.cand = None
  /\ w.pc \in Halting => /\ w.target # None
                         /\ w.next \in {"decide", "cleaned"} => w.cand = None
                         /\ w.cleanupOnly => w.next = "cleaned"
  /\ w.pc \in Trial => w.cand # None /\ w.snap # None
  /\ w.pc = "construct" => w.started
  /\ w.pc = "fence" => w.outcome \in {"active", "retry", "final"}
  /\ w.pc \in {"publish", "recheck", "install"} => w.outcome = "active" /\ w.started
  /\ w.pc \in {"succeed", "complete"} => w.snap # None /\ (w.snap.on => w.cand # None)

\* While the worker of a candidate holds the generation, the candidate keeps its place.
Gone == {"idle", "clear", "finish"}
Firm(w) ==
  \/ w.pc \in {"construct", "publish", "recheck", "install", "succeed", "complete"}
  \/ w.pc = "fence" /\ w.outcome = "active"
Held(s, e, w) ==
  /\ w.pc \in Trial \cup {"succeed"} =>
       e.activating = w.cand /\ (e.failure => w.cand \in quiet \/ w.cand \notin handles)
  /\ w.pc \in {"resolve", "admit", "construct"} => ~e.failure /\ w.cand \notin handles
  /\ w.pc = "complete" => e.active = w.cand
  /\ Firm(w) => owner[s] = w.cand.id
  /\ w.pc \in Trial \cup {"succeed", "complete"} =>
       \A t \in stoppers : t.server = s => t.cand.id # w.cand.id
Placed(s, e, w) ==
  /\ w.gen <= e.gen
  /\ draining /\ w.pc # "idle" => w.gen < e.gen
  /\ e.gen = w.gen /\ w.pc \notin Gone => ~e.pending
  /\ e.gen = w.gen /\ w.cand # None => Held(s, e, w)

\* The active runtime of the current generation is owned, and nobody is about to stop it.
Active(s, e, w) ==
  e.active # None =>
    /\ ~draining
    /\ e.active.gen <= e.gen
    /\ e.pending \/ w.cleanupOnly => e.active.gen < e.gen
    /\ w.pc \notin Gone /\ ~(w.pc = "complete" /\ w.cand = e.active) => e.active.gen < e.gen
    /\ e.active.gen = e.gen =>
         /\ owner[s] = e.active.id
         /\ \A t \in stoppers : t.server = s => t.cand.id # e.active.id

\* The goroutine of a lost runtime finds its generation current only if nothing followed it.
Lost(s, e, w) ==
  \A t \in stoppers : t.server = s /\ t.kind = "lost" =>
    /\ t.gen <= e.gen
    /\ t.gen = e.gen =>
         /\ ~e.pending /\ e.active = None /\ ~w.cleanupOnly
         /\ w.pc # "idle" => w.gen < e.gen

\* A timer of the current generation waits alone.
Timed(e, w) ==
  e.timer # None =>
    /\ e.timer <= e.gen
    /\ e.timer = e.gen => ~e.pending /\ ~w.cleanupOnly /\ (w.pc \notin Gone => w.gen < e.gen)

\* The publication that holds the registry; none once the registry has drained.
Locked(s, w) ==
  /\ w.pc \in {"recheck", "install"} <=> lock = s
  /\ drain.pc \notin {"none", "routes"} => lock = None /\ (route[s] # None => ~route[s].live)

\* Who answers for a route that is served.
Match(r, c) == r.id = c.id /\ r.gen = c.gen
Coming(s) == \E c \in Callers : call[c].server = s /\ call[c].pc \in {"refresh", "trigger"}
Still(e, w) ==
  /\ ~e.pending /\ ~w.cleanupOnly
  /\ e.timer # None => e.timer # e.gen
  /\ w.pc \in Gone \/ (w.pc = "complete" /\ w.cand = e.active)
ByWorker(r, w) ==
  \/ w.pc = "fence" /\ w.outcome = "active" /\ w.started /\ Match(r, w.cand)
  \/ w.pc = "succeed" /\ w.cand # None /\ Match(r, w.cand)
  \/ w.pc = "withdraw" /\ Match(r, w.target)
ByStopper(s, r) == \E t \in stoppers : t.server = s /\ t.pc = "withdraw" /\ Match(r, t.cand)
ByCall(s, r) ==
  \E c \in Callers : call[c].server = s /\ \E cand \in call[c].targets : Match(r, cand)
ByEntry(s, r, e, w) ==
  /\ e.active # None /\ Match(r, e.active)
  /\ r.gen = e.gen \/ Coming(s)
  /\ Still(e, w)
Routed(s, e, w) ==
  route[s] # None /\ route[s].live /\ drain.pc = "none" =>
    \/ RefreshRejected(s) \/ ByWorker(route[s], w) \/ ByStopper(s, route[s])
    \/ ByCall(s, route[s]) \/ ByEntry(s, route[s], e, w)

Local(s, e, w) ==
  /\ Entrusted(s, e, w) /\ Underway(w) /\ Placed(s, e, w) /\ Active(s, e, w)
  /\ Lost(s, e, w) /\ Timed(e, w) /\ Locked(s, w) /\ Routed(s, e, w)

ManagerInv ==
  /\ Shape /\ Standing /\ Numbered /\ Distinct
  /\ \A s \in Servers : Local(s, entry[s], work[s])

-----------------------------------------------------------------------------
(* Records. *)

Pcs == {"idle", "succeed", "complete"} \cup Early \cup Trial \cup Halting \cup Going

\* What a worker keeps from one step to the next, and an entry that only loses claims.
Keeps(w, v) == v.gen = w.gen /\ v.op = w.op /\ v.cleanupOnly = w.cleanupOnly /\ v.cand = w.cand
Fading(e, d, w, v) ==
  /\ d.gen = e.gen /\ d.active \in {e.active, None}
  /\ (d.pending => e.pending) \/ (e.gen = w.gen /\ v.pc \in Gone)
  /\ \/ d.timer \in {e.timer, None}
     \/ d.timer = e.gen /\ ~d.pending /\ ~v.cleanupOnly /\ v.pc \in Gone

LEMMA IdleIsWork == Idle \in WorkSet
BY DEF Idle, WorkSet, Maybe, Early, Trial, Halting, Going, Resume

LEMMA Fields ==
  ASSUME NEW w \in WorkSet
  PROVE  /\ w.gen \in Nat /\ w.op \in Maybe(Ops) /\ w.snap \in Maybe(Snapshot)
         /\ w.cand \in Maybe(Candidate) /\ w.target \in Maybe(Candidate) /\ w.tries \in Nat
         /\ w.pc \in Pcs /\ w.next \in Maybe(Resume) /\ w.cleanupOnly \in BOOLEAN
         /\ w.verified \in BOOLEAN /\ w.bad \in BOOLEAN /\ w.retry \in BOOLEAN
BY DEF WorkSet, Pcs

LEMMA Leaves ==
  ASSUME NEW w \in WorkSet, NEW pc \in Pcs
  PROVE  /\ Leaving(w, pc) \in WorkSet /\ Keeps(w, Leaving(w, pc)) /\ Leaving(w, pc).pc = pc
         /\ Leaving(w, pc).snap = None /\ Leaving(w, pc).target = None
<1> DEFINE v == [Idle EXCEPT !.pc = pc, !.gen = w.gen, !.op = w.op, !.cleanupOnly = w.cleanupOnly,
                 !.displaced = w.displaced, !.settled = w.settled, !.failed = w.failed,
                 !.attempt = w.attempt, !.cand = w.cand]
<1>1. v \in WorkSet
  BY IdleIsWork DEF WorkSet, Pcs
<1>2. Keeps(w, v) /\ v.pc = pc /\ v.snap = None /\ v.target = None
  BY DEF Keeps, Idle
<1> QED
  BY <1>1, <1>2 DEF Leaving

LEMMA Halts ==
  ASSUME NEW w \in WorkSet, NEW cand \in Candidate, NEW next \in Resume
  PROVE  /\ Stopping(w, cand, next) \in WorkSet /\ Keeps(w, Stopping(w, cand, next))
         /\ Stopping(w, cand, next).pc = "withdraw" /\ Stopping(w, cand, next).target = cand
         /\ Stopping(w, cand, next).next = next /\ Stopping(w, cand, next).snap = w.snap
<1> DEFINE v == [w EXCEPT !.pc = "withdraw", !.target = cand, !.next = next, !.bad = FALSE]
<1>1. v \in WorkSet
  BY ZenonT(60) DEF WorkSet, Maybe, Halting
<1>2. Keeps(w, v) /\ v.pc = "withdraw" /\ v.target = cand /\ v.next = next /\ v.snap = w.snap
  BY DEF Keeps, WorkSet
<1> QED
  BY <1>1, <1>2 DEF Stopping

-----------------------------------------------------------------------------
(* A worker that goes on. *)

\* What does not depend on where the worker goes to.
LEMMA Onward ==
  ASSUME NEW s \in Servers, NEW e \in EntrySet, NEW d \in EntrySet, NEW w \in WorkSet,
         NEW v \in WorkSet, Placed(s, e, w), Active(s, e, w), Lost(s, e, w), Timed(e, w),
         Fading(e, d, w, v), v.gen = w.gen, v.cleanupOnly = w.cleanupOnly,
         w.pc \notin Gone \cup {"complete"}, v.pc # "idle", stoppers \in SUBSET StopperSet,
         UNCHANGED <<stoppers, drain>>
  PROVE  Active(s, d, v)' /\ Lost(s, d, v)' /\ Timed(d, v)' /\ ((e.gen = w.gen /\ v.cand # None => Held(s, d, v)') => Placed(s, d, v)')
<1>1. /\ e.gen \in Nat /\ d.gen = e.gen /\ d.active \in {e.active, None} /\ w.gen \in Nat
      /\ (d.pending => e.pending) \/ (e.gen = w.gen /\ v.pc \in Gone)
      /\ \/ d.timer \in {e.timer, None}
         \/ d.timer = e.gen /\ ~d.pending /\ ~v.cleanupOnly /\ v.pc \in Gone
  BY DEF EntrySet, WorkSet, Fading
<1>2. draining' = draining
  BY DEF draining
<1>3. Active(s, d, v)'
  BY <1>1, <1>2 DEF Active, Gone
<1>4. Lost(s, d, v)'
  BY <1>1 DEF Lost, Gone
<1>5. Timed(d, v)'
  BY <1>1 DEF Timed, Gone
<1>6. ASSUME e.gen = w.gen /\ v.cand # None => Held(s, d, v)' PROVE Placed(s, d, v)'
  BY <1>1, <1>2, <1>6 DEF Placed, Gone
<1> QED
  BY <1>3, <1>4, <1>5, <1>6

\* A worker without a candidate, or on its way to stop it, claims no place.
LEMMA Unclaimed ==
  ASSUME NEW s, NEW d, NEW v, v.pc \in Early \cup Halting \cup Going
  PROVE  Held(s, d, v)'
BY DEF Held, Firm, Early, Halting, Going, Trial

\* A route keeps whoever answers for it, or is served no more.
LEMMA Answered ==
  ASSUME NEW s \in Servers, NEW e, NEW d, NEW w, NEW v, Routed(s, e, w),
         w.pc \notin Gone \cup {"complete"}, UNCHANGED <<stoppers, call, drain>>,
         \/ route'[s] = route[s] /\ (route[s] # None /\ ByWorker(route[s], w) => ByWorker(route[s], v))
         \/ route'[s] # None => (~route'[s].live \/ ByWorker(route'[s], v))
         \/ drain.pc # "none"
  PROVE  Routed(s, d, v)'
<1>1. CASE route'[s] # None => (~route'[s].live \/ ByWorker(route'[s], v))
  BY <1>1 DEF Routed, ByWorker, Match
<1>2. CASE route'[s] = route[s] /\ (route[s] # None /\ ByWorker(route[s], w) => ByWorker(route[s], v))
  <2> SUFFICES ASSUME route[s] # None, route[s].live, drain.pc = "none"
               PROVE  (\/ RefreshRejected(s) \/ ByWorker(route[s], v) \/ ByStopper(s, route[s])
                       \/ ByCall(s, route[s]) \/ ByEntry(s, route[s], d, v))'
    BY <1>2 DEF Routed
  <2>1. ~Still(e, w)
    BY DEF Still
  <2>2. RefreshRejected(s) \/ ByWorker(route[s], w) \/ ByStopper(s, route[s]) \/ ByCall(s, route[s])
    BY <2>1 DEF Routed, ByEntry
  <2>3. RefreshRejected(s)' = RefreshRejected(s)
    BY DEF RefreshRejected
  <2>4. ByStopper(s, route[s])' = ByStopper(s, route[s])
    BY <1>2 DEF ByStopper, Match
  <2>5. ByCall(s, route[s])' = ByCall(s, route[s])
    BY <1>2 DEF ByCall, Match
  <2>6. ByWorker(route[s], v)' = ByWorker(route[s], v)
    BY <1>2 DEF ByWorker, Match
  <2> QED
    BY <1>2, <2>2, <2>3, <2>4, <2>5, <2>6
<1>3. CASE drain.pc # "none"
  BY <1>3 DEF Routed
<1> QED
  BY <1>1, <1>2, <1>3

-----------------------------------------------------------------------------
(* What a step leaves alone. *)

\* Nothing of server s moves.
Unmoved(s) ==
  /\ entry'[s] = entry[s] /\ work'[s] = work[s] /\ owner'[s] = owner[s]
  /\ desired'[s] = desired[s] /\ route'[s] = route[s]
  /\ \A c \in Callers : call[c].server = s \/ call'[c].server = s => call'[c] = call[c]
  /\ \A t \in StopperSet : t.server = s => (t \in stoppers' <=> t \in stoppers)
  /\ lock' = s <=> lock = s
  /\ drain' = drain
  /\ \A c \in Mine(entry[s], work[s]) :
       (c \in handles' => c \in handles) /\ (c \in quiet => c \in quiet' \/ c \notin handles')

LEMMA Elsewhere ==
  ASSUME ManagerInv, NEW s \in Servers, Unmoved(s), stoppers' \in SUBSET StopperSet,
         drain.pc \notin {"none", "routes"} => lock' = None
  PROVE  Local(s, entry[s], work[s])'
<1> DEFINE e == entry[s]
           w == work[s]
<1>1. e \in EntrySet /\ w \in WorkSet /\ stoppers \in SUBSET StopperSet
  BY DEF ManagerInv, Shape
<1>2. entry'[s] = e /\ work'[s] = w
  BY DEF Unmoved
<1>3. Local(s, e, w)
  BY DEF ManagerInv
<1>4. draining' = draining
  BY DEF draining, Unmoved
<1>5. \A o \in Ops : call[o].server = s => call'[o] = call[o]
  BY DEF Unmoved, Callers
<1>6. \A t \in stoppers' : t.server = s => t \in stoppers
  BY DEF Unmoved
<1>7. \A c \in Mine(entry[s], work[s]) :
        (c \in handles' => c \in handles) /\ (c \in quiet => c \in quiet' \/ c \notin handles')
  BY DEF Unmoved
<1> HIDE DEF e, w
<1>a. Entrusted(s, entry[s], work[s])'
  <2>1. e.operation \in Maybe(Ops) /\ w.op \in Maybe(Ops)
    BY <1>1 DEF EntrySet, WorkSet
  <2>2. e.operation # None => call'[e.operation].server = s
    BY <1>3, <1>5, <2>1 DEF Local, Entrusted, Maybe
  <2>3. w.op # None => call'[w.op] = call[w.op] /\ call[w.op].server = s
    BY <1>3, <1>5, <2>1 DEF Local, Entrusted, Maybe
  <2>4. desired'[s] = desired[s]
    BY DEF Unmoved
  <2> QED
    BY <1>2, <1>3, <2>2, <2>3, <2>4 DEF Local, Entrusted
<1>b. Underway(work[s])'
  BY <1>2, <1>3 DEF Local, Underway, Idle
<1>c. Placed(s, entry[s], work[s])'
  <2>1. owner'[s] = owner[s]
    BY DEF Unmoved
  <2>2. w.cand # None => /\ w.cand \in handles' => w.cand \in handles
                         /\ w.cand \in quiet => w.cand \in quiet' \/ w.cand \notin handles'
    <3>1. work[s].cand # None => work[s].cand \in Mine(entry[s], work[s])
      BY DEF Mine
    <3>3. w = work[s]
      BY DEF w
    <3> QED
      BY <1>7, <3>1, <3>3
  <2>3. Placed(s, e, w)
    BY <1>3 DEF Local
  <2>4. w.cand # None /\ Held(s, e, w) => Held(s, entry[s], work[s])'
    BY <1>2, <1>6, <2>1, <2>2 DEF Held, Firm
  <2> QED
    BY <1>2, <1>4, <2>3, <2>4 DEF Placed
<1>d. Active(s, entry[s], work[s])'
  <2>1. owner'[s] = owner[s]
    BY DEF Unmoved
  <2> QED
    BY <1>2, <1>3, <1>4, <1>6, <2>1 DEF Local, Active
<1>e. Lost(s, entry[s], work[s])'
  BY <1>2, <1>3, <1>6 DEF Local, Lost
<1>f. Timed(entry[s], work[s])'
  BY <1>2, <1>3 DEF Local, Timed
<1>g. Locked(s, work[s])'
  BY <1>2, <1>3 DEF Local, Locked, Unmoved
<1>h. Routed(s, entry[s], work[s])'
  <2>1. route'[s] = route[s] /\ drain' = drain
    BY DEF Unmoved
  <2>2. RefreshRejected(s) => RefreshRejected(s)'
    BY DEF RefreshRejected, Unmoved, Callers
  <2>3. ByStopper(s, route[s]) => ByStopper(s, route[s])'
    BY <1>1, <2>1 DEF ByStopper, Unmoved, Match
  <2>4. ByCall(s, route[s]) => ByCall(s, route[s])'
    BY <2>1 DEF ByCall, Unmoved, Match
  <2>5. Coming(s) => Coming(s)'
    BY DEF Coming, Unmoved
  <2>6. ByWorker(route[s], w) => ByWorker(route[s], work[s])'
    BY <1>2, <2>1 DEF ByWorker, Match
  <2>7. ByEntry(s, route[s], e, w) => ByEntry(s, route[s], entry[s], work[s])'
    BY <1>2, <2>1, <2>5 DEF ByEntry, Match, Still
  <2>8. Routed(s, e, w)
    BY <1>3 DEF Local
  <2> QED
    BY <2>1, <2>2, <2>3, <2>4, <2>6, <2>7, <2>8 DEF Routed
<1> QED
  BY <1>a, <1>b, <1>c, <1>d, <1>e, <1>f, <1>g, <1>h DEF Local

\* What a step of the worker of s, or one that stops a runtime of s, leaves alone.
Aside(s) ==
  /\ owner' \in [Servers -> Maybe(Nat)] /\ \A r \in Servers \ {s} : owner'[r] = owner[r]
  /\ route' \in [Servers -> Maybe(RouteSet)] /\ \A r \in Servers \ {s} : route'[r] = route[r]
  /\ lock' = lock \/ (lock = None /\ lock' = s) \/ (lock = s /\ lock' = None)
  /\ handles' \in SUBSET Candidate /\ quiet' \in SUBSET Candidate
  /\ \A c \in handles' \ handles : c = work[s].cand
  /\ \A c \in quiet \ quiet' : c \notin handles'
  /\ stoppers' \in SUBSET StopperSet
  /\ \A t \in StopperSet : t.server # s => (t \in stoppers' <=> t \in stoppers)
  /\ \A t \in stoppers' : t.cand.id <= issued
  /\ UNCHANGED <<desired, call, drain>>

\* The records of the operations move on.
Advanced ==
  /\ ops' \in [Ops -> {"none"} \cup Nonterminal \cup Terminal]
  /\ \A o \in Ops : /\ ops'[o] = "none" <=> ops[o] = "none"
                    /\ ops'[o] \in Nonterminal => ops[o] \in Nonterminal

LEMMA StandingKept ==
  ASSUME Standing, Advanced, UNCHANGED <<desired, call>>
  PROVE  Standing'
BY DEF Standing, Advanced, Ops

\* A step of the worker of s, put together.
LEMMA Worked ==
  ASSUME ManagerInv, NEW s \in Servers, NEW d \in EntrySet, NEW v \in WorkSet,
         entry' = [entry EXCEPT ![s] = d], work' = [work EXCEPT ![s] = v],
         Aside(s), Advanced, issued' \in Nat, issued <= issued',
         drain.pc \notin {"none", "routes"} => lock' = None,
         \A c \in Known(d, v) : c.id <= issued',
         \A c \in Mine(d, v) : c \in Mine(entry[s], work[s]) \/ c.id > issued,
         \A c1, c2 \in Mine(d, v) : c1.id > issued /\ c2.id > issued => c1 = c2,
         \A c \in handles' \ handles : work[s].cand # None,
         Local(s, d, v)'
  PROVE  ManagerInv'
<1>1. /\ entry \in [Servers -> EntrySet] /\ work \in [Servers -> WorkSet] /\ issued \in Nat
      /\ handles \in SUBSET Candidate
  BY DEF ManagerInv, Shape
<1>2. entry'[s] = d /\ work'[s] = v /\ \A r \in Servers \ {s} : entry'[r] = entry[r] /\ work'[r] = work[r]
  BY <1>1
<1>3. Shape'
  <2>1. entry' \in [Servers -> EntrySet] /\ work' \in [Servers -> WorkSet]
    BY <1>1
  <2>2. lock' \in Maybe(Servers)
    BY DEF Aside, ManagerInv, Shape, Maybe
  <2> QED
    BY <2>1, <2>2 DEF Shape, ManagerInv, Aside, Advanced
<1>4. Standing'
  BY StandingKept DEF ManagerInv, Aside
<1>5. \A r \in Servers : \A c \in Known(entry[r], work[r]) \cup handles : c.id <= issued /\ c.id \in Nat
  <2>1. \A r \in Servers : Known(entry[r], work[r]) \subseteq Candidate
    BY <1>1 DEF Known, EntrySet, WorkSet, Maybe
  <2> QED
    BY <1>1, <2>1 DEF ManagerInv, Numbered, Candidate
<1>6. \A r \in Servers : Mine(entry[r], work[r]) \subseteq Known(entry[r], work[r])
  BY DEF Mine, Known
<1>7. Numbered'
  <2>1. \A c \in handles' : c.id <= issued'
    <3> SUFFICES ASSUME NEW c \in handles' PROVE c.id <= issued'
      OBVIOUS
    <3>1. c \in handles \/ (work[s].cand # None /\ c = work[s].cand)
      BY DEF Aside
    <3>2. work[s].cand # None => work[s].cand \in Known(entry[s], work[s])
      BY DEF Known
    <3> QED
      BY <1>1, <1>5, <3>1, <3>2
  <2>2. \A t \in stoppers' : t.cand.id <= issued'
    <3> SUFFICES ASSUME NEW t \in stoppers' PROVE t.cand.id <= issued'
      OBVIOUS
    <3>1. t.cand.id \in Nat /\ t.cand.id <= issued
      BY DEF Aside, StopperSet, Candidate
    <3> QED
      BY <1>1, <3>1
  <2>3. \A r \in Servers : \A c \in Known(entry'[r], work'[r]) : c.id <= issued'
    <3> SUFFICES ASSUME NEW r \in Servers, NEW c \in Known(entry'[r], work'[r]) PROVE c.id <= issued'
      OBVIOUS
    <3>1. CASE r = s
      BY <1>2, <3>1
    <3>2. CASE r # s
      BY <1>1, <1>2, <1>5, <3>2
    <3> QED
      BY <3>1, <3>2
  <2> QED
    BY <2>1, <2>2, <2>3 DEF Numbered, Known
<1>8. Distinct'
  <2> SUFFICES ASSUME NEW q \in Servers, NEW c \in Mine(entry'[q], work'[q])
               PROVE  /\ \A r \in Servers \ {q} : \A x \in Mine(entry'[r], work'[r]) : x.id # c.id
                      /\ \A x \in Mine(entry'[q], work'[q]) \cup handles' : x.id = c.id => x = c
    BY DEF Distinct, Mine
  <2>1. \A r \in Servers \ {s} : Mine(entry'[r], work'[r]) = Mine(entry[r], work[r])
    BY <1>2
  <2>2. Mine(entry'[s], work'[s]) = Mine(d, v)
    BY <1>2
  <2>3. \A r \in Servers : \A x \in Mine(entry[r], work[r]) :
          /\ x.id \in Nat /\ x.id <= issued
          /\ \A t \in Servers \ {r} : \A y \in Mine(entry[t], work[t]) : y.id # x.id
          /\ \A y \in Mine(entry[r], work[r]) \cup handles : y.id = x.id => y = x
    BY <1>5, <1>6 DEF ManagerInv, Distinct
  <2>4. \A x \in Mine(d, v) : x \in Mine(entry[s], work[s]) \/ x.id > issued
    OBVIOUS
  <2>5. \A x \in handles' : x \in handles \/ x \in Mine(entry[s], work[s])
    BY DEF Aside, Mine
  <2>6. \A x \in handles' : x.id <= issued /\ x.id \in Nat
    BY <1>5, <2>3, <2>5
  <2> HIDE DEF Mine
  <2>7. CASE q = s
    <3>1. CASE c.id > issued
      BY <1>1, <2>1, <2>2, <2>3, <2>6, <2>7, <3>1
    <3>2. CASE c \in Mine(entry[s], work[s])
      BY <1>1, <2>1, <2>2, <2>3, <2>4, <2>5, <2>7, <3>2
    <3> QED
      BY <2>2, <2>4, <2>7, <3>1, <3>2
  <2>8. CASE q # s
    <3>1. c \in Mine(entry[q], work[q])
      BY <2>1, <2>8
    <3>2. ASSUME NEW r \in Servers \ {q}, NEW x \in Mine(entry'[r], work'[r]) PROVE x.id # c.id
      BY <1>1, <2>1, <2>2, <2>3, <2>4, <2>8, <3>1, <3>2
    <3>3. ASSUME NEW x \in Mine(entry'[q], work'[q]) \cup handles', x.id = c.id PROVE x = c
      BY <2>1, <2>3, <2>5, <2>8, <3>1, <3>3
    <3> QED
      BY <3>2, <3>3
  <2> QED
    BY <2>7, <2>8
<1>9. ASSUME NEW r \in Servers \ {s} PROVE Local(r, entry[r], work[r])'
  <2>1. lock' = r <=> lock = r
    BY NamesAssumption DEF Aside
  <2>2. \A c \in Mine(entry[r], work[r]) : c \in handles' => c \in handles
    <3> SUFFICES ASSUME NEW c \in Mine(entry[r], work[r]), c \in handles' PROVE c \in handles
      OBVIOUS
    <3>1. c = work[s].cand /\ c # None => c \in Mine(entry[s], work[s])
      BY DEF Mine
    <3>2. ~(c \in Mine(entry[s], work[s]))
      BY <1>9 DEF ManagerInv, Distinct
    <3> QED
      BY <3>1, <3>2 DEF Aside
  <2>3. Unmoved(r)
    BY <1>2, <1>9, <2>1, <2>2 DEF Unmoved, Aside
  <2>4. stoppers' \in SUBSET StopperSet
    BY DEF Aside
  <2> QED
    BY <2>3, <2>4, Elsewhere
<1>10. Local(s, entry[s], work[s])'
  BY <1>2
<1> QED
  BY <1>3, <1>4, <1>7, <1>8, <1>9, <1>10 DEF ManagerInv

-----------------------------------------------------------------------------
(* A worker that has no place to keep. *)

LEMMA At ==
  ASSUME ManagerInv, NEW s \in Servers
  PROVE  /\ entry[s] \in EntrySet /\ work[s] \in WorkSet /\ Local(s, entry[s], work[s])
         /\ desired[s] \in Snapshot /\ entry = [entry EXCEPT ![s] = entry[s]]
         /\ entry \in [Servers -> EntrySet] /\ work \in [Servers -> WorkSet]
         /\ Known(entry[s], work[s]) \subseteq Candidate
         /\ stoppers \in SUBSET StopperSet /\ issued \in Nat
         /\ handles \in SUBSET Candidate /\ quiet \in SUBSET Candidate
         /\ route \in [Servers -> Maybe(RouteSet)] /\ owner \in [Servers -> Maybe(Nat)]
<1>1. entry[s] \in EntrySet /\ work[s] \in WorkSet /\ entry \in [Servers -> EntrySet]
  BY DEF ManagerInv, Shape
<1>2. Known(entry[s], work[s]) \subseteq Candidate
  BY <1>1 DEF Known, EntrySet, WorkSet, Maybe
<1> QED
  BY <1>1, <1>2 DEF ManagerInv, Shape

\* What a step leaves alone when only the worker, its entry and the records of operations move.
LEMMA AsideOfAll ==
  ASSUME ManagerInv, NEW s \in Servers, UNCHANGED <<owner, route, lock, handles, quiet, stoppers,
         desired, call, drain>>
  PROVE  Aside(s)
BY DEF Aside, ManagerInv, Shape, Numbered

LEMMA EntrustedKept ==
  ASSUME NEW s, NEW e, NEW d, NEW w, NEW v, Entrusted(s, e, w),
         d.operation \in {e.operation, w.op, None}, v.op = w.op, v.snap \in {w.snap, None}, UNCHANGED <<desired, call>>
  PROVE  Entrusted(s, d, v)'
BY DEF Entrusted

LEMMA WorkerFalls ==
  ASSUME ManagerInv, NEW s \in Servers, NEW d \in EntrySet, NEW v \in WorkSet,
         entry' = [entry EXCEPT ![s] = d], work' = [work EXCEPT ![s] = v],
         Aside(s), Advanced, UNCHANGED <<stoppers, lock, issued>>, handles' \subseteq handles,
         Fading(entry[s], d, work[s], v), Keeps(work[s], v), Underway(v), Entrusted(s, d, v)',
         work[s].pc \notin Gone \cup {"complete", "recheck", "install"},
         v.pc \in Early \cup Halting \cup Going,
         Known(d, v) \subseteq Known(entry[s], work[s]),
         \/ /\ route'[s] = route[s]
            /\ route[s] # None /\ ByWorker(route[s], work[s]) => ByWorker(route[s], v)
         \/ route'[s] # None => ~route'[s].live
         \/ route'[s] = route[s] /\ drain.pc # "none"
  PROVE  ManagerInv'
<1> DEFINE e == entry[s]
           w == work[s]
<1>1. /\ e \in EntrySet /\ w \in WorkSet /\ Local(s, e, w) /\ Known(e, w) \subseteq Candidate
      /\ stoppers \in SUBSET StopperSet /\ issued \in Nat
  BY At
<1>2. UNCHANGED <<call, drain>>
  BY DEF Aside
<1>3. Placed(s, e, w) /\ Active(s, e, w) /\ Lost(s, e, w) /\ Timed(e, w) /\ Routed(s, e, w) /\ Locked(s, w)
  BY <1>1 DEF Local
<1>4. v.gen = w.gen /\ v.cleanupOnly = w.cleanupOnly /\ v.cand = w.cand
  BY DEF Keeps
<1>5. v.pc \notin {"idle", "recheck", "install"}
  BY DEF Early, Halting, Going
<1>6. Held(s, d, v)'
  BY Unclaimed
<1>7. Active(s, d, v)' /\ Lost(s, d, v)' /\ Timed(d, v)' /\ Placed(s, d, v)'
  BY <1>1, <1>2, <1>3, <1>4, <1>5, <1>6, Onward DEF Gone
<1>8. Routed(s, d, v)'
  BY <1>2, <1>3, Answered
<1>9. Locked(s, v)'
  BY <1>2, <1>3, <1>5 DEF Locked
<1>10. Local(s, d, v)'
  BY <1>7, <1>8, <1>9 DEF Local, Underway, Idle
<1>11. Mine(d, v) \subseteq Mine(e, w)
  BY <1>4 DEF Mine, Fading
<1>12. \A c \in Known(e, w) : c.id <= issued
  BY DEF ManagerInv, Numbered
<1>13. \A c \in Mine(e, w) : c \in Known(e, w) /\ c.id \in Nat
  BY <1>1 DEF Mine, Known, Candidate
<1>14. drain.pc \notin {"none", "routes"} => lock' = None
  BY <1>3 DEF Locked
<1>15. issued' \in Nat /\ issued <= issued'
  BY <1>1
<1>16. \A c1, c2 \in Mine(d, v) : c1.id > issued => c1 = c2
  BY <1>1, <1>11, <1>12, <1>13
<1> QED
  BY <1>10, <1>11, <1>12, <1>14, <1>15, <1>16, Worked

\* A worker step that touches nothing but the worker and the records of operations.
Inner == UNCHANGED <<desired, call, stoppers, owner, handles, quiet, route, lock, drain, issued>>

LEMMA InnerFalls ==
  ASSUME ManagerInv, NEW s \in Servers, NEW d \in EntrySet, NEW v \in WorkSet,
         entry' = [entry EXCEPT ![s] = d], work' = [work EXCEPT ![s] = v], Inner, Advanced,
         Fading(entry[s], d, work[s], v), Keeps(work[s], v), Underway(v), Entrusted(s, d, v)',
         work[s].pc \notin Gone \cup {"complete", "recheck", "install"},
         v.pc \in Early \cup Halting \cup Going,
         Known(d, v) \subseteq Known(entry[s], work[s]),
         route[s] # None /\ ByWorker(route[s], work[s]) => ByWorker(route[s], v)
  PROVE  ManagerInv'
<1>1. Aside(s)
  BY AsideOfAll DEF Inner
<1>2. UNCHANGED <<stoppers, lock, issued>> /\ handles' \subseteq handles /\ route'[s] = route[s]
  BY DEF Inner
<1> QED
  BY <1>1, <1>2, WorkerFalls

\* The first steps.
LEMMA ReadServerInv ==
  ASSUME ManagerInv, NEW s \in Servers, ReadServer(s)
  PROVE  ManagerInv'
<1>1. /\ entry[s] \in EntrySet /\ work[s] \in WorkSet /\ Local(s, entry[s], work[s])
      /\ desired[s] \in Snapshot /\ entry = [entry EXCEPT ![s] = entry[s]]
  BY At
<1> DEFINE w == work[s]
<1>2. PICK n \in {desired[s], w.snap} : work' = [work EXCEPT ![s] = [w EXCEPT !.pc = "record", !.snap = n]]
  <2>1. [w EXCEPT !.pc = "record"] = [w EXCEPT !.pc = "record", !.snap = w.snap]
    BY <1>1 DEF WorkSet
  <2> QED
    BY <2>1 DEF ReadServer, Step
<1>3. n \in Maybe(Snapshot)
  BY <1>1, <1>2, Fields DEF Maybe
<1>4. PICK v : /\ v \in WorkSet /\ work' = [work EXCEPT ![s] = v] /\ Keeps(w, v) /\ v.pc = "record"
               /\ v.snap = n /\ v.target = w.target
  <2> DEFINE v == [w EXCEPT !.pc = "record", !.snap = n]
  <2>1. v \in WorkSet /\ Keeps(w, v) /\ v.pc = "record" /\ v.snap = n /\ v.target = w.target
    BY <1>1, <1>3 DEF WorkSet, Keeps, Early
  <2> QED
    BY <1>2, <2>1
<1>5. PICK e : e = entry[s]
  OBVIOUS
<1>6. w.pc = "read" /\ UNCHANGED entry /\ Inner /\ Advanced
  BY DEF ReadServer, Inner, store, driver, catalog, Advanced, ManagerInv, Shape
<1>7. Entrusted(s, e, v)'
  <2>1. Entrusted(s, e, w)
    BY <1>1, <1>5 DEF Local
  <2>2. w.op # None => call[w.op].server = s /\ call[w.op].rev <= desired[s].rev
    BY <1>1, <2>1, Fields DEF Entrusted, ManagerInv, Standing, Maybe
  <2>3. desired[s].rev \in Nat /\ UNCHANGED <<desired, call>>
    BY <1>1, <1>6 DEF Snapshot, Inner
  <2> QED
    BY <1>2, <1>4, <2>1, <2>2, <2>3 DEF Entrusted, Keeps
<1>8. Underway(v)
  BY <1>1, <1>4, <1>6 DEF Local, Underway, Keeps, Early, Trial, Halting
<1>9. Known(e, v) \subseteq Known(entry[s], w) /\ Fading(entry[s], e, w, v)
  BY <1>4, <1>5 DEF Known, Keeps, Fading
<1>10. w.pc \notin Gone \cup {"complete", "recheck", "install"} /\ v.pc \in Early \cup Halting \cup Going
       /\ ~ByWorker(route[s], w)
  BY <1>4, <1>6 DEF Gone, Early, ByWorker
<1> QED
  BY <1>1, <1>4, <1>5, <1>6, <1>7, <1>8, <1>9, <1>10, InnerFalls

\* How a worker leaves, and how it turns to stop a runtime.
Parted(w, v) ==
  /\ v \in WorkSet /\ Keeps(w, v) /\ Underway(v) /\ v.pc \in Going
  /\ v.snap = None /\ v.target = None
Halted(w, v, cand) ==
  /\ v \in WorkSet /\ Keeps(w, v) /\ Underway(v) /\ v.pc = "withdraw"
  /\ v.snap = w.snap /\ v.target = cand

LEMMA Parts ==
  ASSUME NEW w \in WorkSet, Underway(w), NEW pc \in Going, w.cleanupOnly => pc = "finish"
  PROVE  Parted(w, Leaving(w, pc))
<1>1. pc \in Pcs
  BY DEF Pcs
<1>2. PICK v : v = Leaving(w, pc)
  OBVIOUS
<1>3. v \in WorkSet /\ Keeps(w, v) /\ v.pc = pc /\ v.snap = None /\ v.target = None
  BY <1>1, <1>2, Leaves
<1>4. Underway(v)
  BY <1>3 DEF Underway, Keeps, Going, Early, Halting, Trial
<1> QED
  BY <1>2, <1>3, <1>4 DEF Parted

LEMMA StaleParts ==
  ASSUME NEW w \in WorkSet, Underway(w), ~w.cleanupOnly
  PROVE  Parted(w, Stale(w))
BY Parts DEF Stale, Going

LEMMA FailParts ==
  ASSUME NEW w \in WorkSet, Underway(w), ~w.cleanupOnly, NEW retry \in BOOLEAN
  PROVE  Parted(w, Failing(w, retry))
<1>1. PICK u : u = Leaving(w, "fail")
  OBVIOUS
<1>2. Parted(w, u) /\ u.pc = "fail"
  BY <1>1, Parts, Leaves DEF Going, Pcs
<1>3. PICK v : v = [u EXCEPT !.retry = retry]
  OBVIOUS
<1>4. /\ v \in WorkSet /\ v.pc = u.pc /\ v.snap = u.snap /\ v.target = u.target /\ Keeps(w, v)
      /\ v.next = u.next /\ v.outcome = u.outcome /\ v.started = u.started
  BY <1>2, <1>3 DEF Parted, WorkSet, Keeps
<1>5. Underway(v)
  BY <1>2, <1>4 DEF Parted, Underway, Keeps, Early, Halting, Trial
<1> QED
  BY <1>1, <1>2, <1>3, <1>4, <1>5 DEF Parted, Failing

LEMMA EndParts ==
  ASSUME NEW w \in WorkSet, Underway(w), NEW u \in WorkSet, Keeps(w, u)
  PROVE  Parted(w, Ending(u)) /\ Ending(u).pc \in {"clear", "finish"}
<1> DEFINE pc == IF u.cand = None THEN "finish" ELSE "clear"
<1>1. pc \in Going /\ pc \in Pcs /\ pc \in {"clear", "finish"} /\ (w.cleanupOnly => pc = "finish")
  BY DEF Going, Pcs, Underway, Keeps
<1> HIDE DEF pc
<1>2. PICK v : v = Leaving(u, pc)
  OBVIOUS
<1>3. v \in WorkSet /\ Keeps(u, v) /\ v.pc = pc /\ v.snap = None /\ v.target = None
  BY <1>1, <1>2, Leaves
<1>4. Keeps(w, v)
  BY <1>3 DEF Keeps
<1>5. Underway(v)
  BY <1>1, <1>3, <1>4 DEF Underway, Keeps, Going, Early, Halting, Trial
<1> QED
  BY <1>1, <1>2, <1>3, <1>4, <1>5 DEF Parted, Ending, pc

LEMMA HaltParts ==
  ASSUME NEW w \in WorkSet, Underway(w), NEW u \in WorkSet, Keeps(w, u), u.snap = w.snap,
         NEW cand \in Candidate, NEW next \in Resume,
         next \in {"decide", "cleaned"} => w.cand = None, w.cleanupOnly => next = "cleaned"
  PROVE  Halted(w, Stopping(u, cand, next), cand)
<1>1. PICK v : v = Stopping(u, cand, next)
  OBVIOUS
<1>2. /\ v \in WorkSet /\ Keeps(u, v) /\ v.pc = "withdraw" /\ v.target = cand /\ v.next = next
      /\ v.snap = u.snap
  BY <1>1, Halts
<1>3. Keeps(w, v)
  BY <1>2 DEF Keeps
<1>4. cand # None
  BY NoneIsNoCandidate
<1>5. Underway(v)
  BY <1>2, <1>3, <1>4 DEF Underway, Keeps, Early, Halting, Trial
<1> QED
  BY <1>1, <1>2, <1>3, <1>5 DEF Halted

\* A step after which the worker is leaving, or about to stop a runtime.
LEMMA Departs ==
  ASSUME ManagerInv, NEW s \in Servers, NEW d \in EntrySet, NEW v,
         entry' = [entry EXCEPT ![s] = d], work' = [work EXCEPT ![s] = v], Inner, Advanced,
         Fading(entry[s], d, work[s], v), d.operation \in {entry[s].operation, None},
         work[s].pc \notin Gone \cup {"complete", "recheck", "install"},
         \A c \in {d.activating, d.active, d.blocked} \ {None} : c \in Known(entry[s], work[s]),
         \/ Parted(work[s], v) /\ ~(route[s] # None /\ ByWorker(route[s], work[s]))
         \/ \E cand \in Known(entry[s], work[s]) :
              /\ Halted(work[s], v, cand)
              /\ route[s] # None /\ ByWorker(route[s], work[s]) => Match(route[s], cand)
  PROVE  ManagerInv'
<1>1. /\ entry[s] \in EntrySet /\ work[s] \in WorkSet /\ Local(s, entry[s], work[s])
      /\ Known(entry[s], work[s]) \subseteq Candidate
  BY At
<1>2. PICK cand : \/ Parted(work[s], v) /\ ~(route[s] # None /\ ByWorker(route[s], work[s]))
                  \/ /\ Halted(work[s], v, cand) /\ cand \in Known(entry[s], work[s])
                     /\ route[s] # None /\ ByWorker(route[s], work[s]) => Match(route[s], cand)
  OBVIOUS
<1>3. /\ v \in WorkSet /\ Keeps(work[s], v) /\ Underway(v) /\ v.snap \in {work[s].snap, None}
      /\ v.pc \in Early \cup Halting \cup Going /\ v.target \in {None} \cup Known(entry[s], work[s])
  BY <1>2 DEF Parted, Halted, Halting
<1>4. Known(d, v) \subseteq Known(entry[s], work[s])
  <2>1. v.cand # None => v.cand \in Known(entry[s], work[s])
    BY <1>3 DEF Known, Keeps
  <2>2. \A c \in Known(d, v) : c \in {d.activating, d.active, d.blocked} \ {None} \/ c \in {v.cand, v.target} \ {None}
    BY DEF Known
  <2> QED
    BY <1>3, <2>1, <2>2
<1>5. Entrusted(s, d, v)'
  <2>1. Entrusted(s, entry[s], work[s]) /\ v.op = work[s].op /\ UNCHANGED <<desired, call>>
    BY <1>1, <1>3 DEF Local, Keeps, Inner
  <2>2. PICK e, w : e = entry[s] /\ w = work[s]
    OBVIOUS
  <2> QED
    BY <1>3, <2>1, <2>2, EntrustedKept
<1>6. route[s] # None /\ ByWorker(route[s], work[s]) => ByWorker(route[s], v)
  BY <1>2 DEF ByWorker, Halted
<1> QED
  BY <1>3, <1>4, <1>5, <1>6, InnerFalls

LEMMA EntryFields ==
  ASSUME NEW e \in EntrySet
  PROVE  /\ e.gen \in Nat /\ e.operation \in Maybe(Ops) /\ e.timer \in Maybe(Nat)
         /\ e.activating \in Maybe(Candidate) /\ e.active \in Maybe(Candidate)
         /\ e.blocked \in Maybe(Candidate) /\ e.pending \in BOOLEAN /\ e.failure \in BOOLEAN
         /\ e.unsettled \in BOOLEAN /\ e.pendingDisplaced \in BOOLEAN /\ e.status \in Statuses
BY DEF EntrySet

\* The places of an entry.
SamePlaces(e, d) == d.activating = e.activating /\ d.active = e.active /\ d.blocked = e.blocked

LEMMA RecordAttemptInv ==
  ASSUME ManagerInv, NEW s \in Servers, RecordAttempt(s)
  PROVE  ManagerInv'
<1>1. PICK e \in EntrySet, w \in WorkSet : /\ e = entry[s] /\ w = work[s] /\ Local(s, e, w)
                                           /\ entry = [entry EXCEPT ![s] = e]
  BY At
<1>2. w.pc = "record" /\ Inner /\ Advanced
  BY <1>1 DEF RecordAttempt, Inner, store, driver, catalog, Advanced, ManagerInv, Shape
<1>3. PICK v \in WorkSet :
           /\ work' = [work EXCEPT ![s] = v] /\ Keeps(w, v) /\ v.snap = w.snap /\ v.target = w.target
           /\ \/ UNCHANGED entry /\ v.pc \in {"begin", "finish"}
              \/ entry' = [entry EXCEPT ![s] = IF e.gen = w.gen THEN Requeued(e, w) ELSE e] /\ v.pc = "finish"
              \/ /\ entry' = [entry EXCEPT ![s] = IF e.gen = w.gen
                                THEN [e EXCEPT !.pending = FALSE, !.status = "degraded"] ELSE e]
                 /\ v.pc = "finish"
  <2> DEFINE pc == IF Current(s, w.gen) THEN "begin" ELSE "finish"
             v1 == [w EXCEPT !.pc = pc, !.attempt = TRUE]
             v2 == [w EXCEPT !.pc = "finish"]
             v3 == [w EXCEPT !.pc = "finish", !.failed = TRUE]
  <2>1. v1 \in WorkSet /\ Keeps(w, v1) /\ v1.snap = w.snap /\ v1.target = w.target /\ v1.pc \in {"begin", "finish"}
    BY DEF WorkSet, Keeps, Early, Going
  <2>2. v2 \in WorkSet /\ Keeps(w, v2) /\ v2.snap = w.snap /\ v2.target = w.target /\ v2.pc = "finish"
    BY DEF WorkSet, Keeps, Going
  <2>3. v3 \in WorkSet /\ Keeps(w, v3) /\ v3.snap = w.snap /\ v3.target = w.target /\ v3.pc = "finish"
    BY DEF WorkSet, Keeps, Going
  <2>4. \/ UNCHANGED entry /\ work' = [work EXCEPT ![s] = v1]
        \/ /\ entry' = [entry EXCEPT ![s] = IF e.gen = w.gen THEN Requeued(e, w) ELSE e]
           /\ work' = [work EXCEPT ![s] = v2]
        \/ /\ entry' = [entry EXCEPT ![s] = IF e.gen = w.gen
                                THEN [e EXCEPT !.pending = FALSE, !.status = "degraded"] ELSE e]
           /\ work' = [work EXCEPT ![s] = v3]
    BY <1>1 DEF RecordAttempt, Step, Enter
  <2> HIDE DEF v1, v2, v3
  <2> QED
    BY <2>1, <2>2, <2>3, <2>4
<1>4. ~w.cleanupOnly /\ ~v.cleanupOnly
  BY <1>1, <1>2, <1>3 DEF Local, Underway, Halting, Keeps
<1>5. PICK d \in EntrySet :
           /\ entry' = [entry EXCEPT ![s] = d] /\ Fading(e, d, w, v) /\ SamePlaces(e, d)
           /\ d.operation \in {e.operation, w.op}
  <2>1. e \in EntrySet /\ Fading(e, e, w, v) /\ SamePlaces(e, e)
    BY DEF Fading, SamePlaces
  <2>2. Requeued(e, w) \in EntrySet /\ SamePlaces(e, Requeued(e, w)) /\ Requeued(e, w).operation = w.op
    <3>1. w.op \in Maybe(Ops) /\ e.gen \in Maybe(Nat)
      BY Fields, EntryFields DEF Maybe
    <3>2. [e EXCEPT !.pending = FALSE, !.operation = w.op, !.timer = e.gen, !.status = "retry"] \in EntrySet
      BY <3>1 DEF EntrySet, Statuses
    <3> QED
      BY <3>2 DEF Requeued, EntrySet, SamePlaces
  <2>3. v.pc = "finish" => Fading(e, Requeued(e, w), w, v)
    BY <1>4 DEF Requeued, EntrySet, Fading, Gone
  <2> DEFINE d3 == [e EXCEPT !.pending = FALSE, !.status = "degraded"]
  <2>4. d3 \in EntrySet /\ SamePlaces(e, d3) /\ d3.operation = e.operation /\ Fading(e, d3, w, v)
    <3>1. d3 \in EntrySet
      BY DEF EntrySet, Statuses
    <3>2. SamePlaces(e, d3) /\ d3.operation = e.operation /\ d3.gen = e.gen /\ d3.timer = e.timer /\ ~d3.pending
      BY DEF EntrySet, SamePlaces
    <3> QED
      BY <3>1, <3>2 DEF SamePlaces, Fading
  <2> HIDE DEF d3
  <2>5. \/ entry' = [entry EXCEPT ![s] = e] \/ entry' = [entry EXCEPT ![s] = d3]
        \/ entry' = [entry EXCEPT ![s] = Requeued(e, w)] /\ v.pc = "finish"
    BY <1>1, <1>3 DEF d3
  <2> QED
    BY <2>1, <2>2, <2>3, <2>4, <2>5
<1>6. Entrusted(s, d, v)'
  BY <1>1, <1>2, <1>3, <1>5, EntrustedKept DEF Local, Inner, Keeps
<1>7. Underway(v)
  BY <1>1, <1>2, <1>3, <1>4 DEF Local, Underway, Keeps, Early, Trial, Halting
<1>8. Known(d, v) \subseteq Known(e, w)
  BY <1>3, <1>5 DEF Known, Keeps, SamePlaces
<1>9. w.pc \notin Gone \cup {"complete", "recheck", "install"} /\ v.pc \in Early \cup Halting \cup Going
       /\ ~ByWorker(route[s], w)
  BY <1>2, <1>3 DEF Gone, Early, Going, ByWorker
<1> QED
  BY <1>1, <1>2, <1>3, <1>5, <1>6, <1>7, <1>8, <1>9, InnerFalls

-----------------------------------------------------------------------------
(* A worker that goes on with its candidate. *)

LEMMA WorkerGoes ==
  ASSUME ManagerInv, NEW s \in Servers, NEW d \in EntrySet, NEW v \in WorkSet,
         entry' = [entry EXCEPT ![s] = d], work' = [work EXCEPT ![s] = v],
         Aside(s), Advanced, UNCHANGED stoppers, issued' \in Nat, issued <= issued',
         Fading(entry[s], d, work[s], v), v.gen = work[s].gen, v.cleanupOnly = work[s].cleanupOnly,
         work[s].pc \notin Gone \cup {"complete"}, v.pc # "idle",
         Underway(v), Entrusted(s, d, v)', Locked(s, v)',
         entry[s].gen = work[s].gen /\ v.cand # None => Held(s, d, v)',
         \A c \in Known(d, v) : c \in Known(entry[s], work[s]) \/ c.id = issued',
         v.cand # None => v.cand = work[s].cand \/ v.cand.id > issued,
         handles' # handles => work[s].cand # None,
         \/ /\ route'[s] = route[s]
            /\ route[s] # None /\ ByWorker(route[s], work[s]) => ByWorker(route[s], v)
         \/ route'[s] # None => (~route'[s].live \/ ByWorker(route'[s], v))
         \/ drain.pc # "none"
  PROVE  ManagerInv'
<1>1. PICK e \in EntrySet, w \in WorkSet :
         /\ e = entry[s] /\ w = work[s] /\ Local(s, e, w) /\ Known(e, w) \subseteq Candidate
         /\ stoppers \in SUBSET StopperSet /\ issued \in Nat
  BY At
<1>2. UNCHANGED <<call, drain>>
  BY DEF Aside
<1>3. Placed(s, e, w) /\ Active(s, e, w) /\ Lost(s, e, w) /\ Timed(e, w) /\ Routed(s, e, w)
  BY <1>1 DEF Local
<1>4. Active(s, d, v)' /\ Lost(s, d, v)' /\ Timed(d, v)' /\ Placed(s, d, v)'
  BY <1>1, <1>2, <1>3, Onward
<1>5. Routed(s, d, v)'
  BY <1>1, <1>2, <1>3, Answered
<1>6. Local(s, d, v)'
  BY <1>4, <1>5 DEF Local, Underway, Idle
<1>7. \A c \in Mine(d, v) : c \in Mine(e, w) \/ (c = v.cand /\ c.id > issued)
  <2>1. d.active \in {e.active, None} /\ (v.cand # None => v.cand = w.cand \/ v.cand.id > issued)
    BY <1>1 DEF Fading
  <2> QED
    BY <2>1 DEF Mine
<1>8. \A c \in Known(e, w) : c.id <= issued /\ c.id \in Nat
  BY <1>1 DEF ManagerInv, Numbered, Candidate
<1>9. \A c \in Mine(e, w) : c \in Known(e, w)
  BY DEF Mine, Known
<1>10. drain.pc \notin {"none", "routes"} => lock' = None
  BY <1>2 DEF Locked
<1>11. \A c1, c2 \in Mine(d, v) : c1.id > issued /\ c2.id > issued => c1 = c2
  BY <1>1, <1>7, <1>8, <1>9
<1>12. \A c \in Known(d, v) : c.id <= issued'
  BY <1>1, <1>8
<1> QED
  BY <1>1, <1>6, <1>7, <1>10, <1>11, <1>12, Worked

LEMMA BeginOperationInv ==
  ASSUME ManagerInv, NEW s \in Servers, BeginOperation(s)
  PROVE  ManagerInv'
<1>1. PICK e \in EntrySet, w \in WorkSet : /\ e = entry[s] /\ w = work[s] /\ Local(s, e, w)
                                           /\ entry = [entry EXCEPT ![s] = e]
  BY At
<1>2. /\ w.pc = "begin" /\ Inner /\ UNCHANGED entry
      /\ \/ /\ w.op # None => ops[w.op] \in Nonterminal
            /\ ops' = [o \in Ops |-> IF o = w.op THEN "running" ELSE ops[o]]
            /\ work' = [work EXCEPT ![s] = [w EXCEPT !.pc = "stopPrevious"]]
         \/ UNCHANGED ops /\ work' = [work EXCEPT ![s] = Stale(w)]
  BY <1>1 DEF BeginOperation, Inner, driver, catalog, Step, Nonterminal
<1>3. Underway(w) /\ ~w.cleanupOnly /\ Entrusted(s, e, w)
  BY <1>1, <1>2 DEF Local, Underway, Halting
<1>4. ops \in [Ops -> {"none"} \cup Nonterminal \cup Terminal]
  BY DEF ManagerInv, Shape
<1>5. w.pc \notin Gone \cup {"complete", "recheck", "install"} /\ ~ByWorker(route[s], w)
  BY <1>2 DEF Gone, ByWorker
<1>6. CASE UNCHANGED ops /\ work' = [work EXCEPT ![s] = Stale(w)]
  <2>1. Advanced
    BY <1>4, <1>6 DEF Advanced
  <2>2. PICK v : v = Stale(w) /\ Parted(w, v)
    BY <1>3, StaleParts
  <2>3. Fading(e, e, w, v) /\ \A c \in {e.activating, e.active, e.blocked} \ {None} : c \in Known(e, w)
    BY DEF Fading, Known
  <2> QED
    BY <1>1, <1>2, <1>5, <1>6, <2>1, <2>2, <2>3, Departs
<1>7. CASE /\ w.op # None => ops[w.op] \in Nonterminal
           /\ ops' = [o \in Ops |-> IF o = w.op THEN "running" ELSE ops[o]]
           /\ work' = [work EXCEPT ![s] = [w EXCEPT !.pc = "stopPrevious"]]
  <2>1. Advanced
    BY <1>4, <1>7, NamesAssumption DEF Advanced, Nonterminal, Terminal, Ops
  <2>2. PICK v \in WorkSet : /\ v = [w EXCEPT !.pc = "stopPrevious"] /\ Keeps(w, v) /\ v.snap = w.snap
                             /\ v.target = w.target /\ v.pc = "stopPrevious"
    <3> DEFINE v == [w EXCEPT !.pc = "stopPrevious"]
    <3>1. v \in WorkSet /\ Keeps(w, v) /\ v.snap = w.snap /\ v.target = w.target /\ v.pc = "stopPrevious"
      BY DEF WorkSet, Keeps, Early
    <3> QED
      BY <3>1
  <2>3. Underway(v)
    BY <1>2, <1>3, <2>2 DEF Underway, Keeps, Early, Trial, Halting
  <2>4. Entrusted(s, e, v)'
    BY <1>2, <1>3, <2>2, EntrustedKept DEF Inner, Keeps
  <2>5. Known(e, v) \subseteq Known(e, w) /\ Fading(e, e, w, v) /\ v.pc \in Early \cup Halting \cup Going
    BY <2>2 DEF Known, Keeps, Fading, Early
  <2> QED
    BY <1>1, <1>2, <1>5, <1>7, <2>1, <2>2, <2>3, <2>4, <2>5, InnerFalls
<1> QED
  BY <1>2, <1>6, <1>7

\* Moves of a worker that change nothing but its place in the code.
LEMMA Turns ==
  ASSUME NEW w \in WorkSet, NEW pc \in Pcs
  PROVE  LET v == [w EXCEPT !.pc = pc]
         IN /\ v \in WorkSet /\ Keeps(w, v) /\ v.snap = w.snap /\ v.target = w.target /\ v.pc = pc
            /\ v.next = w.next /\ v.outcome = w.outcome /\ v.started = w.started
BY DEF WorkSet, Keeps, Pcs

LEMMA StopPreviousInv ==
  ASSUME ManagerInv, NEW s \in Servers, StopPrevious(s)
  PROVE  ManagerInv'
<1>1. PICK e \in EntrySet, w \in WorkSet : /\ e = entry[s] /\ w = work[s] /\ Local(s, e, w)
                                           /\ entry = [entry EXCEPT ![s] = e]
  BY At
<1>2. PICK previous, next :
      /\ previous \in {e.blocked, e.active} /\ next = IF w.cleanupOnly THEN "cleaned" ELSE "decide"
      /\ w.pc = "stopPrevious" /\ Inner /\ Advanced
      /\ \/ entry' = [entry EXCEPT ![s] = e] \/ entry' = [entry EXCEPT ![s] = [e EXCEPT !.active = None]]
      /\ \/ previous # None /\ work' = [work EXCEPT ![s] = Stopping(w, previous, next)]
         \/ \E pc \in {"finish", "decide"} : /\ work' = [work EXCEPT ![s] = [w EXCEPT !.pc = pc]]
                                             /\ pc = "decide" => ~w.cleanupOnly
  BY <1>1, Zenon DEF StopPrevious, Inner, store, driver, catalog, Step, Enter, Advanced, ManagerInv, Shape
<1>3. Underway(w) /\ Entrusted(s, e, w) /\ w.cand = None
  BY <1>1, <1>2 DEF Local, Underway, Early
<1>4. w.pc \notin Gone \cup {"complete", "recheck", "install"} /\ ~ByWorker(route[s], w)
  BY <1>2 DEF Gone, ByWorker
<1>5. PICK d \in EntrySet :
        /\ entry' = [entry EXCEPT ![s] = d] /\ d.operation = e.operation /\ d.gen = e.gen
        /\ d.active \in {e.active, None} /\ d.activating = e.activating /\ d.blocked = e.blocked
        /\ d.pending = e.pending /\ d.timer = e.timer
  <2> DEFINE d1 == [e EXCEPT !.active = None]
  <2>1. d1 \in EntrySet /\ d1.operation = e.operation /\ d1.gen = e.gen
        /\ d1.active = None /\ d1.activating = e.activating /\ d1.blocked = e.blocked
        /\ d1.pending = e.pending /\ d1.timer = e.timer
    BY DEF EntrySet, Maybe
  <2> HIDE DEF d1
  <2>2. entry' = [entry EXCEPT ![s] = e] \/ entry' = [entry EXCEPT ![s] = d1]
    BY <1>2 DEF d1
  <2> QED
    BY <2>1, <2>2
<1>6. /\ \A v : Fading(e, d, w, v)
      /\ \A c \in {d.activating, d.active, d.blocked} \ {None} : c \in Known(e, w)
  BY <1>5 DEF Fading, Known
<1>7. CASE previous # None /\ work' = [work EXCEPT ![s] = Stopping(w, previous, next)]
  <2>1. previous \in Candidate /\ next \in Resume /\ (w.cleanupOnly => next = "cleaned") /\ previous \in Known(e, w)
    BY <1>2, <1>7, EntryFields DEF Resume, Maybe, Known
  <2>2. PICK v : v = Stopping(w, previous, next) /\ Halted(w, v, previous)
    BY <1>3, <2>1, HaltParts DEF Keeps
  <2> QED
    BY <1>1, <1>2, <1>4, <1>5, <1>6, <1>7, <2>1, <2>2, Departs
<1>8. ASSUME NEW pc \in {"finish", "decide"}, work' = [work EXCEPT ![s] = [w EXCEPT !.pc = pc]],
             pc = "decide" => ~w.cleanupOnly
      PROVE  ManagerInv'
  <2>1. PICK v \in WorkSet : /\ v = [w EXCEPT !.pc = pc] /\ Keeps(w, v) /\ v.snap = w.snap
                             /\ v.target = w.target /\ v.pc = pc
    BY Turns DEF Pcs, Early, Going
  <2>2. Underway(v)
    BY <1>2, <1>3, <1>8, <2>1 DEF Underway, Keeps, Early, Trial, Halting
  <2>3. Entrusted(s, d, v)'
    BY <1>2, <1>3, <1>5, <2>1, EntrustedKept DEF Inner, Keeps
  <2>4. Known(d, v) \subseteq Known(e, w) /\ v.pc \in Early \cup Halting \cup Going
    BY <1>6, <2>1 DEF Known, Keeps, Early, Going
  <2> QED
    BY <1>1, <1>2, <1>4, <1>5, <1>6, <1>8, <2>1, <2>2, <2>3, <2>4, InnerFalls
<1> QED
  BY <1>2, <1>7, <1>8

\* A worker that leaves, or turns to stop a runtime, without a change of its entry.
LEMMA Quits ==
  ASSUME ManagerInv, NEW s \in Servers, NEW v, work' = [work EXCEPT ![s] = v], UNCHANGED <<entry, ops>>,
         Inner, work[s].pc \notin Gone \cup {"complete", "recheck", "install"},
         \/ Parted(work[s], v) /\ ~(route[s] # None /\ ByWorker(route[s], work[s]))
         \/ \E cand \in Known(entry[s], work[s]) :
              /\ Halted(work[s], v, cand)
              /\ route[s] # None /\ ByWorker(route[s], work[s]) => Match(route[s], cand)
  PROVE  ManagerInv'
<1>1. PICK e \in EntrySet : e = entry[s] /\ entry = [entry EXCEPT ![s] = e]
  BY At
<1>2. Fading(e, e, work[s], v) /\ \A c \in {e.activating, e.active, e.blocked} \ {None} : c \in Known(e, work[s])
  BY DEF Fading, Known
<1>3. Advanced
  BY DEF Advanced, ManagerInv, Shape
<1> QED
  BY <1>1, <1>2, <1>3, Departs

LEMMA CannotDecideInv ==
  ASSUME ManagerInv, NEW s \in Servers, CannotDecide(s)
  PROVE  ManagerInv'
<1>1. PICK e \in EntrySet, w \in WorkSet : e = entry[s] /\ w = work[s] /\ Local(s, e, w)
  BY At
<1>2. PICK retry \in BOOLEAN : /\ w.pc = "decide" /\ Inner /\ UNCHANGED <<entry, ops>>
                               /\ work' = [work EXCEPT ![s] = Failing(w, retry)]
  BY <1>1 DEF CannotDecide, Inner, store, driver, catalog, Step
<1>3. Underway(w) /\ ~w.cleanupOnly
  BY <1>1, <1>2 DEF Local, Underway, Halting
<1>4. w.pc \notin Gone \cup {"complete", "recheck", "install"} /\ ~ByWorker(route[s], w)
  BY <1>2 DEF Gone, ByWorker
<1>5. PICK v : v = Failing(w, retry) /\ Parted(w, v)
  BY <1>3, FailParts
<1> QED
  BY <1>1, <1>2, <1>4, <1>5, Quits

LEMMA ChooseCandidateInv ==
  ASSUME ManagerInv, NEW s \in Servers, ChooseCandidate(s)
  PROVE  ManagerInv'
<1>1. PICK e \in EntrySet, w \in WorkSet : /\ e = entry[s] /\ w = work[s] /\ Local(s, e, w)
         /\ Known(e, w) \subseteq Candidate /\ issued \in Nat /\ stoppers \in SUBSET StopperSet
  BY At
<1>2. PICK cand : cand = [id |-> issued + 1, gen |-> w.gen, version |-> w.snap.version]
  OBVIOUS
<1>3. /\ w.pc = "decide" /\ w.snap # None
      /\ UNCHANGED <<desired, ops, call, stoppers, owner, handles, quiet, route, lock, drain>>
      /\ \/ /\ entry' = [entry EXCEPT ![s] = [e EXCEPT !.activating = cand, !.failure = FALSE]]
            /\ work' = [work EXCEPT ![s] = [w EXCEPT !.pc = "resolve", !.cand = cand]]
            /\ issued' = issued + 1
         \/ work' = [work EXCEPT ![s] = Stale(w)] /\ UNCHANGED <<entry, issued>>
  BY <1>1, <1>2, Zenon DEF ChooseCandidate, store, driver, catalog, Step, Enter
<1>4. Underway(w) /\ ~w.cleanupOnly /\ Entrusted(s, e, w) /\ Locked(s, w)
  BY <1>1, <1>3 DEF Local, Underway, Halting
<1>5. w.pc \notin Gone \cup {"complete", "recheck", "install"} /\ ~ByWorker(route[s], w)
  BY <1>3 DEF Gone, ByWorker
<1>6. CASE work' = [work EXCEPT ![s] = Stale(w)] /\ UNCHANGED <<entry, issued>>
  <2>1. PICK v : v = Stale(w) /\ Parted(w, v)
    BY <1>4, StaleParts
  <2>2. Inner /\ UNCHANGED <<entry, ops>>
    BY <1>3, <1>6 DEF Inner
  <2> QED
    BY <1>1, <1>5, <1>6, <2>1, <2>2, Quits
<1>7. CASE /\ entry' = [entry EXCEPT ![s] = [e EXCEPT !.activating = cand, !.failure = FALSE]]
           /\ work' = [work EXCEPT ![s] = [w EXCEPT !.pc = "resolve", !.cand = cand]]
           /\ issued' = issued + 1
  <2>1. cand \in Candidate /\ cand.id = issued + 1 /\ cand.gen = w.gen /\ cand # None
    <3>1. w.gen \in Nat /\ w.snap.version \in Nat
      BY <1>3, Fields DEF Maybe, Snapshot
    <3>2. cand \in Candidate
      BY <1>1, <1>2, <3>1 DEF Candidate
    <3> QED
      BY <1>2, <3>2, NoneIsNoCandidate
  <2>2. PICK v \in WorkSet :
          /\ work' = [work EXCEPT ![s] = v] /\ v.pc = "resolve" /\ v.cand = cand /\ v.gen = w.gen
          /\ v.op = w.op /\ v.cleanupOnly = w.cleanupOnly /\ v.snap = w.snap /\ v.target = w.target
    <3> DEFINE v == [w EXCEPT !.pc = "resolve", !.cand = cand]
    <3>1. /\ v \in WorkSet /\ v.pc = "resolve" /\ v.cand = cand /\ v.gen = w.gen
          /\ v.op = w.op /\ v.cleanupOnly = w.cleanupOnly /\ v.snap = w.snap /\ v.target = w.target
      BY <2>1 DEF WorkSet, Maybe, Trial
    <3> QED
      BY <1>7, <3>1
  <2>3. PICK d \in EntrySet :
          /\ entry' = [entry EXCEPT ![s] = d] /\ d.activating = cand /\ d.failure = FALSE
          /\ d.gen = e.gen /\ d.pending = e.pending /\ d.active = e.active /\ d.timer = e.timer
          /\ d.operation = e.operation /\ d.blocked = e.blocked
    <3> DEFINE d == [e EXCEPT !.activating = cand, !.failure = FALSE]
    <3>1. /\ d \in EntrySet /\ d.activating = cand /\ d.failure = FALSE
          /\ d.gen = e.gen /\ d.pending = e.pending /\ d.active = e.active /\ d.timer = e.timer
          /\ d.operation = e.operation /\ d.blocked = e.blocked
      BY <2>1 DEF EntrySet, Maybe
    <3> QED
      BY <1>7, <3>1
  <2>4. Aside(s) /\ Advanced /\ issued' \in Nat /\ issued <= issued'
    BY <1>1, <1>3, <1>7, AsideOfAll DEF Advanced, ManagerInv, Shape
  <2>5. Fading(e, d, w, v)
    BY <2>3 DEF Fading
  <2>6. Underway(v)
    BY <1>3, <1>4, <2>1, <2>2 DEF Underway, Early, Trial, Halting
  <2>7. Entrusted(s, d, v)'
    BY <1>3, <1>4, <2>2, <2>3, EntrustedKept
  <2>8. Locked(s, v)'
    BY <1>3, <1>4, <2>2 DEF Locked
  <2>9. Held(s, d, v)'
    <3>1. cand \notin handles
      BY <1>1, <2>1 DEF ManagerInv, Numbered
    <3>2. \A t \in stoppers : t.cand.id # cand.id
      BY <1>1, <2>1 DEF ManagerInv, Numbered
    <3> QED
      BY <1>3, <2>2, <2>3, <3>1, <3>2 DEF Held, Firm
  <2>10. \A c \in Known(d, v) : c \in Known(e, w) \/ c.id = issued'
    BY <1>7, <2>1, <2>2, <2>3 DEF Known
  <2>11. v.cand.id > issued /\ v.pc # "idle" /\ UNCHANGED <<stoppers, handles>> /\ route'[s] = route[s]
    BY <1>1, <1>3, <2>1, <2>2
  <2> QED
    BY <1>1, <1>5, <2>2, <2>3, <2>4, <2>5, <2>6, <2>7, <2>8, <2>9, <2>10, <2>11, WorkerGoes
<1> QED
  BY <1>3, <1>6, <1>7

LEMMA RetireServerInv ==
  ASSUME ManagerInv, NEW s \in Servers, RetireServer(s)
  PROVE  ManagerInv'
<1>1. PICK e \in EntrySet, w \in WorkSet : /\ e = entry[s] /\ w = work[s] /\ Local(s, e, w)
         /\ issued \in Nat /\ entry = [entry EXCEPT ![s] = e] /\ route \in [Servers -> Maybe(RouteSet)]
         /\ owner \in [Servers -> Maybe(Nat)] /\ handles \in SUBSET Candidate /\ quiet \in SUBSET Candidate
         /\ stoppers \in SUBSET StopperSet
  BY At
<1>2. /\ w.pc = "decide" /\ w.snap # None /\ ~w.snap.on
      /\ UNCHANGED <<desired, ops, call, entry, stoppers, owner, handles, quiet, lock, drain, issued>>
      /\ \/ /\ route' = route \/ (route[s] # None /\ route' = [route EXCEPT ![s].live = FALSE])
            /\ work' = [work EXCEPT ![s] = [w EXCEPT !.pc = "succeed"]]
         \/ UNCHANGED route /\ work' = [work EXCEPT ![s] = Failing(w, FALSE)]
  BY <1>1, Zenon DEF RetireServer, store, driver, Step
<1>3. Underway(w) /\ ~w.cleanupOnly /\ w.cand = None /\ Entrusted(s, e, w) /\ Locked(s, w)
  BY <1>1, <1>2 DEF Local, Underway, Halting, Early
<1>4. w.pc \notin Gone \cup {"complete", "recheck", "install"} /\ ~ByWorker(route[s], w)
  BY <1>2 DEF Gone, ByWorker
<1>5. CASE UNCHANGED route /\ work' = [work EXCEPT ![s] = Failing(w, FALSE)]
  <2>1. PICK v : v = Failing(w, FALSE) /\ Parted(w, v)
    BY <1>3, FailParts
  <2>2. Inner /\ UNCHANGED <<entry, ops>>
    BY <1>2, <1>5 DEF Inner
  <2> QED
    BY <1>1, <1>4, <1>5, <2>1, <2>2, Quits
<1>6. CASE /\ route' = route \/ (route[s] # None /\ route' = [route EXCEPT ![s].live = FALSE])
           /\ work' = [work EXCEPT ![s] = [w EXCEPT !.pc = "succeed"]]
  <2>1. PICK v \in WorkSet : /\ v = [w EXCEPT !.pc = "succeed"] /\ Keeps(w, v) /\ v.snap = w.snap
                             /\ v.target = w.target /\ v.pc = "succeed"
    BY Turns DEF Pcs
  <2>2. /\ route' \in [Servers -> Maybe(RouteSet)] /\ \A r \in Servers \ {s} : route'[r] = route[r]
        /\ route'[s] = route[s] \/ (route'[s] # None => ~route'[s].live)
    <3>1. CASE route' = route
      BY <1>1, <3>1
    <3>2. CASE route[s] # None /\ route' = [route EXCEPT ![s].live = FALSE]
      <4>1. route[s] \in RouteSet
        BY <1>1, <3>2 DEF Maybe
      <4>2. PICK x : x = [route[s] EXCEPT !.live = FALSE]
        OBVIOUS
      <4>3. x \in RouteSet /\ x.live = FALSE
        BY <4>1, <4>2 DEF RouteSet
      <4>4. route' = [route EXCEPT ![s] = x]
        BY <3>2, <4>2
      <4> QED
        BY <1>1, <4>3, <4>4 DEF Maybe
    <3> QED
      BY <1>6, <3>1, <3>2
  <2>3. Aside(s) /\ Advanced /\ issued' \in Nat /\ issued <= issued'
    BY <1>1, <1>2, <2>2 DEF Aside, Advanced, ManagerInv, Shape, Numbered
  <2>4. Fading(e, e, w, v) /\ Known(e, v) \subseteq Known(e, w)
    BY <2>1 DEF Fading, Known, Keeps
  <2>5. Underway(v)
    BY <1>2, <1>3, <2>1 DEF Underway, Keeps, Early, Trial, Halting
  <2>6. Entrusted(s, e, v)'
    BY <1>2, <1>3, <2>1, EntrustedKept DEF Keeps
  <2>7. Locked(s, v)'
    BY <1>2, <1>3, <2>1, <2>2 DEF Locked
  <2>8. v.cand = None /\ v.pc # "idle" /\ v.gen = w.gen /\ v.cleanupOnly = w.cleanupOnly
    BY <1>3, <2>1 DEF Keeps
  <2> QED
    BY <1>1, <1>2, <1>4, <1>6, <2>1, <2>2, <2>3, <2>4, <2>5, <2>6, <2>7, <2>8, WorkerGoes, ZenonT(60)
<1> QED
  BY <1>2, <1>5, <1>6

\* A worker that keeps its entry, its candidate and what it has read.
LEMMA Proceeds ==
  ASSUME ManagerInv, NEW s \in Servers, NEW v \in WorkSet, work' = [work EXCEPT ![s] = v],
         UNCHANGED <<entry, ops, stoppers, issued>>, Aside(s), Keeps(work[s], v),
         v.snap = work[s].snap, v.target = work[s].target,
         work[s].pc \notin Gone \cup {"complete"}, v.pc # "idle", Underway(v), Locked(s, v)',
         Held(s, entry[s], work[s]) => \A e : e = entry[s] => Held(s, e, v)',
         handles' # handles => work[s].cand # None,
         \/ /\ route'[s] = route[s]
            /\ route[s] # None /\ ByWorker(route[s], work[s]) => ByWorker(route[s], v)
         \/ route'[s] # None => (~route'[s].live \/ ByWorker(route'[s], v))
         \/ drain.pc # "none"
  PROVE  ManagerInv'
<1>1. PICK e \in EntrySet, w \in WorkSet : /\ e = entry[s] /\ w = work[s] /\ Local(s, e, w)
         /\ issued \in Nat /\ entry = [entry EXCEPT ![s] = e]
  BY At
<1>2. Fading(e, e, w, v) /\ Known(e, v) \subseteq Known(e, w)
  BY <1>1 DEF Fading, Known, Keeps
<1>3. Entrusted(s, e, v)'
  BY <1>1, EntrustedKept DEF Local, Keeps, Aside
<1>4. Advanced /\ issued' \in Nat /\ issued <= issued'
  BY <1>1 DEF Advanced, ManagerInv, Shape
<1>5. e.gen = w.gen /\ v.cand # None => Held(s, e, v)'
  BY <1>1 DEF Local, Placed, Keeps
<1>6. v.gen = w.gen /\ v.cleanupOnly = w.cleanupOnly /\ v.cand = w.cand
  BY <1>1 DEF Keeps
<1> QED
  BY <1>1, <1>2, <1>3, <1>4, <1>5, <1>6, WorkerGoes

LEMMA ResolveAuthorityInv ==
  ASSUME ManagerInv, NEW s \in Servers, ResolveAuthority(s)
  PROVE  ManagerInv'
<1>1. PICK e \in EntrySet, w \in WorkSet : e = entry[s] /\ w = work[s] /\ Local(s, e, w)
  BY At
<1>2. /\ w.pc = "resolve" /\ Inner /\ UNCHANGED <<entry, ops>>
      /\ \/ work' = [work EXCEPT ![s] = [w EXCEPT !.pc = "admit"]]
         \/ work' = [work EXCEPT ![s] = Stale(w)]
         \/ \E outcome \in {"retry", "final"} :
              work' = [work EXCEPT ![s] = [w EXCEPT !.pc = "fence", !.outcome = outcome]]
  BY <1>1, Zenon DEF ResolveAuthority, Inner, store, driver, catalog, Step
<1>3. Underway(w) /\ ~w.cleanupOnly /\ Locked(s, w)
  BY <1>1, <1>2 DEF Local, Underway, Halting
<1>4. w.pc \notin Gone \cup {"complete", "recheck", "install"} /\ ~ByWorker(route[s], w)
  BY <1>2 DEF Gone, ByWorker
<1>5. CASE work' = [work EXCEPT ![s] = Stale(w)]
  <2>1. PICK v : v = Stale(w) /\ Parted(w, v)
    BY <1>3, StaleParts
  <2> QED
    BY <1>1, <1>2, <1>4, <1>5, <2>1, Quits
<1>6. ASSUME NEW v \in WorkSet, work' = [work EXCEPT ![s] = v], Keeps(w, v), v.snap = w.snap,
             v.target = w.target, v.pc = "admit" \/ (v.pc = "fence" /\ v.outcome \in {"retry", "final"})
      PROVE  ManagerInv'
  <2>1. Underway(v)
    BY <1>2, <1>3, <1>6 DEF Underway, Keeps, Early, Trial, Halting
  <2>2. Locked(s, v)'
    BY <1>2, <1>3, <1>6 DEF Locked, Inner
  <2>3. Held(s, e, w) => Held(s, e, v)'
    BY <1>2, <1>6 DEF Held, Firm, Keeps, Inner, Trial
  <2>4. Aside(s) /\ UNCHANGED <<stoppers, issued, handles>> /\ route'[s] = route[s] /\ v.pc # "idle"
    BY <1>2, <1>6, AsideOfAll DEF Inner
  <2> QED
    BY <1>1, <1>2, <1>4, <1>6, <2>1, <2>2, <2>3, <2>4, Proceeds
<1>7. CASE work' = [work EXCEPT ![s] = [w EXCEPT !.pc = "admit"]]
  <2>1. PICK v \in WorkSet : /\ v = [w EXCEPT !.pc = "admit"] /\ Keeps(w, v) /\ v.snap = w.snap
                             /\ v.target = w.target /\ v.pc = "admit"
    BY Turns DEF Pcs, Trial
  <2> QED
    BY <1>6, <1>7, <2>1
<1>8. ASSUME NEW outcome \in {"retry", "final"},
             work' = [work EXCEPT ![s] = [w EXCEPT !.pc = "fence", !.outcome = outcome]]
      PROVE  ManagerInv'
  <2> DEFINE v == [w EXCEPT !.pc = "fence", !.outcome = outcome]
  <2>1. /\ v \in WorkSet /\ Keeps(w, v) /\ v.snap = w.snap /\ v.target = w.target
        /\ v.pc = "fence" /\ v.outcome \in {"retry", "final"}
    BY ZenonT(60) DEF WorkSet, Keeps, Maybe, Trial
  <2>2. work' = [work EXCEPT ![s] = v]
    BY <1>8
  <2> HIDE DEF v
  <2> QED
    BY <1>6, <2>1, <2>2
<1> QED
  BY <1>2, <1>5, <1>7, <1>8

LEMMA AdmitRuntimeInv ==
  ASSUME ManagerInv, NEW s \in Servers, AdmitRuntime(s)
  PROVE  ManagerInv'
<1>1. PICK e \in EntrySet, w \in WorkSet : /\ e = entry[s] /\ w = work[s] /\ Local(s, e, w)
         /\ owner \in [Servers -> Maybe(Nat)] /\ Known(e, w) \subseteq Candidate
  BY At
<1>2. /\ w.pc = "admit"
      /\ UNCHANGED <<desired, ops, call, entry, stoppers, handles, quiet, route, lock, drain, issued>>
      /\ \/ /\ owner' = [owner EXCEPT ![s] = w.cand.id]
            /\ work' = [work EXCEPT ![s] = [w EXCEPT !.pc = "construct", !.started = TRUE]]
         \/ /\ UNCHANGED owner
            /\ work' = [work EXCEPT ![s] = [w EXCEPT !.pc = "fence", !.started = TRUE, !.outcome = "retry"]]
  BY <1>1, Zenon DEF AdmitRuntime, store, catalog, Step
<1>3. Underway(w) /\ ~w.cleanupOnly /\ Locked(s, w) /\ w.cand \in Candidate
  BY <1>1, <1>2, Fields DEF Local, Underway, Halting, Trial, Maybe
<1>4. w.pc \notin Gone \cup {"complete"} /\ ~ByWorker(route[s], w)
  BY <1>2 DEF Gone, ByWorker
<1>5. PICK v \in WorkSet :
        /\ work' = [work EXCEPT ![s] = v] /\ Keeps(w, v) /\ v.snap = w.snap /\ v.target = w.target /\ v.started
        /\ \/ v.pc = "construct" /\ owner' = [owner EXCEPT ![s] = w.cand.id]
           \/ v.pc = "fence" /\ v.outcome = "retry" /\ UNCHANGED owner
  <2> DEFINE v1 == [w EXCEPT !.pc = "construct", !.started = TRUE]
             v2 == [w EXCEPT !.pc = "fence", !.started = TRUE, !.outcome = "retry"]
  <2>1. v1 \in WorkSet /\ Keeps(w, v1) /\ v1.snap = w.snap /\ v1.target = w.target /\ v1.started /\ v1.pc = "construct"
    BY DEF WorkSet, Keeps, Trial
  <2>2. /\ v2 \in WorkSet /\ Keeps(w, v2) /\ v2.snap = w.snap /\ v2.target = w.target /\ v2.started
        /\ v2.pc = "fence" /\ v2.outcome = "retry"
    BY DEF WorkSet, Keeps, Trial, Maybe
  <2>3. \/ owner' = [owner EXCEPT ![s] = w.cand.id] /\ work' = [work EXCEPT ![s] = v1]
        \/ UNCHANGED owner /\ work' = [work EXCEPT ![s] = v2]
    BY <1>2
  <2> HIDE DEF v1, v2
  <2> QED
    BY <2>1, <2>2, <2>3
<1>6. /\ owner' \in [Servers -> Maybe(Nat)] /\ \A r \in Servers \ {s} : owner'[r] = owner[r]
      /\ v.pc = "construct" => owner'[s] = w.cand.id
  <2>1. w.cand.id \in Maybe(Nat)
    BY <1>3 DEF Candidate, Maybe
  <2> QED
    BY <1>1, <1>5, <2>1
<1>7. Aside(s)
  BY <1>2, <1>6 DEF Aside, ManagerInv, Shape, Numbered
<1>8. Underway(v)
  BY <1>2, <1>3, <1>5 DEF Underway, Keeps, Early, Trial, Halting
<1>9. Locked(s, v)'
  BY <1>2, <1>3, <1>5 DEF Locked
<1>10. Held(s, e, w) => Held(s, e, v)'
  BY <1>2, <1>5, <1>6 DEF Held, Firm, Keeps, Trial
<1>11. UNCHANGED <<entry, ops, stoppers, issued, handles>> /\ route'[s] = route[s] /\ v.pc # "idle"
  BY <1>2, <1>5
<1> QED
  BY <1>1, <1>4, <1>5, <1>7, <1>8, <1>9, <1>10, <1>11, Proceeds

LEMMA ConstructRuntimeInv ==
  ASSUME ManagerInv, NEW s \in Servers, ConstructRuntime(s)
  PROVE  ManagerInv'
<1>1. PICK e \in EntrySet, w \in WorkSet : /\ e = entry[s] /\ w = work[s] /\ Local(s, e, w)
         /\ owner \in [Servers -> Maybe(Nat)] /\ Known(e, w) \subseteq Candidate
         /\ handles \in SUBSET Candidate /\ quiet \in SUBSET Candidate
  BY At
<1>2. w.pc = "construct" /\ UNCHANGED <<desired, ops, call, entry, stoppers, route, lock, drain, issued>>
  BY <1>1 DEF ConstructRuntime, store, catalog
<1>3. Underway(w) /\ ~w.cleanupOnly /\ Locked(s, w) /\ w.cand \in Candidate /\ w.started
  BY <1>1, <1>2, Fields DEF Local, Underway, Halting, Trial, Maybe
<1>4. w.pc \notin Gone \cup {"complete"} /\ ~ByWorker(route[s], w)
  BY <1>2 DEF Gone, ByWorker
<1>5. PICK o \in {"active", "retry", "final"}, pc \in {"publish", "fence"} :
        /\ work' = [work EXCEPT ![s] = [w EXCEPT !.pc = pc, !.outcome = o]]
        /\ pc = "publish" => o = "active" /\ UNCHANGED <<owner, quiet>> /\ handles' = handles \cup {w.cand}
        /\ pc = "fence" => /\ o # "active"
                           /\ \/ owner' = [owner EXCEPT ![s] = None] /\ UNCHANGED <<handles, quiet>>
                              \/ /\ handles' = handles \cup {w.cand} /\ quiet' = quiet \cup {w.cand}
                                 /\ UNCHANGED owner
  BY <1>1, Zenon DEF ConstructRuntime, Step
<1>6. PICK v \in WorkSet :
        /\ work' = [work EXCEPT ![s] = v] /\ Keeps(w, v) /\ v.snap = w.snap /\ v.target = w.target
        /\ v.started /\ v.pc = pc /\ v.outcome = o
  <2> DEFINE v == [w EXCEPT !.pc = pc, !.outcome = o]
  <2>1. /\ v \in WorkSet /\ Keeps(w, v) /\ v.snap = w.snap /\ v.target = w.target
        /\ v.started /\ v.pc = pc /\ v.outcome = o
    <3>1. /\ pc \in {"idle", "succeed", "complete"} \cup Early \cup Trial \cup Halting \cup Going
          /\ o \in Maybe({"active", "retry", "final", "storage", "stale"})
      BY DEF Trial, Maybe
    <3>2. v \in WorkSet
      BY <3>1 DEF WorkSet
    <3>3. Keeps(w, v) /\ v.snap = w.snap /\ v.target = w.target /\ v.pc = pc /\ v.outcome = o /\ v.started = w.started
      BY DEF WorkSet, Keeps
    <3> QED
      BY <1>3, <3>2, <3>3
  <2>2. work' = [work EXCEPT ![s] = v]
    BY <1>5
  <2> QED
    BY <2>1, <2>2
<1>7. /\ owner' \in [Servers -> Maybe(Nat)] /\ \A r \in Servers \ {s} : owner'[r] = owner[r]
      /\ pc = "publish" => owner'[s] = owner[s]
  BY <1>1, <1>5 DEF Maybe
<1>8. /\ handles' \in SUBSET Candidate /\ quiet' \in SUBSET Candidate /\ quiet \subseteq quiet'
      /\ \A c \in handles' \ handles : c = w.cand
      /\ pc = "fence" => w.cand \notin handles' \/ w.cand \in quiet' \/ handles' = handles
  BY <1>1, <1>3, <1>5
<1>9. Aside(s)
  BY <1>1, <1>2, <1>7, <1>8 DEF Aside, ManagerInv, Shape, Numbered
<1>10. Underway(v)
  BY <1>2, <1>3, <1>5, <1>6 DEF Underway, Keeps, Early, Trial, Halting
<1>11. Locked(s, v)'
  BY <1>2, <1>3, <1>6 DEF Locked
<1>12. Held(s, e, w) => Held(s, e, v)'
  BY <1>2, <1>5, <1>6, <1>7 DEF Held, Firm, Keeps, Trial
<1>13. w.cand # None /\ UNCHANGED <<entry, ops, stoppers, issued>> /\ route'[s] = route[s] /\ v.pc # "idle"
  BY <1>2, <1>3, <1>6, NoneIsNoCandidate
<1> QED
  BY <1>1, <1>4, <1>6, <1>9, <1>10, <1>11, <1>12, <1>13, Proceeds

\* What a withdrawal leaves of the route of s.
LEMMA Withdraws ==
  ASSUME ManagerInv, NEW s \in Servers, NEW cand \in Candidate, route' = Withdraw(s, cand)
  PROVE  /\ route' \in [Servers -> Maybe(RouteSet)] /\ \A r \in Servers \ {s} : route'[r] = route[r]
         /\ \/ route'[s] = route[s] /\ (drain.pc # "none" \/ (route[s] # None => ~Match(route[s], cand)))
            \/ route'[s] # None => ~route'[s].live
         /\ route'[s] = route[s] \/ (route'[s] # None => ~route'[s].live)
<1>1. route \in [Servers -> Maybe(RouteSet)]
  BY At
<1>2. CASE ~catalogDraining /\ (route[s] = None \/ Routes(s, cand))
  <2>1. PICK x : x = Unpublished(cand)
    OBVIOUS
  <2>2. x \in RouteSet /\ x.live = FALSE
    BY <2>1 DEF Unpublished, RouteSet, Candidate
  <2>3. route' = [route EXCEPT ![s] = x]
    BY <1>2, <2>1 DEF Withdraw
  <2> QED
    BY <1>1, <2>2, <2>3 DEF Maybe
<1>3. CASE ~(~catalogDraining /\ (route[s] = None \/ Routes(s, cand)))
  <2>1. route' = route
    BY <1>3 DEF Withdraw
  <2> QED
    BY <1>1, <1>3, <2>1 DEF catalogDraining, Routes, Match
<1> QED
  BY <1>2, <1>3

LEMMA PublishCommitInv ==
  ASSUME ManagerInv, NEW s \in Servers, PublishCommit(s)
  PROVE  ManagerInv'
<1>1. PICK e \in EntrySet, w \in WorkSet : e = entry[s] /\ w = work[s] /\ Local(s, e, w)
  BY At
<1>2. /\ w.pc = "publish" /\ lock = None
      /\ UNCHANGED <<desired, ops, call, entry, stoppers, owner, handles, quiet, drain, issued>>
  BY <1>1 DEF PublishCommit, store, driver
<1>3. PICK pc \in {"recheck", "fence"}, o \in {"active", "retry", "final"} :
        /\ work' = [work EXCEPT ![s] = [w EXCEPT !.pc = pc, !.outcome = o]]
        /\ pc = "recheck" => drain.pc = "none" /\ o = "active" /\ lock' = s /\ UNCHANGED route
        /\ pc = "fence" => UNCHANGED lock /\ route' = Withdraw(s, w.cand)
  <2>1. w.outcome = "active"
    BY <1>1, <1>2 DEF Local, Underway
  <2>2. \A pc : [w EXCEPT !.pc = pc] = [w EXCEPT !.pc = pc, !.outcome = "active"]
    BY <2>1 DEF WorkSet
  <2>3. \/ /\ lock' = s /\ UNCHANGED route /\ drain.pc = "none"
           /\ work' = [work EXCEPT ![s] = [w EXCEPT !.pc = "recheck"]]
        \/ /\ UNCHANGED lock /\ route' = Withdraw(s, w.cand)
           /\ \/ work' = [work EXCEPT ![s] = [w EXCEPT !.pc = "fence"]]
              \/ \E o \in {"retry", "final"} :
                   work' = [work EXCEPT ![s] = [w EXCEPT !.pc = "fence", !.outcome = o]]
    BY <1>1, Zenon DEF PublishCommit, MayPublish, catalogDraining, Step
  <2> QED
    BY <2>2, <2>3
<1>4. Underway(w) /\ ~w.cleanupOnly /\ Locked(s, w) /\ w.cand \in Candidate /\ w.started
  BY <1>1, <1>2, Fields DEF Local, Underway, Halting, Trial, Maybe
<1>5. w.pc \notin Gone \cup {"complete"} /\ ~ByWorker(route[s], w)
  BY <1>2 DEF Gone, ByWorker
<1>6. PICK v \in WorkSet :
        /\ work' = [work EXCEPT ![s] = v] /\ Keeps(w, v) /\ v.snap = w.snap /\ v.target = w.target
        /\ v.started /\ v.pc = pc /\ v.outcome = o
  <2> DEFINE v == [w EXCEPT !.pc = pc, !.outcome = o]
  <2>1. /\ pc \in {"idle", "succeed", "complete"} \cup Early \cup Trial \cup Halting \cup Going
        /\ o \in Maybe({"active", "retry", "final", "storage", "stale"})
    BY DEF Trial, Maybe
  <2>2. v \in WorkSet
    BY <2>1 DEF WorkSet
  <2>3. Keeps(w, v) /\ v.snap = w.snap /\ v.target = w.target /\ v.pc = pc /\ v.outcome = o /\ v.started = w.started
    BY DEF WorkSet, Keeps
  <2>4. work' = [work EXCEPT ![s] = v]
    BY <1>3
  <2> QED
    BY <1>4, <2>2, <2>3, <2>4
<1>7. /\ route' \in [Servers -> Maybe(RouteSet)] /\ \A r \in Servers \ {s} : route'[r] = route[r]
      /\ route'[s] = route[s] \/ (route'[s] # None => ~route'[s].live)
  <2>1. CASE pc = "recheck"
    BY <1>3, <2>1, At
  <2>2. CASE pc = "fence"
    BY <1>3, <1>4, <2>2, Withdraws
  <2> QED
    BY <2>1, <2>2
<1>8. Aside(s)
  BY <1>1, <1>2, <1>3, <1>7 DEF Aside, ManagerInv, Shape, Numbered
<1>9. Underway(v)
  BY <1>2, <1>3, <1>4, <1>6 DEF Underway, Keeps, Early, Trial, Halting
<1>10. Locked(s, v)'
  <2>1. None # s
    BY NamesAssumption
  <2> QED
    BY <1>2, <1>3, <1>4, <1>6, <1>7, <2>1 DEF Locked
<1>11. Held(s, e, w) => Held(s, e, v)'
  BY <1>2, <1>6 DEF Held, Firm, Keeps, Trial
<1>12. UNCHANGED <<entry, ops, stoppers, issued, handles>> /\ v.pc # "idle"
  BY <1>2, <1>6
<1> QED
  BY <1>1, <1>5, <1>6, <1>7, <1>8, <1>9, <1>10, <1>11, <1>12, Proceeds

\* The publication ends: the registry is unlocked and the candidate goes on, or is stopped.
LEMMA Unlocks ==
  ASSUME ManagerInv, NEW s \in Servers, NEW v \in WorkSet, work' = [work EXCEPT ![s] = v],
         UNCHANGED <<desired, ops, call, entry, stoppers, owner, handles, quiet, drain, issued>>,
         lock' = None, route' \in [Servers -> Maybe(RouteSet)],
         \A r \in Servers \ {s} : route'[r] = route[r],
         work[s].pc \in {"recheck", "install"},
         \/ Halted(work[s], v, work[s].cand) /\ (route' = route \/ (route'[s] # None => ~route'[s].live))
         \/ /\ v.pc = "fence" /\ Keeps(work[s], v) /\ v.snap = work[s].snap /\ v.target = work[s].target
            /\ v.outcome = "active" /\ v.started /\ Match(route'[s], v.cand)
  PROVE  ManagerInv'
<1>1. PICK e \in EntrySet, w \in WorkSet : /\ e = entry[s] /\ w = work[s] /\ Local(s, e, w)
         /\ entry = [entry EXCEPT ![s] = e] /\ issued \in Nat
  BY At
<1>2. Underway(w) /\ ~w.cleanupOnly /\ Locked(s, w) /\ w.cand # None /\ lock = s /\ Entrusted(s, e, w)
      /\ drain.pc \in {"none", "routes"}
  BY <1>1, NamesAssumption DEF Local, Underway, Halting, Trial, Locked
<1>3. Aside(s) /\ Advanced
  BY <1>2 DEF Aside, Advanced, ManagerInv, Shape, Numbered
<1>4. Keeps(w, v) /\ v.snap = w.snap /\ v.pc \in {"fence", "withdraw"} /\ v.target \in {w.target, w.cand}
  BY <1>1 DEF Halted
<1>5. Underway(v)
  BY <1>1, <1>2 DEF Underway, Keeps, Early, Trial, Halting, Halted
<1>6. Locked(s, v)'
  BY <1>2, <1>4, NamesAssumption DEF Locked
<1>7. Held(s, e, w) => Held(s, e, v)'
  BY <1>1, <1>4 DEF Held, Firm, Keeps, Trial, Halted
<1>8. w.pc \notin Gone \cup {"complete"} /\ ~ByWorker(route[s], w) /\ v.pc # "idle"
  BY <1>1, <1>4 DEF Gone, ByWorker
<1>9. Fading(e, e, w, v) /\ Known(e, v) \subseteq Known(e, w)
  BY <1>4 DEF Fading, Known, Keeps
<1>10. Entrusted(s, e, v)'
  BY <1>2, <1>4, EntrustedKept DEF Keeps
<1>11. e.gen = w.gen /\ v.cand # None => Held(s, e, v)'
  BY <1>1, <1>4, <1>7 DEF Local, Placed, Keeps
<1>12. \/ route'[s] = route[s] \/ (route'[s] # None => (~route'[s].live \/ ByWorker(route'[s], v)))
  BY DEF ByWorker
<1>13. /\ v.gen = w.gen /\ v.cleanupOnly = w.cleanupOnly /\ v.cand = w.cand
       /\ issued' \in Nat /\ issued <= issued' /\ UNCHANGED <<stoppers, handles>>
  BY <1>1, <1>4 DEF Keeps
<1> QED
  BY <1>1, <1>3, <1>5, <1>6, <1>8, <1>9, <1>10, <1>11, <1>12, <1>13, WorkerGoes

LEMMA PublishRecheckInv ==
  ASSUME ManagerInv, NEW s \in Servers, PublishRecheck(s)
  PROVE  ManagerInv'
<1>1. PICK e \in EntrySet, w \in WorkSet : /\ e = entry[s] /\ w = work[s] /\ Local(s, e, w)
         /\ route \in [Servers -> Maybe(RouteSet)]
  BY At
<1>2. PICK o \in {"storage", "stale"} :
      /\ w.pc = "recheck"
      /\ UNCHANGED <<desired, ops, call, entry, stoppers, owner, handles, quiet, route, drain, issued>>
      /\ \/ UNCHANGED lock /\ work' = [work EXCEPT ![s] = [w EXCEPT !.pc = "install"]]
         \/ lock' = None /\ work' = [work EXCEPT ![s] = Stopping([w EXCEPT !.outcome = o], w.cand, "durable")]
  BY <1>1 DEF PublishRecheck, store, driver, Step, Unlock
<1>3. Underway(w) /\ ~w.cleanupOnly /\ Locked(s, w) /\ w.cand \in Candidate
  BY <1>1, <1>2, Fields DEF Local, Underway, Halting, Trial, Maybe
<1>4. CASE UNCHANGED lock /\ work' = [work EXCEPT ![s] = [w EXCEPT !.pc = "install"]]
  <2>1. PICK v \in WorkSet : /\ v = [w EXCEPT !.pc = "install"] /\ Keeps(w, v) /\ v.snap = w.snap
                             /\ v.target = w.target /\ v.pc = "install" /\ v.outcome = w.outcome
                             /\ v.started = w.started
    <3> DEFINE v == [w EXCEPT !.pc = "install"]
    <3>1. /\ v \in WorkSet /\ Keeps(w, v) /\ v.snap = w.snap /\ v.target = w.target /\ v.pc = "install"
          /\ v.outcome = w.outcome /\ v.started = w.started
      BY Turns DEF Pcs, Trial
    <3> QED
      BY <3>1
  <2>2. Underway(v)
    BY <1>2, <1>3, <2>1 DEF Underway, Keeps, Early, Trial, Halting
  <2>3. Locked(s, v)'
    BY <1>2, <1>3, <1>4, <2>1 DEF Locked
  <2>4. Held(s, e, w) => Held(s, e, v)'
    BY <1>2, <2>1 DEF Held, Firm, Keeps, Trial
  <2>5. Aside(s)
    BY <1>2, <1>4, AsideOfAll
  <2>6. w.pc \notin Gone \cup {"complete"} /\ ~ByWorker(route[s], w) /\ v.pc # "idle"
    BY <1>2, <2>1 DEF Gone, ByWorker
  <2> QED
    BY <1>1, <1>2, <1>4, <2>1, <2>2, <2>3, <2>4, <2>5, <2>6, Proceeds
<1>5. CASE lock' = None /\ work' = [work EXCEPT ![s] = Stopping([w EXCEPT !.outcome = o], w.cand, "durable")]
  <2>1. PICK u \in WorkSet : u = [w EXCEPT !.outcome = o] /\ Keeps(w, u) /\ u.snap = w.snap
    <3> DEFINE u == [w EXCEPT !.outcome = o]
    <3>1. u \in WorkSet /\ Keeps(w, u) /\ u.snap = w.snap
      BY DEF WorkSet, Keeps, Maybe
    <3> QED
      BY <3>1
  <2>2. PICK v : v = Stopping(u, w.cand, "durable") /\ Halted(w, v, w.cand)
    BY <1>3, <2>1, HaltParts DEF Resume
  <2>3. v \in WorkSet
    BY <2>2 DEF Halted
  <2> QED
    BY <1>1, <1>2, <1>5, <2>1, <2>2, <2>3, Unlocks
<1> QED
  BY <1>2, <1>4, <1>5

LEMMA PublishInstallInv ==
  ASSUME ManagerInv, NEW s \in Servers, PublishInstall(s)
  PROVE  ManagerInv'
<1>1. PICK e \in EntrySet, w \in WorkSet : /\ e = entry[s] /\ w = work[s] /\ Local(s, e, w)
         /\ route \in [Servers -> Maybe(RouteSet)]
  BY At
<1>2. /\ w.pc = "install" /\ lock' = None
      /\ UNCHANGED <<desired, ops, call, entry, stoppers, owner, handles, quiet, drain, issued>>
      /\ \/ /\ route' = [route EXCEPT ![s] = Published(w.cand)]
            /\ work' = [work EXCEPT ![s] = [w EXCEPT !.pc = "fence"]]
         \/ /\ route' = [route EXCEPT ![s] = Unpublished(w.cand)]
            /\ work' = [work EXCEPT ![s] = Stopping([w EXCEPT !.outcome = "storage"], w.cand, "durable")]
  BY <1>1 DEF PublishInstall, store, driver, Step, Unlock
<1>3. Underway(w) /\ ~w.cleanupOnly /\ w.cand \in Candidate /\ w.outcome = "active" /\ w.started
  BY <1>1, <1>2, Fields DEF Local, Underway, Halting, Trial, Maybe
<1>4. PICK x, y : x = Published(w.cand) /\ y = Unpublished(w.cand)
  OBVIOUS
<1>5. x \in RouteSet /\ y \in RouteSet /\ Match(x, w.cand) /\ ~y.live
  BY <1>3, <1>4 DEF Published, Unpublished, RouteSet, Candidate, Match
<1>6. CASE /\ route' = [route EXCEPT ![s] = Published(w.cand)]
           /\ work' = [work EXCEPT ![s] = [w EXCEPT !.pc = "fence"]]
  <2>1. PICK v \in WorkSet : /\ v = [w EXCEPT !.pc = "fence"] /\ Keeps(w, v) /\ v.snap = w.snap
                             /\ v.target = w.target /\ v.pc = "fence" /\ v.outcome = w.outcome
                             /\ v.started = w.started
    <3> DEFINE v == [w EXCEPT !.pc = "fence"]
    <3>1. /\ v \in WorkSet /\ Keeps(w, v) /\ v.snap = w.snap /\ v.target = w.target /\ v.pc = "fence"
          /\ v.outcome = w.outcome /\ v.started = w.started
      BY Turns DEF Pcs, Trial
    <3> QED
      BY <3>1
  <2>2. route' \in [Servers -> Maybe(RouteSet)] /\ route'[s] = x /\ \A r \in Servers \ {s} : route'[r] = route[r]
    BY <1>1, <1>4, <1>5, <1>6 DEF Maybe
  <2>3. Match(route'[s], v.cand) /\ v.started /\ v.outcome = "active"
    BY <1>3, <1>5, <2>1, <2>2 DEF Keeps
  <2> QED
    BY <1>1, <1>2, <1>5, <1>6, <2>1, <2>2, <2>3, Unlocks, ZenonT(60)
<1>7. CASE /\ route' = [route EXCEPT ![s] = Unpublished(w.cand)]
           /\ work' = [work EXCEPT ![s] = Stopping([w EXCEPT !.outcome = "storage"], w.cand, "durable")]
  <2>1. PICK u \in WorkSet : u = [w EXCEPT !.outcome = "storage"] /\ Keeps(w, u) /\ u.snap = w.snap
    <3> DEFINE u == [w EXCEPT !.outcome = "storage"]
    <3>1. u \in WorkSet /\ Keeps(w, u) /\ u.snap = w.snap
      BY DEF WorkSet, Keeps, Maybe
    <3> QED
      BY <3>1
  <2>2. PICK v : v = Stopping(u, w.cand, "durable") /\ Halted(w, v, w.cand)
    BY <1>3, <2>1, HaltParts DEF Resume
  <2>3. v \in WorkSet
    BY <2>2 DEF Halted
  <2>4. /\ route' \in [Servers -> Maybe(RouteSet)] /\ ~route'[s].live
        /\ \A r \in Servers \ {s} : route'[r] = route[r]
    BY <1>1, <1>4, <1>5, <1>7 DEF Maybe
  <2> QED
    BY <1>1, <1>2, <1>7, <2>1, <2>2, <2>3, <2>4, Unlocks
<1> QED
  BY <1>2, <1>6, <1>7

LEMMA CheckFenceInv ==
  ASSUME ManagerInv, NEW s \in Servers, CheckFence(s)
  PROVE  ManagerInv'
<1>1. PICK e \in EntrySet, w \in WorkSet : e = entry[s] /\ w = work[s] /\ Local(s, e, w)
  BY At
<1>2. /\ w.pc = "fence" /\ Inner /\ UNCHANGED <<entry, ops>>
      /\ \/ w.outcome = "active" /\ work' = [work EXCEPT ![s] = [w EXCEPT !.pc = "succeed"]]
         \/ w.outcome # "active" /\ work' = [work EXCEPT ![s] = Stopping(w, w.cand, w.outcome)]
         \/ w.outcome # "active" /\ work' = [work EXCEPT ![s] = Failing(w, w.outcome = "retry")]
         \/ w.started /\ work' = [work EXCEPT ![s] = Stopping(w, w.cand, "stale")]
         \/ ~w.started /\ work' = [work EXCEPT ![s] = Stale(w)]
  BY <1>1, Zenon DEF CheckFence, Inner, store, driver, catalog, Step
<1>3. /\ Underway(w) /\ ~w.cleanupOnly /\ Locked(s, w) /\ w.cand \in Candidate /\ w.cand # None
      /\ w.snap # None /\ w.outcome \in {"active", "retry", "final"}
  BY <1>1, <1>2, Fields DEF Local, Underway, Halting, Trial, Maybe
<1>4. /\ w.pc \notin Gone \cup {"complete", "recheck", "install"} /\ w.cand \in Known(e, w)
      /\ ByWorker(route[s], w) => w.outcome = "active" /\ w.started /\ Match(route[s], w.cand)
  BY <1>2, <1>3 DEF Gone, ByWorker, Known
<1>5. CASE w.outcome = "active" /\ work' = [work EXCEPT ![s] = [w EXCEPT !.pc = "succeed"]]
  <2>1. PICK v \in WorkSet : /\ v = [w EXCEPT !.pc = "succeed"] /\ Keeps(w, v) /\ v.snap = w.snap
                             /\ v.target = w.target /\ v.pc = "succeed"
    BY Turns DEF Pcs
  <2>2. Underway(v)
    BY <1>2, <1>3, <2>1 DEF Underway, Keeps, Early, Trial, Halting
  <2>3. Locked(s, v)'
    BY <1>2, <1>3, <2>1 DEF Locked, Inner
  <2>4. Held(s, e, w) => Held(s, e, v)'
    BY <1>2, <1>5, <2>1 DEF Held, Firm, Keeps, Inner, Trial
  <2>5. Aside(s) /\ UNCHANGED <<stoppers, issued, handles>> /\ route'[s] = route[s] /\ v.pc # "idle"
    BY <1>2, <2>1, AsideOfAll DEF Inner
  <2>6. ByWorker(route[s], w) => ByWorker(route[s], v)
    BY <1>3, <1>4, <2>1 DEF ByWorker, Keeps
  <2> QED
    BY <1>1, <1>2, <1>4, <1>5, <2>1, <2>2, <2>3, <2>4, <2>5, <2>6, Proceeds
<1>6. ASSUME NEW next \in {"retry", "final", "stale"}, work' = [work EXCEPT ![s] = Stopping(w, w.cand, next)]
      PROVE  ManagerInv'
  <2>1. PICK v : v = Stopping(w, w.cand, next) /\ Halted(w, v, w.cand)
    BY <1>3, HaltParts DEF Resume, Keeps
  <2> QED
    BY <1>1, <1>2, <1>4, <1>6, <2>1, Quits
<1>7. CASE w.outcome # "active" /\ work' = [work EXCEPT ![s] = Failing(w, w.outcome = "retry")]
  <2>1. PICK retry \in BOOLEAN : retry = (w.outcome = "retry")
    OBVIOUS
  <2>2. PICK v : v = Failing(w, retry) /\ Parted(w, v)
    BY <1>3, FailParts
  <2> QED
    BY <1>1, <1>2, <1>4, <1>7, <2>1, <2>2, Quits
<1>8. CASE ~w.started /\ work' = [work EXCEPT ![s] = Stale(w)]
  <2>1. PICK v : v = Stale(w) /\ Parted(w, v)
    BY <1>3, StaleParts
  <2> QED
    BY <1>1, <1>2, <1>4, <1>8, <2>1, Quits
<1> QED
  BY <1>2, <1>3, <1>5, <1>6, <1>7, <1>8

\* The worker stops a runtime, one step after the other.
LEMMA Stops ==
  ASSUME ManagerInv, NEW s \in Servers, NEW v \in WorkSet, work' = [work EXCEPT ![s] = v],
         UNCHANGED <<entry, ops, stoppers, lock, issued, desired, call, drain>>,
         owner' \in [Servers -> Maybe(Nat)], \A r \in Servers \ {s} : owner'[r] = owner[r],
         route' \in [Servers -> Maybe(RouteSet)], \A r \in Servers \ {s} : route'[r] = route[r],
         handles' \subseteq handles, quiet' \in SUBSET Candidate,
         \A c \in quiet \ quiet' : c \notin handles',
         work[s].pc \in Halting, v.pc \in Halting, Keeps(work[s], v), v.snap = work[s].snap,
         v.target = work[s].target, v.next = work[s].next,
         \/ route'[s] = route[s] /\ (work[s].pc # "withdraw" \/ drain.pc # "none"
                                     \/ (route[s] # None => ~Match(route[s], work[s].target)))
         \/ route'[s] # None => ~route'[s].live
  PROVE  ManagerInv'
<1>1. PICK e \in EntrySet, w \in WorkSet : /\ e = entry[s] /\ w = work[s] /\ Local(s, e, w)
         /\ entry = [entry EXCEPT ![s] = e] /\ handles \in SUBSET Candidate
  BY At
<1>2. Aside(s)
  BY <1>1 DEF Aside, ManagerInv, Shape, Numbered
<1>3. Advanced
  BY DEF Advanced, ManagerInv, Shape
<1>4. Underway(v)
  BY <1>1 DEF Local, Underway, Keeps, Early, Trial, Halting
<1>5. Fading(e, e, w, v) /\ Known(e, v) \subseteq Known(e, w)
  BY <1>1 DEF Fading, Known, Keeps
<1>6. Entrusted(s, e, v)'
  BY <1>1, EntrustedKept DEF Keeps, Local
<1>7. w.pc \notin Gone \cup {"complete", "recheck", "install"} /\ v.pc \in Early \cup Halting \cup Going
  BY <1>1 DEF Gone, Halting
<1>8. ByWorker(route[s], w) => w.pc = "withdraw" /\ Match(route[s], w.target)
  BY <1>1 DEF ByWorker, Halting
<1> QED
  BY <1>1, <1>2, <1>3, <1>4, <1>5, <1>6, <1>7, <1>8, WorkerFalls

LEMMA WorkerWithdrawsInv ==
  ASSUME ManagerInv, NEW s \in Servers, WorkerWithdraws(s)
  PROVE  ManagerInv'
<1>1. PICK w \in WorkSet : /\ w = work[s] /\ Local(s, entry[s], w)
         /\ owner \in [Servers -> Maybe(Nat)] /\ quiet \in SUBSET Candidate
  BY At
<1>2. PICK bad \in BOOLEAN :
        /\ w.pc = "withdraw" /\ route' = Withdraw(s, w.target)
        /\ work' = [work EXCEPT ![s] = [w EXCEPT !.pc = "stop", !.bad = bad]]
        /\ UNCHANGED <<desired, ops, call, entry, stoppers, owner, handles, quiet, lock, drain, issued>>
  <2>1. [w EXCEPT !.pc = "stop"] = [w EXCEPT !.pc = "stop", !.bad = w.bad] /\ w.bad \in BOOLEAN
    BY DEF WorkSet
  <2> QED
    BY <1>1, <2>1 DEF WorkerWithdraws, store, driver, Step
<1>3. w.target \in Candidate
  BY <1>1, <1>2, Fields DEF Local, Underway, Halting, Maybe
<1>4. PICK v \in WorkSet : /\ v = [w EXCEPT !.pc = "stop", !.bad = bad] /\ Keeps(w, v) /\ v.snap = w.snap
                           /\ v.target = w.target /\ v.next = w.next /\ v.pc = "stop"
  <2> DEFINE v == [w EXCEPT !.pc = "stop", !.bad = bad]
  <2>1. v \in WorkSet
    BY DEF WorkSet, Halting
  <2>2. Keeps(w, v) /\ v.snap = w.snap /\ v.target = w.target /\ v.next = w.next /\ v.pc = "stop"
    BY DEF WorkSet, Keeps
  <2> QED
    BY <2>1, <2>2
<1>5. /\ route' \in [Servers -> Maybe(RouteSet)] /\ \A r \in Servers \ {s} : route'[r] = route[r]
      /\ \/ route'[s] = route[s] /\ (drain.pc # "none" \/ (route[s] # None => ~Match(route[s], w.target)))
         \/ route'[s] # None => ~route'[s].live
  BY <1>2, <1>3, Withdraws
<1> QED
  BY <1>1, <1>2, <1>4, <1>5, Stops DEF Halting

LEMMA WorkerStopsInv ==
  ASSUME ManagerInv, NEW s \in Servers, WorkerStops(s)
  PROVE  ManagerInv'
<1>1. PICK w \in WorkSet : /\ w = work[s] /\ Local(s, entry[s], w)
         /\ owner \in [Servers -> Maybe(Nat)] /\ quiet \in SUBSET Candidate
         /\ route \in [Servers -> Maybe(RouteSet)]
  BY At
<1>2. PICK verified \in BOOLEAN, pc \in {"release", "stopped"} :
        /\ w.pc = "stop" /\ UNCHANGED <<desired, ops, call, entry, stoppers, owner, route, lock, drain, issued>>
        /\ work' = [work EXCEPT ![s] = [w EXCEPT !.pc = pc, !.verified = verified]]
        /\ \/ handles' = handles \ {w.target} /\ quiet' = quiet \ {w.target}
           \/ handles' = handles /\ quiet' \in {quiet, quiet \cup {w.target}}
  <2>1. [w EXCEPT !.pc = "release"] = [w EXCEPT !.pc = "release", !.verified = w.verified] /\ w.verified \in BOOLEAN
    BY DEF WorkSet
  <2>2. PICK b \in BOOLEAN : b = (w.next \notin Raw /\ ~Owned(s, w.target) /\ ~w.bad)
    OBVIOUS
  <2> QED
    BY <1>1, <2>1, <2>2 DEF WorkerStops, CloseHandle, CloseFails, NoHandle, store, driver, catalog, Step
<1>3. w.target \in Candidate
  BY <1>1, <1>2, Fields DEF Local, Underway, Halting, Maybe
<1>4. PICK v \in WorkSet : /\ v = [w EXCEPT !.pc = pc, !.verified = verified] /\ Keeps(w, v) /\ v.snap = w.snap
                           /\ v.target = w.target /\ v.next = w.next /\ v.pc = pc
  <2> DEFINE v == [w EXCEPT !.pc = pc, !.verified = verified]
  <2>1. v \in WorkSet
    BY DEF WorkSet, Halting
  <2>2. Keeps(w, v) /\ v.snap = w.snap /\ v.target = w.target /\ v.next = w.next /\ v.pc = pc
    BY DEF WorkSet, Keeps
  <2> QED
    BY <2>1, <2>2
<1>5. handles' \subseteq handles /\ quiet' \in SUBSET Candidate /\ \A c \in quiet \ quiet' : c \notin handles'
  BY <1>1, <1>2, <1>3
<1> QED
  BY <1>1, <1>2, <1>4, <1>5, Stops DEF Halting

LEMMA WorkerReleasesInv ==
  ASSUME ManagerInv, NEW s \in Servers, WorkerReleases(s)
  PROVE  ManagerInv'
<1>1. PICK w \in WorkSet : /\ w = work[s] /\ Local(s, entry[s], w)
         /\ owner \in [Servers -> Maybe(Nat)] /\ quiet \in SUBSET Candidate
         /\ route \in [Servers -> Maybe(RouteSet)]
  BY At
<1>2. PICK verified \in BOOLEAN, own \in Maybe(Nat) :
        /\ w.pc = "release" /\ UNCHANGED <<desired, ops, call, entry, stoppers, handles, quiet, route, lock, drain, issued>>
        /\ work' = [work EXCEPT ![s] = [w EXCEPT !.pc = "stopped", !.verified = verified]]
        /\ owner' = [owner EXCEPT ![s] = own]
  <2>1. PICK b \in BOOLEAN : b = ~w.bad
    OBVIOUS
  <2>2. PICK own \in Maybe(Nat) : own = IF Owned(s, w.target) THEN None ELSE owner[s]
    BY <1>1 DEF Maybe
  <2> QED
    BY <1>1, <2>1, <2>2 DEF WorkerReleases, ReleaseOwner, store, catalog, Step
<1>3. PICK v \in WorkSet : /\ v = [w EXCEPT !.pc = "stopped", !.verified = verified] /\ Keeps(w, v) /\ v.snap = w.snap
                           /\ v.target = w.target /\ v.next = w.next /\ v.pc = "stopped"
  <2> DEFINE v == [w EXCEPT !.pc = "stopped", !.verified = verified]
  <2>1. v \in WorkSet
    BY DEF WorkSet, Halting
  <2>2. Keeps(w, v) /\ v.snap = w.snap /\ v.target = w.target /\ v.next = w.next /\ v.pc = "stopped"
    BY DEF WorkSet, Keeps
  <2> QED
    BY <2>1, <2>2
<1>4. owner' \in [Servers -> Maybe(Nat)] /\ \A r \in Servers \ {s} : owner'[r] = owner[r]
  BY <1>1, <1>2
<1> QED
  BY <1>1, <1>2, <1>3, <1>4, Stops DEF Halting

LEMMA StoppedInv ==
  ASSUME ManagerInv, NEW s \in Servers, Stopped(s)
  PROVE  ManagerInv'
<1>1. PICK e \in EntrySet, w \in WorkSet : e = entry[s] /\ w = work[s] /\ Local(s, e, w)
  BY At
<1>2. w.pc = "stopped" /\ Inner /\ Advanced
  BY <1>1 DEF Stopped, Inner, store, driver, catalog, Advanced, ManagerInv, Shape
<1>3. /\ Underway(w) /\ Entrusted(s, e, w) /\ w.target \in Candidate
      /\ w.next \in {"decide", "cleaned"} => w.cand = None
      /\ w.cleanupOnly => w.next = "cleaned"
  BY <1>1, <1>2, Fields DEF Local, Underway, Halting, Maybe
<1>4. w.pc \notin Gone \cup {"complete", "recheck", "install"} /\ ~ByWorker(route[s], w)
  BY <1>2 DEF Gone, ByWorker
<1>5. PICK d \in EntrySet :
        /\ entry' = [entry EXCEPT ![s] = d] /\ d.gen = e.gen /\ d.active = e.active /\ d.timer = e.timer
        /\ d.operation = e.operation /\ d.activating = e.activating /\ (d.pending => e.pending)
        /\ d.blocked \in {e.blocked, w.target, None}
  <2> DEFINE d1 == [e EXCEPT !.blocked = None]
             d2 == [e EXCEPT !.status = "degraded"]
             p  == IF w.next = "durable" THEN FALSE ELSE e.pending
             x  == IF w.next \in Raw THEN "degraded" ELSE e.status
             d3 == [e EXCEPT !.blocked = w.target, !.pending = p, !.status = x]
  <2>1. p \in BOOLEAN /\ (p => e.pending) /\ x \in Statuses
    BY EntryFields DEF Statuses
  <2> HIDE DEF p, x
  <2>2. /\ d1 \in EntrySet /\ d1.gen = e.gen /\ d1.active = e.active /\ d1.timer = e.timer
        /\ d1.operation = e.operation /\ d1.activating = e.activating /\ d1.pending = e.pending
        /\ d1.blocked = None
    BY DEF EntrySet, Maybe
  <2>3. /\ d2 \in EntrySet /\ d2.gen = e.gen /\ d2.active = e.active /\ d2.timer = e.timer
        /\ d2.operation = e.operation /\ d2.activating = e.activating /\ d2.pending = e.pending
        /\ d2.blocked = e.blocked
    BY DEF EntrySet, Statuses
  <2>4. /\ d3 \in EntrySet /\ d3.gen = e.gen /\ d3.active = e.active /\ d3.timer = e.timer
        /\ d3.operation = e.operation /\ d3.activating = e.activating /\ d3.pending = p
        /\ d3.blocked = w.target
    BY <1>3, <2>1 DEF EntrySet, Maybe
  <2>5. \/ entry' = [entry EXCEPT ![s] = d1] \/ entry' = [entry EXCEPT ![s] = d2]
        \/ entry' = [entry EXCEPT ![s] = d3] \/ entry' = [entry EXCEPT ![s] = e]
    BY <1>1, Zenon DEF Stopped, Remembered, Enter, p, x
  <2> HIDE DEF d1, d2, d3
  <2> QED
    BY <2>1, <2>2, <2>3, <2>4, <2>5
<1>6. /\ \A v : Fading(e, d, w, v)
      /\ \A c \in {d.activating, d.active, d.blocked} \ {None} : c \in Known(e, w)
  BY <1>5 DEF Fading, Known
<1>7. ASSUME NEW v, work' = [work EXCEPT ![s] = v], Parted(w, v)
      PROVE  ManagerInv'
  BY <1>1, <1>2, <1>4, <1>5, <1>6, <1>7, Departs
<1>8. CASE w.next = "stale" /\ work' = [work EXCEPT ![s] = Stale(w)]
  <2>1. PICK v : v = Stale(w) /\ Parted(w, v)
    BY <1>3, <1>8, StaleParts
  <2> QED
    BY <1>7, <1>8, <2>1
<1>9. CASE work' = [work EXCEPT ![s] = Ending(w)]
  <2>1. PICK v : v = Ending(w) /\ Parted(w, v)
    BY <1>3, EndParts DEF Keeps
  <2> QED
    BY <1>7, <1>9, <2>1
<1>10. ASSUME NEW b \in BOOLEAN, work' = [work EXCEPT ![s] = Ending([w EXCEPT !.failed = b])]
       PROVE  ManagerInv'
  <2>1. PICK u \in WorkSet : u = [w EXCEPT !.failed = b] /\ Keeps(w, u)
    <3> DEFINE u == [w EXCEPT !.failed = b]
    <3>1. u \in WorkSet /\ Keeps(w, u)
      BY DEF WorkSet, Keeps
    <3> QED
      BY <3>1
  <2>2. PICK v : v = Ending(u) /\ Parted(w, v)
    BY <1>3, <2>1, EndParts
  <2> QED
    BY <1>7, <1>10, <2>1, <2>2
<1>11. ASSUME NEW b \in BOOLEAN, ~w.cleanupOnly, work' = [work EXCEPT ![s] = Failing(w, b)]
       PROVE  ManagerInv'
  <2>1. PICK v : v = Failing(w, b) /\ Parted(w, v)
    BY <1>3, <1>11, FailParts
  <2> QED
    BY <1>7, <1>11, <2>1
<1>12. CASE /\ w.next = "decide"
            /\ work' = [work EXCEPT ![s] = [w EXCEPT !.pc = "decide", !.target = None, !.next = None, !.verified = FALSE]]
  <2>1. PICK v \in WorkSet : /\ work' = [work EXCEPT ![s] = v] /\ Keeps(w, v) /\ v.snap = w.snap
                             /\ v.target = None /\ v.pc = "decide"
    <3> DEFINE v == [w EXCEPT !.pc = "decide", !.target = None, !.next = None, !.verified = FALSE]
    <3>1. v \in WorkSet
      BY DEF WorkSet, Maybe, Early
    <3>2. Keeps(w, v) /\ v.snap = w.snap /\ v.target = None /\ v.pc = "decide"
      BY DEF WorkSet, Keeps
    <3>3. work' = [work EXCEPT ![s] = v]
      BY <1>12
    <3> QED
      BY <3>1, <3>2, <3>3
  <2>2. Underway(v)
    BY <1>3, <1>12, <2>1 DEF Underway, Keeps, Early, Trial, Halting
  <2>3. Entrusted(s, d, v)'
    BY <1>2, <1>3, <1>5, <2>1, EntrustedKept DEF Inner, Keeps
  <2>4. Known(d, v) \subseteq Known(e, w) /\ v.pc \in Early \cup Halting \cup Going
    BY <1>6, <2>1 DEF Known, Keeps, Early
  <2> QED
    BY <1>1, <1>2, <1>4, <1>5, <1>6, <2>1, <2>2, <2>3, <2>4, InnerFalls
<1>13. \/ w.next = "stale" /\ work' = [work EXCEPT ![s] = Stale(w)]
       \/ work' = [work EXCEPT ![s] = Ending(w)]
       \/ work' = [work EXCEPT ![s] = Ending([w EXCEPT !.failed = ~w.verified])]
       \/ w.next # "cleaned" /\ work' = [work EXCEPT ![s] = Failing(w, FALSE)]
       \/ w.next # "cleaned" /\ work' = [work EXCEPT ![s] = Failing(w, w.verified /\ w.next = "retry")]
       \/ /\ w.next = "decide"
          /\ work' = [work EXCEPT ![s] = [w EXCEPT !.pc = "decide", !.target = None, !.next = None, !.verified = FALSE]]
  <2>1. CASE w.next = "stale"
    BY <1>1, <2>1 DEF Stopped, Step, Raw
  <2>2. CASE w.next \in Raw
    BY <1>1, <2>2 DEF Stopped, Step, Raw
  <2>3. CASE w.next = "cleaned"
    BY <1>1, <2>3 DEF Stopped, Step, Raw
  <2>4. CASE w.next = "decide"
    BY <1>1, <2>4 DEF Stopped, Step, Raw
  <2>5. CASE w.next \notin Raw \cup {"stale", "cleaned", "decide"}
    BY <1>1, <2>5 DEF Stopped, Step, Raw
  <2> QED
    BY <2>1, <2>2, <2>3, <2>4, <2>5
<1>14. (~w.verified) \in BOOLEAN /\ (w.verified /\ w.next = "retry") \in BOOLEAN
  OBVIOUS
<1> QED
  BY <1>3, <1>8, <1>9, <1>10, <1>11, <1>12, <1>13, <1>14

-----------------------------------------------------------------------------
(* A worker that completes. *)

\* Only the worker, its entry and the records of operations move: what must hold of the two.
LEMMA Moved ==
  ASSUME ManagerInv, NEW s \in Servers, NEW d \in EntrySet, NEW v \in WorkSet,
         entry' = [entry EXCEPT ![s] = d], work' = [work EXCEPT ![s] = v], Inner, Advanced,
         Known(d, v) \subseteq Known(entry[s], work[s]), Mine(d, v) \subseteq Mine(entry[s], work[s]),
         Entrusted(s, d, v), Underway(v), Placed(s, d, v), Active(s, d, v), Lost(s, d, v), Timed(d, v),
         work[s].pc \notin {"recheck", "install"}, v.pc \notin {"recheck", "install"},
         route[s] # None /\ (ByWorker(route[s], work[s]) \/ ByEntry(s, route[s], entry[s], work[s]))
           => ByWorker(route[s], v) \/ ByEntry(s, route[s], d, v)
  PROVE  ManagerInv'
<1>1. PICK e \in EntrySet, w \in WorkSet :
         /\ e = entry[s] /\ w = work[s] /\ Local(s, e, w) /\ Known(e, w) \subseteq Candidate /\ issued \in Nat
  BY At
<1>2. UNCHANGED <<desired, call, stoppers, owner, handles, quiet, route, lock, drain, issued>>
  BY DEF Inner
<1>3. Entrusted(s, d, v)' /\ Underway(v)'
  BY <1>2 DEF Entrusted, Underway, Idle
<1>4. Placed(s, d, v)'
  BY <1>2 DEF Placed, Held, draining
<1>5. Active(s, d, v)'
  BY <1>2 DEF Active, draining
<1>6. Lost(s, d, v)' /\ Timed(d, v)'
  BY <1>2 DEF Lost, Timed
<1>7. Locked(s, v)'
  BY <1>1, <1>2 DEF Local, Locked
<1>8. Routed(s, d, v)'
  <2>1. PICK r : r = route[s]
    OBVIOUS
  <2>2. RefreshRejected(s)' = RefreshRejected(s) /\ ByStopper(s, r)' = ByStopper(s, r)
    BY <1>2 DEF RefreshRejected, ByStopper
  <2>3. ByCall(s, r)' = ByCall(s, r) /\ ByWorker(r, v)' = ByWorker(r, v)
    BY <1>2 DEF ByCall, ByWorker
  <2>4. ByEntry(s, r, d, v)' = ByEntry(s, r, d, v)
    BY <1>2 DEF ByEntry, Coming, Still
  <2>5. route'[s] = r /\ drain' = drain
    BY <1>2, <2>1
  <2>6. r # None /\ r.live /\ drain.pc = "none" =>
          RefreshRejected(s) \/ ByWorker(r, v) \/ ByStopper(s, r) \/ ByCall(s, r) \/ ByEntry(s, r, d, v)
    BY <1>1, <2>1 DEF Local, Routed
  <2>7. r # None /\ r.live /\ drain.pc = "none" =>
          RefreshRejected(s)' \/ ByWorker(r, v)' \/ ByStopper(s, r)' \/ ByCall(s, r)' \/ ByEntry(s, r, d, v)'
    BY <2>2, <2>3, <2>4, <2>6
  <2> QED
    BY <2>5, <2>7 DEF Routed
<1>9. Local(s, d, v)'
  BY <1>3, <1>4, <1>5, <1>6, <1>7, <1>8 DEF Local
<1>10. Aside(s) /\ issued' \in Nat /\ issued <= issued' /\ handles' = handles
  BY <1>1, <1>2, AsideOfAll
<1>11. \A c \in Known(e, w) : c.id <= issued /\ c.id \in Nat
  BY <1>1 DEF ManagerInv, Numbered, Candidate
<1>12. \A c \in Mine(d, v) : c \in Known(e, w)
  BY <1>1 DEF Mine, Known
<1>13. drain.pc \notin {"none", "routes"} => lock' = None
  BY <1>1, <1>2 DEF Local, Locked
<1>14. \A c1, c2 \in Mine(d, v) : c1.id > issued /\ c2.id > issued => c1 = c2
  BY <1>1, <1>11, <1>12
<1>15. \A c \in Known(d, v) : c.id <= issued'
  BY <1>1, <1>2, <1>11
<1> QED
  BY <1>1, <1>9, <1>10, <1>13, <1>14, <1>15, Worked

LEMMA SucceedInv ==
  ASSUME ManagerInv, NEW s \in Servers, Succeed(s)
  PROVE  ManagerInv'
<1>1. PICK e \in EntrySet, w \in WorkSet : /\ e = entry[s] /\ w = work[s] /\ Local(s, e, w)
                                           /\ entry = [entry EXCEPT ![s] = e]
  BY At
<1>2. w.pc = "succeed" /\ Inner /\ Advanced /\ UNCHANGED ops
  BY <1>1 DEF Succeed, Inner, store, driver, catalog, Advanced, ManagerInv, Shape
<1>3. /\ Underway(w) /\ Entrusted(s, e, w) /\ w.cand \in Maybe(Candidate) /\ w.snap # None
      /\ (w.snap.on => w.cand # None) /\ ~w.cleanupOnly /\ Placed(s, e, w) /\ Active(s, e, w)
      /\ Lost(s, e, w) /\ Timed(e, w) /\ e.gen \in Nat /\ w.gen \in Nat
  BY <1>1, <1>2, Fields, EntryFields DEF Local, Underway, Halting
<1>4. /\ w.pc \notin Gone \cup {"complete", "recheck", "install"}
      /\ ByWorker(route[s], w) => w.cand # None /\ Match(route[s], w.cand)
      /\ w.cand # None => w.cand \in Known(e, w)
  BY <1>2 DEF Gone, ByWorker, Known
<1>5. ASSUME w.cand # None, NEW next \in {"stale", "retry"}, NEW d \in EntrySet, d.gen = e.gen,
             SamePlaces(e, d), d.pending = e.pending, d.timer = e.timer, d.operation = e.operation,
             entry' = [entry EXCEPT ![s] = d], work' = [work EXCEPT ![s] = Stopping(w, w.cand, next)]
      PROVE  ManagerInv'
  <2>1. PICK v : v = Stopping(w, w.cand, next) /\ Halted(w, v, w.cand)
    BY <1>3, <1>5, HaltParts DEF Resume, Keeps, Maybe
  <2>2. /\ Fading(e, d, w, v)
        /\ \A c \in {d.activating, d.active, d.blocked} \ {None} : c \in Known(e, w)
    BY <1>5 DEF Fading, Known, SamePlaces
  <2> QED
    BY <1>1, <1>2, <1>4, <1>5, <2>1, <2>2, Departs
<1>6. CASE ~Current(s, w.gen) /\ w.cand = None
  <2>1. work' = [work EXCEPT ![s] = Stale(w)] /\ UNCHANGED entry
    BY <1>1, <1>6 DEF Succeed, Step, Enter
  <2>2. PICK v : v = Stale(w) /\ Parted(w, v)
    BY <1>3, StaleParts
  <2> QED
    BY <1>1, <1>2, <1>4, <1>6, <2>1, <2>2, Quits
<1>7. CASE ~Current(s, w.gen) /\ w.cand # None
  <2>1. work' = [work EXCEPT ![s] = Stopping(w, w.cand, "stale")] /\ entry' = [entry EXCEPT ![s] = e]
    BY <1>1, <1>7 DEF Succeed, Step, Enter
  <2> QED
    BY <1>5, <1>7, <2>1 DEF SamePlaces
<1>8. CASE Current(s, w.gen) /\ w.cand # None /\ e.failure
  <2>1. /\ work' = [work EXCEPT ![s] = Stopping(w, w.cand, "retry")]
        /\ entry' = [entry EXCEPT ![s] = [e EXCEPT !.failure = FALSE]]
    BY <1>1, <1>8 DEF Succeed, Step, Enter
  <2> DEFINE d == [e EXCEPT !.failure = FALSE]
  <2>2. /\ d \in EntrySet /\ d.gen = e.gen /\ SamePlaces(e, d) /\ d.pending = e.pending /\ d.timer = e.timer
        /\ d.operation = e.operation
    BY DEF EntrySet, SamePlaces
  <2> HIDE DEF d
  <2>3. entry' = [entry EXCEPT ![s] = d]
    BY <2>1 DEF d
  <2> QED
    BY <1>5, <1>8, <2>1, <2>2, <2>3
<1>9. CASE Current(s, w.gen) /\ ~(w.cand # None /\ e.failure)
  <2>1. PICK v \in WorkSet : /\ work' = [work EXCEPT ![s] = v] /\ Keeps(w, v) /\ v.snap = w.snap
                             /\ v.target = w.target /\ v.pc = "complete"
    <3> DEFINE v == [w EXCEPT !.pc = "complete", !.tries = 0]
    <3>1. v \in WorkSet /\ Keeps(w, v) /\ v.snap = w.snap /\ v.target = w.target /\ v.pc = "complete"
      BY DEF WorkSet, Keeps
    <3>2. work' = [work EXCEPT ![s] = v]
      BY <1>1, <1>9 DEF Succeed, Step
    <3> QED
      BY <3>1, <3>2
  <2>2. PICK d \in EntrySet :
          /\ entry' = [entry EXCEPT ![s] = d] /\ d.gen = e.gen /\ d.pending = e.pending /\ d.timer = e.timer
          /\ d.operation = e.operation /\ d.blocked = e.blocked
          /\ \/ w.cand = None /\ d.active = e.active /\ d.activating = e.activating
             \/ w.cand # None /\ d.active = w.cand /\ d.activating = None
    <3> DEFINE d1 == [e EXCEPT !.status = "inactive"]
               d2 == [e EXCEPT !.active = w.cand, !.activating = None, !.status = "active"]
    <3>1. /\ d1 \in EntrySet /\ d1.gen = e.gen /\ d1.pending = e.pending /\ d1.timer = e.timer
          /\ d1.operation = e.operation /\ d1.blocked = e.blocked /\ d1.active = e.active
          /\ d1.activating = e.activating
      BY DEF EntrySet, Statuses
    <3>2. d2 \in EntrySet
      BY <1>3 DEF EntrySet, Statuses, Maybe
    <3>3. /\ d2.gen = e.gen /\ d2.pending = e.pending /\ d2.timer = e.timer
          /\ d2.operation = e.operation /\ d2.blocked = e.blocked /\ d2.active = w.cand
          /\ d2.activating = None
      BY DEF EntrySet
    <3>4. \/ w.cand = None /\ entry' = [entry EXCEPT ![s] = d1]
          \/ w.cand # None /\ entry' = [entry EXCEPT ![s] = d2]
      BY <1>1, <1>9 DEF Succeed, Enter
    <3> HIDE DEF d1, d2
    <3> QED
      BY <3>1, <3>2, <3>3, <3>4
  <2>3. /\ v.gen = w.gen /\ v.cand = w.cand /\ v.cleanupOnly = w.cleanupOnly /\ v.op = w.op
        /\ e.gen = w.gen /\ ~draining
    BY <1>1, <1>9, <2>1 DEF Keeps, Current
  <2>4. ~e.pending /\ (w.cand # None => Held(s, e, w))
    BY <1>3, <1>4, <2>3 DEF Placed
  <2>5. Known(d, v) \subseteq Known(e, w) /\ Mine(d, v) \subseteq Mine(e, w)
    BY <2>1, <2>2, <2>3 DEF Known, Mine
  <2>6. Underway(v)
    BY <1>2, <1>3, <2>1, <2>3 DEF Underway, Early, Trial, Halting
  <2>7. Entrusted(s, d, v)
    BY <1>3, <2>1, <2>2, <2>3 DEF Entrusted
  <2>8. Placed(s, d, v)
    <3>1. w.cand # None => Held(s, d, v)
      BY <1>2, <2>1, <2>2, <2>3, <2>4 DEF Held, Firm, Trial
    <3> QED
      BY <1>3, <2>2, <2>3, <2>4, <3>1 DEF Placed
  <2>9. Active(s, d, v)
    <3>1. CASE w.cand = None
      BY <1>2, <1>3, <2>1, <2>2, <2>3, <3>1 DEF Active, Gone
    <3>2. CASE w.cand # None
      <4>1. w.cand.gen = w.gen /\ owner[s] = w.cand.id /\ \A t \in stoppers : t.server = s => t.cand.id # w.cand.id
        BY <1>2, <1>3, <2>4, <3>2 DEF Underway, Held, Firm
      <4> QED
        BY <1>3, <2>1, <2>2, <2>3, <2>4, <3>2, <4>1 DEF Active
    <3> QED
      BY <3>1, <3>2
  <2>10. Lost(s, d, v)
    <3>1. \A t \in stoppers : t.server = s /\ t.kind = "lost" => t.gen <= e.gen /\ t.gen # e.gen
      BY <1>2, <1>3, <2>3 DEF Lost
    <3> QED
      BY <2>2, <3>1 DEF Lost
  <2>11. Timed(d, v) /\ (d.timer # None => d.timer # d.gen)
    BY <1>3, <1>4, <2>2, <2>3 DEF Timed, Gone
  <2>12. route[s] # None /\ (ByWorker(route[s], w) \/ ByEntry(s, route[s], e, w))
           => ByWorker(route[s], v) \/ ByEntry(s, route[s], d, v)
    <3>1. ~ByEntry(s, route[s], e, w)
      BY <1>4 DEF ByEntry, Still
    <3>2. w.cand # None => Still(d, v) /\ d.active = w.cand /\ w.cand.gen = e.gen
      BY <1>3, <2>1, <2>2, <2>3, <2>4, <2>11 DEF Still, Underway
    <3> QED
      BY <1>4, <2>2, <3>1, <3>2 DEF ByEntry, Match
  <2> QED
    BY <1>1, <1>2, <1>4, <2>1, <2>2, <2>5, <2>6, <2>7, <2>8, <2>9, <2>10, <2>11, <2>12, Moved
<1> QED
  BY <1>6, <1>7, <1>8, <1>9

LEMMA CompletionDisplacedInv ==
  ASSUME ManagerInv, NEW s \in Servers, CompletionDisplaced(s)
  PROVE  ManagerInv'
<1>1. PICK e \in EntrySet, w \in WorkSet : /\ e = entry[s] /\ w = work[s] /\ Local(s, e, w)
                                           /\ entry = [entry EXCEPT ![s] = e]
  BY At
<1>2. w.pc = "complete" /\ Inner /\ Advanced
  BY <1>1 DEF CompletionDisplaced, Inner, store, driver, catalog, Advanced, ManagerInv, Shape
<1>3. /\ Underway(w) /\ Entrusted(s, e, w) /\ w.cand \in Maybe(Candidate) /\ ~w.cleanupOnly
      /\ Placed(s, e, w) /\ Active(s, e, w) /\ Lost(s, e, w) /\ Timed(e, w) /\ e.gen \in Nat /\ w.gen \in Nat
      /\ e.active \in Maybe(Candidate)
  BY <1>1, <1>2, Fields, EntryFields DEF Local, Underway, Halting
<1>4. w.gen < e.gen
  BY <1>1, <1>2, <1>3 DEF CompletionDisplaced, Current, Placed
<1>5. PICK d \in EntrySet, mine \in BOOLEAN :
        /\ mine <=> w.cand # None /\ (w.tries > 0 \/ e.active = w.cand)
        /\ entry' = [entry EXCEPT ![s] = d] /\ d.gen = e.gen /\ d.pending = e.pending /\ d.timer = e.timer
        /\ d.operation = e.operation /\ d.blocked = e.blocked /\ d.activating = e.activating
        /\ d.active \in {e.active, None}
        /\ work' = [work EXCEPT ![s] = IF mine THEN Stopping(w, w.cand, "stale") ELSE Stale(w)]
  <2> DEFINE d1 == [e EXCEPT !.active = None]
             mine == w.cand # None /\ (w.tries > 0 \/ e.active = w.cand)
  <2>1. /\ d1 \in EntrySet /\ d1.gen = e.gen /\ d1.pending = e.pending /\ d1.timer = e.timer
        /\ d1.operation = e.operation /\ d1.blocked = e.blocked /\ d1.activating = e.activating
        /\ d1.active = None
    BY DEF EntrySet, Maybe
  <2>2. /\ entry' = [entry EXCEPT ![s] = e] \/ entry' = [entry EXCEPT ![s] = d1]
        /\ work' = [work EXCEPT ![s] = IF mine THEN Stopping(w, w.cand, "stale") ELSE Stale(w)]
    BY <1>1 DEF CompletionDisplaced, Step, Enter
  <2> HIDE DEF d1
  <2> QED
    BY <2>1, <2>2
<1>6. PICK v : /\ v \in WorkSet /\ work' = [work EXCEPT ![s] = v] /\ Keeps(w, v) /\ Underway(v)
               /\ v.pc \in Early \cup Halting \cup Going /\ v.pc # "idle"
               /\ v.snap \in {w.snap, None} /\ v.target \in {w.cand, None}
               /\ mine => v.pc = "withdraw" /\ v.target = w.cand
  <2>1. CASE mine
    <3>1. PICK v : v = Stopping(w, w.cand, "stale") /\ Halted(w, v, w.cand)
      BY <1>3, <1>5, <2>1, HaltParts DEF Resume, Keeps, Maybe
    <3> QED
      BY <1>5, <2>1, <3>1 DEF Halted, Halting
  <2>2. CASE ~mine
    <3>1. PICK v : v = Stale(w) /\ Parted(w, v)
      BY <1>3, StaleParts
    <3> QED
      BY <1>5, <2>2, <3>1 DEF Parted, Going
  <2> QED
    BY <2>1, <2>2
<1>7. v.gen = w.gen /\ v.cand = w.cand /\ v.cleanupOnly = w.cleanupOnly /\ v.op = w.op
  BY <1>6 DEF Keeps
<1>8. Known(d, v) \subseteq Known(e, w) /\ Mine(d, v) \subseteq Mine(e, w)
  BY <1>5, <1>6, <1>7 DEF Known, Mine
<1>9. Entrusted(s, d, v)
  BY <1>3, <1>5, <1>6, <1>7 DEF Entrusted
<1>10. Placed(s, d, v)
  BY <1>3, <1>4, <1>5, <1>7 DEF Placed
<1>11. Active(s, d, v)
  <2>1. e.active # None => e.active.gen < e.gen
    BY <1>2, <1>3, <1>4 DEF Active, Gone, Underway
  <2> QED
    BY <1>3, <1>4, <1>5, <1>7, <2>1 DEF Active
<1>12. Lost(s, d, v)
  BY <1>2, <1>3, <1>4, <1>5, <1>7 DEF Lost
<1>13. Timed(d, v)
  BY <1>2, <1>3, <1>4, <1>5, <1>7 DEF Timed, Gone
<1>14. route[s] # None /\ (ByWorker(route[s], w) \/ ByEntry(s, route[s], e, w))
         => ByWorker(route[s], v) \/ ByEntry(s, route[s], d, v)
  <2>1. ~ByWorker(route[s], w)
    BY <1>2 DEF ByWorker
  <2>2. ByEntry(s, route[s], e, w) => mine /\ Match(route[s], w.cand)
    BY <1>2, <1>5 DEF ByEntry, Still, Gone
  <2> QED
    BY <1>6, <2>1, <2>2 DEF ByWorker
<1>15. v.pc \notin {"recheck", "install"}
  BY <1>6 DEF Early, Halting, Going
<1> QED
  BY <1>1, <1>2, <1>5, <1>6, <1>8, <1>9, <1>10, <1>11, <1>12, <1>13, <1>14, <1>15, Moved

\* The record of the operation of w takes its final state.
LEMMA Completes ==
  ASSUME ManagerInv, NEW w \in WorkSet, NEW state \in Terminal, Completable(w), ops' = Completed(w, state)
  PROVE  Advanced
<1>1. ops \in [Ops -> {"none"} \cup Nonterminal \cup Terminal] /\ w.op \in Maybe(Ops)
  BY Fields DEF ManagerInv, Shape
<1>2. w.op \in Ops => ops[w.op] = "running"
  BY NamesAssumption DEF Completable, Ops
<1>3. ops' = [o \in Ops |-> IF o = w.op THEN state ELSE ops[o]]
  BY DEF Completed
<1>4. "running" \in Nonterminal /\ "running" # "none" /\ state # "none" /\ state \notin Nonterminal
  BY DEF Nonterminal, Terminal
<1> QED
  BY <1>1, <1>2, <1>3, <1>4 DEF Advanced

LEMMA CompleteSuccessInv ==
  ASSUME ManagerInv, NEW s \in Servers, CompleteSuccess(s)
  PROVE  ManagerInv'
<1>1. PICK e \in EntrySet, w \in WorkSet : /\ e = entry[s] /\ w = work[s] /\ Local(s, e, w)
                                           /\ entry = [entry EXCEPT ![s] = e]
  BY At
<1>2. w.pc = "complete" /\ Inner /\ e.gen = w.gen /\ ~draining
  BY <1>1 DEF CompleteSuccess, Inner, driver, catalog, Current
<1>3. /\ Underway(w) /\ Entrusted(s, e, w) /\ w.cand \in Maybe(Candidate) /\ ~w.cleanupOnly
      /\ Placed(s, e, w) /\ Active(s, e, w) /\ Lost(s, e, w) /\ Timed(e, w) /\ e.gen \in Nat /\ w.gen \in Nat
      /\ e.active \in Maybe(Candidate) /\ w.tries \in Nat
  BY <1>1, <1>2, Fields, EntryFields DEF Local, Underway, Halting
<1>4. ~e.pending /\ (w.cand # None => Held(s, e, w)) /\ ~ByWorker(route[s], w)
  BY <1>2, <1>3 DEF Placed, Gone, ByWorker
<1>5. CASE /\ Completable(w) /\ ops' = Completed(w, "succeeded") /\ UNCHANGED entry
           /\ work' = [work EXCEPT ![s] = Ending([w EXCEPT !.settled = TRUE])]
  <2>1. PICK u \in WorkSet : u = [w EXCEPT !.settled = TRUE] /\ Keeps(w, u)
    <3> DEFINE u == [w EXCEPT !.settled = TRUE]
    <3>1. u \in WorkSet /\ Keeps(w, u)
      BY DEF WorkSet, Keeps
    <3> QED
      BY <3>1
  <2>2. PICK v : v = Ending(u) /\ Parted(w, v) /\ v.pc \in {"clear", "finish"}
    BY <1>3, <2>1, EndParts
  <2>3. /\ v \in WorkSet /\ v.gen = w.gen /\ v.cand = w.cand /\ v.cleanupOnly = w.cleanupOnly
        /\ v.op = w.op /\ v.snap = None /\ v.target = None /\ Underway(v)
    BY <2>2 DEF Parted, Keeps
  <2>4. Advanced
    BY <1>5, Completes DEF Terminal
  <2>5. Known(e, v) \subseteq Known(e, w) /\ Mine(e, v) \subseteq Mine(e, w)
    BY <2>3 DEF Known, Mine
  <2>6. Entrusted(s, e, v)
    BY <1>3, <2>3 DEF Entrusted
  <2>7. Placed(s, e, v)
    BY <1>2, <1>3, <1>4, <2>2, <2>3 DEF Placed, Held, Firm, Trial
  <2>8. Active(s, e, v)
    BY <1>3, <2>2, <2>3 DEF Active, Gone
  <2>9. Lost(s, e, v)
    BY <1>2, <1>3, <2>3 DEF Lost
  <2>10. Timed(e, v)
    BY <1>3, <2>2, <2>3 DEF Timed, Gone
  <2>11. ByEntry(s, route[s], e, w) => ByEntry(s, route[s], e, v)
    BY <2>2, <2>3 DEF ByEntry, Still, Gone
  <2>12. v.pc \notin {"recheck", "install"} /\ entry' = [entry EXCEPT ![s] = e]
         /\ work' = [work EXCEPT ![s] = v]
    BY <1>1, <1>5, <2>1, <2>2
  <2> QED
    BY <1>1, <1>2, <1>4, <2>3, <2>4, <2>5, <2>6, <2>7, <2>8, <2>9, <2>10, <2>11, <2>12, Moved
<1>6. CASE /\ UNCHANGED <<ops, entry>> /\ work' = [work EXCEPT ![s] = [w EXCEPT !.tries = @ + 1]]
  <2>1. PICK v \in WorkSet : /\ work' = [work EXCEPT ![s] = v] /\ Keeps(w, v) /\ v.snap = w.snap
                             /\ v.target = w.target /\ v.pc = "complete"
    <3> DEFINE v == [w EXCEPT !.tries = w.tries + 1]
    <3>1. v \in WorkSet /\ Keeps(w, v) /\ v.snap = w.snap /\ v.target = w.target /\ v.pc = w.pc
      BY <1>3 DEF WorkSet, Keeps
    <3>2. work' = [work EXCEPT ![s] = v]
      BY <1>6
    <3> QED
      BY <1>2, <3>1, <3>2
  <2>2. Advanced
    BY <1>6 DEF Advanced, ManagerInv, Shape
  <2>3. v.gen = w.gen /\ v.cand = w.cand /\ v.cleanupOnly = w.cleanupOnly /\ v.op = w.op
    BY <2>1 DEF Keeps
  <2>4. Known(e, v) \subseteq Known(e, w) /\ Mine(e, v) \subseteq Mine(e, w)
    BY <2>1, <2>3 DEF Known, Mine
  <2>5. Entrusted(s, e, v)
    BY <1>3, <2>1, <2>3 DEF Entrusted
  <2>6. Underway(v)
    BY <1>2, <1>3, <2>1, <2>3 DEF Underway, Early, Trial, Halting
  <2>7. Placed(s, e, v)
    BY <1>2, <1>3, <1>4, <2>1, <2>3 DEF Placed, Held, Firm, Trial
  <2>8. Active(s, e, v)
    BY <1>2, <1>3, <2>1, <2>3 DEF Active
  <2>9. Lost(s, e, v) /\ Timed(e, v)
    BY <1>2, <1>3, <2>1, <2>3 DEF Lost, Timed
  <2>10. ByEntry(s, route[s], e, w) => ByEntry(s, route[s], e, v)
    BY <1>2, <2>1, <2>3 DEF ByEntry, Still
  <2>11. v.pc \notin {"recheck", "install"} /\ entry' = [entry EXCEPT ![s] = e]
    BY <1>1, <1>6, <2>1
  <2> QED
    BY <1>1, <1>2, <1>4, <2>1, <2>2, <2>4, <2>5, <2>6, <2>7, <2>8, <2>9, <2>10, <2>11, Moved
<1>7. CASE /\ UNCHANGED ops
           /\ entry' = [entry EXCEPT ![s] = [e EXCEPT !.gen = @ + 1, !.active = None, !.status = "degraded"]]
           /\ work' = [work EXCEPT ![s] = IF w.cand = None THEN Ending([w EXCEPT !.failed = TRUE])
                        ELSE Stopping([w EXCEPT !.failed = TRUE], w.cand, "undone")]
  <2>1. PICK d \in EntrySet :
          /\ entry' = [entry EXCEPT ![s] = d] /\ d.gen = e.gen + 1 /\ d.pending = e.pending
          /\ d.timer = e.timer /\ d.operation = e.operation /\ d.blocked = e.blocked
          /\ d.activating = e.activating /\ d.active = None
    <3>0. PICK n \in Nat : n = e.gen + 1
      BY <1>3
    <3> DEFINE d == [e EXCEPT !.gen = n, !.active = None, !.status = "degraded"]
    <3>1. d \in EntrySet
      BY DEF EntrySet, Maybe, Statuses
    <3>2. /\ d.gen = n /\ d.pending = e.pending
          /\ d.timer = e.timer /\ d.operation = e.operation /\ d.blocked = e.blocked
          /\ d.activating = e.activating /\ d.active = None
      BY DEF EntrySet
    <3>3. entry' = [entry EXCEPT ![s] = d]
      BY <1>7, <3>0
    <3> QED
      BY <3>0, <3>1, <3>2, <3>3
  <2>2. PICK u \in WorkSet : u = [w EXCEPT !.failed = TRUE] /\ Keeps(w, u) /\ u.snap = w.snap
    <3> DEFINE u == [w EXCEPT !.failed = TRUE]
    <3>1. u \in WorkSet /\ Keeps(w, u) /\ u.snap = w.snap
      BY DEF WorkSet, Keeps
    <3> QED
      BY <3>1
  <2>3. PICK v : /\ v \in WorkSet /\ work' = [work EXCEPT ![s] = v] /\ Keeps(w, v) /\ Underway(v)
                 /\ v.pc \in Halting \cup Going /\ v.snap \in {w.snap, None} /\ v.target \in {w.cand, None}
                 /\ w.cand # None => v.pc = "withdraw" /\ v.target = w.cand
    <3>1. CASE w.cand # None
      <4>1. PICK v : v = Stopping(u, w.cand, "undone") /\ Halted(w, v, w.cand)
        BY <1>3, <2>2, <3>1, HaltParts DEF Resume, Maybe
      <4> QED
        BY <1>7, <2>2, <3>1, <4>1 DEF Halted, Halting
    <3>2. CASE w.cand = None
      <4>1. PICK v : v = Ending(u) /\ Parted(w, v)
        BY <1>3, <2>2, EndParts
      <4> QED
        BY <1>7, <2>2, <3>2, <4>1 DEF Parted
    <3> QED
      BY <3>1, <3>2
  <2>4. Advanced
    BY <1>7 DEF Advanced, ManagerInv, Shape
  <2>5. v.gen = w.gen /\ v.cand = w.cand /\ v.cleanupOnly = w.cleanupOnly /\ v.op = w.op
    BY <2>3 DEF Keeps
  <2>6. Known(d, v) \subseteq Known(e, w) /\ Mine(d, v) \subseteq Mine(e, w)
    BY <2>1, <2>3, <2>5 DEF Known, Mine
  <2>7. Entrusted(s, d, v)
    BY <1>3, <2>1, <2>3, <2>5 DEF Entrusted
  <2>8. Placed(s, d, v)
    BY <1>2, <1>3, <2>1, <2>5 DEF Placed
  <2>9. Active(s, d, v)
    BY <2>1 DEF Active
  <2>10. Lost(s, d, v)
    <3>1. \A t \in stoppers : t.gen \in Nat
      BY DEF ManagerInv, Shape, StopperSet
    <3> QED
      BY <1>3, <2>1, <3>1 DEF Lost
  <2>11. Timed(d, v)
    <3>1. e.timer \in Maybe(Nat)
      BY EntryFields
    <3> QED
      BY <1>3, <2>1, <3>1 DEF Timed, Maybe
  <2>12. route[s] # None /\ ByEntry(s, route[s], e, w) => ByWorker(route[s], v)
    <3>1. ByEntry(s, route[s], e, w) => w.cand # None /\ Match(route[s], w.cand)
      BY <1>2 DEF ByEntry, Still, Gone
    <3> QED
      BY <2>3, <3>1 DEF ByWorker
  <2>13. v.pc \notin {"recheck", "install"}
    BY <2>3 DEF Halting, Going
  <2> QED
    BY <1>1, <1>2, <1>4, <2>1, <2>3, <2>4, <2>6, <2>7, <2>8, <2>9, <2>10, <2>11, <2>12, <2>13, Moved
<1>8. \/ /\ Completable(w) /\ ops' = Completed(w, "succeeded") /\ UNCHANGED entry
         /\ work' = [work EXCEPT ![s] = Ending([w EXCEPT !.settled = TRUE])]
      \/ UNCHANGED <<ops, entry>> /\ work' = [work EXCEPT ![s] = [w EXCEPT !.tries = @ + 1]]
      \/ /\ UNCHANGED ops
         /\ entry' = [entry EXCEPT ![s] = [e EXCEPT !.gen = @ + 1, !.active = None, !.status = "degraded"]]
         /\ work' = [work EXCEPT ![s] = IF w.cand = None THEN Ending([w EXCEPT !.failed = TRUE])
                        ELSE Stopping([w EXCEPT !.failed = TRUE], w.cand, "undone")]
  BY <1>1, Zenon DEF CompleteSuccess, Step, Enter
<1> QED
  BY <1>5, <1>6, <1>7, <1>8

LEMMA CompleteFailureInv ==
  ASSUME ManagerInv, NEW s \in Servers, CompleteFailure(s)
  PROVE  ManagerInv'
<1>1. PICK e \in EntrySet, w \in WorkSet : /\ e = entry[s] /\ w = work[s] /\ Local(s, e, w)
                                           /\ entry = [entry EXCEPT ![s] = e]
  BY At
<1>2. w.pc = "fail" /\ Inner
  BY <1>1 DEF CompleteFailure, Inner, driver, catalog
<1>3. /\ Underway(w) /\ Entrusted(s, e, w) /\ ~w.cleanupOnly /\ w.tries \in Nat /\ w.retry \in BOOLEAN
      /\ e.gen \in Nat /\ w.gen \in Nat /\ Placed(s, e, w) /\ e.status \in Statuses /\ e.timer \in Maybe(Nat)
  BY <1>1, <1>2, Fields, EntryFields DEF Local, Underway, Halting
<1>4. w.pc \notin Gone \cup {"complete", "recheck", "install"} /\ ~ByWorker(route[s], w)
  BY <1>2 DEF Gone, ByWorker
<1>5. ASSUME NEW x \in Statuses, NEW p \in BOOLEAN, NEW t \in Maybe(Nat), NEW u \in WorkSet, Keeps(w, u),
             p => e.pending, t = e.timer \/ (t = e.gen /\ ~p), Advanced,
             entry' = [entry EXCEPT ![s] = [e EXCEPT !.pending = p, !.timer = t, !.status = x]],
             work' = [work EXCEPT ![s] = Ending(u)]
      PROVE  ManagerInv'
  <2>1. PICK v : v = Ending(u) /\ Parted(w, v) /\ v.pc \in {"clear", "finish"}
    BY <1>3, <1>5, EndParts
  <2>2. PICK d : d = [e EXCEPT !.pending = p, !.timer = t, !.status = x]
    OBVIOUS
  <2>3. /\ d \in EntrySet /\ d.gen = e.gen /\ d.pending = p /\ d.timer = t /\ SamePlaces(e, d)
        /\ d.operation = e.operation
    BY <2>2 DEF EntrySet, SamePlaces
  <2>4. ~v.cleanupOnly
    BY <1>3, <2>1 DEF Parted, Keeps
  <2>5. Fading(e, d, w, v)
    BY <1>5, <2>1, <2>3, <2>4 DEF Fading, SamePlaces, Gone
  <2>6. \A c \in {d.activating, d.active, d.blocked} \ {None} : c \in Known(e, w)
    BY <2>3 DEF SamePlaces, Known
  <2> QED
    BY <1>1, <1>2, <1>4, <1>5, <2>1, <2>2, <2>3, <2>5, <2>6, Departs
<1>6. CASE UNCHANGED <<ops, entry>> /\ work' = [work EXCEPT ![s] = Stale(w)]
  <2>1. PICK v : v = Stale(w) /\ Parted(w, v)
    BY <1>3, StaleParts
  <2> QED
    BY <1>1, <1>2, <1>4, <1>6, <2>1, Quits
<1>7. CASE /\ Current(s, w.gen) /\ Completable(w) /\ ops' = Completed(w, "failed")
           /\ entry' = [entry EXCEPT ![s] = [e EXCEPT !.status = IF w.retry THEN "retry" ELSE "degraded",
                                                      !.timer = IF w.retry THEN e.gen ELSE @]]
           /\ work' = [work EXCEPT ![s] = Ending([w EXCEPT !.settled = TRUE])]
  <2>1. PICK u \in WorkSet : u = [w EXCEPT !.settled = TRUE] /\ Keeps(w, u)
    <3> DEFINE u == [w EXCEPT !.settled = TRUE]
    <3>1. u \in WorkSet /\ Keeps(w, u)
      BY DEF WorkSet, Keeps
    <3> QED
      BY <3>1
  <2>2. PICK x \in Statuses : x = IF w.retry THEN "retry" ELSE "degraded"
    BY DEF Statuses
  <2>3. PICK t \in Maybe(Nat) : t = IF w.retry THEN e.gen ELSE e.timer
    BY <1>3 DEF Maybe
  <2>4. ~e.pending
    BY <1>1, <1>3, <1>4, <1>7 DEF Placed, Current
  <2>5. [e EXCEPT !.status = x, !.timer = t] = [e EXCEPT !.pending = FALSE, !.timer = t, !.status = x]
    <3>1. e.pending = FALSE
      BY <2>4, EntryFields
    <3> QED
      BY <3>1 DEF EntrySet
  <2>6. entry' = [entry EXCEPT ![s] = [e EXCEPT !.status = x, !.timer = t]]
    BY <1>7, <2>2, <2>3
  <2>7. entry' = [entry EXCEPT ![s] = [e EXCEPT !.pending = FALSE, !.timer = t, !.status = x]]
    BY <2>5, <2>6
  <2>8. Advanced
    BY <1>7, Completes DEF Terminal
  <2>9. work' = [work EXCEPT ![s] = Ending(u)] /\ (t = e.timer \/ t = e.gen)
    BY <1>7, <2>1, <2>3
  <2> QED
    BY <1>5, <2>1, <2>7, <2>8, <2>9
<1>8. CASE UNCHANGED <<ops, entry>> /\ work' = [work EXCEPT ![s] = [w EXCEPT !.tries = @ + 1]]
  <2>1. PICK v \in WorkSet : /\ work' = [work EXCEPT ![s] = v] /\ Keeps(w, v) /\ v.snap = w.snap
                             /\ v.target = w.target /\ v.pc = "fail"
    <3> DEFINE v == [w EXCEPT !.tries = w.tries + 1]
    <3>1. v \in WorkSet /\ Keeps(w, v) /\ v.snap = w.snap /\ v.target = w.target /\ v.pc = w.pc
      BY <1>3 DEF WorkSet, Keeps
    <3>2. work' = [work EXCEPT ![s] = v]
      BY <1>8
    <3> QED
      BY <1>2, <3>1, <3>2
  <2>2. Advanced
    BY <1>8 DEF Advanced, ManagerInv, Shape
  <2>3. Underway(v)
    BY <1>2, <1>3, <2>1 DEF Underway, Keeps, Early, Trial, Halting
  <2>4. Entrusted(s, e, v)'
    BY <1>2, <1>3, <2>1, EntrustedKept DEF Inner, Keeps
  <2>5. Known(e, v) \subseteq Known(e, w) /\ Fading(e, e, w, v) /\ v.pc \in Early \cup Halting \cup Going
    BY <2>1 DEF Known, Keeps, Fading, Going
  <2> QED
    BY <1>1, <1>2, <1>4, <1>8, <2>1, <2>2, <2>3, <2>4, <2>5, InnerFalls
<1>9. CASE /\ UNCHANGED ops
           /\ entry' = [entry EXCEPT ![s] = [e EXCEPT !.pending = FALSE, !.status = "degraded"]]
           /\ work' = [work EXCEPT ![s] = Ending([w EXCEPT !.failed = TRUE])]
  <2>1. PICK u \in WorkSet : u = [w EXCEPT !.failed = TRUE] /\ Keeps(w, u)
    <3> DEFINE u == [w EXCEPT !.failed = TRUE]
    <3>1. u \in WorkSet /\ Keeps(w, u)
      BY DEF WorkSet, Keeps
    <3> QED
      BY <3>1
  <2>2. [e EXCEPT !.pending = FALSE, !.status = "degraded"]
          = [e EXCEPT !.pending = FALSE, !.timer = e.timer, !.status = "degraded"]
    BY DEF EntrySet
  <2>3. entry' = [entry EXCEPT ![s] = [e EXCEPT !.pending = FALSE, !.timer = e.timer, !.status = "degraded"]]
    BY <1>9, <2>2
  <2>4. Advanced
    BY <1>9 DEF Advanced, ManagerInv, Shape
  <2>5. work' = [work EXCEPT ![s] = Ending(u)] /\ "degraded" \in Statuses
    BY <1>9, <2>1 DEF Statuses
  <2> QED
    BY <1>3, <1>5, <2>1, <2>3, <2>4, <2>5
<1>10. \/ UNCHANGED <<ops, entry>> /\ work' = [work EXCEPT ![s] = Stale(w)]
       \/ /\ Current(s, w.gen) /\ Completable(w) /\ ops' = Completed(w, "failed")
          /\ entry' = [entry EXCEPT ![s] = [e EXCEPT !.status = IF w.retry THEN "retry" ELSE "degraded",
                                                      !.timer = IF w.retry THEN e.gen ELSE @]]
          /\ work' = [work EXCEPT ![s] = Ending([w EXCEPT !.settled = TRUE])]
       \/ UNCHANGED <<ops, entry>> /\ work' = [work EXCEPT ![s] = [w EXCEPT !.tries = @ + 1]]
       \/ /\ UNCHANGED ops
          /\ entry' = [entry EXCEPT ![s] = [e EXCEPT !.pending = FALSE, !.status = "degraded"]]
          /\ work' = [work EXCEPT ![s] = Ending([w EXCEPT !.failed = TRUE])]
  BY <1>1, Zenon DEF CompleteFailure, Step, Enter
<1> QED
  BY <1>6, <1>7, <1>8, <1>9, <1>10

LEMMA FinishStaleInv ==
  ASSUME ManagerInv, NEW s \in Servers, FinishStale(s)
  PROVE  ManagerInv'
<1>1. PICK e \in EntrySet, w \in WorkSet : e = entry[s] /\ w = work[s] /\ Local(s, e, w)
  BY At
<1>2. w.pc = "stale" /\ Inner /\ Advanced
  BY <1>1 DEF FinishStale, Inner, store, driver, catalog, Advanced, ManagerInv, Shape
<1>3. Underway(w)
  BY <1>1 DEF Local
<1>4. w.pc \notin Gone \cup {"complete", "recheck", "install"} /\ ~ByWorker(route[s], w)
  BY <1>2 DEF Gone, ByWorker
<1>5. PICK u \in WorkSet : u = [w EXCEPT !.displaced = TRUE] /\ Keeps(w, u)
  <2> DEFINE u == [w EXCEPT !.displaced = TRUE]
  <2>1. u \in WorkSet /\ Keeps(w, u)
    BY DEF WorkSet, Keeps
  <2> QED
    BY <2>1
<1>6. PICK v : v = Ending(u) /\ Parted(w, v) /\ v.pc \in {"clear", "finish"}
  BY <1>3, <1>5, EndParts
<1>7. PICK d \in EntrySet : /\ d = Reopened(e, w) /\ d.gen = e.gen /\ d.timer = e.timer /\ SamePlaces(e, d)
                            /\ d.operation = e.operation /\ (d.pending => e.pending \/ e.gen = w.gen)
  <2> DEFINE d1 == [e EXCEPT !.pending = TRUE]
  <2>1. /\ d1 \in EntrySet /\ d1.gen = e.gen /\ d1.timer = e.timer /\ SamePlaces(e, d1)
        /\ d1.operation = e.operation
    BY DEF EntrySet, SamePlaces
  <2> HIDE DEF d1
  <2>2. Reopened(e, w) = IF e.gen = w.gen THEN d1 ELSE e
    BY DEF Reopened, d1
  <2> QED
    BY <2>1, <2>2 DEF SamePlaces
<1>8. Fading(e, d, w, v)
  BY <1>6, <1>7 DEF Fading, SamePlaces, Gone
<1>9. \A c \in {d.activating, d.active, d.blocked} \ {None} : c \in Known(e, w)
  BY <1>7 DEF SamePlaces, Known
<1>10. entry' = [entry EXCEPT ![s] = d] /\ work' = [work EXCEPT ![s] = v]
  BY <1>1, <1>5, <1>6, <1>7 DEF FinishStale, Step, Enter
<1> QED
  BY <1>1, <1>2, <1>4, <1>6, <1>7, <1>8, <1>9, <1>10, Departs

LEMMA ClearActivatingInv ==
  ASSUME ManagerInv, NEW s \in Servers, ClearActivating(s)
  PROVE  ManagerInv'
<1>1. PICK e \in EntrySet, w \in WorkSet : e = entry[s] /\ w = work[s] /\ Local(s, e, w)
  BY At
<1>2. w.pc = "clear" /\ Inner /\ Advanced
  BY <1>1 DEF ClearActivating, Inner, store, driver, catalog, Advanced, ManagerInv, Shape
<1>3. /\ Underway(w) /\ Entrusted(s, e, w) /\ ~w.cleanupOnly
      /\ Placed(s, e, w) /\ Active(s, e, w) /\ Lost(s, e, w) /\ Timed(e, w)
  BY <1>1, <1>2 DEF Local, Underway, Halting
<1>4. PICK v \in WorkSet : /\ work' = [work EXCEPT ![s] = v] /\ v.gen = w.gen /\ v.op = w.op /\ v.snap = w.snap
                           /\ v.cleanupOnly = w.cleanupOnly /\ v.cand = None /\ v.target = w.target /\ v.pc = "finish"
  <2> DEFINE v == [w EXCEPT !.pc = "finish", !.cand = None]
  <2>1. /\ v \in WorkSet /\ v.gen = w.gen /\ v.op = w.op /\ v.snap = w.snap
        /\ v.cleanupOnly = w.cleanupOnly /\ v.cand = None /\ v.target = w.target /\ v.pc = "finish"
    BY DEF WorkSet, Maybe, Going
  <2>2. work' = [work EXCEPT ![s] = v]
    BY <1>1 DEF ClearActivating, Step
  <2> QED
    BY <2>1, <2>2
<1>5. PICK d \in EntrySet : /\ entry' = [entry EXCEPT ![s] = d] /\ d.gen = e.gen /\ d.timer = e.timer
                            /\ d.active = e.active /\ d.blocked = e.blocked /\ d.activating \in {e.activating, None}
                            /\ d.operation = e.operation /\ d.pending = e.pending
  <2> DEFINE d1 == [e EXCEPT !.activating = None, !.failure = FALSE]
  <2>1. /\ d1 \in EntrySet /\ d1.gen = e.gen /\ d1.timer = e.timer
        /\ d1.active = e.active /\ d1.blocked = e.blocked /\ d1.activating = None
        /\ d1.operation = e.operation /\ d1.pending = e.pending
    BY DEF EntrySet, Maybe
  <2> HIDE DEF d1
  <2>2. entry' = [entry EXCEPT ![s] = e] \/ entry' = [entry EXCEPT ![s] = d1]
    BY <1>1 DEF ClearActivating, Enter, d1
  <2> QED
    BY <2>1, <2>2
<1>6. Known(d, v) \subseteq Known(e, w) /\ Mine(d, v) \subseteq Mine(e, w)
  BY <1>4, <1>5 DEF Known, Mine
<1>7. Entrusted(s, d, v)
  BY <1>3, <1>4, <1>5 DEF Entrusted
<1>8. Underway(v)
  BY <1>3, <1>4 DEF Underway, Early, Trial, Halting
<1>9. Placed(s, d, v)
  BY <1>2, <1>3, <1>4, <1>5 DEF Placed, Gone
<1>10. Active(s, d, v)
  BY <1>3, <1>4, <1>5 DEF Active, Gone
<1>11. Lost(s, d, v) /\ Timed(d, v)
  BY <1>2, <1>3, <1>4, <1>5 DEF Lost, Timed, Gone
<1>12. ~ByWorker(route[s], w) /\ (ByEntry(s, route[s], e, w) => ByEntry(s, route[s], d, v))
  BY <1>2, <1>4, <1>5 DEF ByWorker, ByEntry, Still, Gone
<1>13. w.pc \notin {"recheck", "install"} /\ v.pc \notin {"recheck", "install"}
  BY <1>2, <1>4
<1> QED
  BY <1>1, <1>2, <1>4, <1>5, <1>6, <1>7, <1>8, <1>9, <1>10, <1>11, <1>12, <1>13, Moved

-----------------------------------------------------------------------------
(* Work that is started. *)

LEMMA Begins ==
  ASSUME NEW s \in Servers, NEW e \in EntrySet, NEW w \in WorkSet, Local(s, e, w), e.pending,
         w.pc = "idle", ~draining
  PROVE  /\ Begun(e) \in EntrySet /\ NewWork(e) \in WorkSet /\ Local(s, Begun(e), NewWork(e))
         /\ Known(Begun(e), NewWork(e)) \subseteq Known(e, w)
         /\ Mine(Begun(e), NewWork(e)) \subseteq Mine(e, w)
<1>1. PICK d \in EntrySet :
        /\ d = Begun(e) /\ d.pending = FALSE /\ d.operation = None /\ SamePlaces(e, d)
        /\ d.gen = e.gen /\ d.timer = e.timer
  <2>1. PICK x \in Statuses : x = IF e.active # None \/ e.blocked # None THEN "stopping" ELSE "activating"
    BY DEF Statuses
  <2> DEFINE d == [e EXCEPT !.pending = FALSE, !.operation = None, !.pendingDisplaced = FALSE, !.status = x]
  <2>2. d \in EntrySet
    BY DEF EntrySet, Maybe
  <2>3. d.pending = FALSE /\ d.operation = None /\ SamePlaces(e, d) /\ d.gen = e.gen /\ d.timer = e.timer
    BY DEF EntrySet, SamePlaces
  <2>4. d = Begun(e)
    BY <2>1 DEF Begun
  <2> QED
    BY <2>2, <2>3, <2>4
<1>2. PICK v \in WorkSet :
        /\ v = NewWork(e) /\ v.pc \in {"read", "stopPrevious"} /\ v.gen = e.gen /\ v.op = e.operation
        /\ v.cleanupOnly = e.pendingDisplaced /\ (v.cleanupOnly => v.pc = "stopPrevious")
        /\ v.cand = None /\ v.snap = None /\ v.target = None
  <2>1. PICK p \in BOOLEAN, g \in Nat, o \in Maybe(Ops), pc \in {"read", "stopPrevious"} :
          /\ p = e.pendingDisplaced /\ g = e.gen /\ o = e.operation
          /\ pc = IF p THEN "stopPrevious" ELSE "read"
    BY EntryFields
  <2> DEFINE v == [Idle EXCEPT !.pc = pc, !.gen = g, !.op = o, !.cleanupOnly = p, !.displaced = p]
  <2>2. v \in WorkSet
    BY IdleIsWork DEF WorkSet, Early
  <2>3. /\ v.pc = pc /\ v.gen = g /\ v.op = o /\ v.cleanupOnly = p
        /\ v.cand = None /\ v.snap = None /\ v.target = None
    BY DEF Idle
  <2>4. v = NewWork(e)
    BY <2>1 DEF NewWork
  <2> HIDE DEF v
  <2> QED
    BY <2>1, <2>2, <2>3, <2>4
<1>3. /\ Entrusted(s, e, w) /\ Underway(w) /\ Placed(s, e, w) /\ Active(s, e, w) /\ Lost(s, e, w)
      /\ Timed(e, w) /\ Locked(s, w) /\ Routed(s, e, w) /\ e.gen \in Nat
  BY EntryFields DEF Local
<1>4. d.active = e.active /\ d.activating = e.activating /\ d.blocked = e.blocked
  BY <1>1 DEF SamePlaces
<1>5. Entrusted(s, d, v)
  BY <1>1, <1>2, <1>3 DEF Entrusted
<1>6. Underway(v)
  BY <1>2 DEF Underway, Early, Trial, Halting
<1>7. Placed(s, d, v)
  BY <1>1, <1>2, <1>3 DEF Placed
<1>8. Active(s, d, v)
  BY <1>1, <1>3, <1>4 DEF Active
<1>9. Lost(s, d, v)
  BY <1>1, <1>3 DEF Lost
<1>10. Timed(d, v)
  BY <1>1, <1>3 DEF Timed
<1>11. Locked(s, v)
  BY <1>2, <1>3 DEF Locked
<1>12. Routed(s, d, v)
  <2>1. ~ByEntry(s, route[s], e, w) /\ ~ByWorker(route[s], w)
    BY DEF ByEntry, Still, ByWorker
  <2> QED
    BY <1>3, <2>1 DEF Routed
<1>13. Local(s, d, v)
  BY <1>5, <1>6, <1>7, <1>8, <1>9, <1>10, <1>11, <1>12 DEF Local
<1>14. Known(d, v) \subseteq Known(e, w) /\ Mine(d, v) \subseteq Mine(e, w)
  BY <1>2, <1>4 DEF Known, Mine
<1> QED
  BY <1>1, <1>2, <1>13, <1>14

\* What startAvailableLocked leaves of a server.
LEMMA Starts ==
  ASSUME NEW en \in [Servers -> EntrySet], NEW wk \in [Servers -> WorkSet], NEW n, StartAvailable(en, wk, n)
  PROVE  /\ DOMAIN entry' = Servers /\ DOMAIN work' = Servers
         /\ entry' = [s \in Servers |-> entry'[s]] /\ work' = [s \in Servers |-> work'[s]]
         /\ \A s \in Servers :
              \/ entry'[s] = en[s] /\ work'[s] = wk[s]
              \/ /\ en[s].pending /\ wk[s].pc = "idle" /\ ~draining
                 /\ entry'[s] = Begun(en[s]) /\ work'[s] = NewWork(en[s])
<1> DEFINE startable == {s \in Servers : en[s].pending /\ ~en[s].unsettled /\ wk[s].pc = "idle"}
           places    == IF n >= MaxReconciliations THEN 0 ELSE MaxReconciliations - n
           count     == IF draining THEN 0
                        ELSE IF Cardinality(startable) < places THEN Cardinality(startable) ELSE places
<1>1. PICK S \in kSubset(count, startable) :
         /\ entry' = [s \in Servers |-> IF s \in S THEN Begun(en[s]) ELSE en[s]]
         /\ work' = [s \in Servers |-> IF s \in S THEN NewWork(en[s]) ELSE wk[s]]
  BY Zenon DEF StartAvailable
<1>2. S \subseteq startable /\ (draining => Cardinality(S) = 0)
  <2>1. S \in SUBSET startable /\ Cardinality(S) = count
    <3> HIDE DEF startable, count
    <3> QED
      BY <1>1 DEF kSubset
  <2> QED
    BY <2>1
<1>3. draining => S = {}
  <2>1. S \subseteq Servers
    BY <1>2
  <2>2. IsFiniteSet(S)
    BY <2>1, FS_Subset, NamesAssumption
  <2> QED
    BY <1>2, <2>2, FS_EmptySet
<1> QED
  BY <1>1, <1>2, <1>3

\* What the goroutines that trigger may do without anybody noticing.
Discreet ==
  /\ call' \in [Callers -> CallSet]
  /\ \A c \in Callers : /\ call'[c].server = call[c].server /\ call'[c].rev = call[c].rev
                        /\ call'[c].targets = call[c].targets
                        /\ call'[c].pc = "idle" <=> call[c].pc = "idle"
                        /\ call'[c].pc # call[c].pc => call[c].targets = {} /\ call'[c].pc # "refresh"
                        /\ call[c].pc \in {"refresh", "trigger", "rejected"} => call'[c].pc = call[c].pc

LEMMA Unnoticed ==
  ASSUME NEW s \in Servers, NEW d \in EntrySet, NEW v \in WorkSet, Local(s, d, v), Discreet,
         UNCHANGED <<desired, stoppers, owner, handles, quiet, route, lock, drain>>
  PROVE  Local(s, d, v)'
<1>1. /\ Entrusted(s, d, v) /\ Underway(v) /\ Placed(s, d, v) /\ Active(s, d, v) /\ Lost(s, d, v)
      /\ Timed(d, v) /\ Locked(s, v) /\ Routed(s, d, v)
  BY DEF Local
<1>2. d.operation \in Maybe(Ops) /\ v.op \in Maybe(Ops)
  BY Fields, EntryFields
<1>3. Entrusted(s, d, v)'
  <2>1. \A o \in Maybe(Ops) : o # None => call'[o].server = call[o].server /\ call'[o].rev = call[o].rev
    BY DEF Discreet, Maybe, Callers
  <2> QED
    BY <1>1, <1>2, <2>1 DEF Entrusted
<1>4. Underway(v)' /\ Timed(d, v)'
  BY <1>1 DEF Underway, Idle, Timed
<1>5. Placed(s, d, v)'
  BY <1>1 DEF Placed, Held, draining
<1>6. Active(s, d, v)' /\ Lost(s, d, v)'
  BY <1>1 DEF Active, draining, Lost
<1>7. Locked(s, v)'
  BY <1>1 DEF Locked
<1>8. Routed(s, d, v)'
  <2>1. PICK r : r = route[s]
    OBVIOUS
  <2>2. RefreshRejected(s) => RefreshRejected(s)'
    BY DEF RefreshRejected, Discreet, Callers
  <2>3. ByStopper(s, r)' = ByStopper(s, r) /\ ByWorker(r, v)' = ByWorker(r, v)
    BY DEF ByStopper, ByWorker
  <2>4. ByCall(s, r) => ByCall(s, r)'
    BY DEF ByCall, Discreet
  <2>5. Coming(s) => Coming(s)'
    BY DEF Coming, Discreet
  <2>6. ByEntry(s, r, d, v) => ByEntry(s, r, d, v)'
    BY <2>5 DEF ByEntry, Still
  <2>7. r # None /\ r.live /\ drain.pc = "none" =>
          RefreshRejected(s) \/ ByWorker(r, v) \/ ByStopper(s, r) \/ ByCall(s, r) \/ ByEntry(s, r, d, v)
    BY <1>1, <2>1 DEF Routed
  <2>8. r # None /\ r.live /\ drain.pc = "none" =>
          RefreshRejected(s)' \/ ByWorker(r, v)' \/ ByStopper(s, r)' \/ ByCall(s, r)' \/ ByEntry(s, r, d, v)'
    BY <2>2, <2>3, <2>4, <2>6, <2>7
  <2>9. route'[s] = r /\ drain' = drain
    BY <2>1
  <2> QED
    BY <2>8, <2>9 DEF Routed
<1> QED
  BY <1>3, <1>4, <1>5, <1>6, <1>7, <1>8 DEF Local

\* A step that only rearranges entries and workers.
LEMMA Rearranged ==
  ASSUME ManagerInv, entry' \in [Servers -> EntrySet], work' \in [Servers -> WorkSet], Advanced, Discreet,
         UNCHANGED <<desired, stoppers, owner, handles, quiet, route, lock, drain, issued>>,
         \A s \in Servers :
           /\ Known(entry'[s], work'[s]) \subseteq Known(entry[s], work[s])
           /\ Mine(entry'[s], work'[s]) \subseteq Mine(entry[s], work[s])
           /\ \E d, v : d = entry'[s] /\ v = work'[s] /\ Local(s, d, v)
  PROVE  ManagerInv'
<1>1. Shape'
  BY DEF Shape, ManagerInv, Advanced, Discreet
<1>2. Standing'
  <2>1. \A c \in Callers : /\ call'[c].pc = "idle" <=> call'[c].server = None
                           /\ call'[c].targets # {} => call'[c].pc = "withdraw"
                           /\ call'[c].pc = "refresh" => c \in Callbacks
    BY DEF Discreet, Standing, ManagerInv
  <2>2. \A o \in Ops : call'[o].server = call[o].server /\ call'[o].rev = call[o].rev
    BY DEF Discreet, Callers, Ops
  <2> QED
    BY <2>1, <2>2 DEF Standing, ManagerInv, Advanced
<1>3. Numbered'
  BY DEF Numbered, ManagerInv, Known
<1>4. Distinct'
  <2> SUFFICES ASSUME NEW q \in Servers, NEW c \in Mine(entry'[q], work'[q])
               PROVE  /\ \A r \in Servers \ {q} : \A x \in Mine(entry'[r], work'[r]) : x.id # c.id
                      /\ \A x \in Mine(entry'[q], work'[q]) \cup handles : x.id = c.id => x = c
    BY DEF Distinct, Mine
  <2>1. \A r \in Servers : Mine(entry'[r], work'[r]) \subseteq Mine(entry[r], work[r])
    OBVIOUS
  <2> HIDE DEF Mine
  <2> QED
    BY <2>1 DEF ManagerInv, Distinct
<1>5. ASSUME NEW s \in Servers PROVE Local(s, entry[s], work[s])'
  <2>1. PICK d, v : d = entry'[s] /\ v = work'[s] /\ Local(s, d, v)
    BY <1>5
  <2>2. Local(s, d, v)'
    BY <1>5, <2>1, Unnoticed
  <2> QED
    BY <2>1, <2>2
<1> QED
  BY <1>1, <1>2, <1>3, <1>4, <1>5 DEF ManagerInv

\* The same when work is started besides.
LEMMA Restarted ==
  ASSUME ManagerInv, NEW en \in [Servers -> EntrySet], NEW wk \in [Servers -> WorkSet], NEW n,
         StartAvailable(en, wk, n), Advanced, Discreet,
         UNCHANGED <<desired, stoppers, owner, handles, quiet, route, lock, drain, issued>>,
         \A s \in Servers :
           /\ Known(en[s], wk[s]) \subseteq Known(entry[s], work[s])
           /\ Mine(en[s], wk[s]) \subseteq Mine(entry[s], work[s])
           /\ \E d, v : d = en[s] /\ v = wk[s] /\ Local(s, d, v)
  PROVE  ManagerInv'
<1>1. ASSUME NEW s \in Servers
      PROVE  /\ entry'[s] \in EntrySet /\ work'[s] \in WorkSet
             /\ Known(entry'[s], work'[s]) \subseteq Known(entry[s], work[s])
             /\ Mine(entry'[s], work'[s]) \subseteq Mine(entry[s], work[s])
             /\ \E d, v : d = entry'[s] /\ v = work'[s] /\ Local(s, d, v)
  <2>1. PICK d, v : d = en[s] /\ v = wk[s] /\ Local(s, d, v) /\ d \in EntrySet /\ v \in WorkSet
    BY <1>1
  <2>2. CASE entry'[s] = d /\ work'[s] = v
    BY <1>1, <2>1, <2>2
  <2>3. CASE d.pending /\ v.pc = "idle" /\ ~draining /\ entry'[s] = Begun(d) /\ work'[s] = NewWork(d)
    <3>1. /\ Begun(d) \in EntrySet /\ NewWork(d) \in WorkSet /\ Local(s, Begun(d), NewWork(d))
          /\ Known(Begun(d), NewWork(d)) \subseteq Known(d, v)
          /\ Mine(Begun(d), NewWork(d)) \subseteq Mine(d, v)
      BY <1>1, <2>1, <2>3, Begins
    <3> QED
      BY <1>1, <2>1, <2>3, <3>1
  <2> QED
    BY <1>1, <2>1, <2>2, <2>3, Starts
<1>2. entry' \in [Servers -> EntrySet] /\ work' \in [Servers -> WorkSet]
  <2>1. entry' = [s \in Servers |-> entry'[s]] /\ work' = [s \in Servers |-> work'[s]]
    BY Starts
  <2> QED
    BY <1>1, <2>1
<1> QED
  BY <1>1, <1>2, Rearranged

LEMMA DiscreetCalls ==
  ASSUME ManagerInv, UNCHANGED call
  PROVE  Discreet
BY DEF Discreet, ManagerInv, Shape

\* One server is changed before work is started.
LEMMA RestartedAfter ==
  ASSUME ManagerInv, NEW s \in Servers, NEW d \in EntrySet, NEW v \in WorkSet, NEW n,
         StartAvailable([entry EXCEPT ![s] = d], [work EXCEPT ![s] = v], n), Advanced, Discreet,
         UNCHANGED <<desired, stoppers, owner, handles, quiet, route, lock, drain, issued>>,
         Known(d, v) \subseteq Known(entry[s], work[s]), Mine(d, v) \subseteq Mine(entry[s], work[s]),
         Local(s, d, v)
  PROVE  ManagerInv'
<1>1. entry \in [Servers -> EntrySet] /\ work \in [Servers -> WorkSet]
  BY At
<1>2. PICK en \in [Servers -> EntrySet], wk \in [Servers -> WorkSet] :
         en = [entry EXCEPT ![s] = d] /\ wk = [work EXCEPT ![s] = v]
  BY <1>1
<1>3. ASSUME NEW r \in Servers
      PROVE  /\ Known(en[r], wk[r]) \subseteq Known(entry[r], work[r])
             /\ Mine(en[r], wk[r]) \subseteq Mine(entry[r], work[r])
             /\ \E x, y : x = en[r] /\ y = wk[r] /\ Local(r, x, y)
  <2>1. CASE r = s
    <3>1. en[r] = d /\ wk[r] = v
      BY <1>1, <1>2, <2>1
    <3> QED
      BY <2>1, <3>1
  <2>2. CASE r # s
    <3>1. en[r] = entry[r] /\ wk[r] = work[r]
      BY <1>1, <1>2, <2>2
    <3>2. PICK x, y : x = entry[r] /\ y = work[r]
      OBVIOUS
    <3>3. Local(r, x, y)
      BY <3>2 DEF ManagerInv
    <3> QED
      BY <3>1, <3>2, <3>3
  <2> QED
    BY <2>1, <2>2
<1>4. StartAvailable(en, wk, n)
  BY <1>2
<1> QED
  BY <1>3, <1>4, Restarted

LEMMA RetryFiresInv ==
  ASSUME ManagerInv, NEW s \in Servers, RetryFires(s)
  PROVE  ManagerInv'
<1>1. PICK e \in EntrySet, w \in WorkSet : /\ e = entry[s] /\ w = work[s] /\ Local(s, e, w)
                                           /\ work \in [Servers -> WorkSet]
  BY At
<1>2. e.timer # None /\ e.timer = e.gen /\ ~draining
  BY <1>1 DEF RetryFires, Current
<1>3. /\ Entrusted(s, e, w) /\ Underway(w) /\ Placed(s, e, w) /\ Active(s, e, w) /\ Lost(s, e, w)
      /\ Timed(e, w) /\ Locked(s, w) /\ Routed(s, e, w) /\ e.gen \in Nat /\ w.gen \in Nat
      /\ e.active \in Maybe(Candidate)
  BY <1>1, Fields, EntryFields DEF Local
<1>4. PICK d \in EntrySet :
        /\ d = [e EXCEPT !.timer = None, !.gen = @ + 1, !.pending = TRUE] /\ d.gen = e.gen + 1 /\ d.timer = None
        /\ SamePlaces(e, d) /\ d.operation = e.operation
  <2>1. PICK n \in Nat : n = e.gen + 1
    BY <1>3
  <2> DEFINE d == [e EXCEPT !.timer = None, !.gen = n, !.pending = TRUE]
  <2>2. d \in EntrySet
    BY DEF EntrySet, Maybe
  <2>3. d.gen = n /\ d.timer = None /\ SamePlaces(e, d) /\ d.operation = e.operation
    BY DEF EntrySet, SamePlaces
  <2>4. d = [e EXCEPT !.timer = None, !.gen = @ + 1, !.pending = TRUE]
    BY <2>1
  <2> QED
    BY <2>1, <2>2, <2>3, <2>4
<1>5. d.active = e.active /\ d.activating = e.activating /\ d.blocked = e.blocked
  BY <1>4 DEF SamePlaces
<1>6. Local(s, d, w)
  <2>1. Entrusted(s, d, w)
    BY <1>3, <1>4 DEF Entrusted
  <2>2. Placed(s, d, w)
    BY <1>2, <1>3, <1>4 DEF Placed
  <2>3. Active(s, d, w)
    <3>1. e.active # None => e.active.gen \in Nat
      BY <1>3 DEF Maybe, Candidate
    <3> QED
      BY <1>2, <1>3, <1>4, <1>5, <3>1 DEF Active
  <2>4. Lost(s, d, w)
    <3>1. \A t \in stoppers : t.gen \in Nat
      BY DEF ManagerInv, Shape, StopperSet
    <3> QED
      BY <1>3, <1>4, <3>1 DEF Lost
  <2>5. Timed(d, w)
    BY <1>4 DEF Timed
  <2>6. Routed(s, d, w)
    BY <1>2, <1>3 DEF Routed, ByEntry, Still
  <2> QED
    BY <1>3, <2>1, <2>2, <2>3, <2>4, <2>5, <2>6 DEF Local
<1>7. Known(d, w) \subseteq Known(e, w) /\ Mine(d, w) \subseteq Mine(e, w)
  BY <1>5 DEF Known, Mine
<1>8. /\ UNCHANGED <<desired, ops, call, stoppers, owner, handles, quiet, route, lock, drain, issued>>
      /\ StartAvailable([entry EXCEPT ![s] = d], work, inUse)
  BY <1>1, <1>4 DEF RetryFires, store, driver, catalog
<1>9. Advanced /\ Discreet
  BY <1>8, DiscreetCalls DEF Advanced, ManagerInv, Shape
<1>10. [work EXCEPT ![s] = w] = work
  BY <1>1
<1> QED
  BY <1>1, <1>6, <1>7, <1>8, <1>9, <1>10, RestartedAfter

LEMMA FinishWorkInv ==
  ASSUME ManagerInv, NEW s \in Servers, FinishWork(s)
  PROVE  ManagerInv'
<1>1. PICK e \in EntrySet, w \in WorkSet : e = entry[s] /\ w = work[s] /\ Local(s, e, w)
  BY At
<1>2. /\ w.pc = "finish"
      /\ UNCHANGED <<desired, call, stoppers, owner, handles, quiet, route, lock, drain, issued>>
  BY <1>1 DEF FinishWork, driver, catalog
<1>3. /\ Entrusted(s, e, w) /\ Underway(w) /\ Placed(s, e, w) /\ Active(s, e, w) /\ Lost(s, e, w)
      /\ Timed(e, w) /\ Locked(s, w) /\ Routed(s, e, w) /\ e.gen \in Nat /\ w.gen \in Nat
      /\ e.pending \in BOOLEAN /\ w.cleanupOnly \in BOOLEAN /\ w.op \in Maybe(Ops)
  BY <1>1, Fields, EntryFields DEF Local
<1>4. Advanced
  <2>1. \/ UNCHANGED ops
        \/ ops' = [o \in Ops |-> IF o = w.op /\ ops[o] \notin Terminal THEN "superseded" ELSE ops[o]]
    BY <1>1, Zenon DEF FinishWork
  <2>2. ops \in [Ops -> {"none"} \cup Nonterminal \cup Terminal]
    BY DEF ManagerInv, Shape
  <2>3. w.op \in Ops => ops[w.op] # "none"
    BY <1>3, NamesAssumption DEF Entrusted, ManagerInv, Standing, Ops
  <2>4. "superseded" \in Terminal /\ "superseded" # "none" /\ "superseded" \notin Nonterminal
    BY DEF Terminal, Nonterminal
  <2> QED
    BY <2>1, <2>2, <2>3, <2>4 DEF Advanced
<1>11. PICK n : n = IF inUse > 0 THEN inUse - 1 ELSE 0
  OBVIOUS
<1>5. PICK d \in EntrySet :
        /\ StartAvailable([entry EXCEPT ![s] = d], [work EXCEPT ![s] = Idle], n)
        /\ d.gen = e.gen /\ d.timer = e.timer /\ SamePlaces(e, d) /\ d.operation = e.operation
        /\ d.pending => e.pending \/ w.cleanupOnly
  <2> DEFINE p  == e.pending \/ w.cleanupOnly
             d1 == [e EXCEPT !.unsettled = TRUE, !.pending = FALSE, !.status = "degraded"]
             d2 == [e EXCEPT !.pending = p]
  <2>1. p \in BOOLEAN
    OBVIOUS
  <2>2. \/ StartAvailable([entry EXCEPT ![s] = e], [work EXCEPT ![s] = Idle], n)
        \/ StartAvailable([entry EXCEPT ![s] = d1], [work EXCEPT ![s] = Idle], n)
        \/ StartAvailable([entry EXCEPT ![s] = d2], [work EXCEPT ![s] = Idle], n)
    <3> DEFINE left(failed) == IF draining THEN e ELSE IF failed THEN d1 ELSE d2
    <3>1. \E failed \in BOOLEAN : Release(s, [entry EXCEPT ![s] = left(failed)])
      BY <1>1, Zenon DEF FinishWork
    <3>2. PICK failed \in BOOLEAN : Release(s, [entry EXCEPT ![s] = left(failed)])
      BY <3>1
    <3>3. StartAvailable([entry EXCEPT ![s] = left(failed)], [work EXCEPT ![s] = Idle], n)
      BY <1>11, <3>2 DEF Release
    <3>4. left(failed) \in {e, d1, d2}
      OBVIOUS
    <3> HIDE DEF left, d1, d2
    <3> QED
      BY <3>3, <3>4
  <2> HIDE DEF p
  <2>3. /\ d1 \in EntrySet /\ d1.gen = e.gen /\ d1.timer = e.timer /\ SamePlaces(e, d1)
        /\ d1.operation = e.operation /\ ~d1.pending
    BY DEF EntrySet, SamePlaces, Statuses
  <2>4. /\ d2 \in EntrySet /\ d2.gen = e.gen /\ d2.timer = e.timer /\ SamePlaces(e, d2)
        /\ d2.operation = e.operation /\ d2.pending = p
    BY <2>1 DEF EntrySet, SamePlaces
  <2>5. SamePlaces(e, e) /\ (p => e.pending \/ w.cleanupOnly)
    BY DEF SamePlaces, p
  <2> HIDE DEF d1, d2
  <2> QED
    BY <2>2, <2>3, <2>4, <2>5
<1>6. d.active = e.active /\ d.activating = e.activating /\ d.blocked = e.blocked
  BY <1>5 DEF SamePlaces
<1>7. PICK v \in WorkSet : /\ v = Idle /\ v.pc = "idle" /\ v.gen = 0 /\ v.op = None /\ v.cleanupOnly = FALSE
                           /\ v.cand = None /\ v.snap = None /\ v.target = None
  BY IdleIsWork DEF Idle
<1>8. Local(s, d, v)
  <2>1. Entrusted(s, d, v)
    BY <1>3, <1>5, <1>7 DEF Entrusted
  <2>2. Underway(v)
    BY <1>7 DEF Underway, Early, Trial, Halting
  <2>3. Placed(s, d, v)
    BY <1>3, <1>5, <1>7 DEF Placed, Gone
  <2>4. Active(s, d, v)
    BY <1>3, <1>5, <1>6, <1>7 DEF Active, Gone
  <2>5. Lost(s, d, v)
    BY <1>3, <1>5, <1>6, <1>7 DEF Lost
  <2>6. Timed(d, v)
    BY <1>3, <1>5, <1>7 DEF Timed, Gone
  <2>7. Locked(s, v)
    BY <1>2, <1>3, <1>7 DEF Locked
  <2>8. Routed(s, d, v)
    <3>1. ~ByWorker(route[s], w)
      BY <1>2 DEF ByWorker
    <3>2. ByEntry(s, route[s], e, w) => ByEntry(s, route[s], d, v)
      BY <1>5, <1>6, <1>7 DEF ByEntry, Still, Gone
    <3> QED
      BY <1>3, <3>1, <3>2 DEF Routed
  <2> QED
    BY <2>1, <2>2, <2>3, <2>4, <2>5, <2>6, <2>7, <2>8 DEF Local
<1>9. Known(d, v) \subseteq Known(e, w) /\ Mine(d, v) \subseteq Mine(e, w)
  BY <1>6, <1>7 DEF Known, Mine
<1>10. Discreet
  BY <1>2, DiscreetCalls
<1> QED
  BY <1>1, <1>2, <1>4, <1>5, <1>7, <1>8, <1>9, <1>10, RestartedAfter

\* Facts on the goroutines that trigger.
LEMMA CallFields ==
  ASSUME NEW k \in CallSet
  PROVE  /\ k.pc \in {"idle", "refresh", "rejected", "trigger", "withdraw", "done"}
         /\ k.server \in Maybe(Servers) /\ k.rev \in Nat /\ k.off \in BOOLEAN /\ k.gen \in Nat
         /\ k.targets \in SUBSET Candidate
BY DEF CallSet

LEMMA TriggerReturnsInv ==
  ASSUME ManagerInv, NEW c \in Callers, TriggerReturns(c)
  PROVE  ManagerInv'
<1>1. call \in [Callers -> CallSet] /\ entry \in [Servers -> EntrySet] /\ work \in [Servers -> WorkSet]
  BY DEF ManagerInv, Shape
<1>2. PICK k \in CallSet : k = call[c]
  BY <1>1
<1>3. /\ k.pc = "withdraw" /\ k.targets = {} /\ StartAvailable(entry, work, inUse)
      /\ UNCHANGED <<desired, ops, stoppers, owner, handles, quiet, route, lock, drain, issued>>
      /\ call' = [call EXCEPT ![c].pc = "done", ![c].gen = 0]
  BY <1>2 DEF TriggerReturns, store, driver, catalog
<1>4. PICK l \in CallSet : /\ l = [k EXCEPT !.pc = "done", !.gen = 0] /\ l.pc = "done" /\ l.server = k.server
                           /\ l.rev = k.rev /\ l.targets = k.targets
  <2> DEFINE l == [k EXCEPT !.pc = "done", !.gen = 0]
  <2>1. l \in CallSet /\ l.pc = "done" /\ l.server = k.server /\ l.rev = k.rev /\ l.targets = k.targets
    BY DEF CallSet
  <2> QED
    BY <2>1
<1>5. call' = [call EXCEPT ![c] = l]
  BY <1>1, <1>2, <1>3, <1>4
<1>6. Discreet
  BY <1>1, <1>2, <1>3, <1>4, <1>5 DEF Discreet
<1>7. Advanced
  BY <1>3 DEF Advanced, ManagerInv, Shape
<1>8. ASSUME NEW s \in Servers PROVE \E d, v : d = entry[s] /\ v = work[s] /\ Local(s, d, v)
  <2>1. PICK d, v : d = entry[s] /\ v = work[s]
    OBVIOUS
  <2> QED
    BY <1>8, <2>1 DEF ManagerInv
<1> QED
  BY <1>1, <1>3, <1>6, <1>7, <1>8, Restarted

-----------------------------------------------------------------------------
(* The goroutines that trigger. *)

LEMMA Called ==
  ASSUME ManagerInv, NEW c \in Callers, NEW s \in Servers, NEW d \in EntrySet, NEW v \in WorkSet,
         NEW l \in CallSet, entry' = [entry EXCEPT ![s] = d], work' = [work EXCEPT ![s] = v],
         call' = [call EXCEPT ![c] = l], call[c].server \in {s, None}, l.server = s,
         desired' \in [Servers -> Snapshot], \A r \in Servers \ {s} : desired'[r] = desired[r],
         ops' \in [Ops -> {"none"} \cup Nonterminal \cup Terminal], Standing',
         route' \in [Servers -> Maybe(RouteSet)], \A r \in Servers \ {s} : route'[r] = route[r],
         UNCHANGED <<stoppers, owner, handles, quiet, lock, drain, issued>>,
         Known(d, v) \subseteq Known(entry[s], work[s]), Mine(d, v) \subseteq Mine(entry[s], work[s]),
         Local(s, d, v)'
  PROVE  ManagerInv'
<1>1. /\ entry \in [Servers -> EntrySet] /\ work \in [Servers -> WorkSet] /\ call \in [Callers -> CallSet]
      /\ stoppers \in SUBSET StopperSet
  BY DEF ManagerInv, Shape
<1>2. entry'[s] = d /\ work'[s] = v /\ \A r \in Servers \ {s} : entry'[r] = entry[r] /\ work'[r] = work[r]
  BY <1>1
<1>3. Shape'
  <2>1. /\ entry' \in [Servers -> EntrySet] /\ work' \in [Servers -> WorkSet]
        /\ call' \in [Callers -> CallSet]
    BY <1>1
  <2> QED
    BY <2>1 DEF Shape, ManagerInv
<1>4. \A r \in Servers : /\ Known(entry'[r], work'[r]) \subseteq Known(entry[r], work[r])
                         /\ Mine(entry'[r], work'[r]) \subseteq Mine(entry[r], work[r])
  BY <1>2
<1>5. Numbered'
  BY <1>4 DEF Numbered, ManagerInv, Known
<1>6. Distinct'
  <2> SUFFICES ASSUME NEW q \in Servers, NEW x \in Mine(entry'[q], work'[q])
               PROVE  /\ \A r \in Servers \ {q} : \A y \in Mine(entry'[r], work'[r]) : y.id # x.id
                      /\ \A y \in Mine(entry'[q], work'[q]) \cup handles : y.id = x.id => y = x
    BY DEF Distinct
  <2>1. \A r \in Servers : Mine(entry'[r], work'[r]) \subseteq Mine(entry[r], work[r])
    BY <1>4
  <2>2. \A r \in Servers : \A z \in Mine(entry[r], work[r]) :
          /\ \A k \in Servers \ {r} : \A y \in Mine(entry[k], work[k]) : y.id # z.id
          /\ \A y \in Mine(entry[r], work[r]) \cup handles : y.id = z.id => y = z
    BY DEF ManagerInv, Distinct
  <2> HIDE DEF Mine
  <2>3. x \in Mine(entry[q], work[q])
    BY <2>1
  <2>4. \A r \in Servers \ {q} : \A y \in Mine(entry'[r], work'[r]) : y.id # x.id
    BY <2>1, <2>2, <2>3, SMTT(40)
  <2>5. \A y \in Mine(entry'[q], work'[q]) \cup handles : y.id = x.id => y = x
    <3> SUFFICES ASSUME NEW y \in Mine(entry'[q], work'[q]) \cup handles, y.id = x.id PROVE y = x
      OBVIOUS
    <3>1. y \in Mine(entry[q], work[q]) \cup handles
      BY <2>1
    <3> QED
      BY <2>2, <2>3, <3>1
  <2> QED
    BY <2>4, <2>5
<1>7. ASSUME NEW r \in Servers \ {s} PROVE Local(r, entry[r], work[r])'
  <2>1. \A k \in Callers : call[k].server = r \/ call'[k].server = r => call'[k] = call[k]
    <3> SUFFICES ASSUME NEW k \in Callers, call[k].server = r \/ call'[k].server = r
                 PROVE  call'[k] = call[k]
      OBVIOUS
    <3>1. r # None
      BY NamesAssumption
    <3>2. k # c
      BY <1>1, <1>7, <3>1
    <3> QED
      BY <1>1, <3>2
  <2>2. Unmoved(r)
    BY <1>2, <1>7, <2>1 DEF Unmoved
  <2>3. drain.pc \notin {"none", "routes"} => lock' = None
    BY DEF ManagerInv, Local, Locked
  <2> QED
    BY <1>1, <2>2, <2>3, Elsewhere
<1>8. Local(s, entry[s], work[s])'
  BY <1>2
<1> QED
  BY <1>3, <1>5, <1>6, <1>7, <1>8 DEF ManagerInv

\* What the caller c may do to the promises about the routes of s.
LEMMA RoutedByCall ==
  ASSUME NEW s \in Servers, NEW e, NEW d, NEW w, NEW v, NEW c \in Callers, NEW l \in CallSet,
         call \in [Callers -> CallSet], call' = [call EXCEPT ![c] = l], UNCHANGED <<stoppers, drain>>,
         route'[s] = route[s], Routed(s, e, w), call[c].pc # "rejected",
         route[s] # None /\ ByWorker(route[s], w) => ByWorker(route[s], v),
         drain.pc # "none"
           \/ (\A x \in call[c].targets : call[c].server = s /\ route[s] # None /\ Match(route[s], x)
                 => l.server = s /\ x \in l.targets),
         route[s] # None /\ drain.pc = "none" /\ ByEntry(s, route[s], e, w)
           => RefreshRejected(s)' \/ ByCall(s, route[s])' \/ ByEntry(s, route[s], d, v)'
  PROVE  Routed(s, d, v)'
<1>1. PICK r : r = route[s]
  OBVIOUS
<1>2. \A k \in Callers \ {c} : call'[k] = call[k]
  OBVIOUS
<1>3. RefreshRejected(s) => RefreshRejected(s)'
  BY <1>2 DEF RefreshRejected, Callers
<1>4. ByStopper(s, r)' = ByStopper(s, r) /\ ByWorker(r, v)' = ByWorker(r, v)
  BY DEF ByStopper, ByWorker
<1>5. r # None /\ drain.pc = "none" /\ ByCall(s, r) => ByCall(s, r)'
  <2> SUFFICES ASSUME r # None, drain.pc = "none", NEW k \in Callers, call[k].server = s,
                      NEW x \in call[k].targets, Match(r, x)
               PROVE  ByCall(s, r)'
    BY DEF ByCall
  <2>1. CASE k = c
    <3>1. l.server = s /\ x \in l.targets /\ call'[c] = l
      BY <1>1, <2>1
    <3> QED
      BY <3>1 DEF ByCall, Match
  <2>2. CASE k # c
    BY <1>2, <2>2 DEF ByCall, Match
  <2> QED
    BY <2>1, <2>2
<1>6. ByCall(s, route[s])' = ByCall(s, r)' /\ ByEntry(s, route[s], d, v)' = ByEntry(s, r, d, v)'
  BY <1>1
<1>7. r # None /\ r.live /\ drain.pc = "none" =>
          RefreshRejected(s) \/ ByWorker(r, w) \/ ByStopper(s, r) \/ ByCall(s, r) \/ ByEntry(s, r, e, w)
  BY <1>1 DEF Routed
<1>8. r # None /\ r.live /\ drain.pc = "none" =>
          RefreshRejected(s)' \/ ByWorker(r, v)' \/ ByStopper(s, r)' \/ ByCall(s, r)' \/ ByEntry(s, r, d, v)'
  BY <1>1, <1>3, <1>4, <1>5, <1>6, <1>7
<1> QED
  BY <1>1, <1>8 DEF Routed

\* The generation moves on, and perhaps work is queued: nothing is claimed for it yet.
LEMMA Outdated ==
  ASSUME NEW s \in Servers, NEW e \in EntrySet, NEW d \in EntrySet, NEW w \in WorkSet, NEW v \in WorkSet,
         Local(s, e, w), d.gen = e.gen + 1, d.active = e.active, d.timer \in {e.timer, None},
         v.gen = w.gen, stoppers \in SUBSET StopperSet, UNCHANGED <<stoppers, drain>>
  PROVE  Placed(s, d, v)' /\ Active(s, d, v)' /\ Lost(s, d, v)' /\ Timed(d, v)'
<1>1. /\ Placed(s, e, w) /\ Active(s, e, w) /\ Lost(s, e, w) /\ Timed(e, w) /\ e.gen \in Nat /\ w.gen \in Nat
      /\ e.active \in Maybe(Candidate) /\ e.timer \in Maybe(Nat) /\ d.gen \in Nat
  BY Fields, EntryFields DEF Local
<1>2. draining' = draining
  BY DEF draining
<1>3. Placed(s, d, v)'
  BY <1>1, <1>2 DEF Placed
<1>4. Active(s, d, v)'
  <2>1. e.active # None => e.active.gen \in Nat
    BY <1>1 DEF Maybe, Candidate
  <2>2. d.active # None => ~draining /\ e.active.gen < d.gen
    BY <1>1, <2>1 DEF Active
  <2> QED
    BY <1>1, <1>2, <2>1, <2>2 DEF Active
<1>5. Lost(s, d, v)'
  <2>1. \A t \in stoppers : t.gen \in Nat
    BY DEF StopperSet
  <2> QED
    BY <1>1, <2>1 DEF Lost
<1>6. Timed(d, v)'
  BY <1>1 DEF Timed, Maybe
<1> QED
  BY <1>3, <1>4, <1>5, <1>6

LEMMA PatchInv ==
  ASSUME ManagerInv, NEW c \in Callers, NEW s \in Servers, Patch(c, s)
  PROVE  ManagerInv'
<1>1. PICK e \in EntrySet, w \in WorkSet : /\ e = entry[s] /\ w = work[s] /\ Local(s, e, w)
         /\ entry = [entry EXCEPT ![s] = e] /\ work \in [Servers -> WorkSet]
         /\ route \in [Servers -> Maybe(RouteSet)]
  BY At
<1>2. /\ call \in [Callers -> CallSet] /\ desired \in [Servers -> Snapshot]
      /\ ops \in [Ops -> {"none"} \cup Nonterminal \cup Terminal]
  BY DEF ManagerInv, Shape
<1>3. PICK k \in CallSet, g \in Snapshot : k = call[c] /\ g = desired[s] /\ g.rev \in Nat /\ g.version \in Nat /\ g.on \in BOOLEAN
  BY <1>2 DEF Snapshot
<1>4. PICK on \in BOOLEAN, ver \in Nat :
        /\ c \in Edits /\ k.pc = "idle"
        /\ desired' = [desired EXCEPT ![s] = [on |-> on, version |-> ver, rev |-> g.rev + 1]]
        /\ ops' = [Superseded(s) EXCEPT ![c] = "scheduled"]
        /\ call' = [call EXCEPT ![c] = [k EXCEPT !.pc = "trigger", !.server = s, !.rev = g.rev + 1, !.off = ~on]]
  <2>1. PICK toggle \in BOOLEAN :
         LET d  == desired[s]
             on == IF toggle THEN ~d.on ELSE d.on
         IN /\ desired' = [desired EXCEPT ![s] =
                              [on |-> on, version |-> IF toggle THEN d.version ELSE d.version + 1,
                               rev |-> d.rev + 1]]
            /\ ops' = [Superseded(s) EXCEPT ![c] = "scheduled"]
            /\ call' = [call EXCEPT ![c] = [@ EXCEPT !.pc = "trigger", !.server = s,
                                                     !.rev = d.rev + 1, !.off = ~on]]
    BY DEF Patch
  <2>5. PICK on \in BOOLEAN : on = IF toggle THEN ~g.on ELSE g.on
    BY <1>3
  <2>6. PICK ver \in Nat : ver = IF toggle THEN g.version ELSE g.version + 1
    <3>1. (IF toggle THEN g.version ELSE g.version + 1) \in Nat
      BY <1>3
    <3> QED
      BY <3>1, Zenon
  <2>3. /\ desired' = [desired EXCEPT ![s] = [on |-> on, version |-> ver, rev |-> g.rev + 1]]
        /\ call' = [call EXCEPT ![c] = [k EXCEPT !.pc = "trigger", !.server = s, !.rev = g.rev + 1, !.off = ~on]]
    BY <1>2, <1>3, <2>1, <2>5, <2>6
  <2>4. c \in Edits /\ k.pc = "idle"
    BY <1>3 DEF Patch
  <2> QED
    BY <2>1, <2>3, <2>4
<1>5. UNCHANGED <<entry, work, stoppers, owner, handles, quiet, route, lock, drain, issued>>
  BY DEF Patch, manager, driver, catalog
<1>6. PICK l \in CallSet : /\ l.pc = "trigger" /\ l.server = s /\ l.rev = g.rev + 1 /\ l.targets = k.targets
                           /\ call' = [call EXCEPT ![c] = l]
  <2>1. PICK n \in Nat : n = g.rev + 1
    BY <1>3
  <2>5. PICK off \in BOOLEAN : off = ~on
    OBVIOUS
  <2>6. PICK x \in Maybe(Servers) : x = s
    BY DEF Maybe
  <2> DEFINE l == [k EXCEPT !.pc = "trigger", !.server = x, !.rev = n, !.off = off]
  <2>2. l \in CallSet
    BY DEF CallSet
  <2>3. l.pc = "trigger" /\ l.server = x /\ l.rev = n /\ l.targets = k.targets
    BY DEF CallSet
  <2>4. call' = [call EXCEPT ![c] = l]
    BY <1>4, <2>1, <2>5, <2>6
  <2> QED
    BY <2>1, <2>2, <2>3, <2>4, <2>6
<1>7. PICK h \in Snapshot : desired' = [desired EXCEPT ![s] = h] /\ h.rev = g.rev + 1
  <2>1. PICK n \in Nat : n = g.rev + 1
    BY <1>3
  <2> DEFINE h == [on |-> on, version |-> ver, rev |-> n]
  <2>2. h \in Snapshot /\ h.rev = n
    BY DEF Snapshot
  <2>3. desired' = [desired EXCEPT ![s] = h]
    BY <1>4, <2>1
  <2> QED
    BY <2>1, <2>2, <2>3
<1>8. /\ k.server = None /\ k.targets = {} /\ c \in Ops /\ None \notin Servers
      /\ \A o \in Callers \ {c} : call'[o] = call[o]
      /\ call'[c] = l
  BY <1>2, <1>3, <1>4, <1>6, NamesAssumption DEF ManagerInv, Standing, Ops
<1>9. /\ desired' \in [Servers -> Snapshot] /\ desired'[s] = h
      /\ \A r \in Servers \ {s} : desired'[r] = desired[r]
  BY <1>2, <1>7
<1>10. /\ ops' \in [Ops -> {"none"} \cup Nonterminal \cup Terminal] /\ ops'[c] = "scheduled"
       /\ \A o \in Ops \ {c} :
            ops'[o] = IF call[o].server = s /\ ops[o] \in Nonterminal THEN "superseded" ELSE ops[o]
  <2>1. PICK f : f = Superseded(s)
    OBVIOUS
  <2>2. /\ f \in [Ops -> {"none"} \cup Nonterminal \cup Terminal]
        /\ \A o \in Ops : f[o] = IF call[o].server = s /\ ops[o] \in Nonterminal THEN "superseded" ELSE ops[o]
    BY <1>2, <2>1 DEF Superseded, Terminal
  <2>3. ops' = [f EXCEPT ![c] = "scheduled"] /\ "scheduled" \in Nonterminal
    BY <1>4, <2>1 DEF Nonterminal
  <2> QED
    BY <1>8, <2>2, <2>3
<1>11. Standing'
  <2>1. \A x \in Callers : /\ call'[x].pc = "idle" <=> call'[x].server = None
                           /\ call'[x].targets # {} => call'[x].pc = "withdraw"
                           /\ call'[x].pc = "refresh" => x \in Callbacks
    BY <1>6, <1>8 DEF ManagerInv, Standing
  <2>2. \A o \in Ops : ops'[o] # "none" <=> call'[o].server \in Servers
    <3> SUFFICES ASSUME NEW o \in Ops PROVE ops'[o] # "none" <=> call'[o].server \in Servers
      OBVIOUS
    <3>1. CASE o = c
      BY <1>6, <1>8, <1>10, <3>1
    <3>2. CASE o # c
      <4>1. o \in Callers \ {c}
        BY <3>2 DEF Callers
      <4> QED
        BY <1>8, <1>10, <3>2, <4>1 DEF ManagerInv, Standing, Nonterminal
    <3> QED
      BY <3>1, <3>2
  <2>3. \A o \in Ops : call'[o].server \in Servers => call'[o].rev <= desired'[call'[o].server].rev
    <3> SUFFICES ASSUME NEW o \in Ops, call'[o].server \in Servers
                 PROVE  call'[o].rev <= desired'[call'[o].server].rev
      OBVIOUS
    <3>1. CASE o = c
      BY <1>3, <1>6, <1>7, <1>8, <1>9, <3>1
    <3>2. CASE o # c
      <4>1. o \in Callers \ {c} /\ call[o] \in CallSet
        BY <1>2, <3>2 DEF Callers
      <4>2. call'[o] = call[o] /\ call[o].rev \in Nat /\ call[o].rev <= desired[call[o].server].rev
        BY <1>8, <4>1, CallFields DEF ManagerInv, Standing
      <4> QED
        BY <1>3, <1>7, <1>9, <4>2
    <3> QED
      BY <3>1, <3>2
  <2>4. \A o \in Ops : ops'[o] \in Nonterminal => call'[o].rev = desired'[call'[o].server].rev
    <3> SUFFICES ASSUME NEW o \in Ops, ops'[o] \in Nonterminal
                 PROVE  call'[o].rev = desired'[call'[o].server].rev
      OBVIOUS
    <3>1. CASE o = c
      BY <1>6, <1>7, <1>8, <1>9, <3>1
    <3>2. CASE o # c
      <4>1. o \in Callers \ {c}
        BY <3>2 DEF Callers
      <4>2. ops'[o] = ops[o] /\ call[o].server # s /\ call'[o] = call[o]
        BY <1>8, <1>10, <3>2, <4>1 DEF Nonterminal
      <4>3. call[o].server \in Servers /\ call[o].rev = desired[call[o].server].rev
        BY <4>2 DEF ManagerInv, Standing, Nonterminal
      <4> QED
        BY <1>9, <4>2, <4>3
    <3> QED
      BY <3>1, <3>2
  <2> QED
    BY <2>1, <2>2, <2>3, <2>4 DEF Standing
<1>12. Entrusted(s, e, w)'
  <2>1. Entrusted(s, e, w) /\ e.operation \in Maybe(Ops) /\ w.op \in Maybe(Ops) /\ w.snap \in Maybe(Snapshot)
    BY <1>1, Fields, EntryFields DEF Local
  <2>2. \A o \in Maybe(Ops) : o # None /\ call[o].server = s => call'[o] = call[o]
    BY <1>3, <1>8 DEF Maybe, Callers
  <2>3. w.snap # None => w.snap.rev \in Nat
    BY <2>1 DEF Maybe, Snapshot
  <2>4. w.snap # None => w.snap.rev < h.rev
    BY <1>3, <1>7, <2>1, <2>3 DEF Entrusted
  <2>5. w.snap # None => w.snap.rev <= h.rev /\ w.snap.rev # h.rev
    BY <1>3, <1>7, <2>3, <2>4
  <2> QED
    BY <1>9, <2>1, <2>2, <2>5 DEF Entrusted
<1>13. Local(s, e, w)'
  <2>1. Routed(s, e, w)'
    <3>1. Coming(s) => Coming(s)'
      BY <1>3, <1>4, <1>8 DEF Coming
    <3>2. ByEntry(s, route[s], e, w) => ByEntry(s, route[s], e, w)'
      BY <1>5, <3>1 DEF ByEntry, Still, Match
    <3>3. /\ call[c].pc # "rejected" /\ call[c].targets = {} /\ route'[s] = route[s] /\ Routed(s, e, w)
          /\ UNCHANGED <<stoppers, drain>>
      BY <1>1, <1>3, <1>4, <1>5, <1>8 DEF Local
    <3>4. /\ route[s] # None /\ ByWorker(route[s], w) => ByWorker(route[s], w)
          /\ \A x \in call[c].targets : call[c].server = s /\ route[s] # None /\ Match(route[s], x)
                 => l.server = s /\ x \in l.targets
      BY <3>3
    <3> QED
      BY <1>2, <1>6, <3>2, <3>3, <3>4, RoutedByCall
  <2>2. Underway(w)' /\ Timed(e, w)' /\ Locked(s, w)'
    BY <1>1, <1>5 DEF Local, Underway, Idle, Timed, Locked
  <2>3. Placed(s, e, w)' /\ Active(s, e, w)' /\ Lost(s, e, w)'
    BY <1>1, <1>5 DEF Local, Placed, Held, Active, Lost, draining
  <2> QED
    BY <1>12, <2>1, <2>2, <2>3 DEF Local
<1>14. Known(e, w) \subseteq Known(e, w) /\ Mine(e, w) \subseteq Mine(e, w) /\ work = [work EXCEPT ![s] = w]
  BY <1>1
<1> QED
  BY <1>1, <1>3, <1>5, <1>6, <1>8, <1>9, <1>10, <1>11, <1>13, <1>14, Called, ZenonT(60)

\* A credential callback fences its server, or goes on to the trigger.
Moves(e, d) == /\ d.gen = e.gen + 1 /\ SamePlaces(e, d) /\ d.timer = e.timer /\ d.pending = e.pending
               /\ d.operation = e.operation

LEMMA CalledBack ==
  ASSUME ManagerInv, NEW c \in Callbacks, NEW s \in Servers, NEW l \in CallSet, NEW h \in Snapshot,
         NEW d \in EntrySet, call' = [call EXCEPT ![c] = l], call[c].server \in {s, None}, l.server = s,
         call[c].pc \in {"idle", "refresh"}, l.pc \in {"refresh", "trigger", "rejected"}, l.targets = {},
         desired' = [desired EXCEPT ![s] = h], h.rev = desired[s].rev, h.on = desired[s].on,
         entry' = [entry EXCEPT ![s] = d], d = entry[s] \/ Moves(entry[s], d),
         UNCHANGED <<ops, work, stoppers, owner, handles, quiet, route, lock, drain, issued>>
  PROVE  ManagerInv'
<1>1. PICK e \in EntrySet, w \in WorkSet : /\ e = entry[s] /\ w = work[s] /\ Local(s, e, w)
         /\ work \in [Servers -> WorkSet] /\ route \in [Servers -> Maybe(RouteSet)]
         /\ stoppers \in SUBSET StopperSet
  BY At
<1>2. /\ call \in [Callers -> CallSet] /\ desired \in [Servers -> Snapshot] /\ c \in Callers
      /\ ops \in [Ops -> {"none"} \cup Nonterminal \cup Terminal]
  BY DEF ManagerInv, Shape, Callers
<1>3. /\ \A o \in Callers \ {c} : call'[o] = call[o]
      /\ call'[c] = l /\ call[c].targets = {}
  BY <1>2 DEF ManagerInv, Standing
<1>4. /\ desired' \in [Servers -> Snapshot] /\ desired'[s] = h
      /\ \A r \in Servers \ {s} : desired'[r] = desired[r]
      /\ \A r \in Servers : desired'[r].rev = desired[r].rev /\ desired'[r].on = desired[r].on
  BY <1>2
<1>5. \A o \in Ops : o \in Callers \ {c} /\ call'[o] = call[o]
  BY <1>3, NamesAssumption DEF Ops, Callers
<1>6. Standing'
  <2>1. \A x \in Callers : /\ call'[x].pc = "idle" <=> call'[x].server = None
                           /\ call'[x].targets # {} => call'[x].pc = "withdraw"
                           /\ call'[x].pc = "refresh" => x \in Callbacks
    BY <1>3, NamesAssumption DEF ManagerInv, Standing
  <2>2. \A o \in Ops : ops'[o] # "none" <=> call'[o].server \in Servers
    BY <1>5 DEF ManagerInv, Standing
  <2>3. \A o \in Ops : call'[o].server \in Servers => call'[o].rev <= desired'[call'[o].server].rev
    BY <1>4, <1>5 DEF ManagerInv, Standing
  <2>4. \A o \in Ops : ops'[o] \in Nonterminal => call'[o].rev = desired'[call'[o].server].rev
    <3>1. \A o \in Ops : ops'[o] \in Nonterminal => call[o].server \in Servers
      BY <1>2 DEF ManagerInv, Standing, Nonterminal
    <3> QED
      BY <1>4, <1>5, <3>1 DEF ManagerInv, Standing
  <2> QED
    BY <2>1, <2>2, <2>3, <2>4 DEF Standing
<1>7. /\ d.active = e.active /\ d.activating = e.activating /\ d.blocked = e.blocked
      /\ d.operation = e.operation /\ d.timer = e.timer /\ d.pending = e.pending
  BY <1>1 DEF Moves, SamePlaces
<1>8. Local(s, d, w)'
  <2>1. /\ Entrusted(s, e, w) /\ e.operation \in Maybe(Ops) /\ w.op \in Maybe(Ops) /\ Routed(s, e, w)
        /\ e.gen \in Nat /\ Timed(e, w) /\ e.timer \in Maybe(Nat)
    BY <1>1, Fields, EntryFields DEF Local
  <2>2. Entrusted(s, d, w)'
    <3>1. \A o \in Maybe(Ops) : o # None => call'[o] = call[o]
      BY <1>5 DEF Maybe
    <3> QED
      BY <1>4, <1>7, <2>1, <3>1 DEF Entrusted
  <2>3. Routed(s, d, w)'
    <3>1. l.pc # "rejected" => Coming(s)'
      BY <1>2, <1>3 DEF Coming
    <3>2. l.pc = "rejected" => RefreshRejected(s)'
      BY <1>3 DEF RefreshRejected
    <3>3. Still(e, w) => Still(d, w)
      <4>1. e.timer # None /\ e.timer # e.gen => e.timer # d.gen
        BY <1>1, <2>1 DEF Timed, Maybe, Moves
      <4> QED
        BY <1>7, <4>1 DEF Still
    <3>4. ByEntry(s, route[s], e, w) => RefreshRejected(s)' \/ ByEntry(s, route[s], d, w)'
      BY <1>7, <3>1, <3>2, <3>3 DEF ByEntry, Still, Match
    <3>5. /\ call[c].pc # "rejected" /\ route'[s] = route[s] /\ UNCHANGED <<stoppers, drain>>
          /\ route[s] # None /\ ByWorker(route[s], w) => ByWorker(route[s], w)
          /\ \A x \in call[c].targets : call[c].server = s /\ route[s] # None /\ Match(route[s], x)
                 => l.server = s /\ x \in l.targets
      BY <1>3
    <3> QED
      BY <1>2, <2>1, <3>4, <3>5, RoutedByCall
  <2>4. Underway(w)' /\ Locked(s, w)'
    BY <1>1 DEF Local, Underway, Idle, Locked
  <2>5. CASE d = e
    <3>1. Placed(s, d, w)' /\ Active(s, d, w)' /\ Lost(s, d, w)' /\ Timed(d, w)'
      BY <1>1, <2>5 DEF Local, Placed, Held, Active, Lost, Timed, draining
    <3> QED
      BY <2>2, <2>3, <2>4, <3>1 DEF Local
  <2>6. CASE Moves(e, d)
    <3>1. Placed(s, d, w)' /\ Active(s, d, w)' /\ Lost(s, d, w)' /\ Timed(d, w)'
      BY <1>1, <1>7, <2>6, Outdated DEF Moves
    <3> QED
      BY <2>2, <2>3, <2>4, <3>1 DEF Local
  <2> QED
    BY <1>1, <2>5, <2>6
<1>9. /\ Known(d, w) \subseteq Known(e, w) /\ Mine(d, w) \subseteq Mine(e, w) /\ work = [work EXCEPT ![s] = w]
      /\ work' = [work EXCEPT ![s] = w] /\ ops' \in [Ops -> {"none"} \cup Nonterminal \cup Terminal]
      /\ route' \in [Servers -> Maybe(RouteSet)] /\ \A r \in Servers \ {s} : route'[r] = route[r]
  BY <1>1, <1>2, <1>7 DEF Known, Mine
<1> QED
  BY <1>1, <1>2, <1>4, <1>6, <1>8, <1>9, Called

\* The generation of an entry is raised.
LEMMA Raises ==
  ASSUME NEW e \in EntrySet
  PROVE  [e EXCEPT !.gen = @ + 1] \in EntrySet /\ Moves(e, [e EXCEPT !.gen = @ + 1])
<1>1. PICK n \in Nat : n = e.gen + 1
  BY EntryFields
<1>2. [e EXCEPT !.gen = n] \in EntrySet
  BY DEF EntrySet
<1>3. Moves(e, [e EXCEPT !.gen = n])
  BY <1>1 DEF EntrySet, Moves, SamePlaces
<1> QED
  BY <1>1, <1>2, <1>3

LEMMA Fences ==
  ASSUME ManagerInv, NEW s \in Servers
  PROVE  Fenced(s) \in EntrySet /\ (Fenced(s) = entry[s] \/ Moves(entry[s], Fenced(s)))
<1>1. PICK e \in EntrySet : e = entry[s]
  BY At
<1>2. Fenced(s) \in {e, [e EXCEPT !.gen = @ + 1]}
  BY <1>1 DEF Fenced
<1> QED
  BY <1>1, <1>2, Raises

LEMMA CallbackInv ==
  ASSUME ManagerInv, NEW c \in Callers, NEW s \in Servers, Callback(c, s)
  PROVE  ManagerInv'
<1>1. /\ call \in [Callers -> CallSet] /\ desired \in [Servers -> Snapshot] /\ desired[s] \in Snapshot
      /\ entry[s] \in EntrySet
  BY DEF ManagerInv, Shape
<1>2. PICK k \in CallSet : k = call[c]
  BY <1>1
<1>3. /\ c \in Callbacks /\ k.pc = "idle"
      /\ UNCHANGED <<desired, ops, work, stoppers, owner, handles, quiet, route, lock, drain, issued>>
  BY <1>2 DEF Callback, RefreshBegins, FenceServer, store, driver, catalog
<1>4. PICK pc \in {"refresh", "trigger"} : call' = [call EXCEPT ![c].pc = pc, ![c].server = s]
  BY DEF Callback, RefreshBegins, FenceServer
<1>5. PICK d \in EntrySet : entry' = [entry EXCEPT ![s] = d] /\ (d = entry[s] \/ Moves(entry[s], d))
  <2>1. CASE Enter(s, Fenced(s))
    BY <2>1, Fences DEF Enter
  <2>2. CASE Enter(s, [entry[s] EXCEPT !.gen = @ + 1])
    BY <1>1, <2>2, Raises DEF Enter
  <2> QED
    BY <2>1, <2>2 DEF Callback, RefreshBegins, FenceServer
<1>6. PICK l \in CallSet : /\ l = [k EXCEPT !.pc = pc, !.server = s] /\ l.pc = pc /\ l.server = s
                           /\ l.targets = k.targets
  <2>1. pc \in {"refresh", "trigger", "rejected"}
    OBVIOUS
  <2> DEFINE l == [k EXCEPT !.pc = pc, !.server = s]
  <2>2. l \in CallSet /\ l.pc = pc /\ l.server = s /\ l.targets = k.targets
    BY <2>1 DEF CallSet, Maybe
  <2> HIDE DEF l
  <2>3. l = [k EXCEPT !.pc = pc, !.server = s]
    BY DEF l
  <2> QED
    BY <2>2, <2>3
<1>7. call' = [call EXCEPT ![c] = l]
  BY <1>1, <1>2, <1>4, <1>6
<1>8. k.server = None /\ k.targets = {}
  BY <1>2, <1>3 DEF ManagerInv, Standing
<1>9. desired' = [desired EXCEPT ![s] = desired[s]]
  BY <1>1, <1>3
<1>10. PICK h \in Snapshot : h = desired[s]
  BY <1>1
<1>11. /\ call[c].server \in {s, None} /\ call[c].pc \in {"idle", "refresh"} /\ l.targets = {}
       /\ l.pc \in {"refresh", "trigger", "rejected"} /\ h.rev = desired[s].rev /\ h.on = desired[s].on
       /\ desired' = [desired EXCEPT ![s] = h]
  BY <1>2, <1>3, <1>6, <1>8, <1>9, <1>10
<1> QED
  BY <1>3, <1>5, <1>6, <1>7, <1>11, CalledBack

LEMMA RefreshEndsInv ==
  ASSUME ManagerInv, NEW c \in Callers, RefreshEnds(c)
  PROVE  ManagerInv'
<1>1. call \in [Callers -> CallSet] /\ desired \in [Servers -> Snapshot] /\ entry \in [Servers -> EntrySet]
  BY DEF ManagerInv, Shape
<1>2. PICK k \in CallSet : k = call[c]
  BY <1>1
<1>3. /\ k.pc = "refresh" /\ UNCHANGED <<ops, work, stoppers, owner, handles, quiet, route, lock, drain, issued>>
  BY <1>2 DEF RefreshEnds, driver, catalog
<1>4. PICK s \in Servers : s = k.server
  BY <1>2, <1>3, CallFields DEF Maybe, ManagerInv, Standing
<1>5. c \in Callbacks /\ k.targets = {}
  BY <1>2, <1>3 DEF ManagerInv, Standing
<1>6. \/ /\ UNCHANGED entry /\ desired' = [desired EXCEPT ![s].version = @ + 1]
         /\ call' = [call EXCEPT ![c].pc = "trigger"]
      \/ /\ UNCHANGED desired /\ Enter(s, Fenced(s)) /\ call' = [call EXCEPT ![c].pc = "rejected"]
  BY <1>2, <1>4, Zenon DEF RefreshEnds
<1>7. PICK pc \in {"trigger", "rejected"} : call' = [call EXCEPT ![c].pc = pc]
  BY <1>6
<1>8. PICK d \in EntrySet : entry' = [entry EXCEPT ![s] = d] /\ (d = entry[s] \/ Moves(entry[s], d))
  <2>1. CASE UNCHANGED entry
    BY <1>1, <2>1
  <2>2. CASE Enter(s, Fenced(s))
    BY <2>2, Fences DEF Enter
  <2> QED
    BY <1>6, <2>1, <2>2
<1>9. PICK g \in Snapshot : g = desired[s] /\ g.version \in Nat
  BY <1>1 DEF Snapshot
<1>10. PICK h \in Snapshot : desired' = [desired EXCEPT ![s] = h] /\ h.rev = g.rev /\ h.on = g.on
  <2>1. CASE UNCHANGED desired
    BY <1>1, <1>9, <2>1
  <2>2. CASE desired' = [desired EXCEPT ![s].version = @ + 1]
    <3>1. PICK n \in Nat : n = g.version + 1
      BY <1>9
    <3> DEFINE h == [g EXCEPT !.version = n]
    <3>2. h \in Snapshot /\ h.rev = g.rev /\ h.on = g.on
      BY DEF Snapshot
    <3>3. desired' = [desired EXCEPT ![s] = h]
      BY <1>1, <1>9, <2>2, <3>1
    <3> QED
      BY <3>2, <3>3
  <2> QED
    BY <1>6, <2>1, <2>2
<1>11. PICK l \in CallSet : /\ l = [k EXCEPT !.pc = pc] /\ l.pc = pc /\ l.server = s /\ l.targets = k.targets
  <2> DEFINE l == [k EXCEPT !.pc = pc]
  <2>1. l \in CallSet /\ l.pc = pc /\ l.server = k.server /\ l.targets = k.targets
    BY DEF CallSet
  <2> QED
    BY <1>4, <2>1
<1>12. call' = [call EXCEPT ![c] = l]
  BY <1>1, <1>2, <1>7, <1>11
<1> QED
  BY <1>2, <1>3, <1>4, <1>5, <1>8, <1>9, <1>10, <1>11, <1>12, CalledBack

\* A caller that has its server goes on.
LEMMA CallerGoes ==
  ASSUME ManagerInv, NEW c \in Callers, NEW l \in CallSet, call' = [call EXCEPT ![c] = l],
         l.server = call[c].server, l.rev = call[c].rev, call[c].pc # "idle", l.pc \notin {"idle", "refresh"},
         l.targets # {} => l.pc = "withdraw", UNCHANGED <<desired, ops>>
  PROVE  /\ Standing'
         /\ \A k \in Callers : call'[k].server = call[k].server /\ call'[k].rev = call[k].rev
<1>1. call \in [Callers -> CallSet]
  BY DEF ManagerInv, Shape
<1>2. call'[c] = l /\ \A k \in Callers \ {c} : call'[k] = call[k]
  BY <1>1
<1>3. \A k \in Callers : call'[k].server = call[k].server /\ call'[k].rev = call[k].rev
  BY <1>2
<1>4. \A o \in Ops : call'[o].server = call[o].server /\ call'[o].rev = call[o].rev
  BY <1>3 DEF Callers
<1>5. \A x \in Callers : /\ call'[x].pc = "idle" <=> call'[x].server = None
                         /\ call'[x].targets # {} => call'[x].pc = "withdraw"
                         /\ call'[x].pc = "refresh" => x \in Callbacks
  BY <1>2 DEF ManagerInv, Standing
<1>6. /\ \A o \in Ops : ops'[o] # "none" <=> call'[o].server \in Servers
      /\ \A o \in Ops : call'[o].server \in Servers => call'[o].rev <= desired'[call'[o].server].rev
      /\ \A o \in Ops : ops'[o] \in Nonterminal => call'[o].rev = desired'[call'[o].server].rev
  BY <1>4 DEF ManagerInv, Standing
<1> QED
  BY <1>3, <1>5, <1>6 DEF Standing

LEMMA TriggerWithdrawsInv ==
  ASSUME ManagerInv, NEW c \in Callers, TriggerWithdraws(c)
  PROVE  ManagerInv'
<1>1. call \in [Callers -> CallSet]
  BY DEF ManagerInv, Shape
<1>2. PICK k \in CallSet : k = call[c]
  BY <1>1
<1>3. /\ k.pc = "withdraw"
      /\ UNCHANGED <<desired, ops, entry, work, stoppers, owner, handles, quiet, lock, drain, issued>>
  BY <1>2 DEF TriggerWithdraws, store, manager, driver
<1>4. PICK s \in Servers : s = k.server
  BY <1>2, <1>3, CallFields DEF Maybe, ManagerInv, Standing
<1>5. PICK cand \in k.targets : route' = Withdraw(s, cand) /\ call' = [call EXCEPT ![c].targets = @ \ {cand}]
  BY <1>2, <1>4, Zenon DEF TriggerWithdraws
<1>6. cand \in Candidate
  BY CallFields
<1>7. PICK l \in CallSet : /\ l = [k EXCEPT !.targets = @ \ {cand}] /\ l.pc = "withdraw" /\ l.server = s
                           /\ l.rev = k.rev /\ l.targets = k.targets \ {cand}
  <2>1. PICK x \in SUBSET Candidate : x = k.targets \ {cand}
    BY CallFields
  <2> DEFINE l == [k EXCEPT !.targets = x]
  <2>2. l \in CallSet /\ l.pc = k.pc /\ l.server = k.server /\ l.rev = k.rev /\ l.targets = x
    BY DEF CallSet
  <2>3. l = [k EXCEPT !.targets = @ \ {cand}]
    BY <2>1
  <2> HIDE DEF l
  <2> QED
    BY <1>3, <1>4, <2>1, <2>2, <2>3
<1>8. call' = [call EXCEPT ![c] = l]
  BY <1>1, <1>2, <1>5, <1>7
<1>9. Standing' /\ \A x \in Callers : call'[x].server = call[x].server /\ call'[x].rev = call[x].rev
  BY <1>2, <1>3, <1>4, <1>7, <1>8, CallerGoes
<1>10. PICK e \in EntrySet, w \in WorkSet : /\ e = entry[s] /\ w = work[s] /\ Local(s, e, w)
         /\ work \in [Servers -> WorkSet] /\ entry = [entry EXCEPT ![s] = e]
  BY At
<1>11. /\ route' \in [Servers -> Maybe(RouteSet)] /\ \A r \in Servers \ {s} : route'[r] = route[r]
       /\ \/ route'[s] = route[s] /\ (drain.pc # "none" \/ (route[s] # None => ~Match(route[s], cand)))
          \/ route'[s] # None => ~route'[s].live
       /\ route'[s] = route[s] \/ (route'[s] # None => ~route'[s].live)
  BY <1>5, <1>6, Withdraws
<1>12. Local(s, e, w)'
  <2>1. Entrusted(s, e, w)'
    <3>1. Entrusted(s, e, w) /\ e.operation \in Maybe(Ops) /\ w.op \in Maybe(Ops)
      BY <1>10, Fields, EntryFields DEF Local
    <3>2. \A o \in Maybe(Ops) : o # None => call'[o].server = call[o].server /\ call'[o].rev = call[o].rev
      BY <1>9 DEF Maybe, Callers
    <3> QED
      BY <1>3, <3>1, <3>2 DEF Entrusted
  <2>2. Routed(s, e, w)'
    <3>1. CASE route'[s] # None => ~route'[s].live
      BY <3>1 DEF Routed
    <3>2. CASE route'[s] = route[s] /\ (drain.pc # "none" \/ (route[s] # None => ~Match(route[s], cand)))
      <4>1. Coming(s) => Coming(s)'
        BY <1>1, <1>2, <1>3, <1>8 DEF Coming
      <4>2. ByEntry(s, route[s], e, w) => ByEntry(s, route[s], e, w)'
        BY <3>2, <4>1 DEF ByEntry, Still, Match
      <4>3. /\ Routed(s, e, w) /\ call[c].pc # "rejected" /\ route'[s] = route[s]
            /\ UNCHANGED <<stoppers, drain>>
            /\ route[s] # None /\ ByWorker(route[s], w) => ByWorker(route[s], w)
        BY <1>2, <1>3, <1>10, <3>2 DEF Local
      <4>4. drain.pc # "none"
             \/ (\A x \in call[c].targets : call[c].server = s /\ route[s] # None /\ Match(route[s], x)
                   => l.server = s /\ x \in l.targets)
        BY <1>2, <1>7, <3>2
      <4> QED
        BY <1>1, <1>8, <4>2, <4>3, <4>4, RoutedByCall
    <3> QED
      BY <1>11, <3>1, <3>2
  <2>3. Underway(w)' /\ Timed(e, w)' /\ Locked(s, w)'
    BY <1>3, <1>10, <1>11 DEF Local, Underway, Idle, Timed, Locked
  <2>4. Placed(s, e, w)' /\ Active(s, e, w)' /\ Lost(s, e, w)'
    BY <1>3, <1>10 DEF Local, Placed, Held, Active, Lost, draining
  <2> QED
    BY <2>1, <2>2, <2>3, <2>4 DEF Local
<1>13. /\ Known(e, w) \subseteq Known(e, w) /\ Mine(e, w) \subseteq Mine(e, w)
       /\ work' = [work EXCEPT ![s] = w] /\ entry' = [entry EXCEPT ![s] = e]
       /\ call[c].server \in {s, None} /\ l.server = s
       /\ desired' \in [Servers -> Snapshot] /\ \A r \in Servers \ {s} : desired'[r] = desired[r]
       /\ ops' \in [Ops -> {"none"} \cup Nonterminal \cup Terminal]
  BY <1>2, <1>3, <1>4, <1>7, <1>10 DEF ManagerInv, Shape
<1> QED
  BY <1>3, <1>8, <1>9, <1>10, <1>11, <1>12, <1>13, Called

LEMMA TriggerInv ==
  ASSUME ManagerInv, NEW c \in Callers, Trigger(c)
  PROVE  ManagerInv'
<1>1. call \in [Callers -> CallSet]
  BY DEF ManagerInv, Shape
<1>2. PICK k \in CallSet : k = call[c]
  BY <1>1
<1>3. /\ k.pc = "trigger"
      /\ UNCHANGED <<desired, ops, stoppers, owner, handles, quiet, route, lock, drain, issued>>
  BY <1>2 DEF Trigger, store, driver, catalog
<1>4. PICK s \in Servers : s = k.server
  BY <1>2, <1>3, CallFields DEF Maybe, ManagerInv, Standing
<1>5. k.targets = {}
  BY <1>2, <1>3 DEF ManagerInv, Standing
<1>6. PICK e \in EntrySet, w \in WorkSet : /\ e = entry[s] /\ w = work[s] /\ Local(s, e, w)
         /\ work \in [Servers -> WorkSet] /\ entry = [entry EXCEPT ![s] = e]
         /\ stoppers \in SUBSET StopperSet /\ route \in [Servers -> Maybe(RouteSet)]
  BY At
<1>7. PICK op \in Maybe(Ops) : op = (IF c \in Ops THEN c ELSE None)
  BY DEF Maybe
<1>8. PICK d \in EntrySet, v \in WorkSet, l \in CallSet :
        /\ entry' = [entry EXCEPT ![s] = d] /\ work' = [work EXCEPT ![s] = v]
        /\ call' = [call EXCEPT ![c] = l] /\ l.server = s /\ l.rev = k.rev
        /\ v = w \/ (v = [w EXCEPT !.displaced = TRUE] /\ w.pc # "idle")
        /\ \/ draining /\ d = e /\ l.pc = "done" /\ l.targets = {}
           \/ /\ ~draining /\ d = Triggered(e, op) /\ l.pc = "withdraw" /\ l.targets = Targets(e)
              /\ d.gen = e.gen + 1 /\ SamePlaces(e, d) /\ d.timer = None /\ d.operation \in {e.operation, op}
  <2>1. CASE draining
    <3>1. call' = [call EXCEPT ![c].pc = "done"] /\ UNCHANGED <<entry, work>>
      BY <2>1 DEF Trigger
    <3> DEFINE l == [k EXCEPT !.pc = "done"]
    <3>2. l \in CallSet /\ l.pc = "done" /\ l.server = k.server /\ l.rev = k.rev /\ l.targets = k.targets
      BY DEF CallSet
    <3>3. call' = [call EXCEPT ![c] = l]
      BY <1>1, <1>2, <3>1
    <3>4. entry' = [entry EXCEPT ![s] = e] /\ work' = [work EXCEPT ![s] = w]
      BY <1>6, <3>1
    <3> HIDE DEF l
    <3> QED
      BY <1>4, <1>5, <2>1, <3>2, <3>3, <3>4
  <2>2. CASE ~draining
    <3> DEFINE v2 == [w EXCEPT !.displaced = TRUE]
               d == Triggered(e, op)
               l == [k EXCEPT !.pc = "withdraw", !.gen = e.gen + 1, !.targets = Targets(e)]
    <3>1. entry' = [entry EXCEPT ![s] = d]
      BY <1>2, <1>4, <1>6, <1>7, <2>2 DEF Trigger, Enter
    <3>2. PICK v \in {w, v2} : work' = [work EXCEPT ![s] = v] /\ (v = w \/ (v = v2 /\ w.pc # "idle"))
      BY <1>2, <1>4, <1>6, <2>2 DEF Trigger, Step
    <3>3. v \in WorkSet
      BY <3>2, ZenonT(60) DEF WorkSet
    <3>4. call' = [call EXCEPT ![c] = l]
      BY <1>2, <1>4, <1>6, <2>2 DEF Trigger
    <3>5. PICK n \in Nat : n = e.gen + 1
      BY EntryFields
    <3>6. PICK x \in SUBSET Candidate : x = Targets(e)
      BY EntryFields DEF Targets, Maybe
    <3>7. /\ l \in CallSet /\ l.pc = "withdraw" /\ l.server = k.server /\ l.rev = k.rev /\ l.targets = x
      <4>1. l = [k EXCEPT !.pc = "withdraw", !.gen = n, !.targets = x]
        BY <3>5, <3>6
      <4> HIDE DEF l
      <4> QED
        BY <4>1 DEF CallSet
    <3>8. PICK o \in Maybe(Ops) : o = (IF op = None THEN e.operation ELSE op)
      BY EntryFields
    <3>9. PICK b \in BOOLEAN : b = (op = None /\ e.operation # None)
      OBVIOUS
    <3>10. d = [e EXCEPT !.gen = n, !.pending = TRUE, !.timer = None, !.operation = o, !.pendingDisplaced = b]
      BY <3>5, <3>8, <3>9 DEF Triggered
    <3>11. d \in EntrySet
      <4> HIDE DEF d
      <4> QED
        BY <3>10 DEF EntrySet, Maybe
    <3>12. d.gen = n /\ SamePlaces(e, d) /\ d.timer = None /\ d.operation = o
      <4> HIDE DEF d
      <4> QED
        BY <3>10 DEF EntrySet, SamePlaces
    <3>13. d = Triggered(e, op) /\ v2 = [w EXCEPT !.displaced = TRUE]
      OBVIOUS
    <3> HIDE DEF d, l, v2
    <3>14. d.gen = e.gen + 1 /\ d.operation \in {e.operation, op} /\ l.targets = Targets(e) /\ l.server = s
      BY <1>4, <3>5, <3>6, <3>7, <3>8, <3>12
    <3> QED
      BY <2>2, <3>1, <3>2, <3>3, <3>4, <3>7, <3>11, <3>12, <3>13, <3>14
  <2> QED
    BY <2>1, <2>2
<1>9. /\ l.pc \notin {"idle", "refresh"} /\ l.targets # {} => l.pc = "withdraw"
      /\ Standing' /\ \A x \in Callers : call'[x].server = call[x].server /\ call'[x].rev = call[x].rev
  <2>1. l.pc \notin {"idle", "refresh"} /\ (l.targets # {} => l.pc = "withdraw")
    BY <1>8
  <2> QED
    BY <1>2, <1>3, <1>4, <1>8, <2>1, CallerGoes
<1>10. /\ d.active = e.active /\ d.activating = e.activating /\ d.blocked = e.blocked
       /\ d.operation \in {e.operation, op}
  BY <1>8 DEF SamePlaces
<1>11. /\ v.pc = w.pc /\ v.gen = w.gen /\ v.op = w.op /\ v.cleanupOnly = w.cleanupOnly /\ v.snap = w.snap
       /\ v.cand = w.cand /\ v.target = w.target /\ v.next = w.next /\ v.outcome = w.outcome
       /\ v.started = w.started /\ (w.pc = "idle" => v = w)
  <2>1. CASE v = w
    BY <2>1
  <2>2. CASE v = [w EXCEPT !.displaced = TRUE] /\ w.pc # "idle"
    BY <2>2 DEF WorkSet
  <2> QED
    BY <1>8, <2>1, <2>2
<1>12. Local(s, d, v)'
  <2>1. Entrusted(s, d, v)'
    <3>1. Entrusted(s, e, w) /\ e.operation \in Maybe(Ops) /\ w.op \in Maybe(Ops)
      BY <1>6, Fields, EntryFields DEF Local
    <3>2. \A o \in Maybe(Ops) : o # None => call'[o].server = call[o].server /\ call'[o].rev = call[o].rev
      BY <1>9 DEF Maybe, Callers
    <3>3. op # None => call'[op].server = s
      BY <1>2, <1>4, <1>7, <1>9
    <3> QED
      BY <1>3, <1>10, <1>11, <3>1, <3>2, <3>3 DEF Entrusted
  <2>2. Underway(v)'
    BY <1>6, <1>11 DEF Local, Underway
  <2>3. Locked(s, v)'
    BY <1>3, <1>6, <1>11 DEF Local, Locked
  <2>4. Routed(s, d, v)'
    <3>1. /\ Routed(s, e, w) /\ call[c].pc # "rejected" /\ route'[s] = route[s] /\ UNCHANGED <<stoppers, drain>>
          /\ \A x \in call[c].targets : call[c].server = s /\ route[s] # None /\ Match(route[s], x)
                 => l.server = s /\ x \in l.targets
      BY <1>2, <1>3, <1>5, <1>6 DEF Local
    <3>2. route[s] # None /\ ByWorker(route[s], w) => ByWorker(route[s], v)
      BY <1>11 DEF ByWorker
    <3>3. drain.pc = "none" /\ ByEntry(s, route[s], e, w) => ByCall(s, route[s])'
      <4> SUFFICES ASSUME drain.pc = "none", ByEntry(s, route[s], e, w) PROVE ByCall(s, route[s])'
        OBVIOUS
      <4>1. l.targets = Targets(e) /\ call'[c] = l
        BY <1>1, <1>8 DEF draining
      <4>2. e.active \in l.targets /\ Match(route[s], e.active)
        BY <4>1 DEF Targets, ByEntry
      <4> QED
        BY <1>3, <1>8, <4>1, <4>2 DEF ByCall, Match
    <3> QED
      BY <1>1, <1>8, <3>1, <3>2, <3>3, RoutedByCall
  <2>5. Placed(s, d, v)' /\ Active(s, d, v)' /\ Lost(s, d, v)' /\ Timed(d, v)'
    <3>1. CASE draining /\ d = e
      BY <1>3, <1>6, <1>11, <3>1 DEF Local, Placed, Held, Firm, Active, Lost, Timed, draining
    <3>2. CASE d.gen = e.gen + 1 /\ d.timer = None
      BY <1>3, <1>6, <1>10, <1>11, <3>2, Outdated
    <3> QED
      BY <1>8, <3>1, <3>2
  <2> QED
    BY <2>1, <2>2, <2>3, <2>4, <2>5 DEF Local
<1>13. /\ Known(d, v) \subseteq Known(e, w) /\ Mine(d, v) \subseteq Mine(e, w)
       /\ call[c].server \in {s, None}
       /\ desired' \in [Servers -> Snapshot] /\ \A r \in Servers \ {s} : desired'[r] = desired[r]
       /\ ops' \in [Ops -> {"none"} \cup Nonterminal \cup Terminal]
       /\ route' \in [Servers -> Maybe(RouteSet)] /\ \A r \in Servers \ {s} : route'[r] = route[r]
  <2>1. Known(d, v) \subseteq Known(e, w) /\ Mine(d, v) \subseteq Mine(e, w)
    BY <1>10, <1>11 DEF Known, Mine
  <2> QED
    BY <1>2, <1>3, <1>4, <1>6, <2>1 DEF ManagerInv, Shape
<1> QED
  BY <1>3, <1>6, <1>8, <1>9, <1>12, <1>13, Called

-----------------------------------------------------------------------------
(* The goroutines that stop one runtime, and runtimes that exit. *)

LEMMA StopperFields ==
  ASSUME NEW t \in StopperSet
  PROVE  /\ t.server \in Servers /\ t.cand \in Candidate /\ t.gen \in Nat /\ t.cand.id \in Nat
         /\ t.kind \in {"lost", "refused", "drain"} /\ t.pc \in Halting /\ t.bad \in BOOLEAN
BY DEF StopperSet, Candidate

\* What a change of the stopping goroutines does to the promises about the routes of s.
LEMMA RoutedByStopper ==
  ASSUME NEW s \in Servers, NEW e, NEW d, NEW w, Routed(s, e, w), UNCHANGED <<call, drain>>,
         route'[s] = route[s],
         drain.pc = "none" /\ route[s] # None /\ ByStopper(s, route[s]) => ByStopper(s, route[s])',
         ByEntry(s, route[s], e, w) => ByStopper(s, route[s])' \/ ByEntry(s, route[s], d, w)
  PROVE  Routed(s, d, w)'
<1>1. PICK r : r = route[s]
  OBVIOUS
<1>2. RefreshRejected(s)' = RefreshRejected(s) /\ ByCall(s, r)' = ByCall(s, r)
  BY DEF RefreshRejected, ByCall
<1>3. ByWorker(r, w)' = ByWorker(r, w) /\ ByEntry(s, r, d, w)' = ByEntry(s, r, d, w)
  BY DEF ByWorker, ByEntry, Coming, Still
<1>4. ByStopper(s, route[s])' = ByStopper(s, r)'
  BY <1>1
<1>5. r # None /\ r.live /\ drain.pc = "none" =>
          RefreshRejected(s) \/ ByWorker(r, w) \/ ByStopper(s, r) \/ ByCall(s, r) \/ ByEntry(s, r, e, w)
  BY <1>1 DEF Routed
<1>6. r # None /\ r.live /\ drain.pc = "none" =>
          RefreshRejected(s)' \/ ByWorker(r, w)' \/ ByStopper(s, r)' \/ ByCall(s, r)' \/ ByEntry(s, r, d, w)'
  BY <1>1, <1>2, <1>3, <1>4, <1>5
<1> QED
  BY <1>1, <1>6 DEF Routed

\* A goroutine t that stops a runtime of s goes on as u, or ends.
Succeeds(t, u) == /\ u.server = t.server /\ u.cand = t.cand /\ u.gen = t.gen /\ u.kind = t.kind
                  /\ u.pc # "withdraw"
LEMMA StopperGoes ==
  ASSUME ManagerInv, NEW t \in stoppers, NEW s \in Servers, s = t.server, NEW d \in EntrySet,
         entry' = [entry EXCEPT ![s] = d], UNCHANGED <<desired, ops, call, work, lock, drain, issued>>,
         stoppers' = stoppers \ {t} \/ \E u \in StopperSet : Succeeds(t, u) /\ Becomes(t, u),
         handles' \subseteq handles, quiet' \in SUBSET Candidate, \A c \in quiet \ quiet' : c \notin handles',
         owner' \in [Servers -> Maybe(Nat)], \A r \in Servers \ {s} : owner'[r] = owner[r],
         owner'[s] = owner[s] \/ owner[s] = t.cand.id,
         route' \in [Servers -> Maybe(RouteSet)], \A r \in Servers \ {s} : route'[r] = route[r],
         \/ /\ route'[s] = route[s]
            /\ t.pc # "withdraw" \/ drain.pc # "none" \/ (route[s] # None => ~Match(route[s], t.cand))
         \/ route'[s] # None => ~route'[s].live,
         d.gen = entry[s].gen, d.pending = entry[s].pending, d.active = entry[s].active,
         d.activating = entry[s].activating, d.failure = entry[s].failure,
         d.operation = entry[s].operation, d.blocked \in {entry[s].blocked, t.cand},
         d.timer = entry[s].timer \/ (d.timer = d.gen /\ t.kind = "lost" /\ t.gen = d.gen)
  PROVE  ManagerInv'
<1>1. PICK e \in EntrySet, w \in WorkSet : /\ e = entry[s] /\ w = work[s] /\ Local(s, e, w)
         /\ work \in [Servers -> WorkSet] /\ stoppers \in SUBSET StopperSet
         /\ Known(e, w) \subseteq Candidate /\ issued \in Nat /\ handles \in SUBSET Candidate
  BY At
<1>2. t \in StopperSet /\ t.cand \in Candidate /\ t.gen \in Nat /\ t.cand.id <= issued /\ t.cand # None
  BY <1>1, StopperFields, NoneIsNoCandidate DEF ManagerInv, Numbered
<1>3. /\ stoppers' \in SUBSET StopperSet
      /\ \A x \in stoppers' : \E y \in stoppers : /\ x.server = y.server /\ x.cand = y.cand
                                                 /\ x.gen = y.gen /\ x.kind = y.kind
      /\ \A x \in StopperSet : x.server # s => (x \in stoppers' <=> x \in stoppers)
      /\ \A x \in stoppers \ {t} : x \in stoppers'
  <2>1. CASE stoppers' = stoppers \ {t}
    BY <1>1, <2>1
  <2>2. CASE \E u \in StopperSet : Succeeds(t, u) /\ Becomes(t, u)
    <3>1. PICK u \in StopperSet : Succeeds(t, u) /\ stoppers' = (stoppers \ {t}) \cup {u}
      BY <2>2 DEF Becomes
    <3> QED
      BY <1>1, <3>1 DEF Succeeds
  <2> QED
    BY <2>1, <2>2
<1>4. \A x \in stoppers' : x.cand.id <= issued
  BY <1>3 DEF ManagerInv, Numbered
<1>5. Aside(s) /\ Advanced
  BY <1>1, <1>3, <1>4 DEF Aside, Advanced, ManagerInv, Shape
<1>6. /\ Entrusted(s, e, w) /\ Underway(w) /\ Placed(s, e, w) /\ Active(s, e, w) /\ Lost(s, e, w)
      /\ Timed(e, w) /\ Locked(s, w) /\ Routed(s, e, w)
  BY <1>1 DEF Local
<1>7. draining' = draining
  BY DEF draining
<1>8. Entrusted(s, d, w)'
  BY <1>1, <1>6 DEF Entrusted
<1>9. Underway(w)'
  BY <1>6 DEF Underway, Idle
<1>10. Held(s, e, w) => Held(s, d, w)'
  <2> SUFFICES ASSUME Held(s, e, w) PROVE Held(s, d, w)'
    OBVIOUS
  <2>1. w.pc \in Trial \cup {"succeed"} =>
          d.activating = w.cand /\ (d.failure => w.cand \in quiet' \/ w.cand \notin handles')
    BY <1>1 DEF Held
  <2>2. w.pc \in {"resolve", "admit", "construct"} => ~d.failure /\ w.cand \notin handles'
    BY <1>1 DEF Held
  <2>3. w.pc = "complete" => d.active = w.cand
    BY <1>1 DEF Held
  <2>4. w.pc \in Trial \cup {"succeed", "complete"} =>
          /\ \A x \in stoppers' : x.server = s => x.cand.id # w.cand.id
          /\ t.cand.id # w.cand.id
    BY <1>3 DEF Held
  <2>5. Firm(w) => w.pc \in Trial \cup {"succeed", "complete"}
    BY DEF Firm, Trial
  <2>6. Firm(w) => owner'[s] = w.cand.id
    BY <2>4, <2>5 DEF Held
  <2> QED
    BY <2>1, <2>2, <2>3, <2>4, <2>6 DEF Held, Firm
<1>11. Placed(s, d, w)'
  BY <1>1, <1>6, <1>7, <1>10 DEF Placed
<1>12. Active(s, d, w)'
  <2>1. d.active # None /\ d.active.gen = d.gen =>
           /\ owner'[s] = d.active.id
           /\ \A x \in stoppers' : x.server = s => x.cand.id # d.active.id
    BY <1>1, <1>3, <1>6 DEF Active
  <2> QED
    BY <1>1, <1>6, <1>7, <2>1 DEF Active
<1>13. Lost(s, d, w)'
  <2>1. \A x \in stoppers' : x.server = s /\ x.kind = "lost" =>
          /\ x.gen <= d.gen
          /\ x.gen = d.gen =>
               /\ ~d.pending /\ d.active = None /\ ~w.cleanupOnly
               /\ w.pc # "idle" => w.gen < d.gen
    BY <1>1, <1>3, <1>6 DEF Lost
  <2> QED
    BY <2>1 DEF Lost
<1>14. t.kind = "lost" /\ t.gen = e.gen =>
         ~e.pending /\ e.active = None /\ ~w.cleanupOnly /\ (w.pc # "idle" => w.gen < e.gen)
  BY <1>6 DEF Lost
<1>15. Timed(d, w)'
  <2>1. CASE d.timer = entry[s].timer
    BY <1>1, <1>6, <2>1 DEF Timed
  <2>2. CASE d.timer = d.gen /\ t.kind = "lost" /\ t.gen = d.gen
    BY <1>1, <1>14, <2>2, EntryFields DEF Timed, Gone
  <2> QED
    BY <2>1, <2>2
<1>16. Locked(s, w)'
  BY <1>6 DEF Locked
<1>17. Routed(s, d, w)'
  <2>1. CASE route'[s] # None => ~route'[s].live
    BY <2>1 DEF Routed
  <2>2. CASE /\ route'[s] = route[s]
             /\ t.pc # "withdraw" \/ drain.pc # "none" \/ (route[s] # None => ~Match(route[s], t.cand))
    <3>1. drain.pc = "none" /\ route[s] # None /\ ByStopper(s, route[s]) => ByStopper(s, route[s])'
      <4> SUFFICES ASSUME drain.pc = "none", route[s] # None, ByStopper(s, route[s])
                   PROVE  ByStopper(s, route[s])'
        OBVIOUS
      <4>1. PICK x \in stoppers : x.server = s /\ x.pc = "withdraw" /\ Match(route[s], x.cand)
        BY DEF ByStopper
      <4>2. x \in stoppers'
        BY <1>3, <2>2, <4>1
      <4> QED
        BY <2>2, <4>1, <4>2 DEF ByStopper, Match
    <3>2. ByEntry(s, route[s], e, w) => ByEntry(s, route[s], d, w)
      <4>1. CASE d.timer = entry[s].timer
        BY <1>1, <4>1 DEF ByEntry, Still
      <4>2. CASE t.kind = "lost" /\ t.gen = d.gen
        BY <1>1, <1>14, <4>2 DEF ByEntry
      <4> QED
        BY <4>1, <4>2
    <3> QED
      BY <1>6, <2>2, <3>1, <3>2, RoutedByStopper
  <2> QED
    BY <2>1, <2>2
<1>18. Local(s, d, w)'
  BY <1>8, <1>9, <1>11, <1>12, <1>13, <1>15, <1>16, <1>17 DEF Local
<1>19. \A c \in Known(d, w) : c.id <= issued
  <2>1. \A c \in Known(e, w) : c.id <= issued
    BY <1>1 DEF ManagerInv, Numbered
  <2>2. \A c \in Known(d, w) : c \in Known(e, w) \/ c = t.cand
    BY <1>1 DEF Known
  <2> QED
    BY <1>2, <2>1, <2>2
<1>20. Mine(d, w) = Mine(entry[s], work[s])
  BY <1>1 DEF Mine
<1>21. \A c \in Mine(entry[s], work[s]) : c.id <= issued /\ c.id \in Nat
  <2>1. Mine(e, w) \subseteq Known(e, w)
    BY DEF Mine, Known
  <2>2. \A c \in Known(e, w) : c.id <= issued /\ c.id \in Nat
    BY <1>1 DEF ManagerInv, Numbered, Candidate
  <2> QED
    BY <1>1, <2>1, <2>2
<1>22. \A c1, c2 \in Mine(d, w) : c1.id > issued /\ c2.id > issued => c1 = c2
  BY <1>1, <1>20, <1>21
<1>23. /\ work' = [work EXCEPT ![s] = w] /\ issued' \in Nat /\ issued <= issued' /\ issued' = issued
       /\ drain.pc \notin {"none", "routes"} => lock' = None
       /\ \A c \in handles' \ handles : work[s].cand # None
  BY <1>1, <1>6 DEF Locked
<1>24. /\ \A c \in Known(d, w) : c.id <= issued'
       /\ \A c \in Mine(d, w) : c \in Mine(entry[s], work[s]) \/ c.id > issued
  BY <1>19, <1>20, <1>23
<1> HIDE DEF Known, Mine
<1> QED
  BY <1>5, <1>18, <1>22, <1>23, <1>24, Worked

LEMMA StopperWithdrawsInv ==
  ASSUME ManagerInv, NEW t \in stoppers, StopperWithdraws(t)
  PROVE  ManagerInv'
<1>1. t \in StopperSet /\ stoppers \in SUBSET StopperSet
  BY DEF ManagerInv, Shape
<1>2. PICK s \in Servers : s = t.server
  BY <1>1, StopperFields
<1>3. /\ t.pc = "withdraw" /\ route' = Withdraw(s, t.cand)
      /\ UNCHANGED <<desired, ops, call, entry, work, owner, handles, quiet, lock, drain, issued>>
  BY <1>2 DEF StopperWithdraws, store, manager, driver
<1>4. \E u \in StopperSet : Succeeds(t, u) /\ Becomes(t, u)
  <2> DEFINE u1 == [t EXCEPT !.pc = "stop"]
             u2 == [t EXCEPT !.pc = "stop", !.bad = TRUE]
  <2>1. u1 \in StopperSet /\ Succeeds(t, u1)
    BY <1>1 DEF StopperSet, Succeeds, Halting
  <2>2. u2 \in StopperSet /\ Succeeds(t, u2)
    BY <1>1 DEF StopperSet, Succeeds, Halting
  <2>3. Becomes(t, u1) \/ Becomes(t, u2)
    BY Zenon DEF StopperWithdraws
  <2> HIDE DEF u1, u2
  <2> QED
    BY <2>1, <2>2, <2>3
<1>5. /\ route' \in [Servers -> Maybe(RouteSet)] /\ \A r \in Servers \ {s} : route'[r] = route[r]
      /\ \/ route'[s] = route[s] /\ (drain.pc # "none" \/ (route[s] # None => ~Match(route[s], t.cand)))
         \/ route'[s] # None => ~route'[s].live
  BY <1>1, <1>3, StopperFields, Withdraws
<1>6. PICK e \in EntrySet : /\ e = entry[s] /\ entry' = [entry EXCEPT ![s] = e]
                            /\ owner \in [Servers -> Maybe(Nat)] /\ quiet \in SUBSET Candidate
  BY <1>3, At
<1>7. \A c \in quiet \ quiet' : c \notin handles'
  BY <1>3
<1>8. \/ /\ route'[s] = route[s]
         /\ t.pc # "withdraw" \/ drain.pc # "none" \/ (route[s] # None => ~Match(route[s], t.cand))
      \/ route'[s] # None => ~route'[s].live
  BY <1>5
<1>9. owner' \in [Servers -> Maybe(Nat)] /\ quiet' \in SUBSET Candidate /\ handles' \subseteq handles
  BY <1>3, <1>6
<1>10. UNCHANGED <<desired, ops, call, work, lock, drain, issued>> /\ owner' = owner
  BY <1>3
<1> QED
  BY <1>2, <1>4, <1>5, <1>6, <1>7, <1>8, <1>9, <1>10, StopperGoes

\* A stop that leaves the entry and the routes alone.
LEMMA StopperDrives ==
  ASSUME ManagerInv, NEW t \in stoppers, NEW s \in Servers, s = t.server, t.pc # "withdraw",
         UNCHANGED <<desired, ops, call, entry, work, route, lock, drain, issued>>,
         stoppers' = stoppers \ {t} \/ \E u \in StopperSet : Succeeds(t, u) /\ Becomes(t, u),
         handles' \subseteq handles, quiet' \in SUBSET Candidate, \A c \in quiet \ quiet' : c \notin handles',
         owner' \in [Servers -> Maybe(Nat)], \A r \in Servers \ {s} : owner'[r] = owner[r],
         owner'[s] = owner[s] \/ owner[s] = t.cand.id
  PROVE  ManagerInv'
<1>1. PICK e \in EntrySet : /\ e = entry[s] /\ entry' = [entry EXCEPT ![s] = e]
                            /\ route \in [Servers -> Maybe(RouteSet)]
  BY At
<1>2. /\ route' \in [Servers -> Maybe(RouteSet)] /\ \A r \in Servers \ {s} : route'[r] = route[r]
      /\ route'[s] = route[s]
      /\ t.pc # "withdraw" \/ drain.pc # "none" \/ (route[s] # None => ~Match(route[s], t.cand))
  BY <1>1
<1> QED
  BY <1>1, <1>2, StopperGoes, ZenonT(60)

LEMMA StopperStopsInv ==
  ASSUME ManagerInv, NEW t \in stoppers, StopperStops(t)
  PROVE  ManagerInv'
<1>1. t \in StopperSet /\ stoppers \in SUBSET StopperSet
  BY DEF ManagerInv, Shape
<1>2. PICK s \in Servers : s = t.server
  BY <1>1, StopperFields
<1>3. /\ t.pc = "stop" /\ UNCHANGED <<desired, ops, call, entry, work, route, lock, drain, issued>>
  BY DEF StopperStops, store, manager, catalog
<1>4. \E u \in StopperSet : Succeeds(t, u) /\ Becomes(t, u)
  <2>1. PICK b \in BOOLEAN : b = (t.kind = "lost" /\ ~Owned(t.server, t.cand) /\ ~t.bad)
    OBVIOUS
  <2> DEFINE u1 == [t EXCEPT !.pc = "release"]
             u2 == [t EXCEPT !.pc = "stopped", !.verified = b]
  <2>2. u1 \in StopperSet /\ Succeeds(t, u1)
    BY <1>1 DEF StopperSet, Succeeds, Halting
  <2>3. u2 \in StopperSet /\ Succeeds(t, u2)
    BY <1>1 DEF StopperSet, Succeeds, Halting
  <2>4. Becomes(t, u1) \/ Becomes(t, u2)
    BY <2>1 DEF StopperStops
  <2> HIDE DEF u1, u2
  <2> QED
    BY <2>2, <2>3, <2>4
<1>5. /\ handles' \subseteq handles /\ quiet' \in SUBSET Candidate /\ \A c \in quiet \ quiet' : c \notin handles'
      /\ UNCHANGED owner
  <2>1. CloseHandle(t.server, t.cand) \/ CloseFails(t.server, t.cand) \/ NoHandle(t.server, t.cand)
    BY DEF StopperStops
  <2>2. handles \in SUBSET Candidate /\ quiet \in SUBSET Candidate /\ t.cand \in Candidate
    BY <1>1, StopperFields DEF ManagerInv, Shape
  <2> QED
    BY <2>1, <2>2 DEF CloseHandle, CloseFails, NoHandle, driver
<1>6. owner' \in [Servers -> Maybe(Nat)]
  BY <1>5 DEF ManagerInv, Shape
<1> QED
  BY <1>2, <1>3, <1>4, <1>5, <1>6, StopperDrives

LEMMA StopperReleasesInv ==
  ASSUME ManagerInv, NEW t \in stoppers, StopperReleases(t)
  PROVE  ManagerInv'
<1>1. t \in StopperSet /\ stoppers \in SUBSET StopperSet
  BY DEF ManagerInv, Shape
<1>2. PICK s \in Servers : s = t.server
  BY <1>1, StopperFields
<1>3. /\ t.pc = "release" /\ UNCHANGED <<desired, ops, call, entry, work, route, lock, drain, issued>>
      /\ UNCHANGED <<handles, quiet>>
      /\ owner' = [owner EXCEPT ![s] = IF Owned(s, t.cand) THEN None ELSE @]
  BY <1>2 DEF StopperReleases, ReleaseOwner, store, manager, catalog
<1>4. \E u \in StopperSet : Succeeds(t, u) /\ Becomes(t, u)
  <2>1. PICK b \in BOOLEAN : b = ~t.bad
    OBVIOUS
  <2> DEFINE u == [t EXCEPT !.pc = "stopped", !.verified = b]
  <2>2. u \in StopperSet /\ Succeeds(t, u)
    BY <1>1 DEF StopperSet, Succeeds, Halting
  <2>3. Becomes(t, u)
    BY <2>1 DEF StopperReleases
  <2> HIDE DEF u
  <2> QED
    BY <2>2, <2>3
<1>5. owner \in [Servers -> Maybe(Nat)] /\ handles \in SUBSET Candidate /\ quiet \in SUBSET Candidate
  BY DEF ManagerInv, Shape
<1>6. /\ owner' \in [Servers -> Maybe(Nat)] /\ \A r \in Servers \ {s} : owner'[r] = owner[r]
      /\ owner'[s] = owner[s] \/ owner[s] = t.cand.id
  BY <1>3, <1>5 DEF Maybe, Owned
<1>7. handles' \subseteq handles /\ quiet' \in SUBSET Candidate /\ \A c \in quiet \ quiet' : c \notin handles'
  BY <1>3, <1>5
<1> QED
  BY <1>2, <1>3, <1>4, <1>6, <1>7, StopperDrives

LEMMA RefusedRuntimeStoppedInv ==
  ASSUME ManagerInv, NEW t \in stoppers, RefusedRuntimeStopped(t)
  PROVE  ManagerInv'
<1>1. t \in StopperSet
  BY DEF ManagerInv, Shape
<1>2. PICK s \in Servers : s = t.server
  BY <1>1, StopperFields
<1>3. /\ t.pc # "withdraw" /\ stoppers' = stoppers \ {t}
      /\ UNCHANGED <<desired, ops, call, entry, work, owner, handles, quiet, route, lock, drain, issued>>
  BY DEF RefusedRuntimeStopped, store, manager, driver, catalog
<1>4. /\ handles' \subseteq handles /\ quiet' \in SUBSET Candidate /\ \A c \in quiet \ quiet' : c \notin handles'
      /\ owner' \in [Servers -> Maybe(Nat)]
  BY <1>3 DEF ManagerInv, Shape
<1> QED
  BY <1>2, <1>3, <1>4, StopperDrives

LEMMA LostRuntimeStoppedInv ==
  ASSUME ManagerInv, NEW t \in stoppers, LostRuntimeStopped(t)
  PROVE  ManagerInv'
<1>1. t \in StopperSet
  BY DEF ManagerInv, Shape
<1>2. PICK s \in Servers : s = t.server
  BY <1>1, StopperFields
<1>3. PICK e \in EntrySet : e = entry[s] /\ entry = [entry EXCEPT ![s] = e]
                            /\ route \in [Servers -> Maybe(RouteSet)] /\ owner \in [Servers -> Maybe(Nat)]
                            /\ quiet \in SUBSET Candidate
  BY At
<1>4. /\ t.pc # "withdraw" /\ t.kind = "lost" /\ stoppers' = stoppers \ {t}
      /\ UNCHANGED <<desired, ops, call, work, owner, handles, quiet, route, lock, drain, issued>>
  BY DEF LostRuntimeStopped, store, driver, catalog
<1>5. PICK d \in EntrySet :
        /\ entry' = [entry EXCEPT ![s] = d] /\ d.gen = e.gen /\ d.pending = e.pending /\ d.active = e.active
        /\ d.activating = e.activating /\ d.failure = e.failure /\ d.operation = e.operation
        /\ d.blocked \in {e.blocked, t.cand}
        /\ d.timer = e.timer \/ (d.timer = d.gen /\ t.gen = d.gen)
  <2>1. PICK x \in Maybe(Candidate) : x = t.cand
    BY <1>1, StopperFields DEF Maybe
  <2>2. PICK st \in Statuses : st = (IF e.gen = t.gen THEN "degraded" ELSE e.status)
    BY EntryFields DEF Statuses
  <2>3. PICK n \in Maybe(Nat) : n = e.gen
    BY EntryFields DEF Maybe
  <2> DEFINE d1 == [e EXCEPT !.blocked = x, !.status = st]
             d2 == [e EXCEPT !.timer = n, !.status = "retry"]
  <2>4. \/ Enter(s, d1)
        \/ Enter(s, d2) /\ e.gen = t.gen
        \/ Enter(s, e)
    BY <1>2, <1>3, <2>1, <2>2, <2>3 DEF LostRuntimeStopped, Unconfirmed, Current
  <2>5. /\ d1 \in EntrySet /\ d1.gen = e.gen /\ d1.pending = e.pending /\ d1.active = e.active
        /\ d1.activating = e.activating /\ d1.failure = e.failure /\ d1.operation = e.operation
        /\ d1.blocked = x /\ d1.timer = e.timer
    BY DEF EntrySet
  <2>6. /\ d2 \in EntrySet /\ d2.gen = e.gen /\ d2.pending = e.pending /\ d2.active = e.active
        /\ d2.activating = e.activating /\ d2.failure = e.failure /\ d2.operation = e.operation
        /\ d2.blocked = e.blocked /\ d2.timer = n
    BY DEF EntrySet, Statuses
  <2> HIDE DEF d1, d2
  <2> QED
    BY <2>1, <2>3, <2>4, <2>5, <2>6 DEF Enter
<1>6. /\ handles' \subseteq handles /\ quiet' \in SUBSET Candidate /\ \A c \in quiet \ quiet' : c \notin handles'
      /\ owner' \in [Servers -> Maybe(Nat)] /\ route' \in [Servers -> Maybe(RouteSet)]
  BY <1>3, <1>4
<1> QED
  BY <1>2, <1>3, <1>4, <1>5, <1>6, StopperGoes

\* A runtime of s exits: it is quiet from then on, and perhaps a goroutine t stops it.
LEMMA Exits ==
  ASSUME ManagerInv, NEW s \in Servers, NEW cand \in handles, NEW d \in EntrySet, NEW w \in WorkSet,
         w = work[s], entry' = [entry EXCEPT ![s] = d],
         quiet' = quiet \cup {cand}, stoppers' \in SUBSET StopperSet, stoppers \subseteq stoppers',
         \A x \in stoppers' \ stoppers : x.server = s /\ x.cand = cand,
         UNCHANGED <<desired, ops, call, work, owner, handles, route, lock, drain, issued>>,
         d.operation = entry[s].operation, d.activating = entry[s].activating,
         d.active \in {entry[s].active, None}, d.blocked = entry[s].blocked,
         Placed(s, d, w)', Active(s, d, w)', Lost(s, d, w)', Timed(d, w)',
         ByEntry(s, route[s], entry[s], w) => ByStopper(s, route[s])' \/ ByEntry(s, route[s], d, w)
  PROVE  ManagerInv'
<1>1. PICK e \in EntrySet : /\ e = entry[s] /\ Local(s, e, w)
         /\ work \in [Servers -> WorkSet] /\ stoppers \in SUBSET StopperSet
         /\ Known(e, w) \subseteq Candidate /\ issued \in Nat /\ handles \in SUBSET Candidate
         /\ quiet \in SUBSET Candidate /\ owner \in [Servers -> Maybe(Nat)]
         /\ route \in [Servers -> Maybe(RouteSet)]
  BY At
<1>2. /\ Entrusted(s, e, w) /\ Underway(w) /\ Locked(s, w) /\ Routed(s, e, w)
  BY <1>1 DEF Local
<1>3. \A x \in stoppers' : x.cand.id <= issued
  BY DEF ManagerInv, Numbered
<1>4. \A x \in StopperSet : x.server # s => (x \in stoppers' <=> x \in stoppers)
  OBVIOUS
<1>5. Aside(s) /\ Advanced
  BY <1>1, <1>3, <1>4 DEF Aside, Advanced, ManagerInv, Shape
<1>6. Entrusted(s, d, w)'
  BY <1>1, <1>2 DEF Entrusted
<1>7. Underway(w)' /\ Locked(s, w)'
  BY <1>2 DEF Underway, Idle, Locked
<1>8. Routed(s, d, w)'
  <2>1. ByStopper(s, route[s]) => ByStopper(s, route[s])'
    <3> SUFFICES ASSUME NEW x \in stoppers, x.server = s, x.pc = "withdraw", Match(route[s], x.cand)
                 PROVE  ByStopper(s, route[s])'
      BY DEF ByStopper
    <3> QED
      BY DEF ByStopper, Match
  <2> QED
    BY <1>1, <1>2, <2>1, RoutedByStopper
<1>9. Local(s, d, w)'
  BY <1>6, <1>7, <1>8 DEF Local
<1>10. Known(d, w) \subseteq Known(e, w) /\ Mine(d, w) \subseteq Mine(e, w)
  BY <1>1 DEF Known, Mine
<1>11. \A c \in Known(d, w) : c.id <= issued /\ c.id \in Nat
  BY <1>1, <1>10 DEF ManagerInv, Numbered, Candidate
<1>12. Mine(d, w) \subseteq Known(d, w)
  BY DEF Mine, Known
<1>13. /\ \A c \in Known(d, w) : c.id <= issued'
       /\ \A c \in Mine(d, w) : c \in Mine(entry[s], work[s]) \/ c.id > issued
       /\ \A c1, c2 \in Mine(d, w) : c1.id > issued /\ c2.id > issued => c1 = c2
  BY <1>1, <1>10, <1>11, <1>12
<1>14. /\ work' = [work EXCEPT ![s] = w] /\ issued' \in Nat /\ issued <= issued'
       /\ drain.pc \notin {"none", "routes"} => lock' = None
       /\ \A c \in handles' \ handles : work[s].cand # None
  BY <1>1, <1>2 DEF Locked
<1> HIDE DEF Known, Mine
<1> QED
  BY <1>5, <1>9, <1>13, <1>14, Worked

LEMMA RuntimeExitsInv ==
  ASSUME ManagerInv, NEW s \in Servers, NEW cand \in handles, RuntimeExits(s, cand)
  PROVE  ManagerInv'
<1>1. PICK e \in EntrySet, w \in WorkSet : /\ e = entry[s] /\ w = work[s] /\ Local(s, e, w)
         /\ stoppers \in SUBSET StopperSet /\ handles \in SUBSET Candidate /\ entry = [entry EXCEPT ![s] = e]
  BY At
<1>2. /\ cand \notin quiet /\ owner[s] = cand.id /\ quiet' = quiet \cup {cand}
      /\ UNCHANGED <<desired, ops, call, work, owner, handles, route, lock, drain, issued>>
  BY DEF RuntimeExits, Owned, store, catalog
<1>3. /\ Placed(s, e, w) /\ Active(s, e, w) /\ Lost(s, e, w) /\ Timed(e, w)
      /\ e.gen \in Nat /\ w.gen \in Nat /\ e.timer \in Maybe(Nat) /\ cand \in Candidate
      /\ cand.gen \in Nat /\ e.pending \in BOOLEAN /\ e.failure \in BOOLEAN
  BY <1>1, Fields, EntryFields DEF Local, Candidate
<1>4. draining' = draining
  BY <1>2 DEF draining
<1>5. \A x \in stoppers : x \in StopperSet /\ x.gen \in Nat
  BY <1>1, StopperFields
<1> DEFINE heard == Current(s, cand.gen) /\ ~e.pending
<1>6. heard <=> e.gen = cand.gen /\ ~draining /\ ~e.pending
  BY <1>1 DEF Current
<1>7. ASSUME heard, e.active = cand, Enter(s, [e EXCEPT !.active = None, !.gen = @ + 1, !.status = "stopping"]),
             stoppers' = stoppers \cup {Stopper(s, cand, e.gen + 1, "lost")}
      PROVE  ManagerInv'
  <2>1. PICK n \in Nat : n = e.gen + 1
    BY <1>3
  <2> DEFINE d == [e EXCEPT !.active = None, !.gen = n, !.status = "stopping"]
             t == Stopper(s, cand, n, "lost")
  <2>2. d \in EntrySet
    BY DEF EntrySet, Maybe, Statuses
  <2>3. /\ d.gen = n /\ d.active = None /\ d.timer = e.timer /\ d.pending = e.pending
        /\ d.operation = e.operation /\ d.activating = e.activating /\ d.blocked = e.blocked
    BY DEF EntrySet
  <2>4. /\ t \in StopperSet /\ t.server = s /\ t.cand = cand /\ t.gen = n /\ t.kind = "lost" /\ t.pc = "withdraw"
    BY <1>3 DEF Stopper, StopperSet, Halting
  <2>5. entry' = [entry EXCEPT ![s] = d] /\ stoppers' = stoppers \cup {t}
    BY <1>7, <2>1 DEF Enter
  <2> HIDE DEF d, t
  <2>6. cand # None
    BY <1>3, NoneIsNoCandidate
  <2>7. cand.gen = e.gen /\ ~e.pending /\ ~w.cleanupOnly
    BY <1>3, <1>6, <1>7, <2>6 DEF Active
  <2>8. Placed(s, d, w)'
    BY <1>3, <1>4, <2>1, <2>3 DEF Placed
  <2>9. Active(s, d, w)'
    BY <2>3 DEF Active
  <2>10. Lost(s, d, w)'
    <3>1. \A x \in stoppers' : x.server = s /\ x.kind = "lost" =>
            /\ x.gen <= n
            /\ x.gen = n => /\ ~d.pending /\ d.active = None /\ ~w.cleanupOnly
                            /\ w.pc # "idle" => w.gen < n
      <4> SUFFICES ASSUME NEW x \in stoppers', x.server = s, x.kind = "lost"
                   PROVE  /\ x.gen <= n
                          /\ x.gen = n => /\ ~d.pending /\ d.active = None /\ ~w.cleanupOnly
                                          /\ w.pc # "idle" => w.gen < n
        OBVIOUS
      <4>1. CASE x = t
        BY <1>3, <2>1, <2>3, <2>4, <2>7, <4>1 DEF Placed
      <4>2. CASE x \in stoppers
        BY <1>3, <1>5, <2>1, <4>2 DEF Lost
      <4> QED
        BY <2>5, <4>1, <4>2
    <3> QED
      BY <2>3, <3>1 DEF Lost
  <2>11. Timed(d, w)'
    BY <1>3, <2>1, <2>3 DEF Timed, Maybe
  <2>12. ByEntry(s, route[s], entry[s], w) => ByStopper(s, route[s])'
    <3> SUFFICES ASSUME ByEntry(s, route[s], e, w) PROVE ByStopper(s, route[s])'
      BY <1>1
    <3>1. Match(route[s], t.cand)
      BY <1>7, <2>4 DEF ByEntry
    <3>2. t \in stoppers' /\ t.server = s /\ t.pc = "withdraw"
      BY <2>4, <2>5
    <3> QED
      BY <1>2, <3>1, <3>2 DEF ByStopper, Match
  <2>13. /\ stoppers' \in SUBSET StopperSet /\ stoppers \subseteq stoppers'
         /\ \A x \in stoppers' \ stoppers : x.server = s /\ x.cand = cand
    BY <1>1, <2>4, <2>5
  <2>14. d.active \in {entry[s].active, None} /\ d.operation = entry[s].operation
         /\ d.activating = entry[s].activating /\ d.blocked = entry[s].blocked
    BY <1>1, <2>3
  <2> QED
    BY <1>1, <1>2, <2>2, <2>5, <2>8, <2>9, <2>10, <2>11, <2>12, <2>13, <2>14, Exits
<1>8. ASSUME heard, e.active # cand, e.activating = cand, ~e.failure, Enter(s, [e EXCEPT !.failure = TRUE]),
             UNCHANGED stoppers
      PROVE  ManagerInv'
  <2> DEFINE d == [e EXCEPT !.failure = TRUE]
  <2>1. d \in EntrySet
    BY DEF EntrySet
  <2>2. /\ d.gen = e.gen /\ d.active = e.active /\ d.timer = e.timer /\ d.pending = e.pending
        /\ d.operation = e.operation /\ d.activating = e.activating /\ d.blocked = e.blocked
    BY DEF EntrySet
  <2>3. entry' = [entry EXCEPT ![s] = d]
    BY <1>8 DEF Enter
  <2> HIDE DEF d
  <2>4. Held(s, e, w) => Held(s, d, w)'
    <3> SUFFICES ASSUME Held(s, e, w) PROVE Held(s, d, w)'
      OBVIOUS
    <3>1. w.pc \in Trial \cup {"succeed"} => d.activating = w.cand /\ w.cand \in quiet'
      BY <1>2, <1>8, <2>2 DEF Held
    <3>2. w.pc \notin {"resolve", "admit", "construct"}
      BY <1>8 DEF Held, Trial
    <3> QED
      BY <1>2, <1>8, <2>2, <3>1, <3>2 DEF Held, Firm
  <2>5. Placed(s, d, w)'
    BY <1>3, <1>4, <2>2, <2>4 DEF Placed
  <2>6. Active(s, d, w)' /\ Lost(s, d, w)' /\ Timed(d, w)'
    BY <1>2, <1>3, <1>4, <1>8, <2>2 DEF Active, Lost, Timed
  <2>7. ByEntry(s, route[s], entry[s], w) => ByEntry(s, route[s], d, w)
    BY <1>1, <2>2 DEF ByEntry, Still
  <2>8. d.active \in {entry[s].active, None} /\ d.operation = entry[s].operation
        /\ d.activating = entry[s].activating /\ d.blocked = entry[s].blocked
    BY <1>1, <2>2
  <2>9. /\ stoppers' \in SUBSET StopperSet /\ stoppers \subseteq stoppers'
        /\ \A x \in stoppers' \ stoppers : x.server = s /\ x.cand = cand
    BY <1>1, <1>8
  <2> QED
    BY <1>1, <1>2, <2>1, <2>3, <2>5, <2>6, <2>7, <2>8, <2>9, Exits
<1>9. ASSUME ~(heard /\ (e.active = cand \/ (e.activating = cand /\ ~e.failure))),
             stoppers' = stoppers \cup {Stopper(s, cand, 0, "refused")}, UNCHANGED entry
      PROVE  ManagerInv'
  <2> DEFINE t == Stopper(s, cand, 0, "refused")
  <2>1. /\ t \in StopperSet /\ t.server = s /\ t.cand = cand /\ t.kind = "refused"
    BY <1>3 DEF Stopper, StopperSet, Halting
  <2>2. entry' = [entry EXCEPT ![s] = e] /\ stoppers' = stoppers \cup {t}
    BY <1>1, <1>9
  <2> HIDE DEF t
  <2>3. \A c \in Mine(e, w) : cand.id = c.id => cand = c
    <3>1. \A c \in Mine(entry[s], work[s]) : \A x \in handles : x.id = c.id => x = c
      BY DEF ManagerInv, Distinct
    <3> QED
      BY <1>1, <3>1
  <2>4. ASSUME e.gen = w.gen, w.cand # None, Held(s, e, w), w.pc \in Trial \cup {"succeed", "complete"}
        PROVE  cand.id # w.cand.id
    <3> SUFFICES ASSUME cand = w.cand PROVE FALSE
      BY <2>3, <2>4 DEF Mine
    <3>1. cand.gen = e.gen
      BY <1>1, <2>4 DEF Local, Underway
    <3>2. w.pc # "idle" /\ w.pc \notin Gone
      BY <2>4 DEF Trial, Gone
    <3>3. heard
      BY <1>3, <1>6, <2>4, <3>1, <3>2 DEF Placed
    <3>4. e.active = cand \/ (e.activating = cand /\ ~e.failure)
      BY <1>2, <2>4 DEF Held
    <3> QED
      BY <1>9, <3>3, <3>4
  <2>5. Placed(s, e, w)'
    <3>1. e.gen = w.gen /\ w.cand # None => Held(s, e, w)'
      <4> SUFFICES ASSUME e.gen = w.gen, w.cand # None PROVE Held(s, e, w)'
        OBVIOUS
      <4>1. Held(s, e, w)
        BY <1>3 DEF Placed
      <4>2. w.pc \in Trial \cup {"succeed", "complete"} =>
              \A x \in stoppers' : x.server = s => x.cand.id # w.cand.id
        BY <2>1, <2>2, <2>4, <4>1 DEF Held
      <4> QED
        BY <1>2, <4>1, <4>2 DEF Held, Firm
    <3> QED
      BY <1>3, <1>4, <3>1 DEF Placed
  <2>6. Active(s, e, w)'
    <3>1. e.active # None /\ e.active.gen = e.gen => e.active.id # cand.id
      <4> SUFFICES ASSUME e.active # None, e.active.gen = e.gen, e.active.id = cand.id PROVE FALSE
        OBVIOUS
      <4>1. e.active = cand
        BY <2>3 DEF Mine
      <4>2. heard
        BY <1>3, <1>6, <4>1 DEF Active
      <4> QED
        BY <1>9, <4>1, <4>2
    <3>2. e.active # None /\ e.active.gen = e.gen =>
            \A x \in stoppers' : x.server = s => x.cand.id # e.active.id
      BY <1>3, <2>1, <2>2, <3>1 DEF Active
    <3> QED
      BY <1>2, <1>3, <1>4, <3>2 DEF Active
  <2>7. Lost(s, e, w)'
    BY <1>3, <2>1, <2>2 DEF Lost
  <2>8. Timed(e, w)'
    BY <1>3 DEF Timed
  <2>9. /\ stoppers' \in SUBSET StopperSet /\ stoppers \subseteq stoppers'
        /\ \A x \in stoppers' \ stoppers : x.server = s /\ x.cand = cand
    BY <1>1, <2>1, <2>2
  <2>10. /\ ByEntry(s, route[s], entry[s], w) => ByEntry(s, route[s], e, w)
         /\ e.active \in {entry[s].active, None} /\ e.operation = entry[s].operation
         /\ e.activating = entry[s].activating /\ e.blocked = entry[s].blocked
    BY <1>1
  <2> QED
    BY <1>1, <1>2, <2>2, <2>5, <2>6, <2>7, <2>8, <2>9, <2>10, Exits
<1>10. \/ /\ heard /\ e.active = cand
          /\ Enter(s, [e EXCEPT !.active = None, !.gen = @ + 1, !.status = "stopping"])
          /\ stoppers' = stoppers \cup {Stopper(s, cand, e.gen + 1, "lost")}
       \/ /\ heard /\ e.active # cand /\ e.activating = cand /\ ~e.failure
          /\ Enter(s, [e EXCEPT !.failure = TRUE])
          /\ UNCHANGED stoppers
       \/ /\ ~(heard /\ (e.active = cand \/ (e.activating = cand /\ ~e.failure)))
          /\ stoppers' = stoppers \cup {Stopper(s, cand, 0, "refused")}
          /\ UNCHANGED entry
  BY <1>1, Zenon DEF RuntimeExits
<1> QED
  BY <1>7, <1>8, <1>9, <1>10

-----------------------------------------------------------------------------
(* Shutdown. *)

\* The drain goes on without the manager: routes may go, goroutines may end.
LEMMA DrainGoes ==
  ASSUME ManagerInv, UNCHANGED <<desired, ops, call, entry, work, owner, handles, quiet, lock, issued>>,
         "pc" \in DOMAIN drain', drain'.pc \in DrainPcs, draining' = draining,
         drain'.pc = "none" => drain.pc = "none",
         drain'.pc \notin {"none", "routes"} => drain.pc \notin {"none", "routes"} \/ lock = None,
         drain'.pc \notin {"none", "routes"} =>
           \A s \in Servers : route'[s] # None => ~route'[s].live,
         route' \in [Servers -> Maybe(RouteSet)], route' = route \/ drain'.pc # "none",
         stoppers' \subseteq stoppers, \A t \in stoppers \ stoppers' : t.pc # "withdraw"
  PROVE  ManagerInv'
<1>1. Shape' /\ Standing' /\ Numbered' /\ Distinct'
  <2>1. Shape' /\ Standing'
    BY DEF ManagerInv, Shape, Standing
  <2>2. Numbered' /\ Distinct'
    BY DEF ManagerInv, Numbered, Distinct, Known, Mine
  <2> QED
    BY <2>1, <2>2
<1>2. ASSUME NEW s \in Servers PROVE Local(s, entry[s], work[s])'
  <2>1. PICK e, w : e = entry[s] /\ w = work[s] /\ Local(s, e, w)
    BY At
  <2>2. Entrusted(s, e, w)' /\ Underway(w)' /\ Timed(e, w)'
    BY <2>1 DEF Local, Entrusted, Underway, Idle, Timed
  <2>3. Placed(s, e, w)'
    BY <2>1 DEF Local, Placed, Held, Firm
  <2>4. Active(s, e, w)'
    BY <2>1 DEF Local, Active
  <2>5. Lost(s, e, w)'
    BY <2>1 DEF Local, Lost
  <2>6. Locked(s, w)'
    <3>1. drain'.pc \notin {"none", "routes"} => lock = None
      BY <2>1 DEF Local, Locked
    <3> QED
      BY <2>1, <3>1 DEF Local, Locked
  <2>7. Routed(s, e, w)'
    <3> SUFFICES ASSUME drain'.pc = "none" PROVE Routed(s, e, w)'
      BY DEF Routed
    <3>1. route' = route /\ drain.pc = "none" /\ Routed(s, e, w)
      BY <2>1 DEF Local
    <3>2. PICK r : r = route[s]
      OBVIOUS
    <3>3. ByStopper(s, r) => ByStopper(s, r)'
      BY DEF ByStopper
    <3>4. /\ RefreshRejected(s)' = RefreshRejected(s) /\ ByCall(s, r)' = ByCall(s, r)
          /\ ByWorker(r, w)' = ByWorker(r, w) /\ ByEntry(s, r, e, w)' = ByEntry(s, r, e, w)
      BY DEF RefreshRejected, ByCall, ByWorker, ByEntry, Coming, Still
    <3>5. r # None /\ r.live =>
            RefreshRejected(s) \/ ByWorker(r, w) \/ ByStopper(s, r) \/ ByCall(s, r) \/ ByEntry(s, r, e, w)
      BY <3>1, <3>2 DEF Routed
    <3>6. r # None /\ r.live =>
            RefreshRejected(s)' \/ ByWorker(r, w)' \/ ByStopper(s, r)' \/ ByCall(s, r)' \/ ByEntry(s, r, e, w)'
      BY <3>3, <3>4, <3>5
    <3> QED
      BY <3>1, <3>2, <3>6 DEF Routed
  <2>8. Local(s, e, w)'
    BY <2>2, <2>3, <2>4, <2>5, <2>6, <2>7 DEF Local
  <2> QED
    BY <2>1, <2>8
<1> QED
  BY <1>1, <1>2 DEF ManagerInv

\* Drained routes.
LEMMA AllDrained ==
  ASSUME ManagerInv
  PROVE  /\ "pc" \in DOMAIN drain /\ drain.pc \in DrainPcs /\ route \in [Servers -> Maybe(RouteSet)]
         /\ drain.pc \notin {"none", "routes"} => \A s \in Servers : route[s] # None => ~route[s].live
BY DEF ManagerInv, Shape, Local, Locked

LEMMA BeginDrainInv ==
  ASSUME ManagerInv, BeginDrain
  PROVE  ManagerInv'
<1>1. /\ drain.pc = "none"
      /\ UNCHANGED <<desired, ops, call, entry, work, stoppers, owner, handles, quiet, route, lock, issued>>
  BY DEF BeginDrain, store, manager, driver, catalog
<1>2. "pc" \in DOMAIN drain' /\ drain'.pc = "routes"
  BY AllDrained DEF BeginDrain
<1>3. draining' = draining /\ drain'.pc \in DrainPcs
  BY <1>1, <1>2 DEF draining, DrainPcs
<1> QED
  BY <1>1, <1>2, <1>3, AllDrained, DrainGoes

LEMMA DrainRoutesInv ==
  ASSUME ManagerInv, DrainRoutes
  PROVE  ManagerInv'
<1>1. /\ drain.pc = "routes" /\ lock = None
      /\ UNCHANGED <<desired, ops, call, entry, work, stoppers, owner, handles, quiet, lock, issued>>
  BY DEF DrainRoutes, store, manager, driver
<1>2. "pc" \in DOMAIN drain' /\ drain'.pc = "manager"
  BY AllDrained DEF DrainRoutes
<1>3. draining' = draining /\ drain'.pc \in DrainPcs
  BY <1>1, <1>2 DEF draining, DrainPcs
<1>4. ASSUME NEW s \in Servers
      PROVE  route'[s] \in Maybe(RouteSet) /\ (route'[s] # None => ~route'[s].live)
  <2>1. route'[s] = IF route[s] = None THEN None ELSE [route[s] EXCEPT !.live = FALSE]
    BY DEF DrainRoutes
  <2>2. PICK r \in Maybe(RouteSet) : r = route[s]
    BY AllDrained
  <2>3. CASE r = None
    BY <2>1, <2>2, <2>3 DEF Maybe
  <2>4. CASE r \in RouteSet /\ r # None
    <3>1. [r EXCEPT !.live = FALSE] \in RouteSet /\ [r EXCEPT !.live = FALSE].live = FALSE
      BY <2>4 DEF RouteSet
    <3>2. route'[s] = [r EXCEPT !.live = FALSE]
      BY <2>1, <2>2, <2>4
    <3> QED
      BY <3>1, <3>2 DEF Maybe
  <2> QED
    BY <2>3, <2>4 DEF Maybe
<1>5. route' \in [Servers -> Maybe(RouteSet)]
  BY <1>4 DEF DrainRoutes
<1> QED
  BY <1>1, <1>2, <1>3, <1>4, <1>5, DrainGoes

LEMMA DrainStoppedInv ==
  ASSUME ManagerInv, NEW t \in stoppers, DrainStopped(t)
  PROVE  ManagerInv'
<1>1. /\ t.pc = "stopped" /\ stoppers' = stoppers \ {t}
      /\ UNCHANGED <<desired, ops, call, entry, work, owner, handles, quiet, route, lock, issued>>
  BY DEF DrainStopped, store, manager, driver, catalog
<1>2. "pc" \in DOMAIN drain' /\ drain'.pc = drain.pc
  BY AllDrained DEF DrainStopped
<1>3. draining' = draining /\ drain'.pc \in DrainPcs
  BY <1>2, AllDrained DEF draining
<1> QED
  BY <1>1, <1>2, <1>3, AllDrained, DrainGoes

LEMMA DrainEndsInv ==
  ASSUME ManagerInv, DrainCounts \/ DrainReturns
  PROVE  ManagerInv'
<1>1. /\ drain.pc \in {"stopping", "waiting"}
      /\ UNCHANGED <<desired, ops, call, entry, work, stoppers, owner, handles, quiet, route, lock, issued>>
  BY DEF DrainCounts, DrainReturns, store, manager, driver, catalog
<1>2. "pc" \in DOMAIN drain' /\ drain'.pc \in {"waiting", "done"}
  BY AllDrained DEF DrainCounts, DrainReturns
<1>3. draining' = draining /\ drain'.pc \in DrainPcs
  BY <1>1, <1>2 DEF draining, DrainPcs
<1> QED
  BY <1>1, <1>2, <1>3, AllDrained, DrainGoes

LEMMA DrainsEntry ==
  ASSUME NEW e \in EntrySet
  PROVE  /\ Drained(e) \in EntrySet /\ Drained(e).gen = e.gen + 1 /\ Drained(e).timer = None
         /\ Drained(e).active = None /\ Drained(e).activating = None /\ Drained(e).blocked = None
         /\ Drained(e).operation = e.operation
<1>1. PICK n \in Nat : n = e.gen + 1
  BY EntryFields
<1>2. PICK st \in Statuses : st = (IF {e.activating, e.active, e.blocked} = {None} THEN e.status ELSE "degraded")
  BY EntryFields DEF Statuses
<1> DEFINE d == [e EXCEPT !.gen = n, !.pending = FALSE, !.timer = None, !.activating = None,
                          !.active = None, !.blocked = None, !.status = st]
<1>3. d \in EntrySet
  BY DEF EntrySet, Maybe
<1>4. /\ d.gen = n /\ d.timer = None /\ d.active = None /\ d.activating = None /\ d.blocked = None
      /\ d.operation = e.operation
  BY DEF EntrySet
<1>5. Drained(e) = d
  BY <1>1, <1>2 DEF Drained
<1> QED
  BY <1>1, <1>3, <1>4, <1>5

LEMMA DrainManagerInv ==
  ASSUME ManagerInv, DrainManager
  PROVE  ManagerInv'
<1>1. /\ drain.pc = "manager" /\ entry' = [s \in Servers |-> Drained(entry[s])]
      /\ UNCHANGED <<desired, ops, call, work, owner, handles, quiet, route, lock, issued>>
  BY DEF DrainManager, store, driver, catalog
<1>2. "pc" \in DOMAIN drain' /\ drain'.pc = "stopping"
  BY AllDrained DEF DrainManager
<1>3. entry \in [Servers -> EntrySet] /\ work \in [Servers -> WorkSet] /\ stoppers \in SUBSET StopperSet
      /\ handles \in SUBSET Candidate
  BY DEF ManagerInv, Shape
<1>4. /\ stoppers \subseteq stoppers'
      /\ \A t \in stoppers' \ stoppers : \E s \in Servers : \E cand \in {entry[s].active, entry[s].blocked} \ {None} :
            t = Stopper(s, cand, 0, "drain")
  <2> DEFINE held == {p \in Servers \X {"active", "blocked"} : entry[p[1]][p[2]] # None}
  <2>1. stoppers' = stoppers \cup {Stopper(p[1], entry[p[1]][p[2]], 0, "drain") : p \in held}
    BY DEF DrainManager
  <2>2. ASSUME NEW p \in held
        PROVE  /\ p[1] \in Servers
               /\ entry[p[1]][p[2]] \in {entry[p[1]].active, entry[p[1]].blocked} \ {None}
    OBVIOUS
  <2> HIDE DEF held
  <2> QED
    BY <2>1, <2>2
<1>5. ASSUME NEW t \in stoppers' \ stoppers
      PROVE  t \in StopperSet /\ t.kind = "drain" /\ t.cand.id <= issued
  <2>1. PICK s \in Servers : \E cand \in {entry[s].active, entry[s].blocked} \ {None} :
                               t = Stopper(s, cand, 0, "drain")
    BY <1>4
  <2>2. PICK cand \in {entry[s].active, entry[s].blocked} \ {None} : t = Stopper(s, cand, 0, "drain")
    BY <2>1
  <2>3. cand \in Known(entry[s], work[s])
    BY DEF Known
  <2>4. cand \in Candidate /\ cand.id <= issued
    BY <2>3, At DEF ManagerInv, Numbered
  <2> QED
    BY <2>2, <2>4 DEF Stopper, StopperSet, Halting
<1>6. \A s \in Servers : /\ entry'[s] \in EntrySet
                         /\ Known(entry'[s], work'[s]) \subseteq Known(entry[s], work[s])
                         /\ Mine(entry'[s], work'[s]) \subseteq Mine(entry[s], work[s])
  BY <1>1, <1>3, DrainsEntry DEF Known, Mine
<1>7. Shape'
  <2>1. stoppers' \in SUBSET StopperSet /\ entry' \in [Servers -> EntrySet] /\ drain'.pc \in DrainPcs
    BY <1>1, <1>2, <1>3, <1>5, <1>6 DEF DrainPcs
  <2> QED
    BY <1>1, <1>2, <2>1 DEF ManagerInv, Shape
<1>8. Standing'
  BY <1>1 DEF ManagerInv, Standing
<1>9. Numbered'
  <2>1. \A s \in Servers : \A c \in Known(entry'[s], work'[s]) : c.id <= issued
    BY <1>6 DEF ManagerInv, Numbered
  <2>2. \A t \in stoppers' : t.cand.id <= issued
    BY <1>5 DEF ManagerInv, Numbered
  <2> QED
    BY <1>1, <2>1, <2>2 DEF ManagerInv, Numbered
<1>10. Distinct'
  <2> SUFFICES ASSUME NEW q \in Servers, NEW x \in Mine(entry'[q], work'[q])
               PROVE  /\ \A r \in Servers \ {q} : \A y \in Mine(entry'[r], work'[r]) : y.id # x.id
                      /\ \A y \in Mine(entry'[q], work'[q]) \cup handles : y.id = x.id => y = x
    BY <1>1 DEF Distinct
  <2>1. \A r \in Servers : Mine(entry'[r], work'[r]) \subseteq Mine(entry[r], work[r])
    BY <1>6
  <2>2. \A r \in Servers : \A z \in Mine(entry[r], work[r]) :
          /\ \A k \in Servers \ {r} : \A y \in Mine(entry[k], work[k]) : y.id # z.id
          /\ \A y \in Mine(entry[r], work[r]) \cup handles : y.id = z.id => y = z
    BY DEF ManagerInv, Distinct
  <2> HIDE DEF Mine
  <2>3. x \in Mine(entry[q], work[q])
    BY <2>1
  <2>4. \A r \in Servers \ {q} : \A y \in Mine(entry'[r], work'[r]) : y.id # x.id
    BY <2>1, <2>2, <2>3
  <2>5. \A y \in Mine(entry'[q], work'[q]) \cup handles : y.id = x.id => y = x
    <3> SUFFICES ASSUME NEW y \in Mine(entry'[q], work'[q]) \cup handles, y.id = x.id PROVE y = x
      OBVIOUS
    <3>1. y \in Mine(entry[q], work[q]) \cup handles
      BY <2>1
    <3> QED
      BY <2>2, <2>3, <3>1
  <2> QED
    BY <2>4, <2>5
<1>11. ASSUME NEW s \in Servers PROVE Local(s, entry[s], work[s])'
  <2>1. PICK e \in EntrySet, w \in WorkSet : e = entry[s] /\ w = work[s] /\ Local(s, e, w)
    BY At
  <2>2. PICK d \in EntrySet : /\ d = entry'[s] /\ d.gen = e.gen + 1 /\ d.timer = None /\ d.active = None
                              /\ d.operation = e.operation
    BY <1>1, <2>1, DrainsEntry
  <2>3. /\ Entrusted(s, e, w) /\ Underway(w) /\ Placed(s, e, w) /\ Lost(s, e, w) /\ Locked(s, w)
        /\ e.gen \in Nat /\ w.gen \in Nat
    BY <2>1, Fields, EntryFields DEF Local
  <2>4. Entrusted(s, d, w)' /\ Underway(w)'
    BY <1>1, <2>2, <2>3 DEF Entrusted, Underway, Idle
  <2>5. Placed(s, d, w)'
    BY <2>2, <2>3 DEF Placed
  <2>6. Active(s, d, w)' /\ Timed(d, w)'
    BY <2>2 DEF Active, Timed
  <2>7. Lost(s, d, w)'
    <3>1. \A t \in stoppers : t.gen \in Nat
      BY <1>3, StopperFields
    <3>2. \A t \in stoppers' : t.server = s /\ t.kind = "lost" => t.gen < d.gen /\ t.gen \in Nat
      BY <1>5, <2>2, <2>3, <3>1 DEF Lost
    <3> QED
      BY <2>2, <2>3, <3>2 DEF Lost
  <2>8. Locked(s, w)'
    BY <1>1, <1>2, <2>3 DEF Locked
  <2>9. Routed(s, d, w)'
    BY <1>2 DEF Routed
  <2>10. Local(s, d, w)'
    BY <2>4, <2>5, <2>6, <2>7, <2>8, <2>9 DEF Local
  <2> QED
    BY <1>1, <2>1, <2>2, <2>10
<1> QED
  BY <1>7, <1>8, <1>9, <1>10, <1>11 DEF ManagerInv

-----------------------------------------------------------------------------
(* The invariant. *)

LEMMA InitInv == Init => ManagerInv
<1> SUFFICES ASSUME Init PROVE ManagerInv
  OBVIOUS
<1>1. PICK e, w : e = NoEntry /\ w = Idle
  OBVIOUS
<1>2. e \in EntrySet /\ w \in WorkSet
  <2>1. e \in EntrySet
    BY <1>1 DEF NoEntry, EntrySet, Maybe, Statuses
  <2> QED
    BY <1>1, <2>1, IdleIsWork
<1>3. /\ e.gen = 0 /\ e.pending = FALSE /\ e.operation = None /\ e.activating = None /\ e.active = None
      /\ e.blocked = None /\ e.timer = None
  BY <1>1 DEF NoEntry
<1>4. /\ w.pc = "idle" /\ w.gen = 0 /\ w.op = None /\ w.cleanupOnly = FALSE /\ w.snap = None
      /\ w.cand = None /\ w.target = None
  BY <1>1 DEF Idle
<1>5. \A s \in Servers : entry[s] = e /\ work[s] = w /\ route[s] = None
  BY <1>1 DEF Init
<1>6. /\ drain.pc = "none" /\ "pc" \in DOMAIN drain /\ stoppers = {} /\ handles = {} /\ lock = None
  BY DEF Init
<1>7. \A c \in Callers : /\ call[c] \in CallSet /\ call[c].targets = {} /\ call[c].rev = 0
                         /\ call[c].pc = (IF c \in Servers THEN "trigger" ELSE "idle")
                         /\ call[c].server = (IF c \in Servers THEN c ELSE None)
  BY DEF Init, CallSet, Maybe
<1>8. \A s \in Servers : desired[s].rev = 0
  BY DEF Init
<1>9. Shape
  <2>1. desired \in [Servers -> Snapshot]
    BY DEF Init, Snapshot
  <2>2. ops \in [Ops -> {"none"} \cup Nonterminal \cup Terminal]
    BY DEF Init, Nonterminal
  <2>3. call \in [Callers -> CallSet]
    BY <1>7 DEF Init
  <2>4. entry \in [Servers -> EntrySet] /\ work \in [Servers -> WorkSet]
    BY <1>1, <1>2 DEF Init
  <2>5. owner \in [Servers -> Maybe(Nat)] /\ route \in [Servers -> Maybe(RouteSet)] /\ lock \in Maybe(Servers)
    BY DEF Init, Maybe
  <2>6. drain.pc \in DrainPcs /\ issued \in Nat /\ quiet = {}
    BY <1>6 DEF Init, DrainPcs
  <2> QED
    BY <1>6, <2>1, <2>2, <2>3, <2>4, <2>5, <2>6 DEF Shape
<1>10. Standing
  <2>1. None \notin Servers
    BY NamesAssumption
  <2>2. \A o \in Ops : o \in Callers /\ ops[o] = (IF o \in Servers THEN "scheduled" ELSE "none")
    BY DEF Init, Callers
  <2>3. \A c \in Callers : /\ call[c].pc = "idle" <=> call[c].server = None
                           /\ call[c].targets # {} => call[c].pc = "withdraw"
                           /\ call[c].pc = "refresh" => c \in Callbacks
    BY <1>7, <2>1
  <2>4. /\ \A o \in Ops : ops[o] # "none" <=> call[o].server \in Servers
        /\ \A o \in Ops : call[o].server \in Servers => call[o].rev <= desired[call[o].server].rev
        /\ \A o \in Ops : ops[o] \in Nonterminal => call[o].rev = desired[call[o].server].rev
    BY <1>7, <1>8, <2>1, <2>2 DEF Nonterminal
  <2> QED
    BY <2>3, <2>4 DEF Standing
<1>11. Numbered /\ Distinct
  BY <1>3, <1>4, <1>5, <1>6 DEF Numbered, Distinct, Known, Mine
<1>12. ASSUME NEW s \in Servers PROVE Local(s, entry[s], work[s])
  <2>1. Entrusted(s, e, w) /\ Underway(w)
    BY <1>1, <1>3, <1>4 DEF Entrusted, Underway, Early, Trial, Halting
  <2>2. Placed(s, e, w) /\ Active(s, e, w) /\ Lost(s, e, w) /\ Timed(e, w)
    BY <1>3, <1>4, <1>6 DEF Placed, Active, Lost, Timed, draining
  <2>3. Locked(s, w) /\ Routed(s, e, w)
    BY <1>4, <1>5, <1>6, NamesAssumption DEF Locked, Routed
  <2>4. Local(s, e, w)
    BY <2>1, <2>2, <2>3 DEF Local
  <2> QED
    BY <1>5, <2>4
<1> QED
  BY <1>9, <1>10, <1>11, <1>12 DEF ManagerInv

LEMMA WorkerStepInv ==
  ASSUME ManagerInv, NEW s \in Servers, WorkerStep(s)
  PROVE  ManagerInv'
<1>1. ReadServer(s) \/ RecordAttempt(s) \/ BeginOperation(s) \/ StopPrevious(s) => ManagerInv'
  BY ReadServerInv, RecordAttemptInv, BeginOperationInv, StopPreviousInv
<1>2. ChooseCandidate(s) \/ RetireServer(s) \/ CannotDecide(s) \/ ResolveAuthority(s) => ManagerInv'
  BY ChooseCandidateInv, RetireServerInv, CannotDecideInv, ResolveAuthorityInv
<1>3. AdmitRuntime(s) \/ ConstructRuntime(s) \/ PublishCommit(s) \/ PublishRecheck(s) => ManagerInv'
  BY AdmitRuntimeInv, ConstructRuntimeInv, PublishCommitInv, PublishRecheckInv
<1>4. PublishInstall(s) \/ CheckFence(s) \/ WorkerWithdraws(s) \/ WorkerStops(s) => ManagerInv'
  BY PublishInstallInv, CheckFenceInv, WorkerWithdrawsInv, WorkerStopsInv
<1>5. WorkerReleases(s) \/ Stopped(s) \/ Succeed(s) \/ CompletionDisplaced(s) => ManagerInv'
  BY WorkerReleasesInv, StoppedInv, SucceedInv, CompletionDisplacedInv
<1>6. CompleteSuccess(s) \/ CompleteFailure(s) \/ FinishStale(s) \/ ClearActivating(s) \/ FinishWork(s)
        => ManagerInv'
  BY CompleteSuccessInv, CompleteFailureInv, FinishStaleInv, ClearActivatingInv, FinishWorkInv
<1> QED
  BY <1>1, <1>2, <1>3, <1>4, <1>5, <1>6 DEF WorkerStep

LEMMA Stutters == ManagerInv /\ UNCHANGED vars => ManagerInv'
<1> SUFFICES ASSUME ManagerInv, UNCHANGED vars PROVE ManagerInv'
  OBVIOUS
<1>1. Inner /\ UNCHANGED <<entry, work, ops>>
  BY DEF vars, Inner
<1>2. Advanced /\ Discreet
  BY <1>1, DiscreetCalls DEF Advanced, ManagerInv, Shape, Inner
<1>3. ASSUME NEW s \in Servers PROVE \E d, v : d = entry'[s] /\ v = work'[s] /\ Local(s, d, v)
  <2>1. PICK d, v : d = entry[s] /\ v = work[s] /\ Local(s, d, v)
    BY At
  <2> QED
    BY <1>1, <2>1
<1>4. entry' \in [Servers -> EntrySet] /\ work' \in [Servers -> WorkSet]
  BY <1>1 DEF ManagerInv, Shape
<1>5. \A s \in Servers : /\ Known(entry'[s], work'[s]) \subseteq Known(entry[s], work[s])
                         /\ Mine(entry'[s], work'[s]) \subseteq Mine(entry[s], work[s])
  BY <1>1
<1>6. UNCHANGED <<desired, stoppers, owner, handles, quiet, route, lock, drain, issued>>
  BY DEF vars
<1> QED
  BY <1>2, <1>3, <1>4, <1>5, <1>6, Rearranged

(* The invariant of the runtime manager: an operation that is under way stands for the stored
   revision, identifiers are given out once, the candidate of a worker that holds the generation
   keeps its place and its ownership, and every served route has somebody who answers for it
   (manager.go: TriggerWithCause, reconcile, finishSuccess, ReportRuntimeFailure, Drain). *)
THEOREM ManagerInvariant == Spec => []ManagerInv
<1>1. ASSUME ManagerInv, Next PROVE ManagerInv'
  <2>1. ASSUME NEW c \in Callers, NEW s \in Servers, Patch(c, s) \/ Callback(c, s) PROVE ManagerInv'
    BY <1>1, <2>1, PatchInv, CallbackInv
  <2>2. ASSUME NEW c \in Callers, CallStep(c) PROVE ManagerInv'
    BY <1>1, <2>2, RefreshEndsInv, TriggerInv, TriggerWithdrawsInv, TriggerReturnsInv DEF CallStep
  <2>3. ASSUME NEW s \in Servers, WorkerStep(s) \/ RetryFires(s) PROVE ManagerInv'
    BY <1>1, <2>3, WorkerStepInv, RetryFiresInv
  <2>4. ASSUME NEW s \in Servers, NEW cand \in handles, RuntimeExits(s, cand) PROVE ManagerInv'
    BY <1>1, <2>4, RuntimeExitsInv
  <2>5. ASSUME NEW t \in stoppers, StopperStep(t) PROVE ManagerInv'
    BY <1>1, <2>5, StopperWithdrawsInv, StopperStopsInv, StopperReleasesInv, LostRuntimeStoppedInv,
       RefusedRuntimeStoppedInv, DrainStoppedInv DEF StopperStep
  <2>6. CASE BeginDrain \/ DrainStep
    BY <1>1, <2>6, BeginDrainInv, DrainRoutesInv, DrainManagerInv, DrainEndsInv DEF DrainStep
  <2> QED
    BY <1>1, <2>1, <2>2, <2>3, <2>4, <2>5, <2>6 DEF Next
<1>2. ManagerInv /\ [Next]_vars => ManagerInv'
  BY <1>1, Stutters
<1> QED
  BY <1>2, InitInv, PTL DEF Spec

(* A served route is of the current generation and leads to an owned runtime, or somebody is about
   to withdraw it, and none is served once the registry has drained (ActiveRegistry, Publish,
   withdrawCandidates, Drain). *)
THEOREM RoutesAreFenced == Spec => []RoutesAreSound
<1>1. ASSUME ManagerInv, NEW s \in Servers, route[s] # None, route[s].live
      PROVE  \/ entry[s].gen = route[s].gen /\ owner[s] = route[s].id
             \/ Withdrawing(s, route[s].id) \/ RefreshRejected(s)
  <2>1. PICK e \in EntrySet, w \in WorkSet, r \in RouteSet :
           /\ e = entry[s] /\ w = work[s] /\ r = route[s] /\ Local(s, e, w)
    BY <1>1, At DEF Maybe
  <2>2. drain.pc \in {"none", "routes"} /\ Routed(s, e, w) /\ Underway(w) /\ Active(s, e, w)
    BY <1>1, <2>1 DEF Local, Locked
  <2> DEFINE held == {entry[s].active, entry[s].activating} \ {None}
             calls == {call[c] : c \in {d \in Callers : call[d].server = s}}
             A == UNION {c.targets : c \in calls}
             B == {t.cand : t \in {u \in stoppers : u.server = s /\ u.pc = "withdraw"}}
             C == IF work[s].pc \in {"idle", "stop", "release", "stopped", "clear", "finish"}
                  THEN {} ELSE {work[s].cand, work[s].target} \ {None}
             D == IF \E c \in calls : c.pc \in {"refresh", "trigger"} THEN held ELSE {}
             F == IF work[s].pc # "idle" \/ entry[s].pending THEN held ELSE {}
  <2>9. (\E cand \in A \cup B \cup C \cup D \cup F : cand.id = r.id) => Withdrawing(s, r.id)
    BY DEF Withdrawing
  <2>3. CASE drain.pc = "routes"
    BY <2>3 DEF Withdrawing
  <2>4. ASSUME ByWorker(r, w) PROVE Withdrawing(s, r.id)
    <3>1. PICK x \in {w.cand, w.target} \ {None} : x.id = r.id
      <4>1. w.pc = "fence" => w.cand # None
        BY <2>2 DEF Underway, Trial
      <4>2. w.pc = "withdraw" => w.target # None
        BY <2>2 DEF Underway, Halting
      <4> QED
        BY <2>4, <4>1, <4>2 DEF ByWorker, Match
    <3>2. w.pc \notin {"idle", "stop", "release", "stopped", "clear", "finish"}
      BY <2>4 DEF ByWorker
    <3>3. x \in C
      BY <2>1, <3>2
    <3> HIDE DEF A, B, C, D, F
    <3> QED
      BY <2>9, <3>1, <3>3
  <2>5. ASSUME ByStopper(s, r) PROVE Withdrawing(s, r.id)
    <3>1. PICK t \in stoppers : t.server = s /\ t.pc = "withdraw" /\ t.cand.id = r.id
      BY <2>5 DEF ByStopper, Match
    <3>2. t.cand \in B
      BY <3>1
    <3> HIDE DEF A, B, C, D, F
    <3> QED
      BY <2>9, <3>1, <3>2
  <2>6. ASSUME ByCall(s, r) PROVE Withdrawing(s, r.id)
    <3>1. PICK c \in Callers : call[c].server = s /\ \E cand \in call[c].targets : cand.id = r.id
      BY <2>6 DEF ByCall, Match
    <3>2. PICK cand \in call[c].targets : cand.id = r.id
      BY <3>1
    <3>3. cand \in A
      BY <3>1, <3>2
    <3> HIDE DEF A, B, C, D, F
    <3> QED
      BY <2>9, <3>2, <3>3
  <2>7. ASSUME ByEntry(s, r, e, w)
        PROVE  (e.gen = r.gen /\ owner[s] = r.id) \/ Withdrawing(s, r.id)
    <3>1. e.active # None /\ e.active.id = r.id /\ e.active.gen = r.gen
      BY <2>7 DEF ByEntry, Match
    <3>2. CASE r.gen = e.gen
      BY <2>2, <3>1, <3>2 DEF Active
    <3>3. CASE Coming(s)
      <4>1. PICK c \in Callers : call[c].server = s /\ call[c].pc \in {"refresh", "trigger"}
        BY <3>3 DEF Coming
      <4>2. e.active \in {entry[s].active, entry[s].activating} \ {None}
        BY <2>1, <3>1
      <4>3. e.active \in D
        BY <4>1, <4>2
      <4> HIDE DEF A, B, C, D, F
      <4> QED
        BY <2>9, <3>1, <4>3
    <3> QED
      BY <2>7, <3>2, <3>3 DEF ByEntry
  <2>8. CASE drain.pc = "none"
    BY <1>1, <2>1, <2>2, <2>4, <2>5, <2>6, <2>7, <2>8 DEF Routed
  <2> QED
    BY <2>1, <2>2, <2>3, <2>8
<1>2. ManagerInv => RouteIsFenced /\ RouteHasRuntime
  BY <1>1 DEF RouteIsFenced, RouteHasRuntime
<1>3. ManagerInv => NoRouteAfterDrain
  BY AllDrained DEF NoRouteAfterDrain
<1>4. ManagerInv => RoutesAreSound
  BY <1>2, <1>3 DEF RoutesAreSound
<1> QED
  BY <1>4, ManagerInvariant, PTL

-----------------------------------------------------------------------------
(* Operations settle once. *)

\* What OperationsSettleOnce says of a step.
Settlement ==
  \A o \in Ops :
    /\ ops[o] \in Terminal => ops'[o] = ops[o]
    /\ ops[o] # "succeeded" /\ ops'[o] = "succeeded" =>
         LET s == call[o].server
         IN /\ desired[s].rev = call[o].rev
            /\ desired[s].on => entry[s].active # None /\ Owned(s, entry[s].active)

\* The records of the operations are left alone, or move to a state that is no success.
LEMMA Unsettled ==
  ASSUME \A o \in Ops : \/ ops'[o] = ops[o]
                        \/ ops[o] \notin Terminal /\ ops'[o] # "succeeded"
  PROVE  Settlement
BY DEF Settlement

LEMMA PatchSettles ==
  ASSUME ManagerInv, NEW c \in Callers, NEW s \in Servers, Patch(c, s)
  PROVE  Settlement
<1>1. call[c].pc = "idle" /\ c \in Edits /\ ops' = [Superseded(s) EXCEPT ![c] = "scheduled"]
  BY DEF Patch
<1>2. c \in Ops /\ call[c].server \notin Servers
  BY <1>1, NamesAssumption DEF ManagerInv, Standing, Ops
<1>3. ops[c] = "none"
  BY <1>2 DEF ManagerInv, Standing
<1>4. \A o \in Ops : Superseded(s)[o] = IF call[o].server = s /\ ops[o] \in Nonterminal THEN "superseded" ELSE ops[o]
  BY DEF Superseded
<1>5. \A o \in Ops : ops'[o] = IF o = c THEN "scheduled" ELSE Superseded(s)[o]
  BY <1>1, <1>2 DEF Superseded
<1>6. \A o \in Ops : ops'[o] = ops[o] \/ (ops[o] \notin Terminal /\ ops'[o] # "succeeded")
  BY <1>3, <1>4, <1>5 DEF Terminal, Nonterminal
<1> QED
  BY <1>6, Unsettled

LEMMA BeginSettles ==
  ASSUME ManagerInv, NEW s \in Servers, BeginOperation(s)
  PROVE  Settlement
<1>1. ops \in [Ops -> {"none"} \cup Nonterminal \cup Terminal]
  BY DEF ManagerInv, Shape
<1>2. CASE ops' = ops
  BY <1>2, Unsettled
<1>3. CASE /\ ops' = [o \in Ops |-> IF o = work[s].op THEN "running" ELSE ops[o]]
           /\ work[s].op # None => ops[work[s].op] \in {"running", "scheduled"}
  <2>1. \A o \in Ops : ops'[o] = ops[o] \/ (ops[o] \notin Terminal /\ ops'[o] # "succeeded")
    BY <1>3, NamesAssumption DEF Terminal, Ops
  <2> QED
    BY <2>1, Unsettled
<1> QED
  BY <1>2, <1>3 DEF BeginOperation

LEMMA FailureSettles ==
  ASSUME ManagerInv, NEW s \in Servers, CompleteFailure(s)
  PROVE  Settlement
<1>1. CASE ops' = ops
  BY <1>1, Unsettled
<1>2. CASE Completable(work[s]) /\ ops' = Completed(work[s], "failed")
  <2>1. \A o \in Ops : ops'[o] = ops[o] \/ (ops[o] \notin Terminal /\ ops'[o] # "succeeded")
    BY <1>2, NamesAssumption DEF Completable, Completed, Terminal, Ops
  <2> QED
    BY <2>1, Unsettled
<1> QED
  BY <1>1, <1>2 DEF CompleteFailure

LEMMA FinishSettles ==
  ASSUME ManagerInv, NEW s \in Servers, FinishWork(s)
  PROVE  Settlement
<1>1. \/ UNCHANGED ops
      \/ ops' = [o \in Ops |-> IF o = work[s].op /\ ops[o] \notin Terminal THEN "superseded" ELSE ops[o]]
  BY Zenon DEF FinishWork
<1>2. \A o \in Ops : ops'[o] = ops[o] \/ (ops[o] \notin Terminal /\ ops'[o] # "succeeded")
  BY <1>1 DEF Terminal
<1> QED
  BY <1>2, Unsettled

\* finishSuccess: the worker still holds the generation, so its candidate is active and owned, and
\* what it read is what the operation stands for.
LEMMA SuccessSettles ==
  ASSUME ManagerInv, NEW s \in Servers, CompleteSuccess(s)
  PROVE  Settlement
<1>1. CASE ops' = ops
  BY <1>1, Unsettled
<1>2. CASE Completable(work[s]) /\ ops' = Completed(work[s], "succeeded")
  <2>1. PICK e \in EntrySet, w \in WorkSet : e = entry[s] /\ w = work[s] /\ Local(s, e, w)
    BY At
  <2>2. w.pc = "complete" /\ e.gen = w.gen
    BY <2>1 DEF CompleteSuccess, Current
  <2>3. \A o \in Ops : o # w.op => ops'[o] = ops[o]
    BY <1>2, <2>1 DEF Completed
  <2>4. ASSUME NEW o \in Ops, o = w.op
        PROVE  /\ ops[o] \notin Terminal /\ call[o].server = s /\ desired[s].rev = call[o].rev
               /\ desired[s].on => e.active # None /\ owner[s] = e.active.id
    <3>1. w.op # None /\ ops[o] = "running"
      BY <1>2, <2>1, <2>4, NamesAssumption DEF Completable, Ops
    <3>2. call[o].server = s /\ call[o].rev = desired[s].rev
      BY <2>1, <2>4, <3>1 DEF Local, Entrusted, ManagerInv, Standing, Nonterminal
    <3>3. w.snap # None /\ (w.snap.on => w.cand # None)
      BY <2>1, <2>2 DEF Local, Underway
    <3>4. w.snap.rev \in Nat /\ desired[s].rev \in Nat
      BY <2>1, <3>3, Fields, At DEF Maybe, Snapshot
    <3>5. w.snap.rev = desired[s].rev
      BY <2>1, <2>4, <3>1, <3>2, <3>3, <3>4 DEF Local, Entrusted
    <3>6. desired[s].on => w.cand # None
      BY <2>1, <3>3, <3>5 DEF Local, Entrusted
    <3>7. w.cand # None => e.active = w.cand /\ owner[s] = w.cand.id
      BY <2>1, <2>2 DEF Local, Placed, Held, Firm
    <3> QED
      BY <3>1, <3>2, <3>6, <3>7 DEF Terminal
  <2> QED
    BY <2>1, <2>3, <2>4 DEF Settlement, Owned
<1> QED
  BY <1>1, <1>2 DEF CompleteSuccess

(* An operation is completed once, and success is recorded only for the revision that is stored and,
   if the server is to run, with its runtime active and owned (finishSuccess, finishFailure,
   finishWork, CompleteReconciliation, supersedeNonterminalTx). *)
THEOREM OperationsAreSettledOnce == Spec => OperationsSettleOnce
<1>1. ASSUME ManagerInv, Next PROVE Settlement
  <2>1. UNCHANGED ops => Settlement
    BY Unsettled
  <2>2. ASSUME NEW c \in Callers, NEW s \in Servers, Patch(c, s) \/ Callback(c, s) PROVE Settlement
    <3>1. CASE Patch(c, s)
      BY <1>1, <3>1, PatchSettles
    <3>2. CASE Callback(c, s)
      BY <2>1, <3>2 DEF Callback, RefreshBegins, FenceServer, store
    <3> QED
      BY <2>2, <3>1, <3>2
  <2>3. ASSUME NEW c \in Callers, CallStep(c) PROVE Settlement
    BY <2>1, <2>3 DEF CallStep, RefreshEnds, Trigger, TriggerWithdraws, TriggerReturns, store
  <2>4. ASSUME NEW s \in Servers, WorkerStep(s) \/ RetryFires(s) PROVE Settlement
    <3>1. CASE BeginOperation(s) \/ CompleteSuccess(s) \/ CompleteFailure(s) \/ FinishWork(s)
      BY <1>1, <3>1, BeginSettles, SuccessSettles, FailureSettles, FinishSettles
    <3>2. CASE ReadServer(s) \/ RecordAttempt(s) \/ StopPrevious(s) \/ ChooseCandidate(s) \/ RetireServer(s)
      BY <2>1, <3>2 DEF ReadServer, RecordAttempt, StopPrevious, ChooseCandidate, RetireServer, store
    <3>3. CASE CannotDecide(s) \/ ResolveAuthority(s) \/ AdmitRuntime(s) \/ ConstructRuntime(s)
      BY <2>1, <3>3 DEF CannotDecide, ResolveAuthority, AdmitRuntime, ConstructRuntime, store
    <3>4. CASE PublishCommit(s) \/ PublishRecheck(s) \/ PublishInstall(s) \/ CheckFence(s)
      BY <2>1, <3>4 DEF PublishCommit, PublishRecheck, PublishInstall, CheckFence, store
    <3>5. CASE WorkerWithdraws(s) \/ WorkerStops(s) \/ WorkerReleases(s) \/ Stopped(s)
      BY <2>1, <3>5 DEF WorkerWithdraws, WorkerStops, WorkerReleases, Stopped, store
    <3>6. CASE Succeed(s) \/ CompletionDisplaced(s) \/ FinishStale(s) \/ ClearActivating(s) \/ RetryFires(s)
      BY <2>1, <3>6 DEF Succeed, CompletionDisplaced, FinishStale, ClearActivating, RetryFires, store
    <3> QED
      BY <2>4, <3>1, <3>2, <3>3, <3>4, <3>5, <3>6 DEF WorkerStep
  <2>5. ASSUME NEW s \in Servers, NEW cand \in handles, RuntimeExits(s, cand) PROVE Settlement
    BY <2>1, <2>5 DEF RuntimeExits, store
  <2>6. ASSUME NEW t \in stoppers, StopperStep(t) PROVE Settlement
    BY <2>1, <2>6 DEF StopperStep, StopperWithdraws, StopperStops, StopperReleases, LostRuntimeStopped,
       RefusedRuntimeStopped, DrainStopped, store
  <2>7. CASE BeginDrain \/ DrainStep
    BY <2>1, <2>7 DEF BeginDrain, DrainStep, DrainRoutes, DrainManager, DrainCounts, DrainReturns, store
  <2> QED
    BY <1>1, <2>2, <2>3, <2>4, <2>5, <2>6, <2>7 DEF Next
<1>2. ManagerInv /\ [Next]_vars => [Settlement]_vars
  BY <1>1
<1>3. Spec => [][Settlement]_vars
  BY <1>2, ManagerInvariant, PTL DEF Spec
<1> QED
  BY <1>3 DEF Settlement, OperationsSettleOnce
=============================================================================
