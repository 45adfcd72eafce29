--------------------------- MODULE IngressProofs ---------------------------
(***************************************************************************)
(* What an agent meets at the MCP endpoint: its session and its calls.     *)
(*                                                                         *)
(* The legacy sessions of the MCP ingress, for any number of requests,     *)
(* session ids and credentials and any limits: slots, permits and leases   *)
(* are accounted for in every interleaving of the requests with the        *)
(* timers, the watches, the authority and Shutdown (SessionsAccounted),    *)
(* and a request never releases a lease it has given away                  *)
(* (SessionKeepsLease).                                                    *)
(*                                                                         *)
(* The invariant follows one session: before it exists nothing refers to   *)
(* it (Unborn), while it is installed only its timers do (Installed once,  *)
(* OnceInstalled), and from then on a current lease has somebody to give   *)
(* it back (LeaseFollowed).  ClosersAreHere ties every closer to the       *)
(* goroutine it belongs to, which keeps two of them from being confused.   *)
(*                                                                         *)
(* The calls, for any number of them, of publications and of tokens: the   *)
(* agent and the server are told the same story (OneStory), and what a     *)
(* call or a process occupies is bounded and given back                    *)
(* (ResourcesAreOwned).  CallInv says, place by place, what a call has     *)
(* been told and occupies, and that the dispatcher counts exactly that;    *)
(* NegotiationInv which process a negotiation has; StoreInv that the       *)
(* history is healthy only when it was validated after its last failure.   *)
(***************************************************************************)
EXTENDS Ingress, Invocation, FiniteSetTheorems, SequenceTheorems, TLAPS

Closing == {"once", "release"}

\* Before a request creates its session nothing refers to it, and its lease is its own.
Unborn(r) ==
  /\ pc[r] \in {"start", "authenticated", "working", "reserved"} => session[r] = "none"
  /\ session[r] = "none" =>
       /\ ~Published(r) /\ r \notin watching
       /\ \A t \in Timers : ~timer[t][r]
       /\ \A c \in Closers : stage[c][r] = "off"
       /\ pc[r] \notin {"created", "published", "initializing"}
       /\ pc[r] \notin {"start", "returned"} => owned[r]
       /\ pc[r] = "returned" => lease[r] # "current"

\* While it is installed only its timers know a session, and they make it early.
OnceInstalled(r) ==
  /\ pc[r] = "created" => /\ ~Published(r) /\ r \notin watching
                          /\ \A c \in Closers \ Timers : stage[c][r] = "off"
                          /\ r \notin early => /\ session[r] = "open"
                                               /\ \A t \in Timers : stage[t][r] = "off"
  /\ pc[r] \in {"created", "published", "initializing"} => target[r] = r
  /\ pc[r] \in {"deleting", "closing"} => target[r] \in Requests /\ session[target[r]] # "none"
  /\ pc[r] = "deleting" => ~Published(target[r]) /\ pc[target[r]] # "created"

\* A session is published under its own id, once.
PublishedOnce ==
  \A i \in Ids, s \in Requests : legacy[i] = s => id[s] = i

\* Who closes a session has taken it out of the table, but for early timers.
ClosedAfterRemoval(s) ==
  s \notin early /\ ((\E c \in Closers : stage[c][s] \in Closing)
                       \/ session[s] \in {"closing", "closed"}) => ~Published(s)

\* Every closer is the goroutine it is named after, in the right place.
ClosersAreHere ==
  /\ \A r \in Requests, s \in Requests :
       stage[r][s] # "off" => pc[r] = "closing" /\ target[r] = s
  /\ \A s \in watching : stage["watch"][s] = "off"
  /\ shutdown # "closing" => \A s \in Requests : stage["shutdown"][s] = "off"

\* A session is closed in one closeOnce, which releases its lease.
CloseOnceOnce(s) ==
  /\ session[s] = "closing" => \E c \in Closers : stage[c][s] = "release"
  /\ \A c \in Closers : stage[c][s] = "release" => session[s] = "closing"
  /\ \A c, d \in Closers : stage[c][s] = "release" /\ stage[d][s] = "release" => c = d
  /\ session[s] = "closed" => lease[s] = "done"

\* Somebody follows a current lease from the moment its session can be found.
LeaseFollowed(s) ==
  session[s] # "none" /\ pc[s] # "created" /\ lease[s] = "current" =>
    Published(s) \/ BeingClosed(s)

\* A request that still owns the lease of its session leaves only when that is closed.
OwnerWaits(r) ==
  owned[r] /\ session[r] # "none" =>
    /\ pc[r] \in {"created", "closing", "unreserve", "leave"}
    /\ pc[r] = "closing" => target[r] = r /\ (stage[r][r] = "off" => session[r] = "closed")
    /\ pc[r] \in {"unreserve", "leave"} => session[r] = "closed"

\* A published session is one Shutdown knows of.
ShutdownSees ==
  /\ shuttingDown <=> shutdown # "idle"
  /\ shuttingDown =>
            \A s \in Requests : Published(s) => stage["shutdown"][s] \in {"noted", "remove"}

SlotsHeld ==
  /\ \A r \in Requests : pc[r] \in {"reserved", "created", "unreserve"} => r \in holds
  /\ IsFiniteSet(PublishedIds)

\* A request that names a session asks for something of it.
Asks(r) ==
  /\ r \in Users /\ pc[r] \in {"authenticated", "working"} =>
       kind[r] \in {"post", "get", "delete"} /\ id[r] \in Ids
  /\ pc[r] = "created" => id[r] \in Ids

\* The requests that hold a work permit, and a stream permit.
Working   == {r \in Requests : pc[r] \notin {"start", "authenticated", "returned"}}
Streaming == {r \in Requests : pc[r] = "streaming"}

IngressInv ==
  /\ TypeOK /\ Capacity /\ SlotsHeld
  /\ PublishedOnce /\ ClosersAreHere /\ ShutdownSees
  /\ \A r \in Requests : /\ Unborn(r) /\ OnceInstalled(r) /\ ClosedAfterRemoval(r)
                         /\ CloseOnceOnce(r) /\ LeaseFollowed(r) /\ OwnerWaits(r) /\ Asks(r)

USE RequestsFinite, NoneAssumption, LimitsAssumption, TimersAssumption, RequestsDistinct,
    RequestsAreNoRoles

\* A request that holds a slot, works or streams is counted.
LEMMA Counted ==
  ASSUME IngressInv, NEW r \in Requests
  PROVE  /\ r \in holds => reserved \in Nat /\ reserved - 1 \in Nat
         /\ pc[r] = "leave" => work \in Nat /\ work - 1 \in Nat
         /\ pc[r] = "streaming" => streams \in Nat /\ streams - 1 \in Nat
<1> DEFINE W == {q \in Requests : pc[q] \notin {"start", "authenticated", "returned"}}
           S == {q \in Requests : pc[q] = "streaming"}
<1>1. reserved = Cardinality(holds) /\ work = Cardinality(W) /\ streams = Cardinality(S)
  BY DEF IngressInv, Capacity
<1>2. W \subseteq Requests /\ S \subseteq Requests /\ holds \subseteq Requests
  BY DEF IngressInv, TypeOK
<1>3. pc[r] = "leave" => r \in W
  OBVIOUS
<1>4. pc[r] = "streaming" => r \in S
  OBVIOUS
<1> HIDE DEF W, S
<1>5. ASSUME NEW X, X \subseteq Requests, r \in X
      PROVE  Cardinality(X) \in Nat /\ Cardinality(X) - 1 \in Nat
  <2>1. IsFiniteSet(X)
    BY <1>5, FS_Subset
  <2>2. Cardinality(X) \in Nat /\ Cardinality(X) # 0
    BY <1>5, <2>1, FS_CardinalityType, FS_EmptySet
  <2> QED BY <2>2
<1> QED BY <1>1, <1>2, <1>3, <1>4, <1>5

\* Every step preserves the types.
LEMMA StepType ==
  ASSUME IngressInv, [Next]_vars PROVE TypeOK'
<1> USE DEF requestVars, tableVars, permitVars, sessionVars, closeVars, Goto, Begin
<1>0. /\ pc \in [Requests -> Labels] /\ kind \in [Requests -> Kinds \cup {None}]
      /\ credential \in [Requests -> Credentials \cup {None}]
      /\ lease \in [Requests -> {"none", "current", "done"}]
      /\ owned \in [Requests -> BOOLEAN] /\ holds \in SUBSET Requests
      /\ early \in SUBSET Requests
      /\ id \in [Requests -> Ids \cup {None}] /\ target \in [Requests -> Requests \cup {None}]
      /\ legacy \in [Ids -> Requests \cup {None}]
      /\ reserved \in Nat /\ work \in Nat /\ streams \in Nat
      /\ session \in [Requests -> {"none", "open", "closing", "closed"}]
      /\ timer \in [Timers -> [Requests -> BOOLEAN]] /\ watching \in SUBSET Requests
      /\ stage \in [Closers -> [Requests -> {"off", "noted", "remove", "once", "release"}]]
  BY DEF IngressInv, TypeOK
<1>c. Requests \subseteq Closers /\ Timers \subseteq Closers /\ {"watch", "shutdown"} \subseteq Closers
  BY DEF Closers
<1>1. ASSUME NEW r \in Requests, Authenticate(r) PROVE TypeOK'
  BY <1>1, <1>0, <1>c DEF Authenticate, IngressInv, TypeOK, Labels, Kinds
<1>2. ASSUME NEW r \in Requests, Refuse(r) PROVE TypeOK'
  BY <1>2, <1>0, <1>c DEF Refuse, Release, IngressInv, TypeOK, Labels, Kinds
<1>3. ASSUME NEW r \in Requests, TakeWork(r) PROVE TypeOK'
  BY <1>3, <1>0, <1>c DEF TakeWork, IngressInv, TypeOK, Labels, Kinds
<1>4. ASSUME NEW r \in Requests, Answer(r) PROVE TypeOK'
  BY <1>4, <1>0, <1>c DEF Answer, IngressInv, TypeOK, Labels, Kinds
<1>5. ASSUME NEW r \in Requests, Reserve(r) PROVE TypeOK'
  BY <1>5, <1>0, <1>c DEF Reserve, IngressInv, TypeOK, Labels, Kinds
<1>6. ASSUME NEW r \in Requests, InitializeFails(r) PROVE TypeOK'
  BY <1>6, <1>0, <1>c DEF InitializeFails, IngressInv, TypeOK, Labels, Kinds
<1>7. ASSUME NEW r \in Requests, CreateSession(r) PROVE TypeOK'
  BY <1>7, <1>0, <1>c DEF CreateSession, IngressInv, TypeOK, Labels, Kinds
<1>8. ASSUME NEW r \in Requests, RejectSession(r) PROVE TypeOK'
  BY <1>8, <1>0, <1>c DEF RejectSession, IngressInv, TypeOK, Labels, Kinds
<1>9. ASSUME NEW r \in Requests, Publish(r) PROVE TypeOK'
  <2>1. r \in holds
    BY <1>9 DEF Publish, IngressInv, SlotsHeld
  <2> QED BY <1>9, <1>0, <1>c, <2>1, Counted DEF Publish, TypeOK, Labels, Kinds, IngressInv
<1>10. ASSUME NEW r \in Requests, Recheck(r) PROVE TypeOK'
  BY <1>10, <1>0, <1>c DEF Recheck, IngressInv, TypeOK, Labels, Kinds
<1>11. ASSUME NEW r \in Requests, Initialized(r) PROVE TypeOK'
  BY <1>11, <1>0, <1>c DEF Initialized, IngressInv, TypeOK, Labels, Kinds
<1>12. ASSUME NEW r \in Requests, Closed(r) PROVE TypeOK'
  BY <1>12, <1>0, <1>c DEF Closed, IngressInv, TypeOK, Labels, Kinds
<1>13. ASSUME NEW r \in Requests, Unreserve(r) PROVE TypeOK'
  <2>1. r \in holds
    BY <1>13 DEF Unreserve, IngressInv, SlotsHeld
  <2> QED BY <1>13, <1>0, <1>c, <2>1, Counted DEF Unreserve, TypeOK, Labels, Kinds, IngressInv
<1>14. ASSUME NEW r \in Requests, OpenStream(r) PROVE TypeOK'
  BY <1>14, <1>0, <1>c DEF OpenStream, IngressInv, TypeOK, Labels, Kinds
<1>15. ASSUME NEW r \in Requests, CloseStream(r) PROVE TypeOK'
  BY <1>15, <1>0, <1>c, Counted DEF CloseStream, IngressInv, TypeOK, Labels, Kinds
<1>16. ASSUME NEW r \in Requests, Deleted(r) PROVE TypeOK'
  BY <1>16, <1>0, <1>c DEF Deleted, IngressInv, TypeOK, Labels, Kinds
<1>17. ASSUME NEW r \in Requests, Leave(r) PROVE TypeOK'
  <2>1. lease' \in [Requests -> {"none", "current", "done"}]
    BY <1>17, <1>0 DEF Leave, Release
  <2> QED BY <1>17, <1>0, <1>c, <2>1, Counted DEF Leave, Release, IngressInv, TypeOK, Labels,
             Kinds
<1>18. ASSUME NEW r \in Requests, NEW s \in Requests, FindExpired(r, s) PROVE TypeOK'
  <2>1. legacy' \in [Ids -> Requests \cup {None}]
    BY <1>18, <1>0 DEF FindExpired, Drop
  <2>2. target' \in [Requests -> Requests \cup {None}] /\ pc' \in [Requests -> Labels]
    BY <1>18, <1>0 DEF FindExpired, Labels
  <2>3. stage' \in [Closers -> [Requests -> {"off", "noted", "remove", "once", "release"}]]
    BY <1>18, <1>0, <1>c DEF FindExpired
  <2> QED BY <1>18, <2>1, <2>2, <2>3 DEF FindExpired, IngressInv, TypeOK
<1>19. ASSUME NEW r \in Requests, NEW s \in Requests, FindLive(r, s) PROVE TypeOK'
  <2>1. kind[r] \in {"post", "get", "delete"}
    BY <1>19 DEF FindLive, Finds, IngressInv, Asks
  <2>2. pc' \in [Requests -> Labels]
    BY <1>19, <1>0, <2>1 DEF FindLive, Labels
  <2>3. legacy' \in [Ids -> Requests \cup {None}]
    BY <1>19, <1>0 DEF FindLive, Drop
  <2>4. target' \in [Requests -> Requests \cup {None}]
    BY <1>19, <1>0 DEF FindLive
  <2>5. timer' \in [Timers -> [Requests -> BOOLEAN]]
    BY <1>19, <1>0 DEF FindLive
  <2> QED BY <1>19, <2>2, <2>3, <2>4, <2>5 DEF FindLive, IngressInv, TypeOK
<1>20. ASSUME NEW c \in Closers, NEW s \in Requests, CloseRemove(c, s) PROVE TypeOK'
  BY <1>20, <1>0, <1>c DEF CloseRemove, IngressInv, TypeOK, Labels, Kinds
<1>21. ASSUME NEW c \in Closers, NEW s \in Requests, CloseOnce(c, s) PROVE TypeOK'
  <2>1. timer' = timer \/ timer' = [t \in Timers |-> [timer[t] EXCEPT ![s] = FALSE]]
    BY <1>21 DEF CloseOnce
  <2>2. timer' \in [Timers -> [Requests -> BOOLEAN]]
    <3>1. CASE timer' = timer
      BY <1>0, <3>1
    <3>2. CASE timer' = [t \in Timers |-> [timer[t] EXCEPT ![s] = FALSE]]
      BY <1>0, <3>2
    <3> QED BY <2>1, <3>1, <3>2
  <2>3. session' \in [Requests -> {"none", "open", "closing", "closed"}]
    BY <1>21, <1>0 DEF CloseOnce
  <2>4. \E w \in {"release", "off"} : stage' = [stage EXCEPT ![c][s] = w]
    BY <1>21 DEF CloseOnce
  <2>5. stage' \in [Closers -> [Requests -> {"off", "noted", "remove", "once", "release"}]]
    BY <1>0, <2>4
  <2> QED BY <1>21, <2>2, <2>3, <2>5 DEF CloseOnce, IngressInv, TypeOK
<1>22. ASSUME NEW c \in Closers, NEW s \in Requests, CloseRelease(c, s) PROVE TypeOK'
  BY <1>22, <1>0, <1>c DEF CloseRelease, IngressInv, TypeOK, Labels, Kinds
<1>23. ASSUME NEW t \in Timers, NEW s \in Requests, TimerFires(t, s) PROVE TypeOK'
  BY <1>23, <1>0, <1>c DEF TimerFires, Installing, IngressInv, TypeOK, Labels, Kinds
<1>24. ASSUME NEW s \in Requests, WatchEnds(s) PROVE TypeOK'
  BY <1>24, <1>0, <1>c DEF WatchEnds, IngressInv, TypeOK, Labels, Kinds
<1>25. ASSUME NEW s \in Requests, CancelLease(s) PROVE TypeOK'
  BY <1>25, <1>0, <1>c DEF CancelLease, IngressInv, TypeOK, Labels, Kinds
<1>26. ASSUME NEW s \in Requests, ShutdownLookup(s) PROVE TypeOK'
  BY <1>26, <1>0, <1>c DEF ShutdownLookup, IngressInv, TypeOK, Labels, Kinds
<1>27. CASE ShutdownBegin
  BY <1>27, <1>0, <1>c DEF ShutdownBegin, IngressInv, TypeOK, Labels, Kinds
<1>28. CASE ShutdownReturns
  BY <1>28, <1>0, <1>c DEF ShutdownReturns, IngressInv, TypeOK, Labels, Kinds
<1>29. CASE Halt
  BY <1>29, <1>0, <1>c DEF Halt, IngressInv, TypeOK, Labels, Kinds
<1>30. CASE UNCHANGED vars
  BY <1>30, <1>0, <1>c DEF vars, IngressInv, TypeOK, Labels, Kinds
<1> QED
  BY <1>1, <1>2, <1>3, <1>4, <1>5, <1>6, <1>7, <1>8, <1>9, <1>10, <1>11, <1>12, <1>13, <1>14,
     <1>15, <1>16, <1>17, <1>18, <1>19, <1>20, <1>21, <1>22, <1>23, <1>24, <1>25, <1>26,
     <1>27, <1>28, <1>29, <1>30, Zenon DEF Next, Request, Close

\* A session is published under one id: its own.
LEMMA StepPublishedOnce ==
  ASSUME IngressInv, [Next]_vars PROVE PublishedOnce'
<1> USE DEF requestVars, tableVars, permitVars, sessionVars, closeVars, Goto, Begin
<1>0. /\ pc \in [Requests -> Labels] /\ kind \in [Requests -> Kinds \cup {None}]
      /\ credential \in [Requests -> Credentials \cup {None}]
      /\ lease \in [Requests -> {"none", "current", "done"}]
      /\ owned \in [Requests -> BOOLEAN] /\ holds \in SUBSET Requests
      /\ early \in SUBSET Requests
      /\ id \in [Requests -> Ids \cup {None}] /\ target \in [Requests -> Requests \cup {None}]
      /\ legacy \in [Ids -> Requests \cup {None}]
      /\ reserved \in Nat /\ work \in Nat /\ streams \in Nat
      /\ session \in [Requests -> {"none", "open", "closing", "closed"}]
      /\ timer \in [Timers -> [Requests -> BOOLEAN]] /\ watching \in SUBSET Requests
      /\ stage \in [Closers -> [Requests -> {"off", "noted", "remove", "once", "release"}]]
  BY DEF IngressInv, TypeOK
<1>c. Requests \subseteq Closers /\ Timers \subseteq Closers /\ {"watch", "shutdown"} \subseteq Closers
  BY DEF Closers
<1>i. /\ PublishedOnce
      /\ \A q \in Requests : Unborn(q) /\ OnceInstalled(q) /\ Asks(q)
  BY DEF IngressInv
<1>1. ASSUME NEW r \in Requests, Authenticate(r) PROVE PublishedOnce'
  BY <1>1, <1>0, <1>c, <1>i DEF Authenticate, PublishedOnce, Unborn, OnceInstalled, Published,
     Drop
<1>2. ASSUME NEW r \in Requests, Refuse(r) PROVE PublishedOnce'
  BY <1>2, <1>0, <1>c, <1>i DEF Refuse, Release, PublishedOnce, Unborn, OnceInstalled,
     Published, Drop
<1>3. ASSUME NEW r \in Requests, TakeWork(r) PROVE PublishedOnce'
  BY <1>3, <1>0, <1>c, <1>i DEF TakeWork, PublishedOnce, Unborn, OnceInstalled, Published, Drop
<1>4. ASSUME NEW r \in Requests, Answer(r) PROVE PublishedOnce'
  BY <1>4, <1>0, <1>c, <1>i DEF Answer, PublishedOnce, Unborn, OnceInstalled, Published, Drop
<1>5. ASSUME NEW r \in Requests, Reserve(r) PROVE PublishedOnce'
  BY <1>5, <1>0, <1>c, <1>i DEF Reserve, PublishedOnce, Unborn, OnceInstalled, Published, Drop
<1>6. ASSUME NEW r \in Requests, InitializeFails(r) PROVE PublishedOnce'
  BY <1>6, <1>0, <1>c, <1>i DEF InitializeFails, PublishedOnce, Unborn, OnceInstalled,
     Published, Drop
<1>7. ASSUME NEW r \in Requests, CreateSession(r) PROVE PublishedOnce'
  BY <1>7, <1>0, <1>c, <1>i DEF CreateSession, PublishedOnce, Unborn, OnceInstalled, Published,
     Drop
<1>8. ASSUME NEW r \in Requests, RejectSession(r) PROVE PublishedOnce'
  BY <1>8, <1>0, <1>c, <1>i DEF RejectSession, PublishedOnce, Unborn, OnceInstalled, Published,
     Drop
<1>9. ASSUME NEW r \in Requests, Publish(r) PROVE PublishedOnce'
  BY <1>9, <1>0, <1>c, <1>i DEF Publish, PublishedOnce, Unborn, OnceInstalled, Published, Drop
<1>10. ASSUME NEW r \in Requests, Recheck(r) PROVE PublishedOnce'
  BY <1>10, <1>0, <1>c, <1>i DEF Recheck, PublishedOnce, Unborn, OnceInstalled, Published, Drop
<1>11. ASSUME NEW r \in Requests, Initialized(r) PROVE PublishedOnce'
  BY <1>11, <1>0, <1>c, <1>i DEF Initialized, PublishedOnce, Unborn, OnceInstalled, Published,
     Drop
<1>12. ASSUME NEW r \in Requests, Closed(r) PROVE PublishedOnce'
  BY <1>12, <1>0, <1>c, <1>i DEF Closed, PublishedOnce, Unborn, OnceInstalled, Published, Drop
<1>13. ASSUME NEW r \in Requests, Unreserve(r) PROVE PublishedOnce'
  BY <1>13, <1>0, <1>c, <1>i DEF Unreserve, PublishedOnce, Unborn, OnceInstalled, Published,
     Drop
<1>14. ASSUME NEW r \in Requests, OpenStream(r) PROVE PublishedOnce'
  BY <1>14, <1>0, <1>c, <1>i DEF OpenStream, PublishedOnce, Unborn, OnceInstalled, Published,
     Drop
<1>15. ASSUME NEW r \in Requests, CloseStream(r) PROVE PublishedOnce'
  BY <1>15, <1>0, <1>c, <1>i DEF CloseStream, PublishedOnce, Unborn, OnceInstalled, Published,
     Drop
<1>16. ASSUME NEW r \in Requests, Deleted(r) PROVE PublishedOnce'
  BY <1>16, <1>0, <1>c, <1>i DEF Deleted, PublishedOnce, Unborn, OnceInstalled, Published, Drop
<1>17. ASSUME NEW r \in Requests, Leave(r) PROVE PublishedOnce'
  BY <1>17, <1>0, <1>c, <1>i DEF Leave, Release, PublishedOnce, Unborn, OnceInstalled,
     Published, Drop
<1>18. ASSUME NEW r \in Requests, NEW s \in Requests, FindExpired(r, s) PROVE PublishedOnce'
  BY <1>18, <1>0, <1>c, <1>i DEF FindExpired, Finds, PublishedOnce, Unborn, OnceInstalled,
     Published, Drop
<1>19. ASSUME NEW r \in Requests, NEW s \in Requests, FindLive(r, s) PROVE PublishedOnce'
  BY <1>19, <1>0, <1>c, <1>i DEF FindLive, Finds, PublishedOnce, Unborn, OnceInstalled,
     Published, Drop
<1>20. ASSUME NEW c \in Closers, NEW s \in Requests, CloseRemove(c, s) PROVE PublishedOnce'
  BY <1>20, <1>0, <1>c, <1>i DEF CloseRemove, PublishedOnce, Unborn, OnceInstalled, Published,
     Drop
<1>21. ASSUME NEW c \in Closers, NEW s \in Requests, CloseOnce(c, s) PROVE PublishedOnce'
  BY <1>21, <1>0, <1>c, <1>i DEF CloseOnce, PublishedOnce, Unborn, OnceInstalled, Published,
     Drop
<1>22. ASSUME NEW c \in Closers, NEW s \in Requests, CloseRelease(c, s) PROVE PublishedOnce'
  BY <1>22, <1>0, <1>c, <1>i DEF CloseRelease, PublishedOnce, Unborn, OnceInstalled, Published,
     Drop
<1>23. ASSUME NEW t \in Timers, NEW s \in Requests, TimerFires(t, s) PROVE PublishedOnce'
  BY <1>23, <1>0, <1>c, <1>i DEF TimerFires, Installing, PublishedOnce, Unborn, OnceInstalled,
     Published, Drop
<1>24. ASSUME NEW s \in Requests, WatchEnds(s) PROVE PublishedOnce'
  BY <1>24, <1>0, <1>c, <1>i DEF WatchEnds, PublishedOnce, Unborn, OnceInstalled, Published,
     Drop
<1>25. ASSUME NEW s \in Requests, CancelLease(s) PROVE PublishedOnce'
  BY <1>25, <1>0, <1>c, <1>i DEF CancelLease, PublishedOnce, Unborn, OnceInstalled, Published,
     Drop
<1>26. ASSUME NEW s \in Requests, ShutdownLookup(s) PROVE PublishedOnce'
  BY <1>26, <1>0, <1>c, <1>i DEF ShutdownLookup, PublishedOnce, Unborn, OnceInstalled,
     Published, Drop
<1>27. CASE ShutdownBegin
  BY <1>27, <1>0, <1>c, <1>i DEF ShutdownBegin, PublishedOnce, Unborn, OnceInstalled,
     Published, Drop
<1>28. CASE ShutdownReturns
  BY <1>28, <1>0, <1>c, <1>i DEF ShutdownReturns, PublishedOnce, Unborn, OnceInstalled,
     Published, Drop
<1>29. CASE Halt
  BY <1>29, <1>0, <1>c, <1>i DEF Halt, PublishedOnce, Unborn, OnceInstalled, Published, Drop
<1>30. CASE UNCHANGED vars
  BY <1>30, <1>0, <1>c, <1>i DEF vars, PublishedOnce, Unborn, OnceInstalled, Published, Drop
<1> QED
  BY <1>1, <1>2, <1>3, <1>4, <1>5, <1>6, <1>7, <1>8, <1>9, <1>10, <1>11, <1>12, <1>13, <1>14,
     <1>15, <1>16, <1>17, <1>18, <1>19, <1>20, <1>21, <1>22, <1>23, <1>24, <1>25, <1>26,
     <1>27, <1>28, <1>29, <1>30, Zenon DEF Next, Request, Close

\* What a request asks for is settled when it is admitted.
LEMMA StepAsks ==
  ASSUME IngressInv, [Next]_vars PROVE \A q \in Requests : Asks(q)'
<1> USE DEF requestVars, tableVars, permitVars, sessionVars, closeVars, Goto, Begin
<1>0. /\ pc \in [Requests -> Labels] /\ kind \in [Requests -> Kinds \cup {None}]
      /\ credential \in [Requests -> Credentials \cup {None}]
      /\ lease \in [Requests -> {"none", "current", "done"}]
      /\ owned \in [Requests -> BOOLEAN] /\ holds \in SUBSET Requests
      /\ early \in SUBSET Requests
      /\ id \in [Requests -> Ids \cup {None}] /\ target \in [Requests -> Requests \cup {None}]
      /\ legacy \in [Ids -> Requests \cup {None}]
      /\ reserved \in Nat /\ work \in Nat /\ streams \in Nat
      /\ session \in [Requests -> {"none", "open", "closing", "closed"}]
      /\ timer \in [Timers -> [Requests -> BOOLEAN]] /\ watching \in SUBSET Requests
      /\ stage \in [Closers -> [Requests -> {"off", "noted", "remove", "once", "release"}]]
  BY DEF IngressInv, TypeOK
<1>c. Requests \subseteq Closers /\ Timers \subseteq Closers /\ {"watch", "shutdown"} \subseteq Closers
  BY DEF Closers
<1>i. /\ \A q \in Requests : Asks(q)
  BY DEF IngressInv
<1>1. ASSUME NEW r \in Requests, Authenticate(r) PROVE \A q \in Requests : Asks(q)'
  BY <1>1, <1>0, <1>c, <1>i DEF Authenticate, Asks
<1>2. ASSUME NEW r \in Requests, Refuse(r) PROVE \A q \in Requests : Asks(q)'
  BY <1>2, <1>0, <1>c, <1>i DEF Refuse, Release, Asks
<1>3. ASSUME NEW r \in Requests, TakeWork(r) PROVE \A q \in Requests : Asks(q)'
  BY <1>3, <1>0, <1>c, <1>i DEF TakeWork, Asks
<1>4. ASSUME NEW r \in Requests, Answer(r) PROVE \A q \in Requests : Asks(q)'
  BY <1>4, <1>0, <1>c, <1>i DEF Answer, Asks
<1>5. ASSUME NEW r \in Requests, Reserve(r) PROVE \A q \in Requests : Asks(q)'
  BY <1>5, <1>0, <1>c, <1>i DEF Reserve, Asks
<1>6. ASSUME NEW r \in Requests, InitializeFails(r) PROVE \A q \in Requests : Asks(q)'
  BY <1>6, <1>0, <1>c, <1>i DEF InitializeFails, Asks
<1>7. ASSUME NEW r \in Requests, CreateSession(r) PROVE \A q \in Requests : Asks(q)'
  BY <1>7, <1>0, <1>c, <1>i DEF CreateSession, Asks
<1>8. ASSUME NEW r \in Requests, RejectSession(r) PROVE \A q \in Requests : Asks(q)'
  BY <1>8, <1>0, <1>c, <1>i DEF RejectSession, Asks
<1>9. ASSUME NEW r \in Requests, Publish(r) PROVE \A q \in Requests : Asks(q)'
  BY <1>9, <1>0, <1>c, <1>i DEF Publish, Asks
<1>10. ASSUME NEW r \in Requests, Recheck(r) PROVE \A q \in Requests : Asks(q)'
  BY <1>10, <1>0, <1>c, <1>i DEF Recheck, Asks
<1>11. ASSUME NEW r \in Requests, Initialized(r) PROVE \A q \in Requests : Asks(q)'
  BY <1>11, <1>0, <1>c, <1>i DEF Initialized, Asks
<1>12. ASSUME NEW r \in Requests, Closed(r) PROVE \A q \in Requests : Asks(q)'
  BY <1>12, <1>0, <1>c, <1>i DEF Closed, Asks
<1>13. ASSUME NEW r \in Requests, Unreserve(r) PROVE \A q \in Requests : Asks(q)'
  BY <1>13, <1>0, <1>c, <1>i DEF Unreserve, Asks
<1>14. ASSUME NEW r \in Requests, OpenStream(r) PROVE \A q \in Requests : Asks(q)'
  BY <1>14, <1>0, <1>c, <1>i DEF OpenStream, Asks
<1>15. ASSUME NEW r \in Requests, CloseStream(r) PROVE \A q \in Requests : Asks(q)'
  BY <1>15, <1>0, <1>c, <1>i DEF CloseStream, Asks
<1>16. ASSUME NEW r \in Requests, Deleted(r) PROVE \A q \in Requests : Asks(q)'
  BY <1>16, <1>0, <1>c, <1>i DEF Deleted, Asks
<1>17. ASSUME NEW r \in Requests, Leave(r) PROVE \A q \in Requests : Asks(q)'
  BY <1>17, <1>0, <1>c, <1>i DEF Leave, Release, Asks
<1>18. ASSUME NEW r \in Requests, NEW s \in Requests, FindExpired(r, s)
      PROVE  \A q \in Requests : Asks(q)'
  BY <1>18, <1>0, <1>c, <1>i DEF FindExpired, Finds, Asks
<1>19. ASSUME NEW r \in Requests, NEW s \in Requests, FindLive(r, s)
      PROVE  \A q \in Requests : Asks(q)'
  BY <1>19, <1>0, <1>c, <1>i DEF FindLive, Finds, Asks
<1>20. ASSUME NEW c \in Closers, NEW s \in Requests, CloseRemove(c, s)
      PROVE  \A q \in Requests : Asks(q)'
  BY <1>20, <1>0, <1>c, <1>i DEF CloseRemove, Asks
<1>21. ASSUME NEW c \in Closers, NEW s \in Requests, CloseOnce(c, s)
      PROVE  \A q \in Requests : Asks(q)'
  BY <1>21, <1>0, <1>c, <1>i DEF CloseOnce, Asks
<1>22. ASSUME NEW c \in Closers, NEW s \in Requests, CloseRelease(c, s)
      PROVE  \A q \in Requests : Asks(q)'
  BY <1>22, <1>0, <1>c, <1>i DEF CloseRelease, Asks
<1>23. ASSUME NEW t \in Timers, NEW s \in Requests, TimerFires(t, s)
      PROVE  \A q \in Requests : Asks(q)'
  BY <1>23, <1>0, <1>c, <1>i DEF TimerFires, Installing, Asks
<1>24. ASSUME NEW s \in Requests, WatchEnds(s) PROVE \A q \in Requests : Asks(q)'
  BY <1>24, <1>0, <1>c, <1>i DEF WatchEnds, Asks
<1>25. ASSUME NEW s \in Requests, CancelLease(s) PROVE \A q \in Requests : Asks(q)'
  BY <1>25, <1>0, <1>c, <1>i DEF CancelLease, Asks
<1>26. ASSUME NEW s \in Requests, ShutdownLookup(s) PROVE \A q \in Requests : Asks(q)'
  BY <1>26, <1>0, <1>c, <1>i DEF ShutdownLookup, Asks
<1>27. CASE ShutdownBegin
  BY <1>27, <1>0, <1>c, <1>i DEF ShutdownBegin, Asks
<1>28. CASE ShutdownReturns
  BY <1>28, <1>0, <1>c, <1>i DEF ShutdownReturns, Asks
<1>29. CASE Halt
  BY <1>29, <1>0, <1>c, <1>i DEF Halt, Asks
<1>30. CASE UNCHANGED vars
  BY <1>30, <1>0, <1>c, <1>i DEF vars, Asks
<1> QED
  BY <1>1, <1>2, <1>3, <1>4, <1>5, <1>6, <1>7, <1>8, <1>9, <1>10, <1>11, <1>12, <1>13, <1>14,
     <1>15, <1>16, <1>17, <1>18, <1>19, <1>20, <1>21, <1>22, <1>23, <1>24, <1>25, <1>26,
     <1>27, <1>28, <1>29, <1>30, Zenon DEF Next, Request, Close

\* A closer begins where its goroutine is.
LEMMA StepClosers ==
  ASSUME IngressInv, [Next]_vars PROVE ClosersAreHere'
<1> USE DEF requestVars, tableVars, permitVars, sessionVars, closeVars, Goto, Begin
<1>0. /\ pc \in [Requests -> Labels] /\ kind \in [Requests -> Kinds \cup {None}]
      /\ credential \in [Requests -> Credentials \cup {None}]
      /\ lease \in [Requests -> {"none", "current", "done"}]
      /\ owned \in [Requests -> BOOLEAN] /\ holds \in SUBSET Requests
      /\ early \in SUBSET Requests
      /\ id \in [Requests -> Ids \cup {None}] /\ target \in [Requests -> Requests \cup {None}]
      /\ legacy \in [Ids -> Requests \cup {None}]
      /\ reserved \in Nat /\ work \in Nat /\ streams \in Nat
      /\ session \in [Requests -> {"none", "open", "closing", "closed"}]
      /\ timer \in [Timers -> [Requests -> BOOLEAN]] /\ watching \in SUBSET Requests
      /\ stage \in [Closers -> [Requests -> {"off", "noted", "remove", "once", "release"}]]
  BY DEF IngressInv, TypeOK
<1>c. Requests \subseteq Closers /\ Timers \subseteq Closers /\ {"watch", "shutdown"} \subseteq Closers
  BY DEF Closers
<1>i. /\ ClosersAreHere
      /\ ShutdownSees
      /\ \A q \in Requests : OnceInstalled(q) /\ Unborn(q)
  BY DEF IngressInv
<1>1. ASSUME NEW r \in Requests, Authenticate(r) PROVE ClosersAreHere'
  BY <1>1, <1>0, <1>c, <1>i DEF Authenticate, ClosersAreHere, OnceInstalled, ShutdownSees,
     Closers
<1>2. ASSUME NEW r \in Requests, Refuse(r) PROVE ClosersAreHere'
  BY <1>2, <1>0, <1>c, <1>i DEF Refuse, Release, ClosersAreHere, OnceInstalled, ShutdownSees,
     Closers
<1>3. ASSUME NEW r \in Requests, TakeWork(r) PROVE ClosersAreHere'
  BY <1>3, <1>0, <1>c, <1>i DEF TakeWork, ClosersAreHere, OnceInstalled, ShutdownSees, Closers
<1>4. ASSUME NEW r \in Requests, Answer(r) PROVE ClosersAreHere'
  BY <1>4, <1>0, <1>c, <1>i DEF Answer, ClosersAreHere, OnceInstalled, ShutdownSees, Closers
<1>5. ASSUME NEW r \in Requests, Reserve(r) PROVE ClosersAreHere'
  BY <1>5, <1>0, <1>c, <1>i DEF Reserve, ClosersAreHere, OnceInstalled, ShutdownSees, Closers
<1>6. ASSUME NEW r \in Requests, InitializeFails(r) PROVE ClosersAreHere'
  BY <1>6, <1>0, <1>c, <1>i DEF InitializeFails, ClosersAreHere, OnceInstalled, ShutdownSees,
     Closers
<1>7. ASSUME NEW r \in Requests, CreateSession(r) PROVE ClosersAreHere'
  BY <1>7, <1>0, <1>c, <1>i DEF CreateSession, ClosersAreHere, OnceInstalled, ShutdownSees,
     Closers
<1>8. ASSUME NEW r \in Requests, RejectSession(r) PROVE ClosersAreHere'
  BY <1>8, <1>0, <1>c, <1>i DEF RejectSession, ClosersAreHere, OnceInstalled, ShutdownSees,
     Closers
<1>9. ASSUME NEW r \in Requests, Publish(r) PROVE ClosersAreHere'
  BY <1>9, <1>0, <1>c, <1>i DEF Publish, ClosersAreHere, OnceInstalled, ShutdownSees, Closers
<1>10. ASSUME NEW r \in Requests, Recheck(r) PROVE ClosersAreHere'
  BY <1>10, <1>0, <1>c, <1>i DEF Recheck, ClosersAreHere, OnceInstalled, ShutdownSees, Closers
<1>11. ASSUME NEW r \in Requests, Initialized(r) PROVE ClosersAreHere'
  <2>1. target[r] = r /\ pc[r] = "initializing" /\ UNCHANGED <<target, watching, shutdown>>
    BY <1>11, <1>i DEF Initialized, OnceInstalled
  <2>2. CASE pc' = [pc EXCEPT ![r] = "leave"] /\ stage' = stage
    BY <1>0, <1>c, <1>i, <2>1, <2>2 DEF ClosersAreHere
  <2>3. CASE pc' = [pc EXCEPT ![r] = "closing"] /\ stage' = [stage EXCEPT ![r][r] = "remove"]
    BY <1>0, <1>c, <1>i, <2>1, <2>3 DEF ClosersAreHere
  <2> QED BY <1>11, <2>2, <2>3 DEF Initialized
<1>12. ASSUME NEW r \in Requests, Closed(r) PROVE ClosersAreHere'
  BY <1>12, <1>0, <1>c, <1>i DEF Closed, ClosersAreHere, OnceInstalled, ShutdownSees, Closers
<1>13. ASSUME NEW r \in Requests, Unreserve(r) PROVE ClosersAreHere'
  BY <1>13, <1>0, <1>c, <1>i DEF Unreserve, ClosersAreHere, OnceInstalled, ShutdownSees, Closers
<1>14. ASSUME NEW r \in Requests, OpenStream(r) PROVE ClosersAreHere'
  BY <1>14, <1>0, <1>c, <1>i DEF OpenStream, ClosersAreHere, OnceInstalled, ShutdownSees,
     Closers
<1>15. ASSUME NEW r \in Requests, CloseStream(r) PROVE ClosersAreHere'
  BY <1>15, <1>0, <1>c, <1>i DEF CloseStream, ClosersAreHere, OnceInstalled, ShutdownSees,
     Closers
<1>16. ASSUME NEW r \in Requests, Deleted(r) PROVE ClosersAreHere'
  BY <1>16, <1>0, <1>c, <1>i DEF Deleted, ClosersAreHere, OnceInstalled, ShutdownSees, Closers
<1>17. ASSUME NEW r \in Requests, Leave(r) PROVE ClosersAreHere'
  BY <1>17, <1>0, <1>c, <1>i DEF Leave, Release, ClosersAreHere, OnceInstalled, ShutdownSees,
     Closers
<1>18. ASSUME NEW r \in Requests, NEW s \in Requests, FindExpired(r, s) PROVE ClosersAreHere'
  BY <1>18, <1>0, <1>c, <1>i DEF FindExpired, Finds, ClosersAreHere, OnceInstalled,
     ShutdownSees, Closers
<1>19. ASSUME NEW r \in Requests, NEW s \in Requests, FindLive(r, s) PROVE ClosersAreHere'
  BY <1>19, <1>0, <1>c, <1>i DEF FindLive, Finds, ClosersAreHere, OnceInstalled, ShutdownSees,
     Closers
<1>20. ASSUME NEW c \in Closers, NEW s \in Requests, CloseRemove(c, s) PROVE ClosersAreHere'
  BY <1>20, <1>0, <1>c, <1>i DEF CloseRemove, ClosersAreHere, OnceInstalled, ShutdownSees,
     Closers
<1>21. ASSUME NEW c \in Closers, NEW s \in Requests, CloseOnce(c, s) PROVE ClosersAreHere'
  <2>1. PICK w \in {"release", "off"} :
          /\ stage' = [stage EXCEPT ![c][s] = w] /\ stage[c][s] = "once"
          /\ UNCHANGED <<pc, target, watching, legacy, shuttingDown, shutdown>>
    BY <1>21 DEF CloseOnce
  <2> QED BY <1>0, <1>c, <1>i, <2>1 DEF ClosersAreHere, Closers
<1>22. ASSUME NEW c \in Closers, NEW s \in Requests, CloseRelease(c, s) PROVE ClosersAreHere'
  BY <1>22, <1>0, <1>c, <1>i DEF CloseRelease, ClosersAreHere, OnceInstalled, ShutdownSees,
     Closers
<1>23. ASSUME NEW t \in Timers, NEW s \in Requests, TimerFires(t, s) PROVE ClosersAreHere'
  BY <1>23, <1>0, <1>c, <1>i DEF TimerFires, Installing, ClosersAreHere, OnceInstalled,
     ShutdownSees, Closers
<1>24. ASSUME NEW s \in Requests, WatchEnds(s) PROVE ClosersAreHere'
  <2>1. /\ stage' = stage \/ stage' = [stage EXCEPT !["watch"][s] = "remove"]
        /\ s \in watching /\ watching' = watching \ {s}
        /\ UNCHANGED <<pc, target, legacy, shuttingDown, shutdown>>
    BY <1>24 DEF WatchEnds
  <2>2. CASE stage' = stage
    BY <1>0, <1>c, <1>i, <2>1, <2>2 DEF ClosersAreHere, Closers
  <2>3. CASE stage' = [stage EXCEPT !["watch"][s] = "remove"]
    BY <1>0, <1>c, <1>i, <2>1, <2>3 DEF ClosersAreHere, Closers
  <2> QED BY <2>1, <2>2, <2>3
<1>25. ASSUME NEW s \in Requests, CancelLease(s) PROVE ClosersAreHere'
  BY <1>25, <1>0, <1>c, <1>i DEF CancelLease, ClosersAreHere, OnceInstalled, ShutdownSees,
     Closers
<1>26. ASSUME NEW s \in Requests, ShutdownLookup(s) PROVE ClosersAreHere'
  BY <1>26, <1>0, <1>c, <1>i DEF ShutdownLookup, ClosersAreHere, OnceInstalled, ShutdownSees,
     Closers
<1>27. CASE ShutdownBegin
  BY <1>27, <1>0, <1>c, <1>i DEF ShutdownBegin, ClosersAreHere, OnceInstalled, ShutdownSees,
     Closers
<1>28. CASE ShutdownReturns
  BY <1>28, <1>0, <1>c, <1>i DEF ShutdownReturns, ClosersAreHere, OnceInstalled, ShutdownSees,
     Closers
<1>29. CASE Halt
  BY <1>29, <1>0, <1>c, <1>i DEF Halt, ClosersAreHere, OnceInstalled, ShutdownSees, Closers
<1>30. CASE UNCHANGED vars
  BY <1>30, <1>0, <1>c, <1>i DEF vars, ClosersAreHere, OnceInstalled, ShutdownSees, Closers
<1> QED
  BY <1>1, <1>2, <1>3, <1>4, <1>5, <1>6, <1>7, <1>8, <1>9, <1>10, <1>11, <1>12, <1>13, <1>14,
     <1>15, <1>16, <1>17, <1>18, <1>19, <1>20, <1>21, <1>22, <1>23, <1>24, <1>25, <1>26,
     <1>27, <1>28, <1>29, <1>30, Zenon DEF Next, Request, Close

\* Shutdown keeps sight of every published session.
LEMMA StepShutdown ==
  ASSUME IngressInv, [Next]_vars PROVE ShutdownSees'
<1> USE DEF requestVars, tableVars, permitVars, sessionVars, closeVars, Goto, Begin
<1>0. /\ pc \in [Requests -> Labels] /\ kind \in [Requests -> Kinds \cup {None}]
      /\ credential \in [Requests -> Credentials \cup {None}]
      /\ lease \in [Requests -> {"none", "current", "done"}]
      /\ owned \in [Requests -> BOOLEAN] /\ holds \in SUBSET Requests
      /\ early \in SUBSET Requests
      /\ id \in [Requests -> Ids \cup {None}] /\ target \in [Requests -> Requests \cup {None}]
      /\ legacy \in [Ids -> Requests \cup {None}]
      /\ reserved \in Nat /\ work \in Nat /\ streams \in Nat
      /\ session \in [Requests -> {"none", "open", "closing", "closed"}]
      /\ timer \in [Timers -> [Requests -> BOOLEAN]] /\ watching \in SUBSET Requests
      /\ stage \in [Closers -> [Requests -> {"off", "noted", "remove", "once", "release"}]]
  BY DEF IngressInv, TypeOK
<1>c. Requests \subseteq Closers /\ Timers \subseteq Closers /\ {"watch", "shutdown"} \subseteq Closers
  BY DEF Closers
<1>i. /\ ShutdownSees
      /\ ClosersAreHere
      /\ \A q \in Requests : OnceInstalled(q)
  BY DEF IngressInv
<1>1. ASSUME NEW r \in Requests, Authenticate(r) PROVE ShutdownSees'
  BY <1>1, <1>0, <1>c, <1>i DEF Authenticate, ShutdownSees, Published, CannotPublish, Drop,
     Closers
<1>2. ASSUME NEW r \in Requests, Refuse(r) PROVE ShutdownSees'
  BY <1>2, <1>0, <1>c, <1>i DEF Refuse, Release, ShutdownSees, Published, CannotPublish, Drop,
     Closers
<1>3. ASSUME NEW r \in Requests, TakeWork(r) PROVE ShutdownSees'
  BY <1>3, <1>0, <1>c, <1>i DEF TakeWork, ShutdownSees, Published, CannotPublish, Drop, Closers
<1>4. ASSUME NEW r \in Requests, Answer(r) PROVE ShutdownSees'
  BY <1>4, <1>0, <1>c, <1>i DEF Answer, ShutdownSees, Published, CannotPublish, Drop, Closers
<1>5. ASSUME NEW r \in Requests, Reserve(r) PROVE ShutdownSees'
  BY <1>5, <1>0, <1>c, <1>i DEF Reserve, ShutdownSees, Published, CannotPublish, Drop, Closers
<1>6. ASSUME NEW r \in Requests, InitializeFails(r) PROVE ShutdownSees'
  BY <1>6, <1>0, <1>c, <1>i DEF InitializeFails, ShutdownSees, Published, CannotPublish, Drop,
     Closers
<1>7. ASSUME NEW r \in Requests, CreateSession(r) PROVE ShutdownSees'
  BY <1>7, <1>0, <1>c, <1>i DEF CreateSession, ShutdownSees, Published, CannotPublish, Drop,
     Closers
<1>8. ASSUME NEW r \in Requests, RejectSession(r) PROVE ShutdownSees'
  BY <1>8, <1>0, <1>c, <1>i DEF RejectSession, ShutdownSees, Published, CannotPublish, Drop,
     Closers
<1>9. ASSUME NEW r \in Requests, Publish(r) PROVE ShutdownSees'
  BY <1>9, <1>0, <1>c, <1>i DEF Publish, ShutdownSees, Published, CannotPublish, Drop, Closers
<1>10. ASSUME NEW r \in Requests, Recheck(r) PROVE ShutdownSees'
  BY <1>10, <1>0, <1>c, <1>i DEF Recheck, ShutdownSees, Published, CannotPublish, Drop, Closers
<1>11. ASSUME NEW r \in Requests, Initialized(r) PROVE ShutdownSees'
  BY <1>11, <1>0, <1>c, <1>i DEF Initialized, ShutdownSees, Published, CannotPublish, Drop,
     Closers
<1>12. ASSUME NEW r \in Requests, Closed(r) PROVE ShutdownSees'
  BY <1>12, <1>0, <1>c, <1>i DEF Closed, ShutdownSees, Published, CannotPublish, Drop, Closers
<1>13. ASSUME NEW r \in Requests, Unreserve(r) PROVE ShutdownSees'
  BY <1>13, <1>0, <1>c, <1>i DEF Unreserve, ShutdownSees, Published, CannotPublish, Drop,
     Closers
<1>14. ASSUME NEW r \in Requests, OpenStream(r) PROVE ShutdownSees'
  BY <1>14, <1>0, <1>c, <1>i DEF OpenStream, ShutdownSees, Published, CannotPublish, Drop,
     Closers
<1>15. ASSUME NEW r \in Requests, CloseStream(r) PROVE ShutdownSees'
  BY <1>15, <1>0, <1>c, <1>i DEF CloseStream, ShutdownSees, Published, CannotPublish, Drop,
     Closers
<1>16. ASSUME NEW r \in Requests, Deleted(r) PROVE ShutdownSees'
  BY <1>16, <1>0, <1>c, <1>i DEF Deleted, ShutdownSees, Published, CannotPublish, Drop, Closers
<1>17. ASSUME NEW r \in Requests, Leave(r) PROVE ShutdownSees'
  BY <1>17, <1>0, <1>c, <1>i DEF Leave, Release, ShutdownSees, Published, CannotPublish, Drop,
     Closers
<1>18. ASSUME NEW r \in Requests, NEW s \in Requests, FindExpired(r, s) PROVE ShutdownSees'
  BY <1>18, <1>0, <1>c, <1>i DEF FindExpired, Finds, ShutdownSees, Published, CannotPublish,
     Drop, Closers
<1>19. ASSUME NEW r \in Requests, NEW s \in Requests, FindLive(r, s) PROVE ShutdownSees'
  BY <1>19, <1>0, <1>c, <1>i DEF FindLive, Finds, ShutdownSees, Published, CannotPublish, Drop,
     Closers
<1>20. ASSUME NEW c \in Closers, NEW s \in Requests, CloseRemove(c, s) PROVE ShutdownSees'
  BY <1>20, <1>0, <1>c, <1>i DEF CloseRemove, ShutdownSees, Published, CannotPublish, Drop,
     Closers
<1>21. ASSUME NEW c \in Closers, NEW s \in Requests, CloseOnce(c, s) PROVE ShutdownSees'
  <2>1. PICK w \in {"release", "off"} :
          /\ stage' = [stage EXCEPT ![c][s] = w] /\ stage[c][s] = "once"
          /\ UNCHANGED <<pc, target, watching, legacy, shuttingDown, shutdown>>
    BY <1>21 DEF CloseOnce
  <2> QED BY <1>0, <1>c, <1>i, <2>1 DEF ShutdownSees, Published, Closers
<1>22. ASSUME NEW c \in Closers, NEW s \in Requests, CloseRelease(c, s) PROVE ShutdownSees'
  BY <1>22, <1>0, <1>c, <1>i DEF CloseRelease, ShutdownSees, Published, CannotPublish, Drop,
     Closers
<1>23. ASSUME NEW t \in Timers, NEW s \in Requests, TimerFires(t, s) PROVE ShutdownSees'
  BY <1>23, <1>0, <1>c, <1>i DEF TimerFires, Installing, ShutdownSees, Published,
     CannotPublish, Drop, Closers
<1>24. ASSUME NEW s \in Requests, WatchEnds(s) PROVE ShutdownSees'
  BY <1>24, <1>0, <1>c, <1>i DEF WatchEnds, ShutdownSees, Published, CannotPublish, Drop,
     Closers
<1>25. ASSUME NEW s \in Requests, CancelLease(s) PROVE ShutdownSees'
  BY <1>25, <1>0, <1>c, <1>i DEF CancelLease, ShutdownSees, Published, CannotPublish, Drop,
     Closers
<1>26. ASSUME NEW s \in Requests, ShutdownLookup(s) PROVE ShutdownSees'
  BY <1>26, <1>0, <1>c, <1>i DEF ShutdownLookup, ShutdownSees, Published, CannotPublish, Drop,
     Closers
<1>27. CASE ShutdownBegin
  BY <1>27, <1>0, <1>c, <1>i DEF ShutdownBegin, ShutdownSees, Published, CannotPublish, Drop,
     Closers
<1>28. CASE ShutdownReturns
  BY <1>28, <1>0, <1>c, <1>i DEF ShutdownReturns, ShutdownSees, Published, CannotPublish, Drop,
     Closers
<1>29. CASE Halt
  BY <1>29, <1>0, <1>c, <1>i DEF Halt, ShutdownSees, Published, CannotPublish, Drop, Closers
<1>30. CASE UNCHANGED vars
  BY <1>30, <1>0, <1>c, <1>i DEF vars, ShutdownSees, Published, CannotPublish, Drop, Closers
<1> QED
  BY <1>1, <1>2, <1>3, <1>4, <1>5, <1>6, <1>7, <1>8, <1>9, <1>10, <1>11, <1>12, <1>13, <1>14,
     <1>15, <1>16, <1>17, <1>18, <1>19, <1>20, <1>21, <1>22, <1>23, <1>24, <1>25, <1>26,
     <1>27, <1>28, <1>29, <1>30, Zenon DEF Next, Request, Close

\* A session is closed once, and its lease with it.
LEMMA StepCloseOnce ==
  ASSUME IngressInv, [Next]_vars PROVE \A q \in Requests : CloseOnceOnce(q)'
<1> USE DEF requestVars, tableVars, permitVars, sessionVars, closeVars, Goto, Begin
<1>0. /\ pc \in [Requests -> Labels] /\ kind \in [Requests -> Kinds \cup {None}]
      /\ credential \in [Requests -> Credentials \cup {None}]
      /\ lease \in [Requests -> {"none", "current", "done"}]
      /\ owned \in [Requests -> BOOLEAN] /\ holds \in SUBSET Requests
      /\ early \in SUBSET Requests
      /\ id \in [Requests -> Ids \cup {None}] /\ target \in [Requests -> Requests \cup {None}]
      /\ legacy \in [Ids -> Requests \cup {None}]
      /\ reserved \in Nat /\ work \in Nat /\ streams \in Nat
      /\ session \in [Requests -> {"none", "open", "closing", "closed"}]
      /\ timer \in [Timers -> [Requests -> BOOLEAN]] /\ watching \in SUBSET Requests
      /\ stage \in [Closers -> [Requests -> {"off", "noted", "remove", "once", "release"}]]
  BY DEF IngressInv, TypeOK
<1>c. Requests \subseteq Closers /\ Timers \subseteq Closers /\ {"watch", "shutdown"} \subseteq Closers
  BY DEF Closers
<1>i. /\ ClosersAreHere
      /\ \A q \in Requests : CloseOnceOnce(q) /\ OnceInstalled(q) /\ Unborn(q)
  BY DEF IngressInv
<1>1. ASSUME NEW r \in Requests, Authenticate(r) PROVE \A q \in Requests : CloseOnceOnce(q)'
  BY <1>1, <1>0, <1>c, <1>i DEF Authenticate, CloseOnceOnce, ClosersAreHere, OnceInstalled,
     Unborn, Closers, Published
<1>2. ASSUME NEW r \in Requests, Refuse(r) PROVE \A q \in Requests : CloseOnceOnce(q)'
  BY <1>2, <1>0, <1>c, <1>i DEF Refuse, Release, CloseOnceOnce, ClosersAreHere, OnceInstalled,
     Unborn, Closers, Published
<1>3. ASSUME NEW r \in Requests, TakeWork(r) PROVE \A q \in Requests : CloseOnceOnce(q)'
  BY <1>3, <1>0, <1>c, <1>i DEF TakeWork, CloseOnceOnce, ClosersAreHere, OnceInstalled, Unborn,
     Closers, Published
<1>4. ASSUME NEW r \in Requests, Answer(r) PROVE \A q \in Requests : CloseOnceOnce(q)'
  BY <1>4, <1>0, <1>c, <1>i DEF Answer, CloseOnceOnce, ClosersAreHere, OnceInstalled, Unborn,
     Closers, Published
<1>5. ASSUME NEW r \in Requests, Reserve(r) PROVE \A q \in Requests : CloseOnceOnce(q)'
  BY <1>5, <1>0, <1>c, <1>i DEF Reserve, CloseOnceOnce, ClosersAreHere, OnceInstalled, Unborn,
     Closers, Published
<1>6. ASSUME NEW r \in Requests, InitializeFails(r) PROVE \A q \in Requests : CloseOnceOnce(q)'
  BY <1>6, <1>0, <1>c, <1>i DEF InitializeFails, CloseOnceOnce, ClosersAreHere, OnceInstalled,
     Unborn, Closers, Published
<1>7. ASSUME NEW r \in Requests, CreateSession(r) PROVE \A q \in Requests : CloseOnceOnce(q)'
  BY <1>7, <1>0, <1>c, <1>i DEF CreateSession, CloseOnceOnce, ClosersAreHere, OnceInstalled,
     Unborn, Closers, Published
<1>8. ASSUME NEW r \in Requests, RejectSession(r) PROVE \A q \in Requests : CloseOnceOnce(q)'
  BY <1>8, <1>0, <1>c, <1>i DEF RejectSession, CloseOnceOnce, ClosersAreHere, OnceInstalled,
     Unborn, Closers, Published
<1>9. ASSUME NEW r \in Requests, Publish(r) PROVE \A q \in Requests : CloseOnceOnce(q)'
  BY <1>9, <1>0, <1>c, <1>i DEF Publish, CloseOnceOnce, ClosersAreHere, OnceInstalled, Unborn,
     Closers, Published
<1>10. ASSUME NEW r \in Requests, Recheck(r) PROVE \A q \in Requests : CloseOnceOnce(q)'
  <2>1. stage' = stage \/ stage' = [stage EXCEPT ![r][r] = "remove"]
    BY <1>10 DEF Recheck
  <2>2. stage[r][r] = "off" /\ r \in Requests
    BY <1>10, <1>c, <1>i DEF Recheck, ClosersAreHere, OnceInstalled
  <2>3. \A d \in Closers, q \in Requests : stage'[d][q] = "release" <=> stage[d][q] = "release"
    <3>1. CASE stage' = stage
      BY <3>1
    <3>2. CASE stage' = [stage EXCEPT ![r][r] = "remove"]
      <4>1. \A d \in Closers, q \in Requests :
              stage'[d][q] = IF d = r /\ q = r THEN "remove" ELSE stage[d][q]
        BY <3>2, <1>0, <1>c
      <4> QED BY <4>1, <2>2
    <3> QED BY <2>1, <3>1, <3>2
  <2>4. UNCHANGED <<session, lease>>
    BY <1>10 DEF Recheck
  <2> QED BY <1>i, <2>3, <2>4 DEF CloseOnceOnce
<1>11. ASSUME NEW r \in Requests, Initialized(r) PROVE \A q \in Requests : CloseOnceOnce(q)'
  <2>1. stage' = stage \/ stage' = [stage EXCEPT ![r][r] = "remove"]
    BY <1>11 DEF Initialized
  <2>2. stage[r][r] = "off" /\ r \in Requests
    BY <1>11, <1>c, <1>i DEF Initialized, ClosersAreHere, OnceInstalled
  <2>3. \A d \in Closers, q \in Requests : stage'[d][q] = "release" <=> stage[d][q] = "release"
    <3>1. CASE stage' = stage
      BY <3>1
    <3>2. CASE stage' = [stage EXCEPT ![r][r] = "remove"]
      <4>1. \A d \in Closers, q \in Requests :
              stage'[d][q] = IF d = r /\ q = r THEN "remove" ELSE stage[d][q]
        BY <3>2, <1>0, <1>c
      <4> QED BY <4>1, <2>2
    <3> QED BY <2>1, <3>1, <3>2
  <2>4. UNCHANGED <<session, lease>>
    BY <1>11 DEF Initialized
  <2> QED BY <1>i, <2>3, <2>4 DEF CloseOnceOnce
<1>12. ASSUME NEW r \in Requests, Closed(r) PROVE \A q \in Requests : CloseOnceOnce(q)'
  BY <1>12, <1>0, <1>c, <1>i DEF Closed, CloseOnceOnce, ClosersAreHere, OnceInstalled, Unborn,
     Closers, Published
<1>13. ASSUME NEW r \in Requests, Unreserve(r) PROVE \A q \in Requests : CloseOnceOnce(q)'
  BY <1>13, <1>0, <1>c, <1>i DEF Unreserve, CloseOnceOnce, ClosersAreHere, OnceInstalled,
     Unborn, Closers, Published
<1>14. ASSUME NEW r \in Requests, OpenStream(r) PROVE \A q \in Requests : CloseOnceOnce(q)'
  BY <1>14, <1>0, <1>c, <1>i DEF OpenStream, CloseOnceOnce, ClosersAreHere, OnceInstalled,
     Unborn, Closers, Published
<1>15. ASSUME NEW r \in Requests, CloseStream(r) PROVE \A q \in Requests : CloseOnceOnce(q)'
  BY <1>15, <1>0, <1>c, <1>i DEF CloseStream, CloseOnceOnce, ClosersAreHere, OnceInstalled,
     Unborn, Closers, Published
<1>16. ASSUME NEW r \in Requests, Deleted(r) PROVE \A q \in Requests : CloseOnceOnce(q)'
  <2>1. stage' = [stage EXCEPT ![r][target[r]] = "once"]
    BY <1>16 DEF Deleted
  <2>2. stage[r][target[r]] = "off" /\ target[r] \in Requests
    BY <1>16, <1>c, <1>i DEF Deleted, ClosersAreHere, OnceInstalled
  <2>3. \A d \in Closers, q \in Requests : stage'[d][q] = "release" <=> stage[d][q] = "release"
    BY <1>0, <1>c, <2>1, <2>2
  <2>4. UNCHANGED <<session, lease>>
    BY <1>16 DEF Deleted
  <2> QED BY <1>i, <2>3, <2>4 DEF CloseOnceOnce
<1>17. ASSUME NEW r \in Requests, Leave(r) PROVE \A q \in Requests : CloseOnceOnce(q)'
  BY <1>17, <1>0, <1>c, <1>i DEF Leave, Release, CloseOnceOnce, ClosersAreHere, OnceInstalled,
     Unborn, Closers, Published
<1>18. ASSUME NEW r \in Requests, NEW s \in Requests, FindExpired(r, s)
      PROVE  \A q \in Requests : CloseOnceOnce(q)'
  <2>1. stage' = [stage EXCEPT ![r][s] = "once"]
    BY <1>18 DEF FindExpired
  <2>2. stage[r][s] = "off" /\ s \in Requests
    BY <1>18, <1>c, <1>i DEF FindExpired, Finds, ClosersAreHere, OnceInstalled
  <2>3. \A d \in Closers, q \in Requests : stage'[d][q] = "release" <=> stage[d][q] = "release"
    BY <1>0, <1>c, <2>1, <2>2
  <2>4. UNCHANGED <<session, lease>>
    BY <1>18 DEF FindExpired
  <2> QED BY <1>i, <2>3, <2>4 DEF CloseOnceOnce
<1>19. ASSUME NEW r \in Requests, NEW s \in Requests, FindLive(r, s)
      PROVE  \A q \in Requests : CloseOnceOnce(q)'
  BY <1>19, <1>0, <1>c, <1>i DEF FindLive, Finds, CloseOnceOnce, ClosersAreHere, OnceInstalled,
     Unborn, Closers, Published
<1>20. ASSUME NEW c \in Closers, NEW s \in Requests, CloseRemove(c, s)
      PROVE  \A q \in Requests : CloseOnceOnce(q)'
  BY <1>20, <1>0, <1>c, <1>i DEF CloseRemove, CloseOnceOnce, ClosersAreHere, OnceInstalled,
     Unborn, Closers, Published
<1>21. ASSUME NEW c \in Closers, NEW s \in Requests, CloseOnce(c, s)
      PROVE  \A q \in Requests : CloseOnceOnce(q)'
  <2>1. CASE /\ session[s] = "open" /\ session' = [session EXCEPT ![s] = "closing"]
             /\ timer' = [t \in Timers |-> [timer[t] EXCEPT ![s] = FALSE]]
             /\ stage' = [stage EXCEPT ![c][s] = "release"]
    <3>1. UNCHANGED <<pc, lease, owned, target, legacy, watching, early>> /\ stage[c][s] = "once"
      BY <1>21 DEF CloseOnce
    <3>2. \A t \in Timers, q \in Requests : timer'[t][q] => timer[t][q]
      BY <1>0, <2>1
    <3>3. /\ session[s] = "open" /\ session' = [session EXCEPT ![s] = "closing"]
          /\ stage' = [stage EXCEPT ![c][s] = "release"]
      BY <2>1
    <3> QED BY <1>0, <1>c, <1>i, <3>1, <3>2, <3>3 DEF CloseOnceOnce
  <2>2. CASE /\ session[s] = "closed" /\ stage' = [stage EXCEPT ![c][s] = "off"]
             /\ UNCHANGED <<session, timer>>
    <3>1. UNCHANGED <<pc, lease, owned, target, legacy, watching, early>> /\ stage[c][s] = "once"
      BY <1>21 DEF CloseOnce
    <3> QED BY <1>0, <1>c, <1>i, <2>2, <3>1 DEF CloseOnceOnce
  <2> QED BY <1>21, <2>1, <2>2 DEF CloseOnce
<1>22. ASSUME NEW c \in Closers, NEW s \in Requests, CloseRelease(c, s)
      PROVE  \A q \in Requests : CloseOnceOnce(q)'
  BY <1>22, <1>0, <1>c, <1>i DEF CloseRelease, CloseOnceOnce, ClosersAreHere, OnceInstalled,
     Unborn, Closers, Published
<1>23. ASSUME NEW t \in Timers, NEW s \in Requests, TimerFires(t, s)
      PROVE  \A q \in Requests : CloseOnceOnce(q)'
  BY <1>23, <1>0, <1>c, <1>i DEF TimerFires, Installing, CloseOnceOnce, ClosersAreHere,
     OnceInstalled, Unborn, Closers, Published
<1>24. ASSUME NEW s \in Requests, WatchEnds(s) PROVE \A q \in Requests : CloseOnceOnce(q)'
  BY <1>24, <1>0, <1>c, <1>i DEF WatchEnds, CloseOnceOnce, ClosersAreHere, OnceInstalled,
     Unborn, Closers, Published
<1>25. ASSUME NEW s \in Requests, CancelLease(s) PROVE \A q \in Requests : CloseOnceOnce(q)'
  BY <1>25, <1>0, <1>c, <1>i DEF CancelLease, CloseOnceOnce, ClosersAreHere, OnceInstalled,
     Unborn, Closers, Published
<1>26. ASSUME NEW s \in Requests, ShutdownLookup(s) PROVE \A q \in Requests : CloseOnceOnce(q)'
  BY <1>26, <1>0, <1>c, <1>i DEF ShutdownLookup, CloseOnceOnce, ClosersAreHere, OnceInstalled,
     Unborn, Closers, Published
<1>27. CASE ShutdownBegin
  BY <1>27, <1>0, <1>c, <1>i DEF ShutdownBegin, CloseOnceOnce, ClosersAreHere, OnceInstalled,
     Unborn, Closers, Published
<1>28. CASE ShutdownReturns
  BY <1>28, <1>0, <1>c, <1>i DEF ShutdownReturns, CloseOnceOnce, ClosersAreHere, OnceInstalled,
     Unborn, Closers, Published
<1>29. CASE Halt
  BY <1>29, <1>0, <1>c, <1>i DEF Halt, CloseOnceOnce, ClosersAreHere, OnceInstalled, Unborn,
     Closers, Published
<1>30. CASE UNCHANGED vars
  BY <1>30, <1>0, <1>c, <1>i DEF vars, CloseOnceOnce, ClosersAreHere, OnceInstalled, Unborn,
     Closers, Published
<1> QED
  BY <1>1, <1>2, <1>3, <1>4, <1>5, <1>6, <1>7, <1>8, <1>9, <1>10, <1>11, <1>12, <1>13, <1>14,
     <1>15, <1>16, <1>17, <1>18, <1>19, <1>20, <1>21, <1>22, <1>23, <1>24, <1>25, <1>26,
     <1>27, <1>28, <1>29, <1>30, Zenon DEF Next, Request, Close

\* Nothing refers to a session before it exists.
LEMMA StepUnborn ==
  ASSUME IngressInv, [Next]_vars PROVE \A q \in Requests : Unborn(q)'
<1> USE DEF requestVars, tableVars, permitVars, sessionVars, closeVars, Goto, Begin
<1>0. /\ pc \in [Requests -> Labels] /\ kind \in [Requests -> Kinds \cup {None}]
      /\ credential \in [Requests -> Credentials \cup {None}]
      /\ lease \in [Requests -> {"none", "current", "done"}]
      /\ owned \in [Requests -> BOOLEAN] /\ holds \in SUBSET Requests
      /\ early \in SUBSET Requests
      /\ id \in [Requests -> Ids \cup {None}] /\ target \in [Requests -> Requests \cup {None}]
      /\ legacy \in [Ids -> Requests \cup {None}]
      /\ reserved \in Nat /\ work \in Nat /\ streams \in Nat
      /\ session \in [Requests -> {"none", "open", "closing", "closed"}]
      /\ timer \in [Timers -> [Requests -> BOOLEAN]] /\ watching \in SUBSET Requests
      /\ stage \in [Closers -> [Requests -> {"off", "noted", "remove", "once", "release"}]]
  BY DEF IngressInv, TypeOK
<1>c. Requests \subseteq Closers /\ Timers \subseteq Closers /\ {"watch", "shutdown"} \subseteq Closers
  BY DEF Closers
<1>i. /\ \A q \in Requests : Unborn(q) /\ OnceInstalled(q) /\ OwnerWaits(q) /\ Asks(q)
  BY DEF IngressInv
<1>1. ASSUME NEW r \in Requests, Authenticate(r) PROVE \A q \in Requests : Unborn(q)'
  BY <1>1, <1>0, <1>c, <1>i DEF Authenticate, Unborn, OnceInstalled, Published, Drop,
     OwnerWaits, Closers
<1>2. ASSUME NEW r \in Requests, Refuse(r) PROVE \A q \in Requests : Unborn(q)'
  BY <1>2, <1>0, <1>c, <1>i DEF Refuse, Release, Unborn, OnceInstalled, Published, Drop,
     OwnerWaits, Closers
<1>3. ASSUME NEW r \in Requests, TakeWork(r) PROVE \A q \in Requests : Unborn(q)'
  BY <1>3, <1>0, <1>c, <1>i DEF TakeWork, Unborn, OnceInstalled, Published, Drop, OwnerWaits,
     Closers
<1>4. ASSUME NEW r \in Requests, Answer(r) PROVE \A q \in Requests : Unborn(q)'
  BY <1>4, <1>0, <1>c, <1>i DEF Answer, Unborn, OnceInstalled, Published, Drop, OwnerWaits,
     Closers
<1>5. ASSUME NEW r \in Requests, Reserve(r) PROVE \A q \in Requests : Unborn(q)'
  BY <1>5, <1>0, <1>c, <1>i DEF Reserve, Unborn, OnceInstalled, Published, Drop, OwnerWaits,
     Closers
<1>6. ASSUME NEW r \in Requests, InitializeFails(r) PROVE \A q \in Requests : Unborn(q)'
  BY <1>6, <1>0, <1>c, <1>i DEF InitializeFails, Unborn, OnceInstalled, Published, Drop,
     OwnerWaits, Closers
<1>7. ASSUME NEW r \in Requests, CreateSession(r) PROVE \A q \in Requests : Unborn(q)'
  BY <1>7, <1>0, <1>c, <1>i DEF CreateSession, Unborn, OnceInstalled, Published, Drop,
     OwnerWaits, Closers
<1>8. ASSUME NEW r \in Requests, RejectSession(r) PROVE \A q \in Requests : Unborn(q)'
  BY <1>8, <1>0, <1>c, <1>i DEF RejectSession, Unborn, OnceInstalled, Published, Drop,
     OwnerWaits, Closers
<1>9. ASSUME NEW r \in Requests, Publish(r) PROVE \A q \in Requests : Unborn(q)'
  BY <1>9, <1>0, <1>c, <1>i DEF Publish, Unborn, OnceInstalled, Published, Drop, OwnerWaits,
     Closers
<1>10. ASSUME NEW r \in Requests, Recheck(r) PROVE \A q \in Requests : Unborn(q)'
  BY <1>10, <1>0, <1>c, <1>i, SMTT(20) DEF Recheck, Unborn, OnceInstalled, Published, Drop, OwnerWaits,
     Closers
<1>11. ASSUME NEW r \in Requests, Initialized(r) PROVE \A q \in Requests : Unborn(q)'
  <2>1. session[r] # "none"
    BY <1>11, <1>i DEF Initialized, Unborn
  <2>2. \A d \in Closers, q \in Requests : q # r => stage'[d][q] = stage[d][q]
    BY <1>11, <1>0, <1>c DEF Initialized
  <2>3. \A q \in Requests : q # r => pc'[q] = pc[q]
    BY <1>11, <1>0 DEF Initialized
  <2>4. pc'[r] \in {"leave", "closing"} /\ UNCHANGED <<session, watching, timer, owned, lease, legacy>>
    BY <1>11, <1>0 DEF Initialized
  <2> QED BY <1>i, <2>1, <2>2, <2>3, <2>4 DEF Unborn, Published
<1>12. ASSUME NEW r \in Requests, Closed(r) PROVE \A q \in Requests : Unborn(q)'
  BY <1>12, <1>0, <1>c, <1>i DEF Closed, Unborn, OnceInstalled, Published, Drop, OwnerWaits,
     Closers
<1>13. ASSUME NEW r \in Requests, Unreserve(r) PROVE \A q \in Requests : Unborn(q)'
  BY <1>13, <1>0, <1>c, <1>i DEF Unreserve, Unborn, OnceInstalled, Published, Drop, OwnerWaits,
     Closers
<1>14. ASSUME NEW r \in Requests, OpenStream(r) PROVE \A q \in Requests : Unborn(q)'
  BY <1>14, <1>0, <1>c, <1>i DEF OpenStream, Unborn, OnceInstalled, Published, Drop,
     OwnerWaits, Closers
<1>15. ASSUME NEW r \in Requests, CloseStream(r) PROVE \A q \in Requests : Unborn(q)'
  BY <1>15, <1>0, <1>c, <1>i DEF CloseStream, Unborn, OnceInstalled, Published, Drop,
     OwnerWaits, Closers
<1>16. ASSUME NEW r \in Requests, Deleted(r) PROVE \A q \in Requests : Unborn(q)'
  BY <1>16, <1>0, <1>c, <1>i DEF Deleted, Unborn, OnceInstalled, Published, Drop, OwnerWaits,
     Closers
<1>17. ASSUME NEW r \in Requests, Leave(r) PROVE \A q \in Requests : Unborn(q)'
  BY <1>17, <1>0, <1>c, <1>i DEF Leave, Release, Unborn, OnceInstalled, Published, Drop,
     OwnerWaits, Closers
<1>18. ASSUME NEW r \in Requests, NEW s \in Requests, FindExpired(r, s)
      PROVE  \A q \in Requests : Unborn(q)'
  <2>1. pc[r] = "working" /\ legacy[id[r]] = s /\ id[r] \in Ids
    BY <1>18, <1>i DEF FindExpired, Finds, Asks
  <2>2. Published(s) /\ session[s] # "none"
    BY <1>i, <2>1 DEF Published, Unborn
  <2>3. \A q \in Requests : Published(q)' => Published(q)
    BY <1>18, <1>0, <2>1 DEF FindExpired, Published, Drop
  <2>4. \A q \in Requests : q # r => pc'[q] = pc[q]
    BY <1>18, <1>0 DEF FindExpired
  <2>5. \A d \in Closers, q \in Requests : q # s => stage'[d][q] = stage[d][q]
    BY <1>18, <1>0, <1>c DEF FindExpired
  <2>6. pc'[r] = "closing" /\ UNCHANGED <<session, watching, timer, owned, lease>>
    BY <1>18, <1>0 DEF FindExpired
  <2> QED BY <1>i, <2>1, <2>2, <2>3, <2>4, <2>5, <2>6 DEF Unborn
<1>19. ASSUME NEW r \in Requests, NEW s \in Requests, FindLive(r, s)
      PROVE  \A q \in Requests : Unborn(q)'
  <2>1. pc[r] = "working" /\ legacy[id[r]] = s /\ id[r] \in Ids
    BY <1>19, <1>i DEF FindLive, Finds, Asks
  <2>2. Published(s) /\ session[s] # "none"
    BY <1>i, <2>1 DEF Published, Unborn
  <2>3. \A q \in Requests : Published(q)' => Published(q)
    BY <1>19, <1>0, <2>1 DEF FindLive, Published, Drop
  <2>4. \A q \in Requests : q # r => pc'[q] = pc[q]
    BY <1>19, <1>0 DEF FindLive
  <2>5. \A t \in Timers, q \in Requests : q # s => timer'[t][q] = timer[t][q]
    BY <1>19, <1>0 DEF FindLive
  <2>6. pc'[r] \in {"leave", "stream", "deleting"}
    BY <1>19, <1>0, <1>i, <2>1 DEF FindLive, Finds, Asks
  <2>7. UNCHANGED <<session, watching, stage, owned, lease>>
    BY <1>19 DEF FindLive
  <2> QED BY <1>i, <2>1, <2>2, <2>3, <2>4, <2>5, <2>6, <2>7 DEF Unborn
<1>20. ASSUME NEW c \in Closers, NEW s \in Requests, CloseRemove(c, s)
      PROVE  \A q \in Requests : Unborn(q)'
  BY <1>20, <1>0, <1>c, <1>i DEF CloseRemove, Unborn, OnceInstalled, Published, Drop,
     OwnerWaits, Closers
<1>21. ASSUME NEW c \in Closers, NEW s \in Requests, CloseOnce(c, s)
      PROVE  \A q \in Requests : Unborn(q)'
  <2>1. CASE /\ session[s] = "open" /\ session' = [session EXCEPT ![s] = "closing"]
             /\ timer' = [t \in Timers |-> [timer[t] EXCEPT ![s] = FALSE]]
             /\ stage' = [stage EXCEPT ![c][s] = "release"]
    <3>1. UNCHANGED <<pc, lease, owned, target, legacy, watching, early>> /\ stage[c][s] = "once"
      BY <1>21 DEF CloseOnce
    <3>2. \A t \in Timers, q \in Requests : timer'[t][q] => timer[t][q]
      BY <1>0, <2>1
    <3>3. /\ session[s] = "open" /\ session' = [session EXCEPT ![s] = "closing"]
          /\ stage' = [stage EXCEPT ![c][s] = "release"]
      BY <2>1
    <3> QED BY <1>0, <1>c, <1>i, <3>1, <3>2, <3>3 DEF Unborn, Published
  <2>2. CASE /\ session[s] = "closed" /\ stage' = [stage EXCEPT ![c][s] = "off"]
             /\ UNCHANGED <<session, timer>>
    <3>1. UNCHANGED <<pc, lease, owned, target, legacy, watching, early>> /\ stage[c][s] = "once"
      BY <1>21 DEF CloseOnce
    <3> QED BY <1>0, <1>c, <1>i, <2>2, <3>1 DEF Unborn, Published
  <2> QED BY <1>21, <2>1, <2>2 DEF CloseOnce
<1>22. ASSUME NEW c \in Closers, NEW s \in Requests, CloseRelease(c, s)
      PROVE  \A q \in Requests : Unborn(q)'
  BY <1>22, <1>0, <1>c, <1>i DEF CloseRelease, Unborn, OnceInstalled, Published, Drop,
     OwnerWaits, Closers
<1>23. ASSUME NEW t \in Timers, NEW s \in Requests, TimerFires(t, s)
      PROVE  \A q \in Requests : Unborn(q)'
  BY <1>23, <1>0, <1>c, <1>i DEF TimerFires, Installing, Unborn, OnceInstalled, Published,
     Drop, OwnerWaits, Closers
<1>24. ASSUME NEW s \in Requests, WatchEnds(s) PROVE \A q \in Requests : Unborn(q)'
  BY <1>24, <1>0, <1>c, <1>i DEF WatchEnds, Unborn, OnceInstalled, Published, Drop, OwnerWaits,
     Closers
<1>25. ASSUME NEW s \in Requests, CancelLease(s) PROVE \A q \in Requests : Unborn(q)'
  BY <1>25, <1>0, <1>c, <1>i DEF CancelLease, Unborn, OnceInstalled, Published, Drop,
     OwnerWaits, Closers
<1>26. ASSUME NEW s \in Requests, ShutdownLookup(s) PROVE \A q \in Requests : Unborn(q)'
  BY <1>26, <1>0, <1>c, <1>i DEF ShutdownLookup, Unborn, OnceInstalled, Published, Drop,
     OwnerWaits, Closers
<1>27. CASE ShutdownBegin
  BY <1>27, <1>0, <1>c, <1>i DEF ShutdownBegin, Unborn, OnceInstalled, Published, Drop,
     OwnerWaits, Closers
<1>28. CASE ShutdownReturns
  BY <1>28, <1>0, <1>c, <1>i DEF ShutdownReturns, Unborn, OnceInstalled, Published, Drop,
     OwnerWaits, Closers
<1>29. CASE Halt
  BY <1>29, <1>0, <1>c, <1>i DEF Halt, Unborn, OnceInstalled, Published, Drop, OwnerWaits,
     Closers
<1>30. CASE UNCHANGED vars
  BY <1>30, <1>0, <1>c, <1>i DEF vars, Unborn, OnceInstalled, Published, Drop, OwnerWaits,
     Closers
<1> QED
  BY <1>1, <1>2, <1>3, <1>4, <1>5, <1>6, <1>7, <1>8, <1>9, <1>10, <1>11, <1>12, <1>13, <1>14,
     <1>15, <1>16, <1>17, <1>18, <1>19, <1>20, <1>21, <1>22, <1>23, <1>24, <1>25, <1>26,
     <1>27, <1>28, <1>29, <1>30, Zenon DEF Next, Request, Close

\* A request waits until the session whose lease it still owns is closed.
LEMMA StepOwner ==
  ASSUME IngressInv, [Next]_vars PROVE \A q \in Requests : OwnerWaits(q)'
<1> USE DEF requestVars, tableVars, permitVars, sessionVars, closeVars, Goto, Begin
<1>0. /\ pc \in [Requests -> Labels] /\ kind \in [Requests -> Kinds \cup {None}]
      /\ credential \in [Requests -> Credentials \cup {None}]
      /\ lease \in [Requests -> {"none", "current", "done"}]
      /\ owned \in [Requests -> BOOLEAN] /\ holds \in SUBSET Requests
      /\ early \in SUBSET Requests
      /\ id \in [Requests -> Ids \cup {None}] /\ target \in [Requests -> Requests \cup {None}]
      /\ legacy \in [Ids -> Requests \cup {None}]
      /\ reserved \in Nat /\ work \in Nat /\ streams \in Nat
      /\ session \in [Requests -> {"none", "open", "closing", "closed"}]
      /\ timer \in [Timers -> [Requests -> BOOLEAN]] /\ watching \in SUBSET Requests
      /\ stage \in [Closers -> [Requests -> {"off", "noted", "remove", "once", "release"}]]
  BY DEF IngressInv, TypeOK
<1>c. Requests \subseteq Closers /\ Timers \subseteq Closers /\ {"watch", "shutdown"} \subseteq Closers
  BY DEF Closers
<1>i. /\ ClosersAreHere
      /\ \A q \in Requests : OwnerWaits(q) /\ Unborn(q) /\ OnceInstalled(q) /\ CloseOnceOnce(q)
  BY DEF IngressInv
<1>1. ASSUME NEW r \in Requests, Authenticate(r) PROVE \A q \in Requests : OwnerWaits(q)'
  BY <1>1, <1>0, <1>c, <1>i DEF Authenticate, OwnerWaits, Unborn, OnceInstalled,
     ClosersAreHere, CloseOnceOnce, Closers
<1>2. ASSUME NEW r \in Requests, Refuse(r) PROVE \A q \in Requests : OwnerWaits(q)'
  BY <1>2, <1>0, <1>c, <1>i DEF Refuse, Release, OwnerWaits, Unborn, OnceInstalled,
     ClosersAreHere, CloseOnceOnce, Closers
<1>3. ASSUME NEW r \in Requests, TakeWork(r) PROVE \A q \in Requests : OwnerWaits(q)'
  BY <1>3, <1>0, <1>c, <1>i DEF TakeWork, OwnerWaits, Unborn, OnceInstalled, ClosersAreHere,
     CloseOnceOnce, Closers
<1>4. ASSUME NEW r \in Requests, Answer(r) PROVE \A q \in Requests : OwnerWaits(q)'
  BY <1>4, <1>0, <1>c, <1>i DEF Answer, OwnerWaits, Unborn, OnceInstalled, ClosersAreHere,
     CloseOnceOnce, Closers
<1>5. ASSUME NEW r \in Requests, Reserve(r) PROVE \A q \in Requests : OwnerWaits(q)'
  BY <1>5, <1>0, <1>c, <1>i DEF Reserve, OwnerWaits, Unborn, OnceInstalled, ClosersAreHere,
     CloseOnceOnce, Closers
<1>6. ASSUME NEW r \in Requests, InitializeFails(r) PROVE \A q \in Requests : OwnerWaits(q)'
  BY <1>6, <1>0, <1>c, <1>i DEF InitializeFails, OwnerWaits, Unborn, OnceInstalled,
     ClosersAreHere, CloseOnceOnce, Closers
<1>7. ASSUME NEW r \in Requests, CreateSession(r) PROVE \A q \in Requests : OwnerWaits(q)'
  BY <1>7, <1>0, <1>c, <1>i DEF CreateSession, OwnerWaits, Unborn, OnceInstalled,
     ClosersAreHere, CloseOnceOnce, Closers
<1>8. ASSUME NEW r \in Requests, RejectSession(r) PROVE \A q \in Requests : OwnerWaits(q)'
  BY <1>8, <1>0, <1>c, <1>i DEF RejectSession, OwnerWaits, Unborn, OnceInstalled,
     ClosersAreHere, CloseOnceOnce, Closers
<1>9. ASSUME NEW r \in Requests, Publish(r) PROVE \A q \in Requests : OwnerWaits(q)'
  BY <1>9, <1>0, <1>c, <1>i DEF Publish, OwnerWaits, Unborn, OnceInstalled, ClosersAreHere,
     CloseOnceOnce, Closers
<1>10. ASSUME NEW r \in Requests, Recheck(r) PROVE \A q \in Requests : OwnerWaits(q)'
  BY <1>10, <1>0, <1>c, <1>i DEF Recheck, OwnerWaits, Unborn, OnceInstalled, ClosersAreHere,
     CloseOnceOnce, Closers
<1>11. ASSUME NEW r \in Requests, Initialized(r) PROVE \A q \in Requests : OwnerWaits(q)'
  BY <1>11, <1>0, <1>c, <1>i DEF Initialized, OwnerWaits, Unborn, OnceInstalled,
     ClosersAreHere, CloseOnceOnce, Closers
<1>12. ASSUME NEW r \in Requests, Closed(r) PROVE \A q \in Requests : OwnerWaits(q)'
  BY <1>12, <1>0, <1>c, <1>i DEF Closed, OwnerWaits, Unborn, OnceInstalled, ClosersAreHere,
     CloseOnceOnce, Closers
<1>13. ASSUME NEW r \in Requests, Unreserve(r) PROVE \A q \in Requests : OwnerWaits(q)'
  BY <1>13, <1>0, <1>c, <1>i DEF Unreserve, OwnerWaits, Unborn, OnceInstalled, ClosersAreHere,
     CloseOnceOnce, Closers
<1>14. ASSUME NEW r \in Requests, OpenStream(r) PROVE \A q \in Requests : OwnerWaits(q)'
  BY <1>14, <1>0, <1>c, <1>i DEF OpenStream, OwnerWaits, Unborn, OnceInstalled, ClosersAreHere,
     CloseOnceOnce, Closers
<1>15. ASSUME NEW r \in Requests, CloseStream(r) PROVE \A q \in Requests : OwnerWaits(q)'
  BY <1>15, <1>0, <1>c, <1>i DEF CloseStream, OwnerWaits, Unborn, OnceInstalled,
     ClosersAreHere, CloseOnceOnce, Closers
<1>16. ASSUME NEW r \in Requests, Deleted(r) PROVE \A q \in Requests : OwnerWaits(q)'
  BY <1>16, <1>0, <1>c, <1>i DEF Deleted, OwnerWaits, Unborn, OnceInstalled, ClosersAreHere,
     CloseOnceOnce, Closers
<1>17. ASSUME NEW r \in Requests, Leave(r) PROVE \A q \in Requests : OwnerWaits(q)'
  BY <1>17, <1>0, <1>c, <1>i DEF Leave, Release, OwnerWaits, Unborn, OnceInstalled,
     ClosersAreHere, CloseOnceOnce, Closers
<1>18. ASSUME NEW r \in Requests, NEW s \in Requests, FindExpired(r, s)
      PROVE  \A q \in Requests : OwnerWaits(q)'
  BY <1>18, <1>0, <1>c, <1>i DEF FindExpired, Finds, OwnerWaits, Unborn, OnceInstalled,
     ClosersAreHere, CloseOnceOnce, Closers
<1>19. ASSUME NEW r \in Requests, NEW s \in Requests, FindLive(r, s)
      PROVE  \A q \in Requests : OwnerWaits(q)'
  BY <1>19, <1>0, <1>c, <1>i DEF FindLive, Finds, OwnerWaits, Unborn, OnceInstalled,
     ClosersAreHere, CloseOnceOnce, Closers
<1>20. ASSUME NEW c \in Closers, NEW s \in Requests, CloseRemove(c, s)
      PROVE  \A q \in Requests : OwnerWaits(q)'
  BY <1>20, <1>0, <1>c, <1>i DEF CloseRemove, OwnerWaits, Unborn, OnceInstalled,
     ClosersAreHere, CloseOnceOnce, Closers
<1>21. ASSUME NEW c \in Closers, NEW s \in Requests, CloseOnce(c, s)
      PROVE  \A q \in Requests : OwnerWaits(q)'
  <2>1. CASE /\ session[s] = "open" /\ session' = [session EXCEPT ![s] = "closing"]
             /\ timer' = [t \in Timers |-> [timer[t] EXCEPT ![s] = FALSE]]
             /\ stage' = [stage EXCEPT ![c][s] = "release"]
    <3>1. UNCHANGED <<pc, lease, owned, target, legacy, watching, early>> /\ stage[c][s] = "once"
      BY <1>21 DEF CloseOnce
    <3>2. \A t \in Timers, q \in Requests : timer'[t][q] => timer[t][q]
      BY <1>0, <2>1
    <3>3. /\ session[s] = "open" /\ session' = [session EXCEPT ![s] = "closing"]
          /\ stage' = [stage EXCEPT ![c][s] = "release"]
      BY <2>1
    <3> QED BY <1>0, <1>c, <1>i, <3>1, <3>2, <3>3 DEF OwnerWaits
  <2>2. CASE /\ session[s] = "closed" /\ stage' = [stage EXCEPT ![c][s] = "off"]
             /\ UNCHANGED <<session, timer>>
    <3>1. UNCHANGED <<pc, lease, owned, target, legacy, watching, early>> /\ stage[c][s] = "once"
      BY <1>21 DEF CloseOnce
    <3> QED BY <1>0, <1>c, <1>i, <2>2, <3>1 DEF OwnerWaits
  <2> QED BY <1>21, <2>1, <2>2 DEF CloseOnce
<1>22. ASSUME NEW c \in Closers, NEW s \in Requests, CloseRelease(c, s)
      PROVE  \A q \in Requests : OwnerWaits(q)'
  BY <1>22, <1>0, <1>c, <1>i DEF CloseRelease, OwnerWaits, Unborn, OnceInstalled,
     ClosersAreHere, CloseOnceOnce, Closers
<1>23. ASSUME NEW t \in Timers, NEW s \in Requests, TimerFires(t, s)
      PROVE  \A q \in Requests : OwnerWaits(q)'
  BY <1>23, <1>0, <1>c, <1>i DEF TimerFires, Installing, OwnerWaits, Unborn, OnceInstalled,
     ClosersAreHere, CloseOnceOnce, Closers
<1>24. ASSUME NEW s \in Requests, WatchEnds(s) PROVE \A q \in Requests : OwnerWaits(q)'
  BY <1>24, <1>0, <1>c, <1>i DEF WatchEnds, OwnerWaits, Unborn, OnceInstalled, ClosersAreHere,
     CloseOnceOnce, Closers
<1>25. ASSUME NEW s \in Requests, CancelLease(s) PROVE \A q \in Requests : OwnerWaits(q)'
  BY <1>25, <1>0, <1>c, <1>i DEF CancelLease, OwnerWaits, Unborn, OnceInstalled,
     ClosersAreHere, CloseOnceOnce, Closers
<1>26. ASSUME NEW s \in Requests, ShutdownLookup(s) PROVE \A q \in Requests : OwnerWaits(q)'
  BY <1>26, <1>0, <1>c, <1>i DEF ShutdownLookup, OwnerWaits, Unborn, OnceInstalled,
     ClosersAreHere, CloseOnceOnce, Closers
<1>27. CASE ShutdownBegin
  BY <1>27, <1>0, <1>c, <1>i DEF ShutdownBegin, OwnerWaits, Unborn, OnceInstalled,
     ClosersAreHere, CloseOnceOnce, Closers
<1>28. CASE ShutdownReturns
  BY <1>28, <1>0, <1>c, <1>i DEF ShutdownReturns, OwnerWaits, Unborn, OnceInstalled,
     ClosersAreHere, CloseOnceOnce, Closers
<1>29. CASE Halt
  BY <1>29, <1>0, <1>c, <1>i DEF Halt, OwnerWaits, Unborn, OnceInstalled, ClosersAreHere,
     CloseOnceOnce, Closers
<1>30. CASE UNCHANGED vars
  BY <1>30, <1>0, <1>c, <1>i DEF vars, OwnerWaits, Unborn, OnceInstalled, ClosersAreHere,
     CloseOnceOnce, Closers
<1> QED
  BY <1>1, <1>2, <1>3, <1>4, <1>5, <1>6, <1>7, <1>8, <1>9, <1>10, <1>11, <1>12, <1>13, <1>14,
     <1>15, <1>16, <1>17, <1>18, <1>19, <1>20, <1>21, <1>22, <1>23, <1>24, <1>25, <1>26,
     <1>27, <1>28, <1>29, <1>30, Zenon DEF Next, Request, Close

\* A session is left alone until it is installed, and a request knows its session.
LEMMA StepInstalled ==
  ASSUME IngressInv, [Next]_vars PROVE \A q \in Requests : OnceInstalled(q)'
<1> USE DEF requestVars, tableVars, permitVars, sessionVars, closeVars, Goto, Begin
<1>0. /\ pc \in [Requests -> Labels] /\ kind \in [Requests -> Kinds \cup {None}]
      /\ credential \in [Requests -> Credentials \cup {None}]
      /\ lease \in [Requests -> {"none", "current", "done"}]
      /\ owned \in [Requests -> BOOLEAN] /\ holds \in SUBSET Requests
      /\ early \in SUBSET Requests
      /\ id \in [Requests -> Ids \cup {None}] /\ target \in [Requests -> Requests \cup {None}]
      /\ legacy \in [Ids -> Requests \cup {None}]
      /\ reserved \in Nat /\ work \in Nat /\ streams \in Nat
      /\ session \in [Requests -> {"none", "open", "closing", "closed"}]
      /\ timer \in [Timers -> [Requests -> BOOLEAN]] /\ watching \in SUBSET Requests
      /\ stage \in [Closers -> [Requests -> {"off", "noted", "remove", "once", "release"}]]
  BY DEF IngressInv, TypeOK
<1>c. Requests \subseteq Closers /\ Timers \subseteq Closers /\ {"watch", "shutdown"} \subseteq Closers
  BY DEF Closers
<1>i. /\ ClosersAreHere
      /\ PublishedOnce
      /\ \A q \in Requests : OnceInstalled(q) /\ Unborn(q) /\ Asks(q)
  BY DEF IngressInv
<1>1. ASSUME NEW r \in Requests, Authenticate(r) PROVE \A q \in Requests : OnceInstalled(q)'
  BY <1>1, <1>0, <1>c, <1>i DEF Authenticate, OnceInstalled, Unborn, ClosersAreHere, Published,
     Drop, Closers
<1>2. ASSUME NEW r \in Requests, Refuse(r) PROVE \A q \in Requests : OnceInstalled(q)'
  BY <1>2, <1>0, <1>c, <1>i DEF Refuse, Release, OnceInstalled, Unborn, ClosersAreHere,
     Published, Drop, Closers
<1>3. ASSUME NEW r \in Requests, TakeWork(r) PROVE \A q \in Requests : OnceInstalled(q)'
  BY <1>3, <1>0, <1>c, <1>i DEF TakeWork, OnceInstalled, Unborn, ClosersAreHere, Published,
     Drop, Closers
<1>4. ASSUME NEW r \in Requests, Answer(r) PROVE \A q \in Requests : OnceInstalled(q)'
  BY <1>4, <1>0, <1>c, <1>i DEF Answer, OnceInstalled, Unborn, ClosersAreHere, Published, Drop,
     Closers
<1>5. ASSUME NEW r \in Requests, Reserve(r) PROVE \A q \in Requests : OnceInstalled(q)'
  BY <1>5, <1>0, <1>c, <1>i DEF Reserve, OnceInstalled, Unborn, ClosersAreHere, Published,
     Drop, Closers
<1>6. ASSUME NEW r \in Requests, InitializeFails(r) PROVE \A q \in Requests : OnceInstalled(q)'
  BY <1>6, <1>0, <1>c, <1>i DEF InitializeFails, OnceInstalled, Unborn, ClosersAreHere,
     Published, Drop, Closers
<1>7. ASSUME NEW r \in Requests, CreateSession(r) PROVE \A q \in Requests : OnceInstalled(q)'
  BY <1>7, <1>0, <1>c, <1>i DEF CreateSession, OnceInstalled, Unborn, ClosersAreHere,
     Published, Drop, Closers
<1>8. ASSUME NEW r \in Requests, RejectSession(r) PROVE \A q \in Requests : OnceInstalled(q)'
  BY <1>8, <1>0, <1>c, <1>i DEF RejectSession, OnceInstalled, Unborn, ClosersAreHere,
     Published, Drop, Closers
<1>9. ASSUME NEW r \in Requests, Publish(r) PROVE \A q \in Requests : OnceInstalled(q)'
  BY <1>9, <1>0, <1>c, <1>i DEF Publish, OnceInstalled, Unborn, ClosersAreHere, Published,
     Drop, Closers
<1>10. ASSUME NEW r \in Requests, Recheck(r) PROVE \A q \in Requests : OnceInstalled(q)'
  <2>1. target[r] = r /\ session[r] # "none"
    BY <1>10, <1>i DEF Recheck, OnceInstalled, Unborn
  <2>2. \A q \in Requests : q # r => pc'[q] = pc[q]
    BY <1>10, <1>0 DEF Recheck
  <2>3. pc'[r] \in {"initializing", "leave", "closing"}
    BY <1>10, <1>0 DEF Recheck
  <2>4. \A d \in Closers, q \in Requests : q # r => stage'[d][q] = stage[d][q]
    BY <1>10, <1>0, <1>c DEF Recheck
  <2>5. UNCHANGED <<legacy, watching, early, session, target>>
    BY <1>10 DEF Recheck
  <2>6. \A q \in Requests : Published(q)' <=> Published(q)
    BY <2>5 DEF Published
  <2>7. \A q \in Requests : pc'[q] = "created" => /\ pc[q] = "created"
          /\ \A d \in Closers : stage'[d][q] = stage[d][q]
    BY <1>0, <2>2, <2>3, <2>4
  <2>8. \A q \in Requests : pc'[q] = "created" =>
          /\ ~Published(q)' /\ q \notin watching'
          /\ \A d \in Closers \ Timers : stage'[d][q] = "off"
          /\ q \notin early' => session'[q] = "open" /\ \A t \in Timers : stage'[t][q] = "off"
    BY <1>c, <1>i, <2>5, <2>6, <2>7 DEF OnceInstalled
  <2> QED BY <1>0, <1>i, <2>1, <2>2, <2>3, <2>5, <2>6, <2>8 DEF OnceInstalled
<1>11. ASSUME NEW r \in Requests, Initialized(r) PROVE \A q \in Requests : OnceInstalled(q)'
  <2>1. target[r] = r /\ session[r] # "none"
    BY <1>11, <1>i DEF Initialized, OnceInstalled, Unborn
  <2>2. \A q \in Requests : q # r => pc'[q] = pc[q]
    BY <1>11, <1>0 DEF Initialized
  <2>3. pc'[r] \in {"initializing", "leave", "closing"}
    BY <1>11, <1>0 DEF Initialized
  <2>4. \A d \in Closers, q \in Requests : q # r => stage'[d][q] = stage[d][q]
    BY <1>11, <1>0, <1>c DEF Initialized
  <2>5. UNCHANGED <<legacy, watching, early, session, target>>
    BY <1>11 DEF Initialized
  <2>6. \A q \in Requests : Published(q)' <=> Published(q)
    BY <2>5 DEF Published
  <2>7. \A q \in Requests : pc'[q] = "created" => /\ pc[q] = "created"
          /\ \A d \in Closers : stage'[d][q] = stage[d][q]
    BY <1>0, <2>2, <2>3, <2>4
  <2>8. \A q \in Requests : pc'[q] = "created" =>
          /\ ~Published(q)' /\ q \notin watching'
          /\ \A d \in Closers \ Timers : stage'[d][q] = "off"
          /\ q \notin early' => session'[q] = "open" /\ \A t \in Timers : stage'[t][q] = "off"
    BY <1>c, <1>i, <2>5, <2>6, <2>7 DEF OnceInstalled
  <2> QED BY <1>0, <1>i, <2>1, <2>2, <2>3, <2>5, <2>6, <2>8 DEF OnceInstalled
<1>12. ASSUME NEW r \in Requests, Closed(r) PROVE \A q \in Requests : OnceInstalled(q)'
  BY <1>12, <1>0, <1>c, <1>i DEF Closed, OnceInstalled, Unborn, ClosersAreHere, Published,
     Drop, Closers
<1>13. ASSUME NEW r \in Requests, Unreserve(r) PROVE \A q \in Requests : OnceInstalled(q)'
  BY <1>13, <1>0, <1>c, <1>i DEF Unreserve, OnceInstalled, Unborn, ClosersAreHere, Published,
     Drop, Closers
<1>14. ASSUME NEW r \in Requests, OpenStream(r) PROVE \A q \in Requests : OnceInstalled(q)'
  BY <1>14, <1>0, <1>c, <1>i DEF OpenStream, OnceInstalled, Unborn, ClosersAreHere, Published,
     Drop, Closers
<1>15. ASSUME NEW r \in Requests, CloseStream(r) PROVE \A q \in Requests : OnceInstalled(q)'
  BY <1>15, <1>0, <1>c, <1>i DEF CloseStream, OnceInstalled, Unborn, ClosersAreHere, Published,
     Drop, Closers
<1>16. ASSUME NEW r \in Requests, Deleted(r) PROVE \A q \in Requests : OnceInstalled(q)'
  BY <1>16, <1>0, <1>c, <1>i DEF Deleted, OnceInstalled, Unborn, ClosersAreHere, Published,
     Drop, Closers
<1>17. ASSUME NEW r \in Requests, Leave(r) PROVE \A q \in Requests : OnceInstalled(q)'
  BY <1>17, <1>0, <1>c, <1>i DEF Leave, Release, OnceInstalled, Unborn, ClosersAreHere,
     Published, Drop, Closers
<1>18. ASSUME NEW r \in Requests, NEW s \in Requests, FindExpired(r, s)
      PROVE  \A q \in Requests : OnceInstalled(q)'
  <2>1. pc[r] = "working" /\ legacy[id[r]] = s /\ id[r] \in Ids /\ r \in Users
    BY <1>18, <1>i DEF FindExpired, Finds, Asks
  <2>2. Published(s) /\ session[s] # "none" /\ pc[s] # "created"
    BY <1>i, <2>1 DEF Published, Unborn, OnceInstalled
  <2>3. \A q \in Requests : Published(q)' => Published(q)
    BY <1>18, <1>0, <2>1 DEF FindExpired, Published, Drop
  <2>4. /\ \A q \in Requests : q # r => pc'[q] = pc[q] /\ target'[q] = target[q]
        /\ target'[r] = s
    BY <1>18, <1>0 DEF FindExpired
  <2>5. UNCHANGED <<watching, early, session>>
    BY <1>18 DEF FindExpired
  <2>6. pc'[r] = "closing"
    BY <1>18, <1>0 DEF FindExpired
  <2>7. \A d \in Closers, q \in Requests : q # s => stage'[d][q] = stage[d][q]
    BY <1>18, <1>0, <1>c DEF FindExpired
  <2>8. \A q \in Requests : pc'[q] = "created" => /\ pc[q] = "created"
          /\ \A d \in Closers : stage'[d][q] = stage[d][q]
    BY <1>0, <2>2, <2>4, <2>6, <2>7
  <2>9. \A q \in Requests : pc'[q] = "created" =>
          /\ ~Published(q)' /\ q \notin watching'
          /\ \A d \in Closers \ Timers : stage'[d][q] = "off"
          /\ q \notin early' => session'[q] = "open" /\ \A t \in Timers : stage'[t][q] = "off"
    BY <1>c, <1>i, <2>3, <2>5, <2>8 DEF OnceInstalled
  <2>10. \A q \in Requests : pc'[q] \in {"created", "published", "initializing"} =>
           target'[q] = q
    BY <1>i, <2>4, <2>6 DEF OnceInstalled
  <2>11. \A q \in Requests : pc'[q] \in {"deleting", "closing"} =>
           target'[q] \in Requests /\ session'[target'[q]] # "none"
    BY <1>i, <2>2, <2>4, <2>5 DEF OnceInstalled
  <2>12. \A q \in Requests : pc'[q] = "deleting" =>
           (~Published(target[q]) /\ pc[target[q]] # "created")'
    BY <1>i, <2>3, <2>4, <2>6, <2>8, <2>11 DEF OnceInstalled
  <2> QED BY <2>9, <2>10, <2>11, <2>12 DEF OnceInstalled
<1>19. ASSUME NEW r \in Requests, NEW s \in Requests, FindLive(r, s)
      PROVE  \A q \in Requests : OnceInstalled(q)'
  <2>1. pc[r] = "working" /\ legacy[id[r]] = s /\ id[r] \in Ids /\ r \in Users
    BY <1>19, <1>i DEF FindLive, Finds, Asks
  <2>2. Published(s) /\ session[s] # "none" /\ pc[s] # "created"
    BY <1>i, <2>1 DEF Published, Unborn, OnceInstalled
  <2>3. \A q \in Requests : Published(q)' => Published(q)
    BY <1>19, <1>0, <2>1 DEF FindLive, Published, Drop
  <2>4. /\ \A q \in Requests : q # r => pc'[q] = pc[q] /\ target'[q] = target[q]
        /\ target'[r] = s
    BY <1>19, <1>0 DEF FindLive
  <2>5. UNCHANGED <<watching, early, session>>
    BY <1>19 DEF FindLive
  <2>6. pc'[r] \in {"leave", "stream", "deleting"}
    BY <1>19, <1>0, <1>i, <2>1 DEF FindLive, Finds, Asks
  <2>7. stage' = stage
    BY <1>19 DEF FindLive
  <2>8. pc'[r] = "deleting" => legacy' = Drop(legacy, id[r])
    BY <1>19, <1>0, <1>i, <2>1 DEF FindLive, Finds, Asks
  <2>9. pc'[r] = "deleting" => ~Published(s)'
    BY <1>0, <1>i, <2>1, <2>8 DEF Published, PublishedOnce, Drop
  <2> QED BY <1>0, <1>i, <2>1, <2>2, <2>3, <2>4, <2>5, <2>6, <2>7, <2>8, <2>9 DEF OnceInstalled
<1>20. ASSUME NEW c \in Closers, NEW s \in Requests, CloseRemove(c, s)
      PROVE  \A q \in Requests : OnceInstalled(q)'
  BY <1>20, <1>0, <1>c, <1>i DEF CloseRemove, OnceInstalled, Unborn, ClosersAreHere, Published,
     Drop, Closers
<1>21. ASSUME NEW c \in Closers, NEW s \in Requests, CloseOnce(c, s)
      PROVE  \A q \in Requests : OnceInstalled(q)'
  <2>1. pc[s] = "created" => c \in Timers /\ s \in early
    BY <1>21, <1>0, <1>c, <1>i DEF CloseOnce, OnceInstalled
  <2>2. \A d \in Closers, q \in Requests : q # s \/ d # c => stage'[d][q] = stage[d][q]
    BY <1>21, <1>0, <1>c DEF CloseOnce
  <2>3. \A q \in Requests : q # s => session'[q] = session[q]
    BY <1>21, <1>0 DEF CloseOnce
  <2>4. session[s] # "none" => session'[s] # "none"
    BY <1>21, <1>0 DEF CloseOnce
  <2>5. UNCHANGED <<pc, legacy, watching, early, target>>
    BY <1>21 DEF CloseOnce
  <2>6. \A q \in Requests : Published(q)' <=> Published(q)
    BY <2>5 DEF Published
  <2>7. \A q \in Requests : pc[q] = "created" => \A d \in Closers \ Timers : stage'[d][q] = "off"
    BY <1>i, <2>1, <2>2 DEF OnceInstalled
  <2>8. \A q \in Requests : pc[q] = "created" /\ q \notin early =>
          session'[q] = session[q] /\ \A t \in Timers : stage'[t][q] = stage[t][q]
    BY <1>c, <1>i, <2>1, <2>2, <2>3 DEF OnceInstalled
  <2> QED BY <1>0, <1>i, <2>3, <2>4, <2>5, <2>6, <2>7, <2>8 DEF OnceInstalled
<1>22. ASSUME NEW c \in Closers, NEW s \in Requests, CloseRelease(c, s)
      PROVE  \A q \in Requests : OnceInstalled(q)'
  <2>1. pc[s] = "created" => c \in Timers /\ s \in early
    BY <1>22, <1>0, <1>c, <1>i DEF CloseRelease, OnceInstalled
  <2>2. \A d \in Closers, q \in Requests : q # s \/ d # c => stage'[d][q] = stage[d][q]
    BY <1>22, <1>0, <1>c DEF CloseRelease
  <2>3. \A q \in Requests : q # s => session'[q] = session[q]
    BY <1>22, <1>0 DEF CloseRelease
  <2>4. session[s] # "none" => session'[s] # "none"
    BY <1>22, <1>0 DEF CloseRelease
  <2>5. UNCHANGED <<pc, legacy, watching, early, target>>
    BY <1>22 DEF CloseRelease
  <2>6. \A q \in Requests : Published(q)' <=> Published(q)
    BY <2>5 DEF Published
  <2>7. \A q \in Requests : pc[q] = "created" => \A d \in Closers \ Timers : stage'[d][q] = "off"
    BY <1>i, <2>1, <2>2 DEF OnceInstalled
  <2>8. \A q \in Requests : pc[q] = "created" /\ q \notin early =>
          session'[q] = session[q] /\ \A t \in Timers : stage'[t][q] = stage[t][q]
    BY <1>c, <1>i, <2>1, <2>2, <2>3 DEF OnceInstalled
  <2> QED BY <1>0, <1>i, <2>3, <2>4, <2>5, <2>6, <2>7, <2>8 DEF OnceInstalled
<1>23. ASSUME NEW t \in Timers, NEW s \in Requests, TimerFires(t, s)
      PROVE  \A q \in Requests : OnceInstalled(q)'
  BY <1>23, <1>0, <1>c, <1>i DEF TimerFires, Installing, OnceInstalled, Unborn, ClosersAreHere,
     Published, Drop, Closers
<1>24. ASSUME NEW s \in Requests, WatchEnds(s) PROVE \A q \in Requests : OnceInstalled(q)'
  <2>1. s \in watching /\ pc[s] # "created"
    BY <1>24, <1>i DEF WatchEnds, OnceInstalled
  <2>2. \A d \in Closers, q \in Requests : q # s => stage'[d][q] = stage[d][q]
    BY <1>24, <1>0, <1>c DEF WatchEnds
  <2>3. UNCHANGED <<pc, legacy, early, session, target>> /\ watching' = watching \ {s}
    BY <1>24 DEF WatchEnds
  <2>4. \A q \in Requests : Published(q)' <=> Published(q)
    BY <2>3 DEF Published
  <2>5. \A q \in Requests : pc'[q] = "created" => /\ pc[q] = "created"
          /\ \A d \in Closers : stage'[d][q] = stage[d][q]
    BY <1>0, <2>1, <2>2, <2>3
  <2>6. \A q \in Requests : pc'[q] = "created" =>
          /\ ~Published(q)' /\ q \notin watching'
          /\ \A d \in Closers \ Timers : stage'[d][q] = "off"
          /\ q \notin early' => session'[q] = "open" /\ \A t \in Timers : stage'[t][q] = "off"
    BY <1>c, <1>i, <2>3, <2>4, <2>5 DEF OnceInstalled
  <2> QED BY <1>0, <1>i, <2>3, <2>4, <2>6 DEF OnceInstalled
<1>25. ASSUME NEW s \in Requests, CancelLease(s) PROVE \A q \in Requests : OnceInstalled(q)'
  BY <1>25, <1>0, <1>c, <1>i DEF CancelLease, OnceInstalled, Unborn, ClosersAreHere, Published,
     Drop, Closers
<1>26. ASSUME NEW s \in Requests, ShutdownLookup(s) PROVE \A q \in Requests : OnceInstalled(q)'
  BY <1>26, <1>0, <1>c, <1>i DEF ShutdownLookup, OnceInstalled, Unborn, ClosersAreHere,
     Published, Drop, Closers
<1>27. CASE ShutdownBegin
  BY <1>27, <1>0, <1>c, <1>i DEF ShutdownBegin, OnceInstalled, Unborn, ClosersAreHere,
     Published, Drop, Closers
<1>28. CASE ShutdownReturns
  BY <1>28, <1>0, <1>c, <1>i DEF ShutdownReturns, OnceInstalled, Unborn, ClosersAreHere,
     Published, Drop, Closers
<1>29. CASE Halt
  BY <1>29, <1>0, <1>c, <1>i DEF Halt, OnceInstalled, Unborn, ClosersAreHere, Published, Drop,
     Closers
<1>30. CASE UNCHANGED vars
  BY <1>30, <1>0, <1>c, <1>i DEF vars, OnceInstalled, Unborn, ClosersAreHere, Published, Drop,
     Closers
<1> QED
  BY <1>1, <1>2, <1>3, <1>4, <1>5, <1>6, <1>7, <1>8, <1>9, <1>10, <1>11, <1>12, <1>13, <1>14,
     <1>15, <1>16, <1>17, <1>18, <1>19, <1>20, <1>21, <1>22, <1>23, <1>24, <1>25, <1>26,
     <1>27, <1>28, <1>29, <1>30, Zenon DEF Next, Request, Close

\* A session leaves the table before it is closed.
LEMMA StepRemoval ==
  ASSUME IngressInv, [Next]_vars PROVE \A q \in Requests : ClosedAfterRemoval(q)'
<1> USE DEF requestVars, tableVars, permitVars, sessionVars, closeVars, Goto, Begin
<1>0. /\ pc \in [Requests -> Labels] /\ kind \in [Requests -> Kinds \cup {None}]
      /\ credential \in [Requests -> Credentials \cup {None}]
      /\ lease \in [Requests -> {"none", "current", "done"}]
      /\ owned \in [Requests -> BOOLEAN] /\ holds \in SUBSET Requests
      /\ early \in SUBSET Requests
      /\ id \in [Requests -> Ids \cup {None}] /\ target \in [Requests -> Requests \cup {None}]
      /\ legacy \in [Ids -> Requests \cup {None}]
      /\ reserved \in Nat /\ work \in Nat /\ streams \in Nat
      /\ session \in [Requests -> {"none", "open", "closing", "closed"}]
      /\ timer \in [Timers -> [Requests -> BOOLEAN]] /\ watching \in SUBSET Requests
      /\ stage \in [Closers -> [Requests -> {"off", "noted", "remove", "once", "release"}]]
  BY DEF IngressInv, TypeOK
<1>c. Requests \subseteq Closers /\ Timers \subseteq Closers /\ {"watch", "shutdown"} \subseteq Closers
  BY DEF Closers
<1>i. /\ PublishedOnce
      /\ ClosersAreHere
      /\ \A q \in Requests : /\ ClosedAfterRemoval(q) /\ OnceInstalled(q) /\ Unborn(q)
                             /\ CloseOnceOnce(q) /\ Asks(q)
  BY DEF IngressInv
<1>1. ASSUME NEW r \in Requests, Authenticate(r)
      PROVE  \A q \in Requests : ClosedAfterRemoval(q)'
  <2>1. \A q \in Requests : q \notin early' => q \notin early
    BY <1>1, <1>0 DEF Authenticate
  <2>2. \A q \in Requests : Published(q)' => Published(q)
    BY <1>1, <1>0 DEF Authenticate, Published
  <2>3. \A d \in Closers, q \in Requests :
          stage'[d][q] \in Closing => stage[d][q] \in Closing
    BY <1>1, <1>0, <1>c DEF Authenticate, Closing
  <2>4. \A q \in Requests : session'[q] \in {"closing", "closed"} =>
          session[q] \in {"closing", "closed"} \/ \E d \in Closers : stage[d][q] \in Closing
    BY <1>1, <1>0, <1>c DEF Authenticate, Closing
  <2> QED BY <1>i, <2>1, <2>2, <2>3, <2>4 DEF ClosedAfterRemoval
<1>2. ASSUME NEW r \in Requests, Refuse(r) PROVE \A q \in Requests : ClosedAfterRemoval(q)'
  <2>1. \A q \in Requests : q \notin early' => q \notin early
    BY <1>2, <1>0 DEF Refuse, Release
  <2>2. \A q \in Requests : Published(q)' => Published(q)
    BY <1>2, <1>0 DEF Refuse, Release, Published
  <2>3. \A d \in Closers, q \in Requests :
          stage'[d][q] \in Closing => stage[d][q] \in Closing
    BY <1>2, <1>0, <1>c DEF Refuse, Release, Closing
  <2>4. \A q \in Requests : session'[q] \in {"closing", "closed"} =>
          session[q] \in {"closing", "closed"} \/ \E d \in Closers : stage[d][q] \in Closing
    BY <1>2, <1>0, <1>c DEF Refuse, Release, Closing
  <2> QED BY <1>i, <2>1, <2>2, <2>3, <2>4 DEF ClosedAfterRemoval
<1>3. ASSUME NEW r \in Requests, TakeWork(r) PROVE \A q \in Requests : ClosedAfterRemoval(q)'
  <2>1. \A q \in Requests : q \notin early' => q \notin early
    BY <1>3, <1>0 DEF TakeWork
  <2>2. \A q \in Requests : Published(q)' => Published(q)
    BY <1>3, <1>0 DEF TakeWork, Published
  <2>3. \A d \in Closers, q \in Requests :
          stage'[d][q] \in Closing => stage[d][q] \in Closing
    BY <1>3, <1>0, <1>c DEF TakeWork, Closing
  <2>4. \A q \in Requests : session'[q] \in {"closing", "closed"} =>
          session[q] \in {"closing", "closed"} \/ \E d \in Closers : stage[d][q] \in Closing
    BY <1>3, <1>0, <1>c DEF TakeWork, Closing
  <2> QED BY <1>i, <2>1, <2>2, <2>3, <2>4 DEF ClosedAfterRemoval
<1>4. ASSUME NEW r \in Requests, Answer(r) PROVE \A q \in Requests : ClosedAfterRemoval(q)'
  <2>1. \A q \in Requests : q \notin early' => q \notin early
    BY <1>4, <1>0 DEF Answer
  <2>2. \A q \in Requests : Published(q)' => Published(q)
    BY <1>4, <1>0 DEF Answer, Published
  <2>3. \A d \in Closers, q \in Requests :
          stage'[d][q] \in Closing => stage[d][q] \in Closing
    BY <1>4, <1>0, <1>c DEF Answer, Closing
  <2>4. \A q \in Requests : session'[q] \in {"closing", "closed"} =>
          session[q] \in {"closing", "closed"} \/ \E d \in Closers : stage[d][q] \in Closing
    BY <1>4, <1>0, <1>c DEF Answer, Closing
  <2> QED BY <1>i, <2>1, <2>2, <2>3, <2>4 DEF ClosedAfterRemoval
<1>5. ASSUME NEW r \in Requests, Reserve(r) PROVE \A q \in Requests : ClosedAfterRemoval(q)'
  <2>1. \A q \in Requests : q \notin early' => q \notin early
    BY <1>5, <1>0 DEF Reserve
  <2>2. \A q \in Requests : Published(q)' => Published(q)
    BY <1>5, <1>0 DEF Reserve, Published
  <2>3. \A d \in Closers, q \in Requests :
          stage'[d][q] \in Closing => stage[d][q] \in Closing
    BY <1>5, <1>0, <1>c DEF Reserve, Closing
  <2>4. \A q \in Requests : session'[q] \in {"closing", "closed"} =>
          session[q] \in {"closing", "closed"} \/ \E d \in Closers : stage[d][q] \in Closing
    BY <1>5, <1>0, <1>c DEF Reserve, Closing
  <2> QED BY <1>i, <2>1, <2>2, <2>3, <2>4 DEF ClosedAfterRemoval
<1>6. ASSUME NEW r \in Requests, InitializeFails(r)
      PROVE  \A q \in Requests : ClosedAfterRemoval(q)'
  <2>1. \A q \in Requests : q \notin early' => q \notin early
    BY <1>6, <1>0 DEF InitializeFails
  <2>2. \A q \in Requests : Published(q)' => Published(q)
    BY <1>6, <1>0 DEF InitializeFails, Published
  <2>3. \A d \in Closers, q \in Requests :
          stage'[d][q] \in Closing => stage[d][q] \in Closing
    BY <1>6, <1>0, <1>c DEF InitializeFails, Closing
  <2>4. \A q \in Requests : session'[q] \in {"closing", "closed"} =>
          session[q] \in {"closing", "closed"} \/ \E d \in Closers : stage[d][q] \in Closing
    BY <1>6, <1>0, <1>c DEF InitializeFails, Closing
  <2> QED BY <1>i, <2>1, <2>2, <2>3, <2>4 DEF ClosedAfterRemoval
<1>7. ASSUME NEW r \in Requests, CreateSession(r)
      PROVE  \A q \in Requests : ClosedAfterRemoval(q)'
  <2>1. \A q \in Requests : q \notin early' => q \notin early
    BY <1>7, <1>0 DEF CreateSession
  <2>2. \A q \in Requests : Published(q)' => Published(q)
    BY <1>7, <1>0 DEF CreateSession, Published
  <2>3. \A d \in Closers, q \in Requests :
          stage'[d][q] \in Closing => stage[d][q] \in Closing
    BY <1>7, <1>0, <1>c DEF CreateSession, Closing
  <2>4. \A q \in Requests : session'[q] \in {"closing", "closed"} =>
          session[q] \in {"closing", "closed"} \/ \E d \in Closers : stage[d][q] \in Closing
    BY <1>7, <1>0, <1>c DEF CreateSession, Closing
  <2> QED BY <1>i, <2>1, <2>2, <2>3, <2>4 DEF ClosedAfterRemoval
<1>8. ASSUME NEW r \in Requests, RejectSession(r)
      PROVE  \A q \in Requests : ClosedAfterRemoval(q)'
  <2>1. ~Published(r)'
    BY <1>8, <1>i DEF RejectSession, OnceInstalled, Published
  <2>2. \A q \in Requests : q \notin early' => q \notin early
    BY <1>8, <1>0 DEF RejectSession
  <2>3. \A q \in Requests : Published(q)' => Published(q)
    BY <1>8, <1>0 DEF RejectSession, Published
  <2>4. \A d \in Closers, q \in Requests :
          stage'[d][q] \in Closing => stage[d][q] \in Closing \/ ~Published(q)'
    BY <1>8, <1>0, <1>c, <2>1 DEF RejectSession, Closing
  <2>5. \A q \in Requests : session'[q] \in {"closing", "closed"} =>
          session[q] \in {"closing", "closed"} \/ \E d \in Closers : stage[d][q] \in Closing
    BY <1>8, <1>0, <1>c DEF RejectSession, Closing
  <2> QED BY <1>i, <2>2, <2>3, <2>4, <2>5 DEF ClosedAfterRemoval
<1>9. ASSUME NEW r \in Requests, Publish(r) PROVE \A q \in Requests : ClosedAfterRemoval(q)'
  <2>1. /\ pc[r] = "created" /\ id[r] \in Ids /\ legacy' = [legacy EXCEPT ![id[r]] = r]
        /\ UNCHANGED <<early, stage, session>>
    BY <1>9, <1>i DEF Publish, Asks
  <2>2. r \notin early => session[r] = "open" /\ \A d \in Closers : stage[d][r] = "off"
    BY <1>i, <2>1 DEF OnceInstalled
  <2>3. \A q \in Requests : q # r => (Published(q)' => Published(q))
    BY <1>0, <2>1 DEF Published
  <2> QED BY <1>i, <2>1, <2>2, <2>3 DEF ClosedAfterRemoval, Closing
<1>10. ASSUME NEW r \in Requests, Recheck(r) PROVE \A q \in Requests : ClosedAfterRemoval(q)'
  <2>1. \A q \in Requests : q \notin early' => q \notin early
    BY <1>10, <1>0 DEF Recheck
  <2>2. \A q \in Requests : Published(q)' => Published(q)
    BY <1>10, <1>0 DEF Recheck, Published
  <2>3. \A d \in Closers, q \in Requests :
          stage'[d][q] \in Closing => stage[d][q] \in Closing
    BY <1>10, <1>0, <1>c DEF Recheck, Closing
  <2>4. \A q \in Requests : session'[q] \in {"closing", "closed"} =>
          session[q] \in {"closing", "closed"} \/ \E d \in Closers : stage[d][q] \in Closing
    BY <1>10, <1>0, <1>c DEF Recheck, Closing
  <2> QED BY <1>i, <2>1, <2>2, <2>3, <2>4 DEF ClosedAfterRemoval
<1>11. ASSUME NEW r \in Requests, Initialized(r)
      PROVE  \A q \in Requests : ClosedAfterRemoval(q)'
  <2>1. \A q \in Requests : q \notin early' => q \notin early
    BY <1>11, <1>0 DEF Initialized
  <2>2. \A q \in Requests : Published(q)' => Published(q)
    BY <1>11, <1>0 DEF Initialized, Published
  <2>3. \A d \in Closers, q \in Requests :
          stage'[d][q] \in Closing => stage[d][q] \in Closing
    BY <1>11, <1>0, <1>c DEF Initialized, Closing
  <2>4. \A q \in Requests : session'[q] \in {"closing", "closed"} =>
          session[q] \in {"closing", "closed"} \/ \E d \in Closers : stage[d][q] \in Closing
    BY <1>11, <1>0, <1>c DEF Initialized, Closing
  <2> QED BY <1>i, <2>1, <2>2, <2>3, <2>4 DEF ClosedAfterRemoval
<1>12. ASSUME NEW r \in Requests, Closed(r) PROVE \A q \in Requests : ClosedAfterRemoval(q)'
  <2>1. \A q \in Requests : q \notin early' => q \notin early
    BY <1>12, <1>0 DEF Closed
  <2>2. \A q \in Requests : Published(q)' => Published(q)
    BY <1>12, <1>0 DEF Closed, Published
  <2>3. \A d \in Closers, q \in Requests :
          stage'[d][q] \in Closing => stage[d][q] \in Closing
    BY <1>12, <1>0, <1>c DEF Closed, Closing
  <2>4. \A q \in Requests : session'[q] \in {"closing", "closed"} =>
          session[q] \in {"closing", "closed"} \/ \E d \in Closers : stage[d][q] \in Closing
    BY <1>12, <1>0, <1>c DEF Closed, Closing
  <2> QED BY <1>i, <2>1, <2>2, <2>3, <2>4 DEF ClosedAfterRemoval
<1>13. ASSUME NEW r \in Requests, Unreserve(r) PROVE \A q \in Requests : ClosedAfterRemoval(q)'
  <2>1. \A q \in Requests : q \notin early' => q \notin early
    BY <1>13, <1>0 DEF Unreserve
  <2>2. \A q \in Requests : Published(q)' => Published(q)
    BY <1>13, <1>0 DEF Unreserve, Published
  <2>3. \A d \in Closers, q \in Requests :
          stage'[d][q] \in Closing => stage[d][q] \in Closing
    BY <1>13, <1>0, <1>c DEF Unreserve, Closing
  <2>4. \A q \in Requests : session'[q] \in {"closing", "closed"} =>
          session[q] \in {"closing", "closed"} \/ \E d \in Closers : stage[d][q] \in Closing
    BY <1>13, <1>0, <1>c DEF Unreserve, Closing
  <2> QED BY <1>i, <2>1, <2>2, <2>3, <2>4 DEF ClosedAfterRemoval
<1>14. ASSUME NEW r \in Requests, OpenStream(r) PROVE \A q \in Requests : ClosedAfterRemoval(q)'
  <2>1. \A q \in Requests : q \notin early' => q \notin early
    BY <1>14, <1>0 DEF OpenStream
  <2>2. \A q \in Requests : Published(q)' => Published(q)
    BY <1>14, <1>0 DEF OpenStream, Published
  <2>3. \A d \in Closers, q \in Requests :
          stage'[d][q] \in Closing => stage[d][q] \in Closing
    BY <1>14, <1>0, <1>c DEF OpenStream, Closing
  <2>4. \A q \in Requests : session'[q] \in {"closing", "closed"} =>
          session[q] \in {"closing", "closed"} \/ \E d \in Closers : stage[d][q] \in Closing
    BY <1>14, <1>0, <1>c DEF OpenStream, Closing
  <2> QED BY <1>i, <2>1, <2>2, <2>3, <2>4 DEF ClosedAfterRemoval
<1>15. ASSUME NEW r \in Requests, CloseStream(r)
      PROVE  \A q \in Requests : ClosedAfterRemoval(q)'
  <2>1. \A q \in Requests : q \notin early' => q \notin early
    BY <1>15, <1>0 DEF CloseStream
  <2>2. \A q \in Requests : Published(q)' => Published(q)
    BY <1>15, <1>0 DEF CloseStream, Published
  <2>3. \A d \in Closers, q \in Requests :
          stage'[d][q] \in Closing => stage[d][q] \in Closing
    BY <1>15, <1>0, <1>c DEF CloseStream, Closing
  <2>4. \A q \in Requests : session'[q] \in {"closing", "closed"} =>
          session[q] \in {"closing", "closed"} \/ \E d \in Closers : stage[d][q] \in Closing
    BY <1>15, <1>0, <1>c DEF CloseStream, Closing
  <2> QED BY <1>i, <2>1, <2>2, <2>3, <2>4 DEF ClosedAfterRemoval
<1>16. ASSUME NEW r \in Requests, Deleted(r) PROVE \A q \in Requests : ClosedAfterRemoval(q)'
  <2>1. target[r] \in Requests /\ ~Published(target[r])
    BY <1>16, <1>i DEF Deleted, OnceInstalled
  <2>2. \A q \in Requests : Published(q)' <=> Published(q)
    BY <1>16 DEF Deleted, Published
  <2>3. \A q \in Requests : q \notin early' => q \notin early
    BY <1>16, <1>0 DEF Deleted
  <2>4. \A q \in Requests : Published(q)' => Published(q)
    BY <1>16, <1>0 DEF Deleted, Published
  <2>5. \A d \in Closers, q \in Requests :
          stage'[d][q] \in Closing => stage[d][q] \in Closing \/ ~Published(q)'
    BY <1>16, <1>0, <1>c, <2>1, <2>2 DEF Deleted, Closing
  <2>6. \A q \in Requests : session'[q] \in {"closing", "closed"} =>
          session[q] \in {"closing", "closed"} \/ \E d \in Closers : stage[d][q] \in Closing
    BY <1>16, <1>0, <1>c DEF Deleted, Closing
  <2> QED BY <1>i, <2>3, <2>4, <2>5, <2>6 DEF ClosedAfterRemoval
<1>17. ASSUME NEW r \in Requests, Leave(r) PROVE \A q \in Requests : ClosedAfterRemoval(q)'
  <2>1. \A q \in Requests : q \notin early' => q \notin early
    BY <1>17, <1>0 DEF Leave, Release
  <2>2. \A q \in Requests : Published(q)' => Published(q)
    BY <1>17, <1>0 DEF Leave, Release, Published
  <2>3. \A d \in Closers, q \in Requests :
          stage'[d][q] \in Closing => stage[d][q] \in Closing
    BY <1>17, <1>0, <1>c DEF Leave, Release, Closing
  <2>4. \A q \in Requests : session'[q] \in {"closing", "closed"} =>
          session[q] \in {"closing", "closed"} \/ \E d \in Closers : stage[d][q] \in Closing
    BY <1>17, <1>0, <1>c DEF Leave, Release, Closing
  <2> QED BY <1>i, <2>1, <2>2, <2>3, <2>4 DEF ClosedAfterRemoval
<1>18. ASSUME NEW r \in Requests, NEW s \in Requests, FindExpired(r, s)
      PROVE  \A q \in Requests : ClosedAfterRemoval(q)'
  <2>1. legacy[id[r]] = s /\ id[r] \in Ids
    BY <1>18, <1>i DEF FindExpired, Finds, Asks
  <2>2. ~Published(s)'
    BY <1>18, <1>0, <1>i, <2>1 DEF FindExpired, Published, PublishedOnce, Drop
  <2>3. \A q \in Requests : q \notin early' => q \notin early
    BY <1>18, <1>0 DEF FindExpired, Drop
  <2>4. \A q \in Requests : Published(q)' => Published(q)
    BY <1>18, <1>0, <2>1 DEF FindExpired, Published, Drop
  <2>5. \A d \in Closers, q \in Requests :
          stage'[d][q] \in Closing => stage[d][q] \in Closing \/ ~Published(q)'
    BY <1>18, <1>0, <1>c, <2>2 DEF FindExpired, Closing
  <2>6. \A q \in Requests : session'[q] \in {"closing", "closed"} =>
          session[q] \in {"closing", "closed"} \/ \E d \in Closers : stage[d][q] \in Closing
    BY <1>18, <1>0, <1>c DEF FindExpired, Drop, Closing
  <2> QED BY <1>i, <2>3, <2>4, <2>5, <2>6 DEF ClosedAfterRemoval
<1>19. ASSUME NEW r \in Requests, NEW s \in Requests, FindLive(r, s)
      PROVE  \A q \in Requests : ClosedAfterRemoval(q)'
  <2>1. legacy[id[r]] = s /\ id[r] \in Ids
    BY <1>19, <1>i DEF FindLive, Finds, Asks
  <2>2. \A q \in Requests : q \notin early' => q \notin early
    BY <1>19, <1>0 DEF FindLive, Drop
  <2>3. \A q \in Requests : Published(q)' => Published(q)
    BY <1>19, <1>0, <2>1 DEF FindLive, Published, Drop
  <2>4. \A d \in Closers, q \in Requests :
          stage'[d][q] \in Closing => stage[d][q] \in Closing
    BY <1>19, <1>0, <1>c DEF FindLive, Drop, Closing
  <2>5. \A q \in Requests : session'[q] \in {"closing", "closed"} =>
          session[q] \in {"closing", "closed"} \/ \E d \in Closers : stage[d][q] \in Closing
    BY <1>19, <1>0, <1>c DEF FindLive, Drop, Closing
  <2> QED BY <1>i, <2>2, <2>3, <2>4, <2>5 DEF ClosedAfterRemoval
<1>20. ASSUME NEW c \in Closers, NEW s \in Requests, CloseRemove(c, s)
      PROVE  \A q \in Requests : ClosedAfterRemoval(q)'
  <2>1. ~Published(s)'
    BY <1>20, <1>0 DEF CloseRemove, Published
  <2>2. \A q \in Requests : q \notin early' => q \notin early
    BY <1>20, <1>0 DEF CloseRemove
  <2>3. \A q \in Requests : Published(q)' => Published(q)
    BY <1>20, <1>0 DEF CloseRemove, Published
  <2>4. \A d \in Closers, q \in Requests :
          stage'[d][q] \in Closing => stage[d][q] \in Closing \/ ~Published(q)'
    BY <1>20, <1>0, <1>c, <2>1 DEF CloseRemove, Closing
  <2>5. \A q \in Requests : session'[q] \in {"closing", "closed"} =>
          session[q] \in {"closing", "closed"} \/ \E d \in Closers : stage[d][q] \in Closing
    BY <1>20, <1>0, <1>c DEF CloseRemove, Closing
  <2> QED BY <1>i, <2>2, <2>3, <2>4, <2>5 DEF ClosedAfterRemoval
<1>21. ASSUME NEW c \in Closers, NEW s \in Requests, CloseOnce(c, s)
      PROVE  \A q \in Requests : ClosedAfterRemoval(q)'
  <2>1. \A q \in Requests : q \notin early' => q \notin early
    BY <1>21, <1>0 DEF CloseOnce
  <2>2. \A q \in Requests : Published(q)' => Published(q)
    BY <1>21, <1>0 DEF CloseOnce, Published
  <2>3. \A d \in Closers, q \in Requests :
          stage'[d][q] \in Closing => stage[d][q] \in Closing
    BY <1>21, <1>0, <1>c DEF CloseOnce, Closing
  <2>4. \A q \in Requests : session'[q] \in {"closing", "closed"} =>
          session[q] \in {"closing", "closed"} \/ \E d \in Closers : stage[d][q] \in Closing
    BY <1>21, <1>0, <1>c DEF CloseOnce, Closing
  <2> QED BY <1>i, <2>1, <2>2, <2>3, <2>4 DEF ClosedAfterRemoval
<1>22. ASSUME NEW c \in Closers, NEW s \in Requests, CloseRelease(c, s)
      PROVE  \A q \in Requests : ClosedAfterRemoval(q)'
  <2>1. \A q \in Requests : q \notin early' => q \notin early
    BY <1>22, <1>0 DEF CloseRelease
  <2>2. \A q \in Requests : Published(q)' => Published(q)
    BY <1>22, <1>0 DEF CloseRelease, Published
  <2>3. \A d \in Closers, q \in Requests :
          stage'[d][q] \in Closing => stage[d][q] \in Closing
    BY <1>22, <1>0, <1>c DEF CloseRelease, Closing
  <2>4. \A q \in Requests : session'[q] \in {"closing", "closed"} =>
          session[q] \in {"closing", "closed"} \/ \E d \in Closers : stage[d][q] \in Closing
    BY <1>22, <1>0, <1>c DEF CloseRelease, Closing
  <2> QED BY <1>i, <2>1, <2>2, <2>3, <2>4 DEF ClosedAfterRemoval
<1>23. ASSUME NEW t \in Timers, NEW s \in Requests, TimerFires(t, s)
      PROVE  \A q \in Requests : ClosedAfterRemoval(q)'
  <2>1. \A q \in Requests : q \notin early' => q \notin early
    BY <1>23, <1>0 DEF TimerFires, Installing
  <2>2. \A q \in Requests : Published(q)' => Published(q)
    BY <1>23, <1>0 DEF TimerFires, Installing, Published
  <2>3. \A d \in Closers, q \in Requests :
          stage'[d][q] \in Closing => stage[d][q] \in Closing
    BY <1>23, <1>0, <1>c DEF TimerFires, Installing, Closing
  <2>4. \A q \in Requests : session'[q] \in {"closing", "closed"} =>
          session[q] \in {"closing", "closed"} \/ \E d \in Closers : stage[d][q] \in Closing
    BY <1>23, <1>0, <1>c DEF TimerFires, Installing, Closing
  <2> QED BY <1>i, <2>1, <2>2, <2>3, <2>4 DEF ClosedAfterRemoval
<1>24. ASSUME NEW s \in Requests, WatchEnds(s) PROVE \A q \in Requests : ClosedAfterRemoval(q)'
  <2>1. \A q \in Requests : q \notin early' => q \notin early
    BY <1>24, <1>0 DEF WatchEnds
  <2>2. \A q \in Requests : Published(q)' => Published(q)
    BY <1>24, <1>0 DEF WatchEnds, Published
  <2>3. \A d \in Closers, q \in Requests :
          stage'[d][q] \in Closing => stage[d][q] \in Closing
    BY <1>24, <1>0, <1>c DEF WatchEnds, Closing
  <2>4. \A q \in Requests : session'[q] \in {"closing", "closed"} =>
          session[q] \in {"closing", "closed"} \/ \E d \in Closers : stage[d][q] \in Closing
    BY <1>24, <1>0, <1>c DEF WatchEnds, Closing
  <2> QED BY <1>i, <2>1, <2>2, <2>3, <2>4 DEF ClosedAfterRemoval
<1>25. ASSUME NEW s \in Requests, CancelLease(s)
      PROVE  \A q \in Requests : ClosedAfterRemoval(q)'
  <2>1. \A q \in Requests : q \notin early' => q \notin early
    BY <1>25, <1>0 DEF CancelLease
  <2>2. \A q \in Requests : Published(q)' => Published(q)
    BY <1>25, <1>0 DEF CancelLease, Published
  <2>3. \A d \in Closers, q \in Requests :
          stage'[d][q] \in Closing => stage[d][q] \in Closing
    BY <1>25, <1>0, <1>c DEF CancelLease, Closing
  <2>4. \A q \in Requests : session'[q] \in {"closing", "closed"} =>
          session[q] \in {"closing", "closed"} \/ \E d \in Closers : stage[d][q] \in Closing
    BY <1>25, <1>0, <1>c DEF CancelLease, Closing
  <2> QED BY <1>i, <2>1, <2>2, <2>3, <2>4 DEF ClosedAfterRemoval
<1>26. ASSUME NEW s \in Requests, ShutdownLookup(s)
      PROVE  \A q \in Requests : ClosedAfterRemoval(q)'
  <2>1. \A q \in Requests : q \notin early' => q \notin early
    BY <1>26, <1>0 DEF ShutdownLookup
  <2>2. \A q \in Requests : Published(q)' => Published(q)
    BY <1>26, <1>0 DEF ShutdownLookup, Published
  <2>3. \A d \in Closers, q \in Requests :
          stage'[d][q] \in Closing => stage[d][q] \in Closing
    BY <1>26, <1>0, <1>c DEF ShutdownLookup, Closing
  <2>4. \A q \in Requests : session'[q] \in {"closing", "closed"} =>
          session[q] \in {"closing", "closed"} \/ \E d \in Closers : stage[d][q] \in Closing
    BY <1>26, <1>0, <1>c DEF ShutdownLookup, Closing
  <2> QED BY <1>i, <2>1, <2>2, <2>3, <2>4 DEF ClosedAfterRemoval
<1>27. CASE ShutdownBegin
  <2>1. \A q \in Requests : q \notin early' => q \notin early
    BY <1>27, <1>0 DEF ShutdownBegin
  <2>2. \A q \in Requests : Published(q)' => Published(q)
    BY <1>27, <1>0 DEF ShutdownBegin, Published
  <2>3. \A d \in Closers, q \in Requests :
          stage'[d][q] \in Closing => stage[d][q] \in Closing
    BY <1>27, <1>0, <1>c DEF ShutdownBegin, Closing
  <2>4. \A q \in Requests : session'[q] \in {"closing", "closed"} =>
          session[q] \in {"closing", "closed"} \/ \E d \in Closers : stage[d][q] \in Closing
    BY <1>27, <1>0, <1>c DEF ShutdownBegin, Closing
  <2> QED BY <1>i, <2>1, <2>2, <2>3, <2>4 DEF ClosedAfterRemoval
<1>28. CASE ShutdownReturns
  <2>1. \A q \in Requests : q \notin early' => q \notin early
    BY <1>28, <1>0 DEF ShutdownReturns
  <2>2. \A q \in Requests : Published(q)' => Published(q)
    BY <1>28, <1>0 DEF ShutdownReturns, Published
  <2>3. \A d \in Closers, q \in Requests :
          stage'[d][q] \in Closing => stage[d][q] \in Closing
    BY <1>28, <1>0, <1>c DEF ShutdownReturns, Closing
  <2>4. \A q \in Requests : session'[q] \in {"closing", "closed"} =>
          session[q] \in {"closing", "closed"} \/ \E d \in Closers : stage[d][q] \in Closing
    BY <1>28, <1>0, <1>c DEF ShutdownReturns, Closing
  <2> QED BY <1>i, <2>1, <2>2, <2>3, <2>4 DEF ClosedAfterRemoval
<1>29. CASE Halt
  <2>1. \A q \in Requests : q \notin early' => q \notin early
    BY <1>29, <1>0 DEF Halt
  <2>2. \A q \in Requests : Published(q)' => Published(q)
    BY <1>29, <1>0 DEF Halt, Published
  <2>3. \A d \in Closers, q \in Requests :
          stage'[d][q] \in Closing => stage[d][q] \in Closing
    BY <1>29, <1>0, <1>c DEF Halt, Closing
  <2>4. \A q \in Requests : session'[q] \in {"closing", "closed"} =>
          session[q] \in {"closing", "closed"} \/ \E d \in Closers : stage[d][q] \in Closing
    BY <1>29, <1>0, <1>c DEF Halt, Closing
  <2> QED BY <1>i, <2>1, <2>2, <2>3, <2>4 DEF ClosedAfterRemoval
<1>30. CASE UNCHANGED vars
  <2>1. \A q \in Requests : q \notin early' => q \notin early
    BY <1>30, <1>0 DEF vars
  <2>2. \A q \in Requests : Published(q)' => Published(q)
    BY <1>30, <1>0 DEF vars, Published
  <2>3. \A d \in Closers, q \in Requests :
          stage'[d][q] \in Closing => stage[d][q] \in Closing
    BY <1>30, <1>0, <1>c DEF vars, Closing
  <2>4. \A q \in Requests : session'[q] \in {"closing", "closed"} =>
          session[q] \in {"closing", "closed"} \/ \E d \in Closers : stage[d][q] \in Closing
    BY <1>30, <1>0, <1>c DEF vars, Closing
  <2> QED BY <1>i, <2>1, <2>2, <2>3, <2>4 DEF ClosedAfterRemoval
<1> QED
  BY <1>1, <1>2, <1>3, <1>4, <1>5, <1>6, <1>7, <1>8, <1>9, <1>10, <1>11, <1>12, <1>13, <1>14,
     <1>15, <1>16, <1>17, <1>18, <1>19, <1>20, <1>21, <1>22, <1>23, <1>24, <1>25, <1>26,
     <1>27, <1>28, <1>29, <1>30, Zenon DEF Next, Request, Close

\* Somebody follows a current lease.
LEMMA StepLease ==
  ASSUME IngressInv, [Next]_vars PROVE \A q \in Requests : LeaseFollowed(q)'
<1> USE DEF requestVars, tableVars, permitVars, sessionVars, closeVars, Goto, Begin
<1>0. /\ pc \in [Requests -> Labels] /\ kind \in [Requests -> Kinds \cup {None}]
      /\ credential \in [Requests -> Credentials \cup {None}]
      /\ lease \in [Requests -> {"none", "current", "done"}]
      /\ owned \in [Requests -> BOOLEAN] /\ holds \in SUBSET Requests
      /\ early \in SUBSET Requests
      /\ id \in [Requests -> Ids \cup {None}] /\ target \in [Requests -> Requests \cup {None}]
      /\ legacy \in [Ids -> Requests \cup {None}]
      /\ reserved \in Nat /\ work \in Nat /\ streams \in Nat
      /\ session \in [Requests -> {"none", "open", "closing", "closed"}]
      /\ timer \in [Timers -> [Requests -> BOOLEAN]] /\ watching \in SUBSET Requests
      /\ stage \in [Closers -> [Requests -> {"off", "noted", "remove", "once", "release"}]]
  BY DEF IngressInv, TypeOK
<1>c. Requests \subseteq Closers /\ Timers \subseteq Closers /\ {"watch", "shutdown"} \subseteq Closers
  BY DEF Closers
<1>i. /\ ClosersAreHere
      /\ PublishedOnce
      /\ \A q \in Requests : /\ LeaseFollowed(q) /\ OnceInstalled(q) /\ Unborn(q)
                             /\ CloseOnceOnce(q) /\ Asks(q)
  BY DEF IngressInv
<1>1. ASSUME NEW r \in Requests, Authenticate(r) PROVE \A q \in Requests : LeaseFollowed(q)'
  <2>1. session[r] = "none"
    BY <1>1, <1>i DEF Authenticate, Unborn
  <2>2. \A q \in Requests : session'[q] # "none" /\ pc'[q] # "created" /\ lease'[q] = "current" =>
          session[q] # "none" /\ pc[q] # "created" /\ lease[q] = "current"
    BY <1>1, <1>0, <2>1 DEF Authenticate
  <2>3. \A q \in Requests : Published(q) => Published(q)'
    BY <1>1, <1>0 DEF Authenticate, Published
  <2>4. \A d \in Closers, q \in Requests :
          stage[d][q] \in {"remove", "once", "release"} =>
            stage'[d][q] \in {"remove", "once", "release"}
    BY <1>1, <1>0, <1>c DEF Authenticate
  <2>5. \A q \in Requests : pc[q] = "deleting" =>
          pc'[q] = "deleting" /\ target'[q] = target[q]
    BY <1>1, <1>0 DEF Authenticate
  <2> QED BY <1>i, <2>2, <2>3, <2>4, <2>5 DEF LeaseFollowed, BeingClosed
<1>2. ASSUME NEW r \in Requests, Refuse(r) PROVE \A q \in Requests : LeaseFollowed(q)'
  <2>1. \A q \in Requests : session'[q] # "none" /\ pc'[q] # "created" /\ lease'[q] = "current" =>
          session[q] # "none" /\ pc[q] # "created" /\ lease[q] = "current"
    BY <1>2, <1>0 DEF Refuse, Release
  <2>2. \A q \in Requests : Published(q) => Published(q)'
    BY <1>2, <1>0 DEF Refuse, Release, Published
  <2>3. \A d \in Closers, q \in Requests :
          stage[d][q] \in {"remove", "once", "release"} =>
            stage'[d][q] \in {"remove", "once", "release"}
    BY <1>2, <1>0, <1>c DEF Refuse, Release
  <2>4. \A q \in Requests : pc[q] = "deleting" =>
          pc'[q] = "deleting" /\ target'[q] = target[q]
    BY <1>2, <1>0 DEF Refuse, Release
  <2> QED BY <1>i, <2>1, <2>2, <2>3, <2>4 DEF LeaseFollowed, BeingClosed
<1>3. ASSUME NEW r \in Requests, TakeWork(r) PROVE \A q \in Requests : LeaseFollowed(q)'
  <2>1. \A q \in Requests : session'[q] # "none" /\ pc'[q] # "created" /\ lease'[q] = "current" =>
          session[q] # "none" /\ pc[q] # "created" /\ lease[q] = "current"
    BY <1>3, <1>0 DEF TakeWork
  <2>2. \A q \in Requests : Published(q) => Published(q)'
    BY <1>3, <1>0 DEF TakeWork, Published
  <2>3. \A d \in Closers, q \in Requests :
          stage[d][q] \in {"remove", "once", "release"} =>
            stage'[d][q] \in {"remove", "once", "release"}
    BY <1>3, <1>0, <1>c DEF TakeWork
  <2>4. \A q \in Requests : pc[q] = "deleting" =>
          pc'[q] = "deleting" /\ target'[q] = target[q]
    BY <1>3, <1>0 DEF TakeWork
  <2> QED BY <1>i, <2>1, <2>2, <2>3, <2>4 DEF LeaseFollowed, BeingClosed
<1>4. ASSUME NEW r \in Requests, Answer(r) PROVE \A q \in Requests : LeaseFollowed(q)'
  <2>1. \A q \in Requests : session'[q] # "none" /\ pc'[q] # "created" /\ lease'[q] = "current" =>
          session[q] # "none" /\ pc[q] # "created" /\ lease[q] = "current"
    BY <1>4, <1>0 DEF Answer
  <2>2. \A q \in Requests : Published(q) => Published(q)'
    BY <1>4, <1>0 DEF Answer, Published
  <2>3. \A d \in Closers, q \in Requests :
          stage[d][q] \in {"remove", "once", "release"} =>
            stage'[d][q] \in {"remove", "once", "release"}
    BY <1>4, <1>0, <1>c DEF Answer
  <2>4. \A q \in Requests : pc[q] = "deleting" =>
          pc'[q] = "deleting" /\ target'[q] = target[q]
    BY <1>4, <1>0 DEF Answer
  <2> QED BY <1>i, <2>1, <2>2, <2>3, <2>4 DEF LeaseFollowed, BeingClosed
<1>5. ASSUME NEW r \in Requests, Reserve(r) PROVE \A q \in Requests : LeaseFollowed(q)'
  <2>1. \A q \in Requests : session'[q] # "none" /\ pc'[q] # "created" /\ lease'[q] = "current" =>
          session[q] # "none" /\ pc[q] # "created" /\ lease[q] = "current"
    BY <1>5, <1>0 DEF Reserve
  <2>2. \A q \in Requests : Published(q) => Published(q)'
    BY <1>5, <1>0 DEF Reserve, Published
  <2>3. \A d \in Closers, q \in Requests :
          stage[d][q] \in {"remove", "once", "release"} =>
            stage'[d][q] \in {"remove", "once", "release"}
    BY <1>5, <1>0, <1>c DEF Reserve
  <2>4. \A q \in Requests : pc[q] = "deleting" =>
          pc'[q] = "deleting" /\ target'[q] = target[q]
    BY <1>5, <1>0 DEF Reserve
  <2> QED BY <1>i, <2>1, <2>2, <2>3, <2>4 DEF LeaseFollowed, BeingClosed
<1>6. ASSUME NEW r \in Requests, InitializeFails(r) PROVE \A q \in Requests : LeaseFollowed(q)'
  <2>1. \A q \in Requests : session'[q] # "none" /\ pc'[q] # "created" /\ lease'[q] = "current" =>
          session[q] # "none" /\ pc[q] # "created" /\ lease[q] = "current"
    BY <1>6, <1>0 DEF InitializeFails
  <2>2. \A q \in Requests : Published(q) => Published(q)'
    BY <1>6, <1>0 DEF InitializeFails, Published
  <2>3. \A d \in Closers, q \in Requests :
          stage[d][q] \in {"remove", "once", "release"} =>
            stage'[d][q] \in {"remove", "once", "release"}
    BY <1>6, <1>0, <1>c DEF InitializeFails
  <2>4. \A q \in Requests : pc[q] = "deleting" =>
          pc'[q] = "deleting" /\ target'[q] = target[q]
    BY <1>6, <1>0 DEF InitializeFails
  <2> QED BY <1>i, <2>1, <2>2, <2>3, <2>4 DEF LeaseFollowed, BeingClosed
<1>7. ASSUME NEW r \in Requests, CreateSession(r) PROVE \A q \in Requests : LeaseFollowed(q)'
  <2>1. \A q \in Requests : session'[q] # "none" /\ pc'[q] # "created" /\ lease'[q] = "current" =>
          session[q] # "none" /\ pc[q] # "created" /\ lease[q] = "current"
    BY <1>7, <1>0 DEF CreateSession
  <2>2. \A q \in Requests : Published(q) => Published(q)'
    BY <1>7, <1>0 DEF CreateSession, Published
  <2>3. \A d \in Closers, q \in Requests :
          stage[d][q] \in {"remove", "once", "release"} =>
            stage'[d][q] \in {"remove", "once", "release"}
    BY <1>7, <1>0, <1>c DEF CreateSession
  <2>4. \A q \in Requests : pc[q] = "deleting" =>
          pc'[q] = "deleting" /\ target'[q] = target[q]
    BY <1>7, <1>0 DEF CreateSession
  <2> QED BY <1>i, <2>1, <2>2, <2>3, <2>4 DEF LeaseFollowed, BeingClosed
<1>8. ASSUME NEW r \in Requests, RejectSession(r) PROVE \A q \in Requests : LeaseFollowed(q)'
  <2>1. stage'[r][r] = "once" /\ r \in Closers
    BY <1>8, <1>0, <1>c DEF RejectSession
  <2>2. \A q \in Requests \ {r} : session'[q] # "none" /\ pc'[q] # "created" /\ lease'[q] = "current" =>
          session[q] # "none" /\ pc[q] # "created" /\ lease[q] = "current"
    BY <1>8, <1>0 DEF RejectSession
  <2>3. \A q \in Requests : Published(q) => Published(q)'
    BY <1>8, <1>0 DEF RejectSession, Published
  <2>4. \A d \in Closers, q \in Requests :
          stage[d][q] \in {"remove", "once", "release"} =>
            stage'[d][q] \in {"remove", "once", "release"}
    BY <1>8, <1>0, <1>c DEF RejectSession
  <2>5. \A q \in Requests : pc[q] = "deleting" =>
          pc'[q] = "deleting" /\ target'[q] = target[q]
    BY <1>8, <1>0 DEF RejectSession
  <2>6. BeingClosed(r)'
    BY <2>1 DEF BeingClosed
  <2>7. \A q \in Requests : LeaseFollowed(q)'
    BY <1>i, <2>2, <2>3, <2>4, <2>5, <2>6 DEF LeaseFollowed, BeingClosed
  <2> QED BY <2>7
<1>9. ASSUME NEW r \in Requests, Publish(r) PROVE \A q \in Requests : LeaseFollowed(q)'
  <2>1. id[r] \in Ids /\ legacy[id[r]] = None
    BY <1>9, <1>i DEF Publish, CannotPublish, Asks
  <2>2. \A q \in Requests \ {r} : session'[q] # "none" /\ pc'[q] # "created" /\ lease'[q] = "current" =>
          session[q] # "none" /\ pc[q] # "created" /\ lease[q] = "current"
    BY <1>9, <1>0 DEF Publish
  <2>3. \A q \in Requests : Published(q) => Published(q)'
    BY <1>9, <1>0, <2>1 DEF Publish, Published
  <2>4. \A d \in Closers, q \in Requests :
          stage[d][q] \in {"remove", "once", "release"} =>
            stage'[d][q] \in {"remove", "once", "release"}
    BY <1>9, <1>0, <1>c DEF Publish
  <2>5. \A q \in Requests : pc[q] = "deleting" =>
          pc'[q] = "deleting" /\ target'[q] = target[q]
    BY <1>9, <1>0 DEF Publish
  <2>6. Published(r)'
    BY <1>9, <1>0, <2>1 DEF Publish, Published
  <2>7. \A q \in Requests : LeaseFollowed(q)'
    BY <1>i, <2>2, <2>3, <2>4, <2>5, <2>6 DEF LeaseFollowed, BeingClosed
  <2> QED BY <2>7
<1>10. ASSUME NEW r \in Requests, Recheck(r) PROVE \A q \in Requests : LeaseFollowed(q)'
  <2>1. \A q \in Requests : session'[q] # "none" /\ pc'[q] # "created" /\ lease'[q] = "current" =>
          session[q] # "none" /\ pc[q] # "created" /\ lease[q] = "current"
    BY <1>10, <1>0 DEF Recheck
  <2>2. \A q \in Requests : Published(q) => Published(q)'
    BY <1>10, <1>0 DEF Recheck, Published
  <2>3. \A d \in Closers, q \in Requests :
          stage[d][q] \in {"remove", "once", "release"} =>
            stage'[d][q] \in {"remove", "once", "release"}
    BY <1>10, <1>0, <1>c DEF Recheck
  <2>4. \A q \in Requests : pc[q] = "deleting" =>
          pc'[q] = "deleting" /\ target'[q] = target[q]
    BY <1>10, <1>0 DEF Recheck
  <2> QED BY <1>i, <2>1, <2>2, <2>3, <2>4 DEF LeaseFollowed, BeingClosed
<1>11. ASSUME NEW r \in Requests, Initialized(r) PROVE \A q \in Requests : LeaseFollowed(q)'
  <2>1. \A q \in Requests : session'[q] # "none" /\ pc'[q] # "created" /\ lease'[q] = "current" =>
          session[q] # "none" /\ pc[q] # "created" /\ lease[q] = "current"
    BY <1>11, <1>0 DEF Initialized
  <2>2. \A q \in Requests : Published(q) => Published(q)'
    BY <1>11, <1>0 DEF Initialized, Published
  <2>3. \A d \in Closers, q \in Requests :
          stage[d][q] \in {"remove", "once", "release"} =>
            stage'[d][q] \in {"remove", "once", "release"}
    BY <1>11, <1>0, <1>c DEF Initialized
  <2>4. \A q \in Requests : pc[q] = "deleting" =>
          pc'[q] = "deleting" /\ target'[q] = target[q]
    BY <1>11, <1>0 DEF Initialized
  <2> QED BY <1>i, <2>1, <2>2, <2>3, <2>4 DEF LeaseFollowed, BeingClosed
<1>12. ASSUME NEW r \in Requests, Closed(r) PROVE \A q \in Requests : LeaseFollowed(q)'
  <2>1. \A q \in Requests : session'[q] # "none" /\ pc'[q] # "created" /\ lease'[q] = "current" =>
          session[q] # "none" /\ pc[q] # "created" /\ lease[q] = "current"
    BY <1>12, <1>0 DEF Closed
  <2>2. \A q \in Requests : Published(q) => Published(q)'
    BY <1>12, <1>0 DEF Closed, Published
  <2>3. \A d \in Closers, q \in Requests :
          stage[d][q] \in {"remove", "once", "release"} =>
            stage'[d][q] \in {"remove", "once", "release"}
    BY <1>12, <1>0, <1>c DEF Closed
  <2>4. \A q \in Requests : pc[q] = "deleting" =>
          pc'[q] = "deleting" /\ target'[q] = target[q]
    BY <1>12, <1>0 DEF Closed
  <2> QED BY <1>i, <2>1, <2>2, <2>3, <2>4 DEF LeaseFollowed, BeingClosed
<1>13. ASSUME NEW r \in Requests, Unreserve(r) PROVE \A q \in Requests : LeaseFollowed(q)'
  <2>1. \A q \in Requests : session'[q] # "none" /\ pc'[q] # "created" /\ lease'[q] = "current" =>
          session[q] # "none" /\ pc[q] # "created" /\ lease[q] = "current"
    BY <1>13, <1>0 DEF Unreserve
  <2>2. \A q \in Requests : Published(q) => Published(q)'
    BY <1>13, <1>0 DEF Unreserve, Published
  <2>3. \A d \in Closers, q \in Requests :
          stage[d][q] \in {"remove", "once", "release"} =>
            stage'[d][q] \in {"remove", "once", "release"}
    BY <1>13, <1>0, <1>c DEF Unreserve
  <2>4. \A q \in Requests : pc[q] = "deleting" =>
          pc'[q] = "deleting" /\ target'[q] = target[q]
    BY <1>13, <1>0 DEF Unreserve
  <2> QED BY <1>i, <2>1, <2>2, <2>3, <2>4 DEF LeaseFollowed, BeingClosed
<1>14. ASSUME NEW r \in Requests, OpenStream(r) PROVE \A q \in Requests : LeaseFollowed(q)'
  <2>1. \A q \in Requests : session'[q] # "none" /\ pc'[q] # "created" /\ lease'[q] = "current" =>
          session[q] # "none" /\ pc[q] # "created" /\ lease[q] = "current"
    BY <1>14, <1>0 DEF OpenStream
  <2>2. \A q \in Requests : Published(q) => Published(q)'
    BY <1>14, <1>0 DEF OpenStream, Published
  <2>3. \A d \in Closers, q \in Requests :
          stage[d][q] \in {"remove", "once", "release"} =>
            stage'[d][q] \in {"remove", "once", "release"}
    BY <1>14, <1>0, <1>c DEF OpenStream
  <2>4. \A q \in Requests : pc[q] = "deleting" =>
          pc'[q] = "deleting" /\ target'[q] = target[q]
    BY <1>14, <1>0 DEF OpenStream
  <2> QED BY <1>i, <2>1, <2>2, <2>3, <2>4 DEF LeaseFollowed, BeingClosed
<1>15. ASSUME NEW r \in Requests, CloseStream(r) PROVE \A q \in Requests : LeaseFollowed(q)'
  <2>1. \A q \in Requests : session'[q] # "none" /\ pc'[q] # "created" /\ lease'[q] = "current" =>
          session[q] # "none" /\ pc[q] # "created" /\ lease[q] = "current"
    BY <1>15, <1>0 DEF CloseStream
  <2>2. \A q \in Requests : Published(q) => Published(q)'
    BY <1>15, <1>0 DEF CloseStream, Published
  <2>3. \A d \in Closers, q \in Requests :
          stage[d][q] \in {"remove", "once", "release"} =>
            stage'[d][q] \in {"remove", "once", "release"}
    BY <1>15, <1>0, <1>c DEF CloseStream
  <2>4. \A q \in Requests : pc[q] = "deleting" =>
          pc'[q] = "deleting" /\ target'[q] = target[q]
    BY <1>15, <1>0 DEF CloseStream
  <2> QED BY <1>i, <2>1, <2>2, <2>3, <2>4 DEF LeaseFollowed, BeingClosed
<1>16. ASSUME NEW r \in Requests, Deleted(r) PROVE \A q \in Requests : LeaseFollowed(q)'
  <2>1. target[r] \in Requests /\ stage'[r][target[r]] = "once" /\ r \in Closers
    BY <1>16, <1>0, <1>c, <1>i DEF Deleted, OnceInstalled
  <2>2. \A q \in Requests : session'[q] # "none" /\ pc'[q] # "created" /\ lease'[q] = "current" =>
          session[q] # "none" /\ pc[q] # "created" /\ lease[q] = "current"
    BY <1>16, <1>0 DEF Deleted
  <2>3. \A q \in Requests : Published(q) => Published(q)'
    BY <1>16, <1>0 DEF Deleted, Published
  <2>4. \A d \in Closers, q \in Requests :
          stage[d][q] \in {"remove", "once", "release"} =>
            stage'[d][q] \in {"remove", "once", "release"}
    BY <1>16, <1>0, <1>c DEF Deleted
  <2>5. \A q \in Requests \ {r} : pc[q] = "deleting" =>
          pc'[q] = "deleting" /\ target'[q] = target[q]
    BY <1>16, <1>0 DEF Deleted
  <2>6. \A q \in Requests : q = target[r] => BeingClosed(q)'
    BY <2>1 DEF BeingClosed
  <2>7. \A q \in Requests : LeaseFollowed(q)'
    BY <1>i, <2>2, <2>3, <2>4, <2>5, <2>6 DEF LeaseFollowed, BeingClosed
  <2> QED BY <2>7
<1>17. ASSUME NEW r \in Requests, Leave(r) PROVE \A q \in Requests : LeaseFollowed(q)'
  <2>1. \A q \in Requests : session'[q] # "none" /\ pc'[q] # "created" /\ lease'[q] = "current" =>
          session[q] # "none" /\ pc[q] # "created" /\ lease[q] = "current"
    BY <1>17, <1>0 DEF Leave, Release
  <2>2. \A q \in Requests : Published(q) => Published(q)'
    BY <1>17, <1>0 DEF Leave, Release, Published
  <2>3. \A d \in Closers, q \in Requests :
          stage[d][q] \in {"remove", "once", "release"} =>
            stage'[d][q] \in {"remove", "once", "release"}
    BY <1>17, <1>0, <1>c DEF Leave, Release
  <2>4. \A q \in Requests : pc[q] = "deleting" =>
          pc'[q] = "deleting" /\ target'[q] = target[q]
    BY <1>17, <1>0 DEF Leave, Release
  <2> QED BY <1>i, <2>1, <2>2, <2>3, <2>4 DEF LeaseFollowed, BeingClosed
<1>18. ASSUME NEW r \in Requests, NEW s \in Requests, FindExpired(r, s)
      PROVE  \A q \in Requests : LeaseFollowed(q)'
  <2>1. legacy[id[r]] = s /\ id[r] \in Ids /\ pc[r] = "working" /\ r \in Users
    BY <1>18, <1>i DEF FindExpired, Finds, Asks
  <2>2. stage'[r][s] = "once" /\ r \in Closers
    BY <1>18, <1>0, <1>c DEF FindExpired
  <2>3. \A q \in Requests : session'[q] # "none" /\ pc'[q] # "created" /\ lease'[q] = "current" =>
          session[q] # "none" /\ pc[q] # "created" /\ lease[q] = "current"
    BY <1>18, <1>0, <1>i, <2>1 DEF FindExpired, Asks
  <2>4. \A q \in Requests \ {s} : Published(q) => Published(q)'
    BY <1>18, <1>0, <2>1 DEF FindExpired, Published, Drop
  <2>5. \A d \in Closers, q \in Requests :
          stage[d][q] \in {"remove", "once", "release"} =>
            stage'[d][q] \in {"remove", "once", "release"}
    BY <1>18, <1>0, <1>c DEF FindExpired, Drop
  <2>6. \A q \in Requests : pc[q] = "deleting" =>
          pc'[q] = "deleting" /\ target'[q] = target[q]
    BY <1>18, <1>0, <2>1 DEF FindExpired
  <2>7. BeingClosed(s)'
    BY <2>2 DEF BeingClosed
  <2>8. \A q \in Requests : LeaseFollowed(q)'
    BY <1>i, <2>3, <2>4, <2>5, <2>6, <2>7 DEF LeaseFollowed, BeingClosed
  <2> QED BY <2>8
<1>19. ASSUME NEW r \in Requests, NEW s \in Requests, FindLive(r, s)
      PROVE  \A q \in Requests : LeaseFollowed(q)'
  <2>1. legacy[id[r]] = s /\ id[r] \in Ids /\ pc[r] = "working" /\ r \in Users
    BY <1>19, <1>i DEF FindLive, Finds, Asks
  <2>2. Published(s)' \/ (pc'[r] = "deleting" /\ target'[r] = s)
    BY <1>19, <1>0, <1>i, <2>1 DEF FindLive, Published, Asks
  <2>3. \A q \in Requests : session'[q] # "none" /\ pc'[q] # "created" /\ lease'[q] = "current" =>
          session[q] # "none" /\ pc[q] # "created" /\ lease[q] = "current"
    BY <1>19, <1>0, <1>i, <2>1 DEF FindLive, Asks
  <2>4. \A q \in Requests \ {s} : Published(q) => Published(q)'
    BY <1>19, <1>0, <2>1 DEF FindLive, Published, Drop
  <2>5. \A d \in Closers, q \in Requests :
          stage[d][q] \in {"remove", "once", "release"} =>
            stage'[d][q] \in {"remove", "once", "release"}
    BY <1>19, <1>0, <1>c DEF FindLive, Drop
  <2>6. \A q \in Requests : pc[q] = "deleting" =>
          pc'[q] = "deleting" /\ target'[q] = target[q]
    BY <1>19, <1>0, <2>1 DEF FindLive
  <2>7. Published(s)' \/ BeingClosed(s)'
    BY <2>2 DEF BeingClosed
  <2>8. \A q \in Requests : LeaseFollowed(q)'
    BY <1>i, <2>3, <2>4, <2>5, <2>6, <2>7 DEF LeaseFollowed, BeingClosed
  <2> QED BY <2>8
<1>20. ASSUME NEW c \in Closers, NEW s \in Requests, CloseRemove(c, s)
      PROVE  \A q \in Requests : LeaseFollowed(q)'
  <2>1. stage'[c][s] = "once" /\ c \in Closers
    BY <1>20, <1>0, <1>c DEF CloseRemove
  <2>2. \A q \in Requests : session'[q] # "none" /\ pc'[q] # "created" /\ lease'[q] = "current" =>
          session[q] # "none" /\ pc[q] # "created" /\ lease[q] = "current"
    BY <1>20, <1>0 DEF CloseRemove
  <2>3. \A q \in Requests \ {s} : Published(q) => Published(q)'
    BY <1>20, <1>0 DEF CloseRemove, Published
  <2>4. \A d \in Closers, q \in Requests :
          stage[d][q] \in {"remove", "once", "release"} =>
            stage'[d][q] \in {"remove", "once", "release"}
    BY <1>20, <1>0, <1>c DEF CloseRemove
  <2>5. \A q \in Requests : pc[q] = "deleting" =>
          pc'[q] = "deleting" /\ target'[q] = target[q]
    BY <1>20, <1>0 DEF CloseRemove
  <2>6. BeingClosed(s)'
    BY <2>1 DEF BeingClosed
  <2>7. \A q \in Requests : LeaseFollowed(q)'
    BY <1>i, <2>2, <2>3, <2>4, <2>5, <2>6 DEF LeaseFollowed, BeingClosed
  <2> QED BY <2>7
<1>21. ASSUME NEW c \in Closers, NEW s \in Requests, CloseOnce(c, s)
      PROVE  \A q \in Requests : LeaseFollowed(q)'
  <2>1. session[s] = "closed" => lease[s] # "current"
    BY <1>i DEF CloseOnceOnce
  <2>2. lease' = lease /\ (session[s] = "closed" \/ stage'[c][s] = "release")
    BY <1>21, <1>0, <1>c DEF CloseOnce
  <2>3. \A q \in Requests : session'[q] # "none" /\ pc'[q] # "created" /\ lease'[q] = "current" =>
          session[q] # "none" /\ pc[q] # "created" /\ lease[q] = "current"
    BY <1>21, <1>0 DEF CloseOnce
  <2>4. \A q \in Requests : Published(q) => Published(q)'
    BY <1>21, <1>0 DEF CloseOnce, Published
  <2>5. \A d \in Closers, q \in Requests : lease'[q] = "current" /\
          stage[d][q] \in {"remove", "once", "release"} =>
            stage'[d][q] \in {"remove", "once", "release"}
    BY <1>21, <1>0, <1>c, <2>1, <2>2 DEF CloseOnce
  <2>6. \A q \in Requests : pc[q] = "deleting" =>
          pc'[q] = "deleting" /\ target'[q] = target[q]
    BY <1>21, <1>0 DEF CloseOnce
  <2> QED BY <1>i, <2>3, <2>4, <2>5, <2>6 DEF LeaseFollowed, BeingClosed
<1>22. ASSUME NEW c \in Closers, NEW s \in Requests, CloseRelease(c, s)
      PROVE  \A q \in Requests : LeaseFollowed(q)'
  <2>1. lease'[s] = "done"
    BY <1>22, <1>0 DEF CloseRelease
  <2>2. \A q \in Requests : session'[q] # "none" /\ pc'[q] # "created" /\ lease'[q] = "current" =>
          session[q] # "none" /\ pc[q] # "created" /\ lease[q] = "current"
    BY <1>22, <1>0 DEF CloseRelease
  <2>3. \A q \in Requests : Published(q) => Published(q)'
    BY <1>22, <1>0 DEF CloseRelease, Published
  <2>4. \A d \in Closers, q \in Requests \ {s} :
          stage[d][q] \in {"remove", "once", "release"} =>
            stage'[d][q] \in {"remove", "once", "release"}
    BY <1>22, <1>0, <1>c DEF CloseRelease
  <2>5. \A q \in Requests : pc[q] = "deleting" =>
          pc'[q] = "deleting" /\ target'[q] = target[q]
    BY <1>22, <1>0 DEF CloseRelease
  <2> QED BY <1>i, <2>1, <2>2, <2>3, <2>4, <2>5 DEF LeaseFollowed, BeingClosed
<1>23. ASSUME NEW t \in Timers, NEW s \in Requests, TimerFires(t, s)
      PROVE  \A q \in Requests : LeaseFollowed(q)'
  <2>1. \A q \in Requests : session'[q] # "none" /\ pc'[q] # "created" /\ lease'[q] = "current" =>
          session[q] # "none" /\ pc[q] # "created" /\ lease[q] = "current"
    BY <1>23, <1>0 DEF TimerFires, Installing
  <2>2. \A q \in Requests : Published(q) => Published(q)'
    BY <1>23, <1>0 DEF TimerFires, Installing, Published
  <2>3. \A d \in Closers, q \in Requests :
          stage[d][q] \in {"remove", "once", "release"} =>
            stage'[d][q] \in {"remove", "once", "release"}
    BY <1>23, <1>0, <1>c DEF TimerFires, Installing
  <2>4. \A q \in Requests : pc[q] = "deleting" =>
          pc'[q] = "deleting" /\ target'[q] = target[q]
    BY <1>23, <1>0 DEF TimerFires, Installing
  <2> QED BY <1>i, <2>1, <2>2, <2>3, <2>4 DEF LeaseFollowed, BeingClosed
<1>24. ASSUME NEW s \in Requests, WatchEnds(s) PROVE \A q \in Requests : LeaseFollowed(q)'
  <2>1. \A q \in Requests : session'[q] # "none" /\ pc'[q] # "created" /\ lease'[q] = "current" =>
          session[q] # "none" /\ pc[q] # "created" /\ lease[q] = "current"
    BY <1>24, <1>0 DEF WatchEnds
  <2>2. \A q \in Requests : Published(q) => Published(q)'
    BY <1>24, <1>0 DEF WatchEnds, Published
  <2>3. \A d \in Closers, q \in Requests :
          stage[d][q] \in {"remove", "once", "release"} =>
            stage'[d][q] \in {"remove", "once", "release"}
    BY <1>24, <1>0, <1>c DEF WatchEnds
  <2>4. \A q \in Requests : pc[q] = "deleting" =>
          pc'[q] = "deleting" /\ target'[q] = target[q]
    BY <1>24, <1>0 DEF WatchEnds
  <2> QED BY <1>i, <2>1, <2>2, <2>3, <2>4 DEF LeaseFollowed, BeingClosed
<1>25. ASSUME NEW s \in Requests, CancelLease(s) PROVE \A q \in Requests : LeaseFollowed(q)'
  <2>1. \A q \in Requests : session'[q] # "none" /\ pc'[q] # "created" /\ lease'[q] = "current" =>
          session[q] # "none" /\ pc[q] # "created" /\ lease[q] = "current"
    BY <1>25, <1>0 DEF CancelLease
  <2>2. \A q \in Requests : Published(q) => Published(q)'
    BY <1>25, <1>0 DEF CancelLease, Published
  <2>3. \A d \in Closers, q \in Requests :
          stage[d][q] \in {"remove", "once", "release"} =>
            stage'[d][q] \in {"remove", "once", "release"}
    BY <1>25, <1>0, <1>c DEF CancelLease
  <2>4. \A q \in Requests : pc[q] = "deleting" =>
          pc'[q] = "deleting" /\ target'[q] = target[q]
    BY <1>25, <1>0 DEF CancelLease
  <2> QED BY <1>i, <2>1, <2>2, <2>3, <2>4 DEF LeaseFollowed, BeingClosed
<1>26. ASSUME NEW s \in Requests, ShutdownLookup(s) PROVE \A q \in Requests : LeaseFollowed(q)'
  <2>1. \A q \in Requests : session'[q] # "none" /\ pc'[q] # "created" /\ lease'[q] = "current" =>
          session[q] # "none" /\ pc[q] # "created" /\ lease[q] = "current"
    BY <1>26, <1>0 DEF ShutdownLookup
  <2>2. \A q \in Requests : Published(q) => Published(q)'
    BY <1>26, <1>0 DEF ShutdownLookup, Published
  <2>3. \A d \in Closers, q \in Requests :
          stage[d][q] \in {"remove", "once", "release"} =>
            stage'[d][q] \in {"remove", "once", "release"}
    BY <1>26, <1>0, <1>c DEF ShutdownLookup
  <2>4. \A q \in Requests : pc[q] = "deleting" =>
          pc'[q] = "deleting" /\ target'[q] = target[q]
    BY <1>26, <1>0 DEF ShutdownLookup
  <2> QED BY <1>i, <2>1, <2>2, <2>3, <2>4 DEF LeaseFollowed, BeingClosed
<1>27. CASE ShutdownBegin
  <2>1. \A q \in Requests : stage["shutdown"][q] = "off"
    BY <1>27, <1>i DEF ShutdownBegin, ClosersAreHere
  <2>2. \A q \in Requests : session'[q] # "none" /\ pc'[q] # "created" /\ lease'[q] = "current" =>
          session[q] # "none" /\ pc[q] # "created" /\ lease[q] = "current"
    BY <1>27, <1>0 DEF ShutdownBegin
  <2>3. \A q \in Requests : Published(q) => Published(q)'
    BY <1>27, <1>0 DEF ShutdownBegin, Published
  <2>4. \A d \in Closers, q \in Requests :
          stage[d][q] \in {"remove", "once", "release"} =>
            stage'[d][q] \in {"remove", "once", "release"}
    BY <1>27, <1>0, <1>c, <2>1 DEF ShutdownBegin
  <2>5. \A q \in Requests : pc[q] = "deleting" =>
          pc'[q] = "deleting" /\ target'[q] = target[q]
    BY <1>27, <1>0 DEF ShutdownBegin
  <2> QED BY <1>i, <2>2, <2>3, <2>4, <2>5 DEF LeaseFollowed, BeingClosed
<1>28. CASE ShutdownReturns
  <2>1. \A q \in Requests : session'[q] # "none" /\ pc'[q] # "created" /\ lease'[q] = "current" =>
          session[q] # "none" /\ pc[q] # "created" /\ lease[q] = "current"
    BY <1>28, <1>0 DEF ShutdownReturns
  <2>2. \A q \in Requests : Published(q) => Published(q)'
    BY <1>28, <1>0 DEF ShutdownReturns, Published
  <2>3. \A d \in Closers, q \in Requests :
          stage[d][q] \in {"remove", "once", "release"} =>
            stage'[d][q] \in {"remove", "once", "release"}
    BY <1>28, <1>0, <1>c DEF ShutdownReturns
  <2>4. \A q \in Requests : pc[q] = "deleting" =>
          pc'[q] = "deleting" /\ target'[q] = target[q]
    BY <1>28, <1>0 DEF ShutdownReturns
  <2> QED BY <1>i, <2>1, <2>2, <2>3, <2>4 DEF LeaseFollowed, BeingClosed
<1>29. CASE Halt
  <2>1. \A q \in Requests : session'[q] # "none" /\ pc'[q] # "created" /\ lease'[q] = "current" =>
          session[q] # "none" /\ pc[q] # "created" /\ lease[q] = "current"
    BY <1>29, <1>0 DEF Halt
  <2>2. \A q \in Requests : Published(q) => Published(q)'
    BY <1>29, <1>0 DEF Halt, Published
  <2>3. \A d \in Closers, q \in Requests :
          stage[d][q] \in {"remove", "once", "release"} =>
            stage'[d][q] \in {"remove", "once", "release"}
    BY <1>29, <1>0, <1>c DEF Halt
  <2>4. \A q \in Requests : pc[q] = "deleting" =>
          pc'[q] = "deleting" /\ target'[q] = target[q]
    BY <1>29, <1>0 DEF Halt
  <2> QED BY <1>i, <2>1, <2>2, <2>3, <2>4 DEF LeaseFollowed, BeingClosed
<1>30. CASE UNCHANGED vars
  <2>1. \A q \in Requests : session'[q] # "none" /\ pc'[q] # "created" /\ lease'[q] = "current" =>
          session[q] # "none" /\ pc[q] # "created" /\ lease[q] = "current"
    BY <1>30, <1>0 DEF vars
  <2>2. \A q \in Requests : Published(q) => Published(q)'
    BY <1>30, <1>0 DEF vars, Published
  <2>3. \A d \in Closers, q \in Requests :
          stage[d][q] \in {"remove", "once", "release"} =>
            stage'[d][q] \in {"remove", "once", "release"}
    BY <1>30, <1>0, <1>c DEF vars
  <2>4. \A q \in Requests : pc[q] = "deleting" =>
          pc'[q] = "deleting" /\ target'[q] = target[q]
    BY <1>30, <1>0 DEF vars
  <2> QED BY <1>i, <2>1, <2>2, <2>3, <2>4 DEF LeaseFollowed, BeingClosed
<1> QED
  BY <1>1, <1>2, <1>3, <1>4, <1>5, <1>6, <1>7, <1>8, <1>9, <1>10, <1>11, <1>12, <1>13, <1>14,
     <1>15, <1>16, <1>17, <1>18, <1>19, <1>20, <1>21, <1>22, <1>23, <1>24, <1>25, <1>26,
     <1>27, <1>28, <1>29, <1>30, Zenon DEF Next, Request, Close

\* Sessions and reservations together stay within the limit.
LEMMA StepSlots ==
  ASSUME IngressInv, [Next]_vars PROVE /\ reserved' = Cardinality(holds') /\ IsFiniteSet(PublishedIds')
      /\ Cardinality(PublishedIds') + reserved' <= MaxLegacy
<1> USE DEF requestVars, tableVars, permitVars, sessionVars, closeVars, Goto, Begin
<1>0. /\ pc \in [Requests -> Labels] /\ kind \in [Requests -> Kinds \cup {None}]
      /\ credential \in [Requests -> Credentials \cup {None}]
      /\ lease \in [Requests -> {"none", "current", "done"}]
      /\ owned \in [Requests -> BOOLEAN] /\ holds \in SUBSET Requests
      /\ early \in SUBSET Requests
      /\ id \in [Requests -> Ids \cup {None}] /\ target \in [Requests -> Requests \cup {None}]
      /\ legacy \in [Ids -> Requests \cup {None}]
      /\ reserved \in Nat /\ work \in Nat /\ streams \in Nat
      /\ session \in [Requests -> {"none", "open", "closing", "closed"}]
      /\ timer \in [Timers -> [Requests -> BOOLEAN]] /\ watching \in SUBSET Requests
      /\ stage \in [Closers -> [Requests -> {"off", "noted", "remove", "once", "release"}]]
  BY DEF IngressInv, TypeOK
<1>c. Requests \subseteq Closers /\ Timers \subseteq Closers /\ {"watch", "shutdown"} \subseteq Closers
  BY DEF Closers
<1>i. /\ \A q \in Requests : Asks(q)
  BY DEF IngressInv
<1>f. /\ IsFiniteSet(holds) /\ IsFiniteSet(PublishedIds)
      /\ Cardinality(holds) \in Nat /\ Cardinality(PublishedIds) \in Nat
      /\ reserved = Cardinality(holds) /\ Cardinality(PublishedIds) + reserved <= MaxLegacy
  BY <1>0, FS_Subset, FS_CardinalityType DEF IngressInv, Capacity, SlotsHeld
<1>q. ASSUME UNCHANGED <<holds, reserved>>, PublishedIds' \subseteq PublishedIds
      PROVE  /\ reserved' = Cardinality(holds') /\ IsFiniteSet(PublishedIds')
             /\ Cardinality(PublishedIds') + reserved' <= MaxLegacy
  <2>1. /\ IsFiniteSet(PublishedIds') /\ Cardinality(PublishedIds') \in Nat
        /\ Cardinality(PublishedIds') <= Cardinality(PublishedIds)
    BY <1>f, <1>q, FS_Subset, FS_CardinalityType
  <2> QED BY <1>f, <1>q, <2>1
<1>1. ASSUME NEW r \in Requests, Authenticate(r)
      PROVE  /\ reserved' = Cardinality(holds') /\ IsFiniteSet(PublishedIds')
      /\ Cardinality(PublishedIds') + reserved' <= MaxLegacy
  BY <1>1, <1>0, <1>q DEF Authenticate, PublishedIds
<1>2. ASSUME NEW r \in Requests, Refuse(r)
      PROVE  /\ reserved' = Cardinality(holds') /\ IsFiniteSet(PublishedIds')
      /\ Cardinality(PublishedIds') + reserved' <= MaxLegacy
  BY <1>2, <1>0, <1>q DEF Refuse, Release, PublishedIds
<1>3. ASSUME NEW r \in Requests, TakeWork(r)
      PROVE  /\ reserved' = Cardinality(holds') /\ IsFiniteSet(PublishedIds')
      /\ Cardinality(PublishedIds') + reserved' <= MaxLegacy
  BY <1>3, <1>0, <1>q DEF TakeWork, PublishedIds
<1>4. ASSUME NEW r \in Requests, Answer(r)
      PROVE  /\ reserved' = Cardinality(holds') /\ IsFiniteSet(PublishedIds')
      /\ Cardinality(PublishedIds') + reserved' <= MaxLegacy
  BY <1>4, <1>0, <1>q DEF Answer, PublishedIds
<1>5. ASSUME NEW r \in Requests, Reserve(r)
      PROVE  /\ reserved' = Cardinality(holds') /\ IsFiniteSet(PublishedIds')
      /\ Cardinality(PublishedIds') + reserved' <= MaxLegacy
  <2>1. r \notin holds /\ pc[r] = "working"
    BY <1>5 DEF Reserve, IngressInv, Capacity
  <2>2. holds' = holds \cup {r} /\ reserved' = reserved + 1 /\ PublishedIds' = PublishedIds
    BY <1>5 DEF Reserve, PublishedIds
  <2>3. Cardinality(PublishedIds) + reserved < MaxLegacy
    BY <1>5 DEF Reserve
  <2>4. Cardinality(holds') = Cardinality(holds) + 1
    BY <1>f, <2>1, <2>2, FS_AddElement
  <2> QED BY <1>f, <2>2, <2>3, <2>4
<1>6. ASSUME NEW r \in Requests, InitializeFails(r)
      PROVE  /\ reserved' = Cardinality(holds') /\ IsFiniteSet(PublishedIds')
      /\ Cardinality(PublishedIds') + reserved' <= MaxLegacy
  BY <1>6, <1>0, <1>q DEF InitializeFails, PublishedIds
<1>7. ASSUME NEW r \in Requests, CreateSession(r)
      PROVE  /\ reserved' = Cardinality(holds') /\ IsFiniteSet(PublishedIds')
      /\ Cardinality(PublishedIds') + reserved' <= MaxLegacy
  BY <1>7, <1>0, <1>q DEF CreateSession, PublishedIds
<1>8. ASSUME NEW r \in Requests, RejectSession(r)
      PROVE  /\ reserved' = Cardinality(holds') /\ IsFiniteSet(PublishedIds')
      /\ Cardinality(PublishedIds') + reserved' <= MaxLegacy
  BY <1>8, <1>0, <1>q DEF RejectSession, PublishedIds
<1>9. ASSUME NEW r \in Requests, Publish(r)
      PROVE  /\ reserved' = Cardinality(holds') /\ IsFiniteSet(PublishedIds')
      /\ Cardinality(PublishedIds') + reserved' <= MaxLegacy
  <2>1. r \in holds /\ id[r] \in Ids /\ legacy[id[r]] = None
    BY <1>9 DEF Publish, CannotPublish, IngressInv, SlotsHeld, Asks
  <2>2. holds' = holds \ {r} /\ reserved' = reserved - 1
    BY <1>9 DEF Publish
  <2>3. PublishedIds' = PublishedIds \cup {id[r]} /\ id[r] \notin PublishedIds
    BY <1>9, <1>0, <2>1 DEF Publish, PublishedIds
  <2>4. Cardinality(holds') = Cardinality(holds) - 1
    BY <1>f, <2>1, <2>2, FS_RemoveElement
  <2>5. IsFiniteSet(PublishedIds') /\ Cardinality(PublishedIds') = Cardinality(PublishedIds) + 1
    BY <1>f, <2>3, FS_AddElement
  <2> QED BY <1>f, <2>1, <2>2, <2>4, <2>5, Counted
<1>10. ASSUME NEW r \in Requests, Recheck(r)
      PROVE  /\ reserved' = Cardinality(holds') /\ IsFiniteSet(PublishedIds')
      /\ Cardinality(PublishedIds') + reserved' <= MaxLegacy
  BY <1>10, <1>0, <1>q DEF Recheck, PublishedIds
<1>11. ASSUME NEW r \in Requests, Initialized(r)
      PROVE  /\ reserved' = Cardinality(holds') /\ IsFiniteSet(PublishedIds')
      /\ Cardinality(PublishedIds') + reserved' <= MaxLegacy
  BY <1>11, <1>0, <1>q DEF Initialized, PublishedIds
<1>12. ASSUME NEW r \in Requests, Closed(r)
      PROVE  /\ reserved' = Cardinality(holds') /\ IsFiniteSet(PublishedIds')
      /\ Cardinality(PublishedIds') + reserved' <= MaxLegacy
  BY <1>12, <1>0, <1>q DEF Closed, PublishedIds
<1>13. ASSUME NEW r \in Requests, Unreserve(r)
      PROVE  /\ reserved' = Cardinality(holds') /\ IsFiniteSet(PublishedIds')
      /\ Cardinality(PublishedIds') + reserved' <= MaxLegacy
  <2>1. r \in holds
    BY <1>13 DEF Unreserve, IngressInv, SlotsHeld
  <2>2. holds' = holds \ {r} /\ reserved' = reserved - 1 /\ PublishedIds' = PublishedIds
    BY <1>13 DEF Unreserve, PublishedIds
  <2>3. Cardinality(holds') = Cardinality(holds) - 1
    BY <1>f, <2>1, <2>2, FS_RemoveElement
  <2> QED BY <1>f, <2>1, <2>2, <2>3, Counted
<1>14. ASSUME NEW r \in Requests, OpenStream(r)
      PROVE  /\ reserved' = Cardinality(holds') /\ IsFiniteSet(PublishedIds')
      /\ Cardinality(PublishedIds') + reserved' <= MaxLegacy
  BY <1>14, <1>0, <1>q DEF OpenStream, PublishedIds
<1>15. ASSUME NEW r \in Requests, CloseStream(r)
      PROVE  /\ reserved' = Cardinality(holds') /\ IsFiniteSet(PublishedIds')
      /\ Cardinality(PublishedIds') + reserved' <= MaxLegacy
  BY <1>15, <1>0, <1>q DEF CloseStream, PublishedIds
<1>16. ASSUME NEW r \in Requests, Deleted(r)
      PROVE  /\ reserved' = Cardinality(holds') /\ IsFiniteSet(PublishedIds')
      /\ Cardinality(PublishedIds') + reserved' <= MaxLegacy
  BY <1>16, <1>0, <1>q DEF Deleted, PublishedIds
<1>17. ASSUME NEW r \in Requests, Leave(r)
      PROVE  /\ reserved' = Cardinality(holds') /\ IsFiniteSet(PublishedIds')
      /\ Cardinality(PublishedIds') + reserved' <= MaxLegacy
  BY <1>17, <1>0, <1>q DEF Leave, Release, PublishedIds
<1>18. ASSUME NEW r \in Requests, NEW s \in Requests, FindExpired(r, s)
      PROVE  /\ reserved' = Cardinality(holds') /\ IsFiniteSet(PublishedIds')
      /\ Cardinality(PublishedIds') + reserved' <= MaxLegacy
  <2>1. legacy[id[r]] = s /\ id[r] \in Ids
    BY <1>18, <1>i DEF FindExpired, Finds, Asks
  <2> QED BY <1>18, <1>0, <1>q, <2>1 DEF FindExpired, PublishedIds, Drop
<1>19. ASSUME NEW r \in Requests, NEW s \in Requests, FindLive(r, s)
      PROVE  /\ reserved' = Cardinality(holds') /\ IsFiniteSet(PublishedIds')
      /\ Cardinality(PublishedIds') + reserved' <= MaxLegacy
  <2>1. legacy[id[r]] = s /\ id[r] \in Ids
    BY <1>19, <1>i DEF FindLive, Finds, Asks
  <2> QED BY <1>19, <1>0, <1>q, <2>1 DEF FindLive, PublishedIds, Drop
<1>20. ASSUME NEW c \in Closers, NEW s \in Requests, CloseRemove(c, s)
      PROVE  /\ reserved' = Cardinality(holds') /\ IsFiniteSet(PublishedIds')
      /\ Cardinality(PublishedIds') + reserved' <= MaxLegacy
  BY <1>20, <1>0, <1>q DEF CloseRemove, PublishedIds
<1>21. ASSUME NEW c \in Closers, NEW s \in Requests, CloseOnce(c, s)
      PROVE  /\ reserved' = Cardinality(holds') /\ IsFiniteSet(PublishedIds')
      /\ Cardinality(PublishedIds') + reserved' <= MaxLegacy
  BY <1>21, <1>0, <1>q DEF CloseOnce, PublishedIds
<1>22. ASSUME NEW c \in Closers, NEW s \in Requests, CloseRelease(c, s)
      PROVE  /\ reserved' = Cardinality(holds') /\ IsFiniteSet(PublishedIds')
      /\ Cardinality(PublishedIds') + reserved' <= MaxLegacy
  BY <1>22, <1>0, <1>q DEF CloseRelease, PublishedIds
<1>23. ASSUME NEW t \in Timers, NEW s \in Requests, TimerFires(t, s)
      PROVE  /\ reserved' = Cardinality(holds') /\ IsFiniteSet(PublishedIds')
      /\ Cardinality(PublishedIds') + reserved' <= MaxLegacy
  BY <1>23, <1>0, <1>q DEF TimerFires, Installing, PublishedIds
<1>24. ASSUME NEW s \in Requests, WatchEnds(s)
      PROVE  /\ reserved' = Cardinality(holds') /\ IsFiniteSet(PublishedIds')
      /\ Cardinality(PublishedIds') + reserved' <= MaxLegacy
  BY <1>24, <1>0, <1>q DEF WatchEnds, PublishedIds
<1>25. ASSUME NEW s \in Requests, CancelLease(s)
      PROVE  /\ reserved' = Cardinality(holds') /\ IsFiniteSet(PublishedIds')
      /\ Cardinality(PublishedIds') + reserved' <= MaxLegacy
  BY <1>25, <1>0, <1>q DEF CancelLease, PublishedIds
<1>26. ASSUME NEW s \in Requests, ShutdownLookup(s)
      PROVE  /\ reserved' = Cardinality(holds') /\ IsFiniteSet(PublishedIds')
      /\ Cardinality(PublishedIds') + reserved' <= MaxLegacy
  BY <1>26, <1>0, <1>q DEF ShutdownLookup, PublishedIds
<1>27. CASE ShutdownBegin
  BY <1>27, <1>0, <1>q DEF ShutdownBegin, PublishedIds
<1>28. CASE ShutdownReturns
  BY <1>28, <1>0, <1>q DEF ShutdownReturns, PublishedIds
<1>29. CASE Halt
  BY <1>29, <1>0, <1>q DEF Halt, PublishedIds
<1>30. CASE UNCHANGED vars
  BY <1>30, <1>0, <1>q DEF vars, PublishedIds
<1> QED
  BY <1>1, <1>2, <1>3, <1>4, <1>5, <1>6, <1>7, <1>8, <1>9, <1>10, <1>11, <1>12, <1>13, <1>14,
     <1>15, <1>16, <1>17, <1>18, <1>19, <1>20, <1>21, <1>22, <1>23, <1>24, <1>25, <1>26,
     <1>27, <1>28, <1>29, <1>30, Zenon DEF Next, Request, Close

\* A reservation belongs to a request on its way to give it back.
LEMMA StepHolds ==
  ASSUME IngressInv, [Next]_vars PROVE /\ \A q \in holds' : pc'[q] \in {"reserved", "created", "closing", "unreserve"}
      /\ \A q \in Requests : pc'[q] \in {"reserved", "created", "unreserve"} => q \in holds'
<1> USE DEF requestVars, tableVars, permitVars, sessionVars, closeVars, Goto, Begin
<1>0. /\ pc \in [Requests -> Labels] /\ kind \in [Requests -> Kinds \cup {None}]
      /\ credential \in [Requests -> Credentials \cup {None}]
      /\ lease \in [Requests -> {"none", "current", "done"}]
      /\ owned \in [Requests -> BOOLEAN] /\ holds \in SUBSET Requests
      /\ early \in SUBSET Requests
      /\ id \in [Requests -> Ids \cup {None}] /\ target \in [Requests -> Requests \cup {None}]
      /\ legacy \in [Ids -> Requests \cup {None}]
      /\ reserved \in Nat /\ work \in Nat /\ streams \in Nat
      /\ session \in [Requests -> {"none", "open", "closing", "closed"}]
      /\ timer \in [Timers -> [Requests -> BOOLEAN]] /\ watching \in SUBSET Requests
      /\ stage \in [Closers -> [Requests -> {"off", "noted", "remove", "once", "release"}]]
  BY DEF IngressInv, TypeOK
<1>c. Requests \subseteq Closers /\ Timers \subseteq Closers /\ {"watch", "shutdown"} \subseteq Closers
  BY DEF Closers
<1>i. /\ Capacity
      /\ SlotsHeld
      /\ \A q \in Requests : Asks(q)
  BY DEF IngressInv
<1>1. ASSUME NEW r \in Requests, Authenticate(r)
      PROVE  /\ \A q \in holds' : pc'[q] \in {"reserved", "created", "closing", "unreserve"}
      /\ \A q \in Requests : pc'[q] \in {"reserved", "created", "unreserve"} => q \in holds'
  BY <1>1, <1>0, <1>c, <1>i DEF Authenticate, Capacity, SlotsHeld
<1>2. ASSUME NEW r \in Requests, Refuse(r)
      PROVE  /\ \A q \in holds' : pc'[q] \in {"reserved", "created", "closing", "unreserve"}
      /\ \A q \in Requests : pc'[q] \in {"reserved", "created", "unreserve"} => q \in holds'
  BY <1>2, <1>0, <1>c, <1>i DEF Refuse, Release, Capacity, SlotsHeld
<1>3. ASSUME NEW r \in Requests, TakeWork(r)
      PROVE  /\ \A q \in holds' : pc'[q] \in {"reserved", "created", "closing", "unreserve"}
      /\ \A q \in Requests : pc'[q] \in {"reserved", "created", "unreserve"} => q \in holds'
  BY <1>3, <1>0, <1>c, <1>i DEF TakeWork, Capacity, SlotsHeld
<1>4. ASSUME NEW r \in Requests, Answer(r)
      PROVE  /\ \A q \in holds' : pc'[q] \in {"reserved", "created", "closing", "unreserve"}
      /\ \A q \in Requests : pc'[q] \in {"reserved", "created", "unreserve"} => q \in holds'
  BY <1>4, <1>0, <1>c, <1>i DEF Answer, Capacity, SlotsHeld
<1>5. ASSUME NEW r \in Requests, Reserve(r)
      PROVE  /\ \A q \in holds' : pc'[q] \in {"reserved", "created", "closing", "unreserve"}
      /\ \A q \in Requests : pc'[q] \in {"reserved", "created", "unreserve"} => q \in holds'
  BY <1>5, <1>0, <1>c, <1>i DEF Reserve, Capacity, SlotsHeld
<1>6. ASSUME NEW r \in Requests, InitializeFails(r)
      PROVE  /\ \A q \in holds' : pc'[q] \in {"reserved", "created", "closing", "unreserve"}
      /\ \A q \in Requests : pc'[q] \in {"reserved", "created", "unreserve"} => q \in holds'
  BY <1>6, <1>0, <1>c, <1>i DEF InitializeFails, Capacity, SlotsHeld
<1>7. ASSUME NEW r \in Requests, CreateSession(r)
      PROVE  /\ \A q \in holds' : pc'[q] \in {"reserved", "created", "closing", "unreserve"}
      /\ \A q \in Requests : pc'[q] \in {"reserved", "created", "unreserve"} => q \in holds'
  BY <1>7, <1>0, <1>c, <1>i DEF CreateSession, Capacity, SlotsHeld
<1>8. ASSUME NEW r \in Requests, RejectSession(r)
      PROVE  /\ \A q \in holds' : pc'[q] \in {"reserved", "created", "closing", "unreserve"}
      /\ \A q \in Requests : pc'[q] \in {"reserved", "created", "unreserve"} => q \in holds'
  BY <1>8, <1>0, <1>c, <1>i DEF RejectSession, Capacity, SlotsHeld
<1>9. ASSUME NEW r \in Requests, Publish(r)
      PROVE  /\ \A q \in holds' : pc'[q] \in {"reserved", "created", "closing", "unreserve"}
      /\ \A q \in Requests : pc'[q] \in {"reserved", "created", "unreserve"} => q \in holds'
  BY <1>9, <1>0, <1>c, <1>i DEF Publish, Capacity, SlotsHeld
<1>10. ASSUME NEW r \in Requests, Recheck(r)
      PROVE  /\ \A q \in holds' : pc'[q] \in {"reserved", "created", "closing", "unreserve"}
      /\ \A q \in Requests : pc'[q] \in {"reserved", "created", "unreserve"} => q \in holds'
  BY <1>10, <1>0, <1>c, <1>i DEF Recheck, Capacity, SlotsHeld
<1>11. ASSUME NEW r \in Requests, Initialized(r)
      PROVE  /\ \A q \in holds' : pc'[q] \in {"reserved", "created", "closing", "unreserve"}
      /\ \A q \in Requests : pc'[q] \in {"reserved", "created", "unreserve"} => q \in holds'
  BY <1>11, <1>0, <1>c, <1>i DEF Initialized, Capacity, SlotsHeld
<1>12. ASSUME NEW r \in Requests, Closed(r)
      PROVE  /\ \A q \in holds' : pc'[q] \in {"reserved", "created", "closing", "unreserve"}
      /\ \A q \in Requests : pc'[q] \in {"reserved", "created", "unreserve"} => q \in holds'
  BY <1>12, <1>0, <1>c, <1>i DEF Closed, Capacity, SlotsHeld
<1>13. ASSUME NEW r \in Requests, Unreserve(r)
      PROVE  /\ \A q \in holds' : pc'[q] \in {"reserved", "created", "closing", "unreserve"}
      /\ \A q \in Requests : pc'[q] \in {"reserved", "created", "unreserve"} => q \in holds'
  BY <1>13, <1>0, <1>c, <1>i DEF Unreserve, Capacity, SlotsHeld
<1>14. ASSUME NEW r \in Requests, OpenStream(r)
      PROVE  /\ \A q \in holds' : pc'[q] \in {"reserved", "created", "closing", "unreserve"}
      /\ \A q \in Requests : pc'[q] \in {"reserved", "created", "unreserve"} => q \in holds'
  BY <1>14, <1>0, <1>c, <1>i DEF OpenStream, Capacity, SlotsHeld
<1>15. ASSUME NEW r \in Requests, CloseStream(r)
      PROVE  /\ \A q \in holds' : pc'[q] \in {"reserved", "created", "closing", "unreserve"}
      /\ \A q \in Requests : pc'[q] \in {"reserved", "created", "unreserve"} => q \in holds'
  BY <1>15, <1>0, <1>c, <1>i DEF CloseStream, Capacity, SlotsHeld
<1>16. ASSUME NEW r \in Requests, Deleted(r)
      PROVE  /\ \A q \in holds' : pc'[q] \in {"reserved", "created", "closing", "unreserve"}
      /\ \A q \in Requests : pc'[q] \in {"reserved", "created", "unreserve"} => q \in holds'
  BY <1>16, <1>0, <1>c, <1>i DEF Deleted, Capacity, SlotsHeld
<1>17. ASSUME NEW r \in Requests, Leave(r)
      PROVE  /\ \A q \in holds' : pc'[q] \in {"reserved", "created", "closing", "unreserve"}
      /\ \A q \in Requests : pc'[q] \in {"reserved", "created", "unreserve"} => q \in holds'
  BY <1>17, <1>0, <1>c, <1>i DEF Leave, Release, Capacity, SlotsHeld
<1>18. ASSUME NEW r \in Requests, NEW s \in Requests, FindExpired(r, s)
      PROVE  /\ \A q \in holds' : pc'[q] \in {"reserved", "created", "closing", "unreserve"}
      /\ \A q \in Requests : pc'[q] \in {"reserved", "created", "unreserve"} => q \in holds'
  BY <1>18, <1>0, <1>c, <1>i DEF FindExpired, Finds, Capacity, SlotsHeld
<1>19. ASSUME NEW r \in Requests, NEW s \in Requests, FindLive(r, s)
      PROVE  /\ \A q \in holds' : pc'[q] \in {"reserved", "created", "closing", "unreserve"}
      /\ \A q \in Requests : pc'[q] \in {"reserved", "created", "unreserve"} => q \in holds'
  <2>1. kind[r] \in {"post", "get", "delete"}
    BY <1>19, <1>i DEF FindLive, Finds, Asks
  <2> QED BY <1>19, <1>0, <1>i, <2>1 DEF FindLive, Finds, Capacity, SlotsHeld
<1>20. ASSUME NEW c \in Closers, NEW s \in Requests, CloseRemove(c, s)
      PROVE  /\ \A q \in holds' : pc'[q] \in {"reserved", "created", "closing", "unreserve"}
      /\ \A q \in Requests : pc'[q] \in {"reserved", "created", "unreserve"} => q \in holds'
  BY <1>20, <1>0, <1>c, <1>i DEF CloseRemove, Capacity, SlotsHeld
<1>21. ASSUME NEW c \in Closers, NEW s \in Requests, CloseOnce(c, s)
      PROVE  /\ \A q \in holds' : pc'[q] \in {"reserved", "created", "closing", "unreserve"}
      /\ \A q \in Requests : pc'[q] \in {"reserved", "created", "unreserve"} => q \in holds'
  BY <1>21, <1>0, <1>c, <1>i DEF CloseOnce, Capacity, SlotsHeld
<1>22. ASSUME NEW c \in Closers, NEW s \in Requests, CloseRelease(c, s)
      PROVE  /\ \A q \in holds' : pc'[q] \in {"reserved", "created", "closing", "unreserve"}
      /\ \A q \in Requests : pc'[q] \in {"reserved", "created", "unreserve"} => q \in holds'
  BY <1>22, <1>0, <1>c, <1>i DEF CloseRelease, Capacity, SlotsHeld
<1>23. ASSUME NEW t \in Timers, NEW s \in Requests, TimerFires(t, s)
      PROVE  /\ \A q \in holds' : pc'[q] \in {"reserved", "created", "closing", "unreserve"}
      /\ \A q \in Requests : pc'[q] \in {"reserved", "created", "unreserve"} => q \in holds'
  BY <1>23, <1>0, <1>c, <1>i DEF TimerFires, Installing, Capacity, SlotsHeld
<1>24. ASSUME NEW s \in Requests, WatchEnds(s)
      PROVE  /\ \A q \in holds' : pc'[q] \in {"reserved", "created", "closing", "unreserve"}
      /\ \A q \in Requests : pc'[q] \in {"reserved", "created", "unreserve"} => q \in holds'
  BY <1>24, <1>0, <1>c, <1>i DEF WatchEnds, Capacity, SlotsHeld
<1>25. ASSUME NEW s \in Requests, CancelLease(s)
      PROVE  /\ \A q \in holds' : pc'[q] \in {"reserved", "created", "closing", "unreserve"}
      /\ \A q \in Requests : pc'[q] \in {"reserved", "created", "unreserve"} => q \in holds'
  BY <1>25, <1>0, <1>c, <1>i DEF CancelLease, Capacity, SlotsHeld
<1>26. ASSUME NEW s \in Requests, ShutdownLookup(s)
      PROVE  /\ \A q \in holds' : pc'[q] \in {"reserved", "created", "closing", "unreserve"}
      /\ \A q \in Requests : pc'[q] \in {"reserved", "created", "unreserve"} => q \in holds'
  BY <1>26, <1>0, <1>c, <1>i DEF ShutdownLookup, Capacity, SlotsHeld
<1>27. CASE ShutdownBegin
  BY <1>27, <1>0, <1>c, <1>i DEF ShutdownBegin, Capacity, SlotsHeld
<1>28. CASE ShutdownReturns
  BY <1>28, <1>0, <1>c, <1>i DEF ShutdownReturns, Capacity, SlotsHeld
<1>29. CASE Halt
  BY <1>29, <1>0, <1>c, <1>i DEF Halt, Capacity, SlotsHeld
<1>30. CASE UNCHANGED vars
  BY <1>30, <1>0, <1>c, <1>i DEF vars, Capacity, SlotsHeld
<1> QED
  BY <1>1, <1>2, <1>3, <1>4, <1>5, <1>6, <1>7, <1>8, <1>9, <1>10, <1>11, <1>12, <1>13, <1>14,
     <1>15, <1>16, <1>17, <1>18, <1>19, <1>20, <1>21, <1>22, <1>23, <1>24, <1>25, <1>26,
     <1>27, <1>28, <1>29, <1>30, Zenon DEF Next, Request, Close

\* The permits taken are those of the requests at work.
LEMMA StepPermits ==
  ASSUME IngressInv, [Next]_vars PROVE /\ work' = Cardinality(Working') /\ work' <= MaxWork
      /\ streams' = Cardinality(Streaming') /\ streams' <= MaxStreams
<1> USE DEF requestVars, tableVars, permitVars, sessionVars, closeVars, Goto, Begin
<1>0. /\ pc \in [Requests -> Labels] /\ kind \in [Requests -> Kinds \cup {None}]
      /\ credential \in [Requests -> Credentials \cup {None}]
      /\ lease \in [Requests -> {"none", "current", "done"}]
      /\ owned \in [Requests -> BOOLEAN] /\ holds \in SUBSET Requests
      /\ early \in SUBSET Requests
      /\ id \in [Requests -> Ids \cup {None}] /\ target \in [Requests -> Requests \cup {None}]
      /\ legacy \in [Ids -> Requests \cup {None}]
      /\ reserved \in Nat /\ work \in Nat /\ streams \in Nat
      /\ session \in [Requests -> {"none", "open", "closing", "closed"}]
      /\ timer \in [Timers -> [Requests -> BOOLEAN]] /\ watching \in SUBSET Requests
      /\ stage \in [Closers -> [Requests -> {"off", "noted", "remove", "once", "release"}]]
  BY DEF IngressInv, TypeOK
<1>c. Requests \subseteq Closers /\ Timers \subseteq Closers /\ {"watch", "shutdown"} \subseteq Closers
  BY DEF Closers
<1>i. /\ \A q \in Requests : Asks(q)
  BY DEF IngressInv
<1>f. /\ IsFiniteSet(Working) /\ IsFiniteSet(Streaming)
      /\ work = Cardinality(Working) /\ work <= MaxWork
      /\ streams = Cardinality(Streaming) /\ streams <= MaxStreams
  <2>1. Working \subseteq Requests /\ Streaming \subseteq Requests
    BY DEF Working, Streaming
  <2>2. IsFiniteSet(Working) /\ IsFiniteSet(Streaming)
    BY <2>1, FS_Subset
  <2> QED BY <2>2 DEF IngressInv, Capacity, Working, Streaming
<1>q. ASSUME UNCHANGED <<work, streams>>, Working' = Working, Streaming' = Streaming
      PROVE  /\ work' = Cardinality(Working') /\ work' <= MaxWork
             /\ streams' = Cardinality(Streaming') /\ streams' <= MaxStreams
  BY <1>f, <1>q
<1>1. ASSUME NEW r \in Requests, Authenticate(r)
      PROVE  /\ work' = Cardinality(Working') /\ work' <= MaxWork
      /\ streams' = Cardinality(Streaming') /\ streams' <= MaxStreams
  BY <1>1, <1>0, <1>q DEF Authenticate, Working, Streaming
<1>2. ASSUME NEW r \in Requests, Refuse(r)
      PROVE  /\ work' = Cardinality(Working') /\ work' <= MaxWork
      /\ streams' = Cardinality(Streaming') /\ streams' <= MaxStreams
  BY <1>2, <1>0, <1>q DEF Refuse, Release, Working, Streaming
<1>3. ASSUME NEW r \in Requests, TakeWork(r)
      PROVE  /\ work' = Cardinality(Working') /\ work' <= MaxWork
      /\ streams' = Cardinality(Streaming') /\ streams' <= MaxStreams
  <2>1. r \notin Working /\ Working' = Working \cup {r}
    BY <1>3, <1>0 DEF TakeWork, Working
  <2>2. Streaming' = Streaming /\ streams' = streams /\ work' = work + 1
    BY <1>3, <1>0 DEF TakeWork, Streaming
  <2>3. Cardinality(Working') = Cardinality(Working) + 1
    BY <1>f, <2>1, FS_AddElement
  <2>4. work < MaxWork
    BY <1>3 DEF TakeWork
  <2> QED BY <1>0, <1>f, <2>1, <2>2, <2>3, <2>4
<1>4. ASSUME NEW r \in Requests, Answer(r)
      PROVE  /\ work' = Cardinality(Working') /\ work' <= MaxWork
      /\ streams' = Cardinality(Streaming') /\ streams' <= MaxStreams
  BY <1>4, <1>0, <1>q DEF Answer, Working, Streaming
<1>5. ASSUME NEW r \in Requests, Reserve(r)
      PROVE  /\ work' = Cardinality(Working') /\ work' <= MaxWork
      /\ streams' = Cardinality(Streaming') /\ streams' <= MaxStreams
  BY <1>5, <1>0, <1>q DEF Reserve, Working, Streaming
<1>6. ASSUME NEW r \in Requests, InitializeFails(r)
      PROVE  /\ work' = Cardinality(Working') /\ work' <= MaxWork
      /\ streams' = Cardinality(Streaming') /\ streams' <= MaxStreams
  BY <1>6, <1>0, <1>q DEF InitializeFails, Working, Streaming
<1>7. ASSUME NEW r \in Requests, CreateSession(r)
      PROVE  /\ work' = Cardinality(Working') /\ work' <= MaxWork
      /\ streams' = Cardinality(Streaming') /\ streams' <= MaxStreams
  BY <1>7, <1>0, <1>q DEF CreateSession, Working, Streaming
<1>8. ASSUME NEW r \in Requests, RejectSession(r)
      PROVE  /\ work' = Cardinality(Working') /\ work' <= MaxWork
      /\ streams' = Cardinality(Streaming') /\ streams' <= MaxStreams
  BY <1>8, <1>0, <1>q DEF RejectSession, Working, Streaming
<1>9. ASSUME NEW r \in Requests, Publish(r)
      PROVE  /\ work' = Cardinality(Working') /\ work' <= MaxWork
      /\ streams' = Cardinality(Streaming') /\ streams' <= MaxStreams
  BY <1>9, <1>0, <1>q DEF Publish, Working, Streaming
<1>10. ASSUME NEW r \in Requests, Recheck(r)
      PROVE  /\ work' = Cardinality(Working') /\ work' <= MaxWork
      /\ streams' = Cardinality(Streaming') /\ streams' <= MaxStreams
  BY <1>10, <1>0, <1>q DEF Recheck, Working, Streaming
<1>11. ASSUME NEW r \in Requests, Initialized(r)
      PROVE  /\ work' = Cardinality(Working') /\ work' <= MaxWork
      /\ streams' = Cardinality(Streaming') /\ streams' <= MaxStreams
  BY <1>11, <1>0, <1>q DEF Initialized, Working, Streaming
<1>12. ASSUME NEW r \in Requests, Closed(r)
      PROVE  /\ work' = Cardinality(Working') /\ work' <= MaxWork
      /\ streams' = Cardinality(Streaming') /\ streams' <= MaxStreams
  BY <1>12, <1>0, <1>q DEF Closed, Working, Streaming
<1>13. ASSUME NEW r \in Requests, Unreserve(r)
      PROVE  /\ work' = Cardinality(Working') /\ work' <= MaxWork
      /\ streams' = Cardinality(Streaming') /\ streams' <= MaxStreams
  BY <1>13, <1>0, <1>q DEF Unreserve, Working, Streaming
<1>14. ASSUME NEW r \in Requests, OpenStream(r)
      PROVE  /\ work' = Cardinality(Working') /\ work' <= MaxWork
      /\ streams' = Cardinality(Streaming') /\ streams' <= MaxStreams
  <2>a. CASE streams < MaxStreams
    <3>1. r \notin Streaming /\ Streaming' = Streaming \cup {r}
      BY <1>14, <1>0, <2>a DEF OpenStream, Streaming
    <3>2. Working' = Working /\ work' = work /\ streams' = streams + 1
      BY <1>14, <1>0, <2>a DEF OpenStream, Working
    <3>3. Cardinality(Streaming') = Cardinality(Streaming) + 1
      BY <1>f, <3>1, FS_AddElement
    <3> QED BY <1>0, <1>f, <2>a, <3>1, <3>2, <3>3
  <2>b. CASE ~(streams < MaxStreams)
    BY <1>14, <1>0, <1>q, <2>b DEF OpenStream, Working, Streaming
  <2> QED BY <2>a, <2>b
<1>15. ASSUME NEW r \in Requests, CloseStream(r)
      PROVE  /\ work' = Cardinality(Working') /\ work' <= MaxWork
      /\ streams' = Cardinality(Streaming') /\ streams' <= MaxStreams
  <2>1. r \in Streaming /\ Streaming' = Streaming \ {r}
    BY <1>15, <1>0 DEF CloseStream, Streaming
  <2>2. Working' = Working /\ work' = work /\ streams' = streams - 1
    BY <1>15, <1>0 DEF CloseStream, Working
  <2>3. Cardinality(Streaming') = Cardinality(Streaming) - 1
    BY <1>f, <2>1, FS_RemoveElement
  <2>4. pc[r] = "streaming"
    BY <1>15 DEF CloseStream
  <2> QED BY <1>f, <2>1, <2>2, <2>3, <2>4, Counted
<1>16. ASSUME NEW r \in Requests, Deleted(r)
      PROVE  /\ work' = Cardinality(Working') /\ work' <= MaxWork
      /\ streams' = Cardinality(Streaming') /\ streams' <= MaxStreams
  BY <1>16, <1>0, <1>q DEF Deleted, Working, Streaming
<1>17. ASSUME NEW r \in Requests, Leave(r)
      PROVE  /\ work' = Cardinality(Working') /\ work' <= MaxWork
      /\ streams' = Cardinality(Streaming') /\ streams' <= MaxStreams
  <2>1. r \in Working /\ Working' = Working \ {r}
    BY <1>17, <1>0 DEF Leave, Release, Working
  <2>2. Streaming' = Streaming /\ streams' = streams /\ work' = work - 1
    BY <1>17, <1>0 DEF Leave, Release, Streaming
  <2>3. Cardinality(Working') = Cardinality(Working) - 1
    BY <1>f, <2>1, FS_RemoveElement
  <2>4. pc[r] = "leave"
    BY <1>17 DEF Leave
  <2> QED BY <1>f, <2>1, <2>2, <2>3, <2>4, Counted
<1>18. ASSUME NEW r \in Requests, NEW s \in Requests, FindExpired(r, s)
      PROVE  /\ work' = Cardinality(Working') /\ work' <= MaxWork
      /\ streams' = Cardinality(Streaming') /\ streams' <= MaxStreams
  BY <1>18, <1>0, <1>q DEF FindExpired, Finds, Working, Streaming
<1>19. ASSUME NEW r \in Requests, NEW s \in Requests, FindLive(r, s)
      PROVE  /\ work' = Cardinality(Working') /\ work' <= MaxWork
      /\ streams' = Cardinality(Streaming') /\ streams' <= MaxStreams
  <2>1. kind[r] \in {"post", "get", "delete"} /\ pc[r] = "working"
    BY <1>19, <1>i DEF FindLive, Finds, Asks
  <2>2. UNCHANGED <<work, streams>> /\ Working' = Working /\ Streaming' = Streaming
    BY <1>19, <1>0, <2>1 DEF FindLive, Working, Streaming
  <2> QED BY <2>2, <1>q
<1>20. ASSUME NEW c \in Closers, NEW s \in Requests, CloseRemove(c, s)
      PROVE  /\ work' = Cardinality(Working') /\ work' <= MaxWork
      /\ streams' = Cardinality(Streaming') /\ streams' <= MaxStreams
  BY <1>20, <1>0, <1>q DEF CloseRemove, Working, Streaming
<1>21. ASSUME NEW c \in Closers, NEW s \in Requests, CloseOnce(c, s)
      PROVE  /\ work' = Cardinality(Working') /\ work' <= MaxWork
      /\ streams' = Cardinality(Streaming') /\ streams' <= MaxStreams
  BY <1>21, <1>0, <1>q DEF CloseOnce, Working, Streaming
<1>22. ASSUME NEW c \in Closers, NEW s \in Requests, CloseRelease(c, s)
      PROVE  /\ work' = Cardinality(Working') /\ work' <= MaxWork
      /\ streams' = Cardinality(Streaming') /\ streams' <= MaxStreams
  BY <1>22, <1>0, <1>q DEF CloseRelease, Working, Streaming
<1>23. ASSUME NEW t \in Timers, NEW s \in Requests, TimerFires(t, s)
      PROVE  /\ work' = Cardinality(Working') /\ work' <= MaxWork
      /\ streams' = Cardinality(Streaming') /\ streams' <= MaxStreams
  BY <1>23, <1>0, <1>q DEF TimerFires, Installing, Working, Streaming
<1>24. ASSUME NEW s \in Requests, WatchEnds(s)
      PROVE  /\ work' = Cardinality(Working') /\ work' <= MaxWork
      /\ streams' = Cardinality(Streaming') /\ streams' <= MaxStreams
  BY <1>24, <1>0, <1>q DEF WatchEnds, Working, Streaming
<1>25. ASSUME NEW s \in Requests, CancelLease(s)
      PROVE  /\ work' = Cardinality(Working') /\ work' <= MaxWork
      /\ streams' = Cardinality(Streaming') /\ streams' <= MaxStreams
  BY <1>25, <1>0, <1>q DEF CancelLease, Working, Streaming
<1>26. ASSUME NEW s \in Requests, ShutdownLookup(s)
      PROVE  /\ work' = Cardinality(Working') /\ work' <= MaxWork
      /\ streams' = Cardinality(Streaming') /\ streams' <= MaxStreams
  BY <1>26, <1>0, <1>q DEF ShutdownLookup, Working, Streaming
<1>27. CASE ShutdownBegin
  BY <1>27, <1>0, <1>q DEF ShutdownBegin, Working, Streaming
<1>28. CASE ShutdownReturns
  BY <1>28, <1>0, <1>q DEF ShutdownReturns, Working, Streaming
<1>29. CASE Halt
  BY <1>29, <1>0, <1>q DEF Halt, Working, Streaming
<1>30. CASE UNCHANGED vars
  BY <1>30, <1>0, <1>q DEF vars, Working, Streaming
<1> QED
  BY <1>1, <1>2, <1>3, <1>4, <1>5, <1>6, <1>7, <1>8, <1>9, <1>10, <1>11, <1>12, <1>13, <1>14,
     <1>15, <1>16, <1>17, <1>18, <1>19, <1>20, <1>21, <1>22, <1>23, <1>24, <1>25, <1>26,
     <1>27, <1>28, <1>29, <1>30, Zenon DEF Next, Request, Close

\* The invariant holds at the start.
LEMMA InitInvariant == Init => IngressInv
<1> SUFFICES ASSUME Init PROVE IngressInv
  OBVIOUS
<1>1. TypeOK
  BY DEF Init, TypeOK, Labels, Closers
<1>2. Working = {} /\ Streaming = {} /\ PublishedIds = {}
  BY DEF Init, Working, Streaming, PublishedIds
<1>3. Capacity /\ SlotsHeld
  <2>1. work = Cardinality(Working) /\ streams = Cardinality(Streaming)
    BY <1>2, FS_EmptySet DEF Init
  <2>2. reserved = Cardinality(holds) /\ Cardinality(PublishedIds) + reserved <= MaxLegacy
    BY <1>2, FS_EmptySet DEF Init
  <2>3. work <= MaxWork /\ streams <= MaxStreams /\ IsFiniteSet(PublishedIds)
    BY <1>2, FS_EmptySet DEF Init
  <2> QED BY <2>1, <2>2, <2>3 DEF Init, Capacity, SlotsHeld, Working, Streaming
<1>4. PublishedOnce /\ ClosersAreHere /\ ShutdownSees
  BY DEF Init, PublishedOnce, ClosersAreHere, ShutdownSees, Published, Closers
<1>5. ASSUME NEW r \in Requests
      PROVE  /\ Unborn(r) /\ OnceInstalled(r) /\ ClosedAfterRemoval(r)
             /\ CloseOnceOnce(r) /\ LeaseFollowed(r) /\ OwnerWaits(r) /\ Asks(r)
  <2>1. Unborn(r)
    BY DEF Init, Unborn, Published
  <2>2. OnceInstalled(r) /\ ClosedAfterRemoval(r)
    BY DEF Init, OnceInstalled, ClosedAfterRemoval, Closing
  <2>3. CloseOnceOnce(r) /\ LeaseFollowed(r)
    BY DEF Init, CloseOnceOnce, LeaseFollowed
  <2>4. OwnerWaits(r) /\ Asks(r)
    BY DEF Init, OwnerWaits, Asks
  <2> QED BY <2>1, <2>2, <2>3, <2>4
<1> QED BY <1>1, <1>3, <1>4, <1>5 DEF IngressInv

\* Every step preserves it.
LEMMA StepInvariant ==
  ASSUME IngressInv, [Next]_vars PROVE IngressInv'
<1>1. Capacity'
  BY StepSlots, StepHolds, StepPermits DEF Capacity, Working, Streaming
<1>2. SlotsHeld'
  BY StepSlots, StepHolds DEF SlotsHeld
<1>3. TypeOK' /\ PublishedOnce' /\ ClosersAreHere' /\ ShutdownSees'
  BY StepType, StepPublishedOnce, StepClosers, StepShutdown
<1>4. \A q \in Requests : Unborn(q)' /\ OnceInstalled(q)' /\ ClosedAfterRemoval(q)'
  BY StepUnborn, StepInstalled, StepRemoval
<1>5. \A q \in Requests : CloseOnceOnce(q)' /\ LeaseFollowed(q)' /\ OwnerWaits(q)' /\ Asks(q)'
  BY StepCloseOnce, StepLease, StepOwner, StepAsks
<1> QED BY <1>1, <1>2, <1>3, <1>4, <1>5 DEF IngressInv

\* Slots, permits, closers, timers, watches and leases stay in step in every
\* interleaving of the requests with everything that closes a session.
THEOREM IngressInvariant == Spec => []IngressInv
<1>1. IngressInv /\ [Next]_vars => IngressInv'
  BY StepInvariant
<1> QED BY <1>1, InitInvariant, PTL DEF Spec

\* Whatever the requests, the timers, the watches, the authority and Shutdown do
\* (handler.go), the slots and permits taken are those of the requests at work, a
\* lease that outlives its request has a published or closing session to release
\* it, nothing is published after Shutdown returned, and a session leaves the
\* table before it is closed.
THEOREM SessionsAreAccounted == Spec => []SessionsAccounted
<1>1. IngressInv => SessionsAccounted
  <2> SUFFICES ASSUME IngressInv PROVE SessionsAccounted
    OBVIOUS
  <2>1. TypeOK /\ Capacity
    BY DEF IngressInv
  <2>2. LeaseHasOwner
    BY DEF IngressInv, LeaseHasOwner, LeaseFollowed, Unborn
  <2>3. NothingAfterShutdown
    <3> SUFFICES ASSUME shutdown = "returned", NEW i \in Ids, legacy[i] # None PROVE FALSE
      BY DEF NothingAfterShutdown, PublishedIds
    <3>1. legacy[i] \in Requests
      BY DEF IngressInv, TypeOK
    <3>2. Published(legacy[i])
      BY DEF Published
    <3>3. stage["shutdown"][legacy[i]] \in {"noted", "remove"}
      BY <3>1, <3>2 DEF IngressInv, ShutdownSees
    <3>4. stage["shutdown"][legacy[i]] = "off"
      BY <3>1 DEF IngressInv, ClosersAreHere
    <3> QED BY <3>3, <3>4
  <2>4. ClosedIsUnpublished
    BY DEF IngressInv, ClosedIsUnpublished, ClosedAfterRemoval
  <2> QED BY <2>1, <2>2, <2>3, <2>4 DEF SessionsAccounted
<1> QED BY <1>1, IngressInvariant, PTL

\* The deferred Release of a request never takes the lease from under the session
\* it was given to: a request that still owns the lease of its session leaves only
\* when that session is closed.
THEOREM SessionsKeepTheirLease == Spec => SessionKeepsLease
<1>1. IngressInv /\ [Next]_vars =>
        [\A r \in Requests :
           pc[r] = "leave" /\ pc'[r] = "returned" /\ session[r] \in {"open", "closing"}
             => lease'[r] = lease[r]]_vars
  <2> SUFFICES ASSUME IngressInv, [Next]_vars, NEW r \in Requests,
                      pc[r] = "leave", pc'[r] = "returned", session[r] \in {"open", "closing"}
               PROVE  lease'[r] = lease[r]
    OBVIOUS
  <2>1. ~owned[r]
    BY DEF IngressInv, OwnerWaits
  <2>2. pc \in [Requests -> Labels] /\ lease \in [Requests -> {"none", "current", "done"}]
    BY DEF IngressInv, TypeOK
  <2> USE DEF requestVars, tableVars, permitVars, sessionVars, closeVars, Goto, Begin
  <2>a1. ASSUME NEW x \in Requests, Authenticate(x) PROVE lease'[r] = lease[r]
    BY <2>a1, <2>1, <2>2 DEF Authenticate
  <2>a2. ASSUME NEW x \in Requests, Refuse(x) PROVE lease'[r] = lease[r]
    BY <2>a2, <2>1, <2>2 DEF Refuse, Release
  <2>a3. ASSUME NEW x \in Requests, TakeWork(x) PROVE lease'[r] = lease[r]
    BY <2>a3, <2>1, <2>2 DEF TakeWork
  <2>a4. ASSUME NEW x \in Requests, Answer(x) PROVE lease'[r] = lease[r]
    BY <2>a4, <2>1, <2>2 DEF Answer
  <2>a5. ASSUME NEW x \in Requests, Reserve(x) PROVE lease'[r] = lease[r]
    BY <2>a5, <2>1, <2>2 DEF Reserve
  <2>a6. ASSUME NEW x \in Requests, InitializeFails(x) PROVE lease'[r] = lease[r]
    BY <2>a6, <2>1, <2>2 DEF InitializeFails
  <2>a7. ASSUME NEW x \in Requests, CreateSession(x) PROVE lease'[r] = lease[r]
    BY <2>a7, <2>1, <2>2 DEF CreateSession
  <2>a8. ASSUME NEW x \in Requests, RejectSession(x) PROVE lease'[r] = lease[r]
    BY <2>a8, <2>1, <2>2 DEF RejectSession
  <2>a9. ASSUME NEW x \in Requests, Publish(x) PROVE lease'[r] = lease[r]
    BY <2>a9, <2>1, <2>2 DEF Publish
  <2>a10. ASSUME NEW x \in Requests, Recheck(x) PROVE lease'[r] = lease[r]
    BY <2>a10, <2>1, <2>2 DEF Recheck
  <2>a11. ASSUME NEW x \in Requests, Initialized(x) PROVE lease'[r] = lease[r]
    BY <2>a11, <2>1, <2>2 DEF Initialized
  <2>a12. ASSUME NEW x \in Requests, Closed(x) PROVE lease'[r] = lease[r]
    BY <2>a12, <2>1, <2>2 DEF Closed
  <2>a13. ASSUME NEW x \in Requests, Unreserve(x) PROVE lease'[r] = lease[r]
    BY <2>a13, <2>1, <2>2 DEF Unreserve
  <2>a14. ASSUME NEW x \in Requests, OpenStream(x) PROVE lease'[r] = lease[r]
    BY <2>a14, <2>1, <2>2 DEF OpenStream
  <2>a15. ASSUME NEW x \in Requests, CloseStream(x) PROVE lease'[r] = lease[r]
    BY <2>a15, <2>1, <2>2 DEF CloseStream
  <2>a16. ASSUME NEW x \in Requests, Deleted(x) PROVE lease'[r] = lease[r]
    BY <2>a16, <2>1, <2>2 DEF Deleted
  <2>a17. ASSUME NEW x \in Requests, Leave(x) PROVE lease'[r] = lease[r]
    BY <2>a17, <2>1, <2>2 DEF Leave, Release
  <2>a18. ASSUME NEW x \in Requests, NEW y \in Requests, FindExpired(x, y) PROVE lease'[r] = lease[r]
    BY <2>a18, <2>1, <2>2 DEF FindExpired, Finds
  <2>a19. ASSUME NEW x \in Requests, NEW y \in Requests, FindLive(x, y) PROVE lease'[r] = lease[r]
    BY <2>a19, <2>1, <2>2 DEF FindLive, Finds
  <2>a20. ASSUME NEW c \in Closers, NEW y \in Requests, CloseRemove(c, y) PROVE lease'[r] = lease[r]
    BY <2>a20, <2>1, <2>2 DEF CloseRemove
  <2>a21. ASSUME NEW c \in Closers, NEW y \in Requests, CloseOnce(c, y) PROVE lease'[r] = lease[r]
    BY <2>a21, <2>1, <2>2 DEF CloseOnce
  <2>a22. ASSUME NEW c \in Closers, NEW y \in Requests, CloseRelease(c, y) PROVE lease'[r] = lease[r]
    BY <2>a22, <2>1, <2>2 DEF CloseRelease
  <2>a23. ASSUME NEW t \in Timers, NEW y \in Requests, TimerFires(t, y) PROVE lease'[r] = lease[r]
    BY <2>a23, <2>1, <2>2 DEF TimerFires, Installing
  <2>a24. ASSUME NEW y \in Requests, WatchEnds(y) PROVE lease'[r] = lease[r]
    BY <2>a24, <2>1, <2>2 DEF WatchEnds
  <2>a25. ASSUME NEW y \in Requests, CancelLease(y) PROVE lease'[r] = lease[r]
    BY <2>a25, <2>1, <2>2 DEF CancelLease
  <2>a26. ASSUME NEW y \in Requests, ShutdownLookup(y) PROVE lease'[r] = lease[r]
    BY <2>a26, <2>1, <2>2 DEF ShutdownLookup
  <2>a27. CASE ShutdownBegin
    BY <2>a27, <2>1, <2>2 DEF ShutdownBegin
  <2>a28. CASE ShutdownReturns
    BY <2>a28, <2>1, <2>2 DEF ShutdownReturns
  <2>a29. CASE Halt
    BY <2>a29, <2>1, <2>2 DEF Halt
  <2>a30. CASE UNCHANGED vars
    BY <2>a30, <2>1, <2>2 DEF vars
  <2> QED
    BY <2>a1, <2>a2, <2>a3, <2>a4, <2>a5, <2>a6, <2>a7, <2>a8, <2>a9, <2>a10, <2>a11, <2>a12,
       <2>a13, <2>a14, <2>a15, <2>a16, <2>a17, <2>a18, <2>a19, <2>a20, <2>a21, <2>a22, <2>a23,
       <2>a24, <2>a25, <2>a26, <2>a27, <2>a28, <2>a29, <2>a30, Zenon DEF Next, Request, Close
<1> QED BY <1>1, IngressInvariant, PTL DEF Spec, SessionKeepsLease

-----------------------------------------------------------------------------
(* Calls and what they occupy. *)

Admitting == {"users", "slot", "revalidate", "register", "refuse"}
Preparing == {"leased", "start", "execute", "enroll", "perform", "waiting", "locked"}
Talking   == {"write", "await", "lost", "returned", "finish"}
Over      == {"release", "released", "done"}
Waiting   == {"idle", "resolve", "acquire"}
Pcs       == Waiting \cup Admitting \cup Preparing \cup Talking \cup Over

Frame   == [id : Calls, body : {"ok", "error", "lost"}]
Results == {"ok", "error", "response_invalid", "pre_start", "start_uncertain"}

CallSet ==
  [pc : Pcs, cap : Capabilities \cup {Nothing}, object : Objects \cup {Nothing}, cancelled : BOOLEAN,
   leaseCancelled : BOOLEAN, released : BOOLEAN, used : BOOLEAN, started : BOOLEAN,
   requested : BOOLEAN, local : BOOLEAN, expired : BOOLEAN, handedOff : BOOLEAN,
   sent : {0, 1}, sender : {"watch", "close", "withdraw", "self", Nothing}, done : BOOLEAN,
   answer : Frame \cup {Failed, Nothing}, result : Results \cup {Nothing}]

CapabilitySet ==
  [current : BOOLEAN, availability : {"current", "stale", "unavailable"},
   leases : SUBSET Calls, withdrawing : SUBSET (Calls \cup {"pending"})]

DispatcherSet ==
  [global : Int, limit : Nat, server : Objects \cup {Nothing},
   objects : [Objects -> [slots : Int, users : Int]]]

CallTypes ==
  /\ transport \in [kind : {"stdio", "http"}, era : {"modern", "legacy"}, closed : BOOLEAN, reading : {"yet", "not", "again"}]
  /\ route \in Capabilities \cup {Nothing}
  /\ capability \in [Capabilities -> CapabilitySet]
  /\ dispatcher \in DispatcherSet
  /\ wire \in [delivered : SUBSET Calls, answered : SUBSET Calls, frames : Seq(Frame)]
  /\ call \in [Calls -> CallSet]
  /\ fence \in [draining : BOOLEAN, active : SUBSET Calls]
  /\ DOMAIN response = Calls

\* What call c, with the response r, has told and been told; got: the server has it, here: it is in the pipeline.
Told(c, x, r, got, here) ==
  /\ x.pc \in Waiting \cup Admitting \cup Preparing => ~x.handedOff /\ ~x.done
  /\ x.pc \in Talking => ~x.done
  /\ got \/ x.pc \in {"write", "await"} => x.handedOff
  /\ x.pc # "done" => r = Nothing
  /\ x.pc \in {"release", "released"} \/ (x.pc = "done" /\ here) =>
       x.result \in Results /\ (x.result = "ok" => x.answer = [id |-> c, body |-> "ok"])
  /\ x.pc \in Over /\ x.result = "pre_start" => ~x.handedOff
  /\ r \in {"prestart_failure", "rejected"} => ~x.handedOff
  /\ r = "succeeded" => x.answer = [id |-> c, body |-> "ok"]
  /\ x.pc \in {"lost", "returned", "finish"} => x.answer \in Frame \cup {Failed}

\* The cancellation of a call that is over has been sent.
Notified(x) == x.done /\ x.requested /\ x.handedOff /\ shouldNotify => x.sent = 1

\* What a call occupies at each place.
Leasing == {"leased", "start", "execute", "enroll", "perform", "waiting", "locked", "release"} \cup Talking
Occupied(x) ==
  /\ x.pc \in Waiting \cup {"users", "done"} => x.object = Nothing
  /\ x.pc \in {"slot", "revalidate", "register", "refuse", "released"} => x.object # Nothing
  /\ x.pc \in Leasing => (x.object # Nothing <=> ~x.released)
  /\ x.pc \in Waiting \cup Admitting => ~x.released
  /\ x.started \/ x.pc \in Leasing \ {"leased"} => x.used

Sound(c) ==
  /\ Told(c, call[c], response[c], c \in wire.delivered, c \in fence.active)
  /\ Notified(call[c]) /\ Occupied(call[c])

\* The counts of the dispatcher.
Occupies(x) ==
  \/ x.pc \in {"revalidate", "register", "refuse"}
  \/ x.pc \notin {"idle", "resolve", "acquire", "users", "slot", "released", "done"} /\ ~x.released
Tokens(f)  == {c \in Calls : f[c].pc = "users" \/ f[c].object # Nothing}
ObjectUsers(f)   == {c \in Calls : f[c].object # Nothing}
Holders(f) == {c \in Calls : Occupies(f[c])}
CallsCounted(d, f) ==
  /\ d.global = Cardinality(Tokens(f)) /\ d.global <= GlobalLimit
  /\ \A c \in ObjectUsers(f) : f[c].object = d.server
  /\ d.server # Nothing => /\ ObjectUsers(f) # {}
                           /\ d.objects[d.server].users = Cardinality(ObjectUsers(f))
                           /\ d.objects[d.server].slots = Cardinality(Holders(f))
  /\ Cardinality(Holders(f)) <= d.limit

\* A lease belongs to a call that has it.
Leased ==
  \A k \in Capabilities : \A c \in Calls :
    c \in capability[k].leases \cup capability[k].withdrawing => call[c].pc = "leased" \/ call[c].used

CallInv ==
  /\ CallTypes
  /\ \A c \in Calls : Sound(c)
  /\ CallsCounted(dispatcher, call)
  /\ Leased

-----------------------------------------------------------------------------
(* Sets of calls. *)

LEMMA Finite == ASSUME NEW S \in SUBSET Calls PROVE IsFiniteSet(S) /\ Cardinality(S) \in Nat
BY CallsFinite, FS_Subset, FS_CardinalityType

LEMMA Plus ==
  ASSUME NEW S \in SUBSET Calls, NEW c \in Calls \ S
  PROVE  Cardinality(S \cup {c}) = Cardinality(S) + 1
BY Finite, FS_AddElement

LEMMA Minus ==
  ASSUME NEW S \in SUBSET Calls, NEW c \in S
  PROVE  Cardinality(S \ {c}) = Cardinality(S) - 1
BY Finite, FS_RemoveElement

\* A call that occupies what it did changes no count.
Quiet(x, y) ==
  /\ y.object = x.object
  /\ y.pc = "users" <=> x.pc = "users"
  /\ Occupies(y) <=> Occupies(x)
Keeps(x, y) == (x.used => y.used) /\ (x.pc = "leased" => y.pc = "leased" \/ y.used)

LEMMA SameCounts ==
  ASSUME NEW f \in [Calls -> CallSet], NEW c \in Calls, NEW y, NEW d, CallsCounted(d, f), Quiet(f[c], y)
  PROVE  CallsCounted(d, [f EXCEPT ![c] = y])
<1> DEFINE g == [f EXCEPT ![c] = y]
<1>1. \A e \in Calls : g[e] = IF e = c THEN y ELSE f[e]
  OBVIOUS
<1> HIDE DEF g
<1>2. Tokens(g) = Tokens(f)
  BY <1>1 DEF Tokens, Quiet
<1>3. ObjectUsers(g) = ObjectUsers(f) /\ \A e \in ObjectUsers(f) : g[e].object = f[e].object
  BY <1>1 DEF ObjectUsers, Quiet
<1>4. Holders(g) = Holders(f)
  BY <1>1 DEF Holders, Quiet
<1>5. CallsCounted(d, g)
  BY <1>2, <1>3, <1>4 DEF CallsCounted
<1> QED
  BY <1>5 DEF g

\* The step of one call.
LEMMA OneCall ==
  ASSUME CallInv, NEW c \in Calls, NEW y \in CallSet, call' = [call EXCEPT ![c] = y], CallTypes',
         transport'.kind = transport.kind, transport'.era = transport.era,
         \A d \in Calls \ {c} : /\ response'[d] = response[d]
                                /\ d \in wire'.delivered <=> d \in wire.delivered
                                /\ d \in fence'.active <=> d \in fence.active,
         Told(c, y, response'[c], c \in wire'.delivered, c \in fence'.active),
         Notified(y), Occupied(y)
  PROVE  \A d \in Calls : Sound(d)'
<1> SUFFICES ASSUME NEW d \in Calls PROVE Sound(d)'
  OBVIOUS
<1>0. shouldNotify' = shouldNotify
  BY DEF shouldNotify
<1>1. CASE d = c
  <2>1. call'[d] = y
    BY <1>1 DEF CallInv, CallTypes
  <2> QED
    BY <1>0, <1>1, <2>1 DEF Sound, Told, Notified, Occupied
<1>2. CASE d # c
  <2>1. call'[d] = call[d] /\ Sound(d)
    BY <1>2 DEF CallInv, CallTypes
  <2> QED
    BY <1>0, <1>2, <2>1 DEF Sound, Told, Notified, Occupied
<1> QED
  BY <1>1, <1>2

\* A lease stays with the call that has it.
LEMMA StaysLeased ==
  ASSUME CallInv, NEW c \in Calls, NEW y \in CallSet, call' = [call EXCEPT ![c] = y], UNCHANGED capability,
         Keeps(call[c], y)
  PROVE  Leased'
BY DEF Keeps, CallInv, CallTypes, Leased

\* A request for cancellation.
LEMMA Cancelled ==
  ASSUME NEW x \in CallSet, NEW who \in {"watch", "close", "withdraw", "self"}
  PROVE  LET z == RequestCancellation(x, who)
         IN  /\ z \in CallSet
             /\ z.pc = x.pc /\ z.object = x.object /\ z.released = x.released /\ z.used = x.used
             /\ z.started = x.started /\ z.handedOff = x.handedOff /\ z.done = x.done
             /\ z.answer = x.answer /\ z.result = x.result
             /\ x.done => z = x
<1> DEFINE e == x.expired \/ x.local
           send == x.handedOff /\ x.sent = 0 /\ shouldNotify
           n == IF send THEN x.sent + 1 ELSE x.sent
           s == IF send THEN who ELSE x.sender
           z == [x EXCEPT !.requested = TRUE, !.expired = e, !.sent = n, !.sender = s]
<1>1. e \in BOOLEAN /\ n \in {0, 1} /\ s \in {"watch", "close", "withdraw", "self", Nothing}
  BY DEF CallSet
<1>2. RequestCancellation(x, who) = IF x.done THEN x ELSE z
  BY DEF RequestCancellation, CallSet
<1> HIDE DEF e, n, s
<1>3. /\ z \in CallSet
      /\ z.pc = x.pc /\ z.object = x.object /\ z.released = x.released /\ z.used = x.used
      /\ z.started = x.started /\ z.handedOff = x.handedOff /\ z.done = x.done
      /\ z.answer = x.answer /\ z.result = x.result
  BY <1>1, ZenonT(40) DEF CallSet
<1> HIDE DEF z
<1> QED
  BY <1>2, <1>3

\* A step of a call that takes or gives back nothing.
LEMMA CallSteps ==
  ASSUME CallInv, NEW c \in Calls, NEW y \in CallSet, call' = [call EXCEPT ![c] = y],
         CallTypes', UNCHANGED <<transport, capability, dispatcher>>,
         \A d \in Calls \ {c} : /\ response'[d] = response[d]
                                /\ d \in wire'.delivered <=> d \in wire.delivered
                                /\ d \in fence'.active <=> d \in fence.active,
         Quiet(call[c], y), Keeps(call[c], y),
         Told(c, y, response'[c], c \in wire'.delivered, c \in fence'.active),
         Notified(y), Occupied(y)
  PROVE  CallInv'
<1>1. \A d \in Calls : Sound(d)'
  BY OneCall
<1>2. CallsCounted(dispatcher, call)'
  <2>1. CallsCounted(dispatcher, call) /\ call \in [Calls -> CallSet]
    BY DEF CallInv, CallTypes
  <2>2. CallsCounted(dispatcher, [call EXCEPT ![c] = y])
    BY <2>1, SameCounts
  <2> QED
    BY <2>2
<1>3. Leased'
  BY StaysLeased
<1> QED
  BY <1>1, <1>2, <1>3 DEF CallInv

LEMMA CallGoes ==
  ASSUME CallInv, NEW c \in Calls, NEW y \in CallSet, call' = [call EXCEPT ![c] = y],
         UNCHANGED <<transport, route, capability, dispatcher, wire, fence, response>>,
         Quiet(call[c], y), Keeps(call[c], y),
         Told(c, y, response[c], c \in wire.delivered, c \in fence.active),
         Notified(y), Occupied(y)
  PROVE  CallInv'
<1>1. CallTypes'
  BY DEF CallInv, CallTypes
<1>2. Told(c, y, response'[c], c \in wire'.delivered, c \in fence'.active)
  OBVIOUS
<1>3. \A d \in Calls \ {c} : /\ response'[d] = response[d]
                             /\ d \in wire'.delivered <=> d \in wire.delivered
                             /\ d \in fence'.active <=> d \in fence.active
  OBVIOUS
<1> QED
  BY <1>1, <1>2, <1>3, CallSteps

LEMMA Unmoved ==
  ASSUME CallInv, UNCHANGED <<transport, route, capability, dispatcher, wire, call, fence, response>>
  PROVE  CallInv'
<1>1. CallTypes'
  BY DEF CallInv, CallTypes
<1>2. \A c \in Calls : Sound(c)'
  BY ZenonT(40) DEF CallInv, Sound, Told, Notified, shouldNotify, Occupied
<1>3. CallsCounted(dispatcher, call)' /\ Leased'
  BY DEF CallInv, Leased
<1> QED
  BY <1>1, <1>2, <1>3 DEF CallInv

-----------------------------------------------------------------------------
(* Steps of a call that take or give back nothing. *)

LEMMA At ==
  ASSUME CallInv, NEW c \in Calls
  PROVE  /\ call[c] \in CallSet
         /\ Told(c, call[c], response[c], c \in wire.delivered, c \in fence.active)
         /\ Notified(call[c]) /\ Occupied(call[c])
BY DEF CallInv, CallTypes, Sound

LEMMA CallTyped == CallInv => call \in [Calls -> CallSet]
BY DEF CallInv, CallTypes

LEMMA ContextEndsInv ==
  ASSUME CallInv, NEW c \in Calls, ContextEnds(c), UNCHANGED <<fence, response>>
  PROVE  CallInv'
<1> DEFINE x == call[c]
<1>0. x \in CallSet /\ Told(c, x, response[c], c \in wire.delivered, c \in fence.active) /\ Notified(x) /\ Occupied(x)
  BY At
<1> DEFINE e == x.expired \/ x.local
<1>4. e \in BOOLEAN
  OBVIOUS
<1> DEFINE y == [x EXCEPT !.cancelled = TRUE, !.expired = e]
<1>5. call' = [call EXCEPT ![c] = y]
  BY CallTyped DEF ContextEnds
<1> HIDE DEF e
<1>6. y \in CallSet
  BY <1>0, <1>4 DEF CallSet, Pcs, Waiting, Admitting, Preparing, Talking, Over, Results
<1>7. Quiet(x, y) /\ Keeps(x, y)
  BY <1>0 DEF ContextEnds, Quiet, Keeps, CallSet, Occupies, Occupied, Leasing, Talking
<1>8. Told(c, y, response[c], c \in wire.delivered, c \in fence.active) /\ Notified(y) /\ Occupied(y)
  BY <1>0 DEF ContextEnds, CallSet, Told, Notified, Occupied, Results, Leasing, Waiting, Admitting, Preparing, Talking, Over
<1> HIDE DEF y
<1>9. UNCHANGED <<transport, route, capability, dispatcher, wire, fence, response>>
  BY DEF ContextEnds
<1> QED
  BY <1>5, <1>6, <1>7, <1>8, <1>9, CallGoes

LEMMA SendCancellationInv ==
  ASSUME CallInv, NEW c \in Calls, SendCancellation(c), UNCHANGED <<fence, response>>
  PROVE  CallInv'
<1> DEFINE x == call[c]
<1>0. x \in CallSet /\ Told(c, x, response[c], c \in wire.delivered, c \in fence.active) /\ Notified(x) /\ Occupied(x)
  BY At
<1> DEFINE y == [x EXCEPT !.sender = Nothing]
<1>5. call' = [call EXCEPT ![c] = y]
  BY CallTyped DEF SendCancellation
<1>6. y \in CallSet
  BY <1>0 DEF CallSet, Pcs, Waiting, Admitting, Preparing, Talking, Over, Results
<1>7. Quiet(x, y) /\ Keeps(x, y)
  BY <1>0 DEF SendCancellation, Quiet, Keeps, CallSet, Occupies, Occupied, Leasing, Talking
<1>8. Told(c, y, response[c], c \in wire.delivered, c \in fence.active) /\ Notified(y) /\ Occupied(y)
  BY <1>0 DEF SendCancellation, CallSet, Told, Notified, Occupied, Results, Leasing, Waiting, Admitting, Preparing, Talking, Over
<1> HIDE DEF y
<1>9. UNCHANGED <<transport, route, capability, dispatcher, wire, fence, response>>
  BY DEF SendCancellation
<1> QED
  BY <1>5, <1>6, <1>7, <1>8, <1>9, CallGoes

LEMMA AcquireRevalidateInv ==
  ASSUME CallInv, NEW c \in Calls, AcquireRevalidate(c), UNCHANGED <<fence, response>>
  PROVE  CallInv'
<1> DEFINE x == call[c]
<1>0. x \in CallSet /\ Told(c, x, response[c], c \in wire.delivered, c \in fence.active) /\ Notified(x) /\ Occupied(x)
  BY At
<1> DEFINE y == [x EXCEPT !.pc = IF x.cancelled \/ ~Available(c) THEN "refuse" ELSE "register"]
<1>5. call' = [call EXCEPT ![c] = y]
  BY CallTyped DEF AcquireRevalidate, Moves
<1>6. y \in CallSet
  BY <1>0 DEF CallSet, Pcs, Waiting, Admitting, Preparing, Talking, Over, Results
<1>7. Quiet(x, y) /\ Keeps(x, y)
  BY <1>0 DEF AcquireRevalidate, Quiet, Keeps, CallSet, Occupies, Occupied, Leasing, Talking
<1>8. Told(c, y, response[c], c \in wire.delivered, c \in fence.active) /\ Notified(y) /\ Occupied(y)
  BY <1>0 DEF AcquireRevalidate, CallSet, Told, Notified, Occupied, Results, Leasing, Waiting, Admitting, Preparing, Talking, Over
<1> HIDE DEF y
<1>9. UNCHANGED <<transport, route, capability, dispatcher, wire, fence, response>>
  BY DEF AcquireRevalidate
<1> QED
  BY <1>5, <1>6, <1>7, <1>8, <1>9, CallGoes

LEMMA ExecuteStartsInv ==
  ASSUME CallInv, NEW c \in Calls, ExecuteStarts(c), UNCHANGED <<fence, response>>
  PROVE  CallInv'
<1> DEFINE x == call[c]
<1>0. x \in CallSet /\ Told(c, x, response[c], c \in wire.delivered, c \in fence.active) /\ Notified(x) /\ Occupied(x)
  BY At
<1>1. CASE x.leaseCancelled
  <2> DEFINE y == [x EXCEPT !.pc = "release", !.result = "pre_start"]
  <2>5. call' = [call EXCEPT ![c] = y]
    BY <1>1, CallTyped DEF ExecuteStarts
  <2>6. y \in CallSet
    BY <1>0 DEF CallSet, Pcs, Waiting, Admitting, Preparing, Talking, Over, Results
  <2>7. Quiet(x, y) /\ Keeps(x, y)
    BY <1>1, <1>0 DEF ExecuteStarts, Quiet, Keeps, CallSet, Occupies, Occupied, Leasing, Talking
  <2>8. Told(c, y, response[c], c \in wire.delivered, c \in fence.active) /\ Notified(y) /\ Occupied(y)
    BY <1>1, <1>0 DEF ExecuteStarts, CallSet, Told, Notified, Occupied, Results, Leasing, Waiting, Admitting, Preparing, Talking, Over
  <2> HIDE DEF y
  <2>9. UNCHANGED <<transport, route, capability, dispatcher, wire, fence, response>>
    BY DEF ExecuteStarts
  <2> QED
    BY <2>5, <2>6, <2>7, <2>8, <2>9, CallGoes
<1>2. CASE ~x.leaseCancelled
  <2> DEFINE y == [x EXCEPT !.pc = "execute", !.started = TRUE]
  <2>5. call' = [call EXCEPT ![c] = y]
    BY <1>2, CallTyped DEF ExecuteStarts
  <2>6. y \in CallSet
    BY <1>0 DEF CallSet, Pcs, Waiting, Admitting, Preparing, Talking, Over, Results
  <2>7. Quiet(x, y) /\ Keeps(x, y)
    BY <1>2, <1>0 DEF ExecuteStarts, Quiet, Keeps, CallSet, Occupies, Occupied, Leasing, Talking
  <2>8. Told(c, y, response[c], c \in wire.delivered, c \in fence.active) /\ Notified(y) /\ Occupied(y)
    BY <1>2, <1>0 DEF ExecuteStarts, CallSet, Told, Notified, Occupied, Results, Leasing, Waiting, Admitting, Preparing, Talking, Over
  <2> HIDE DEF y
  <2>9. UNCHANGED <<transport, route, capability, dispatcher, wire, fence, response>>
    BY DEF ExecuteStarts
  <2> QED
    BY <2>5, <2>6, <2>7, <2>8, <2>9, CallGoes
<1> QED
  BY <1>1, <1>2

LEMMA ExecuteInv ==
  ASSUME CallInv, NEW c \in Calls, Execute(c), UNCHANGED <<fence, response>>
  PROVE  CallInv'
<1> DEFINE x == call[c]
<1>0. x \in CallSet /\ Told(c, x, response[c], c \in wire.delivered, c \in fence.active) /\ Notified(x) /\ Occupied(x)
  BY At
<1>1. CASE x.requested \/ x.cancelled
  <2> DEFINE y == [x EXCEPT !.pc = "release", !.done = TRUE, !.result = "pre_start"]
  <2>5. call' = [call EXCEPT ![c] = y]
    BY <1>1, CallTyped DEF Execute
  <2>6. y \in CallSet
    BY <1>0 DEF CallSet, Pcs, Waiting, Admitting, Preparing, Talking, Over, Results
  <2>7. Quiet(x, y) /\ Keeps(x, y)
    BY <1>1, <1>0 DEF Execute, Quiet, Keeps, CallSet, Occupies, Occupied, Leasing, Talking
  <2>8. Told(c, y, response[c], c \in wire.delivered, c \in fence.active) /\ Notified(y) /\ Occupied(y)
    BY <1>1, <1>0 DEF Execute, CallSet, Told, Notified, Occupied, Results, Leasing, Waiting, Admitting, Preparing, Talking, Over
  <2> HIDE DEF y
  <2>9. UNCHANGED <<transport, route, capability, dispatcher, wire, fence, response>>
    BY DEF Execute
  <2> QED
    BY <2>5, <2>6, <2>7, <2>8, <2>9, CallGoes
<1>2. CASE ~(x.requested \/ x.cancelled)
  <2> DEFINE y == [x EXCEPT !.pc = "enroll", !.local = TRUE]
  <2>5. call' = [call EXCEPT ![c] = y]
    BY <1>2, CallTyped DEF Execute
  <2>6. y \in CallSet
    BY <1>0 DEF CallSet, Pcs, Waiting, Admitting, Preparing, Talking, Over, Results
  <2>7. Quiet(x, y) /\ Keeps(x, y)
    BY <1>2, <1>0 DEF Execute, Quiet, Keeps, CallSet, Occupies, Occupied, Leasing, Talking
  <2>8. Told(c, y, response[c], c \in wire.delivered, c \in fence.active) /\ Notified(y) /\ Occupied(y)
    BY <1>2, <1>0 DEF Execute, CallSet, Told, Notified, Occupied, Results, Leasing, Waiting, Admitting, Preparing, Talking, Over
  <2> HIDE DEF y
  <2>9. UNCHANGED <<transport, route, capability, dispatcher, wire, fence, response>>
    BY DEF Execute
  <2> QED
    BY <2>5, <2>6, <2>7, <2>8, <2>9, CallGoes
<1> QED
  BY <1>1, <1>2

LEMMA EnrollInv ==
  ASSUME CallInv, NEW c \in Calls, Enroll(c), UNCHANGED <<fence, response>>
  PROVE  CallInv'
<1> DEFINE x == call[c]
<1>0. x \in CallSet /\ Told(c, x, response[c], c \in wire.delivered, c \in fence.active) /\ Notified(x) /\ Occupied(x)
  BY At
<1>1. CASE runtime.closed
  <2> DEFINE y == [x EXCEPT !.pc = "release", !.done = TRUE, !.result = "pre_start"]
  <2>5. call' = [call EXCEPT ![c] = y]
    BY <1>1, CallTyped DEF Enroll, Moves
  <2>6. y \in CallSet
    BY <1>0 DEF CallSet, Pcs, Waiting, Admitting, Preparing, Talking, Over, Results
  <2>7. Quiet(x, y) /\ Keeps(x, y)
    BY <1>1, <1>0 DEF Enroll, Quiet, Keeps, CallSet, Occupies, Occupied, Leasing, Talking
  <2>8. Told(c, y, response[c], c \in wire.delivered, c \in fence.active) /\ Notified(y) /\ Occupied(y)
    BY <1>1, <1>0 DEF Enroll, CallSet, Told, Notified, Occupied, Results, Leasing, Waiting, Admitting, Preparing, Talking, Over
  <2> HIDE DEF y
  <2>9. UNCHANGED <<transport, route, capability, dispatcher, wire, fence, response>>
    BY DEF Enroll
  <2> QED
    BY <2>5, <2>6, <2>7, <2>8, <2>9, CallGoes
<1>2. CASE ~runtime.closed
  <2> DEFINE y == [x EXCEPT !.pc = "perform"]
  <2>5. call' = [call EXCEPT ![c] = y]
    BY <1>2, CallTyped DEF Enroll, Moves
  <2>6. y \in CallSet
    BY <1>0 DEF CallSet, Pcs, Waiting, Admitting, Preparing, Talking, Over, Results
  <2>7. Quiet(x, y) /\ Keeps(x, y)
    BY <1>2, <1>0 DEF Enroll, Quiet, Keeps, CallSet, Occupies, Occupied, Leasing, Talking
  <2>8. Told(c, y, response[c], c \in wire.delivered, c \in fence.active) /\ Notified(y) /\ Occupied(y)
    BY <1>2, <1>0 DEF Enroll, CallSet, Told, Notified, Occupied, Results, Leasing, Waiting, Admitting, Preparing, Talking, Over
  <2> HIDE DEF y
  <2>9. UNCHANGED <<transport, route, capability, dispatcher, wire, fence, response>>
    BY DEF Enroll
  <2> QED
    BY <2>5, <2>6, <2>7, <2>8, <2>9, CallGoes
<1> QED
  BY <1>1, <1>2

LEMMA MarkHandoffInv ==
  ASSUME CallInv, NEW c \in Calls, MarkHandoff(c), UNCHANGED <<fence, response>>
  PROVE  CallInv'
<1> DEFINE x == call[c]
<1>0. x \in CallSet /\ Told(c, x, response[c], c \in wire.delivered, c \in fence.active) /\ Notified(x) /\ Occupied(x)
  BY At
<1>1. CASE call' = [call EXCEPT ![c].pc = "returned", ![c].answer = Failed]
  <2> DEFINE y == [x EXCEPT !.pc = "returned", !.answer = Failed]
  <2>5. call' = [call EXCEPT ![c] = y]
    BY <1>1, CallTyped
  <2>6. y \in CallSet
    BY <1>0 DEF CallSet, Pcs, Waiting, Admitting, Preparing, Talking, Over, Results
  <2>7. Quiet(x, y) /\ Keeps(x, y)
    BY <1>1, <1>0 DEF MarkHandoff, Quiet, Keeps, CallSet, Occupies, Occupied, Leasing, Talking
  <2>8. Told(c, y, response[c], c \in wire.delivered, c \in fence.active)
    BY <1>1, <1>0, NothingIsNoResponse DEF MarkHandoff, CallSet, Told, Waiting, Admitting, Preparing, Talking, Over
  <2>a. Notified(y) /\ Occupied(y)
    <3>1. ~y.done
      BY <1>0 DEF MarkHandoff, CallSet, Told, Preparing
    <3> QED
      BY <1>0, <3>1 DEF MarkHandoff, CallSet, Notified, Occupied, Leasing, Waiting, Admitting, Talking
  <2> HIDE DEF y
  <2>9. UNCHANGED <<transport, route, capability, dispatcher, wire, fence, response>>
    BY DEF MarkHandoff
  <2> QED
    BY <2>5, <2>6, <2>7, <2>8, <2>9, <2>a, CallGoes
<1>2. CASE call' = [call EXCEPT ![c].pc = "write", ![c].handedOff = TRUE]
  <2> DEFINE y == [x EXCEPT !.pc = "write", !.handedOff = TRUE]
  <2>5. call' = [call EXCEPT ![c] = y]
    BY <1>2, CallTyped
  <2>6. y \in CallSet
    BY <1>0 DEF CallSet, Pcs, Waiting, Admitting, Preparing, Talking, Over, Results
  <2>7. Quiet(x, y) /\ Keeps(x, y)
    BY <1>2, <1>0 DEF MarkHandoff, Quiet, Keeps, CallSet, Occupies, Occupied, Leasing, Talking
  <2>8. Told(c, y, response[c], c \in wire.delivered, c \in fence.active)
    BY <1>2, <1>0, NothingIsNoResponse DEF MarkHandoff, CallSet, Told, Waiting, Admitting, Preparing, Talking, Over
  <2>a. Notified(y) /\ Occupied(y)
    <3>1. ~y.done
      BY <1>0 DEF MarkHandoff, CallSet, Told, Preparing
    <3> QED
      BY <1>0, <3>1 DEF MarkHandoff, CallSet, Notified, Occupied, Leasing, Waiting, Admitting, Talking
  <2> HIDE DEF y
  <2>9. UNCHANGED <<transport, route, capability, dispatcher, wire, fence, response>>
    BY DEF MarkHandoff
  <2> QED
    BY <2>5, <2>6, <2>7, <2>8, <2>9, <2>a, CallGoes
<1> QED
  BY <1>1, <1>2 DEF MarkHandoff

\* Whoever asks for the cancellation of a call.
LEMMA CancelGoes ==
  ASSUME CallInv, NEW c \in Calls, NEW who \in {"watch", "close", "withdraw", "self"},
         call' = [call EXCEPT ![c] = RequestCancellation(call[c], who)],
         UNCHANGED <<transport, route, capability, dispatcher, wire, fence, response>>
  PROVE  CallInv'
<1> DEFINE x == call[c]
           y == RequestCancellation(x, who)
<1>0. x \in CallSet /\ Told(c, x, response[c], c \in wire.delivered, c \in fence.active) /\ Notified(x) /\ Occupied(x)
  BY At
<1>1. /\ y \in CallSet
      /\ y.pc = x.pc /\ y.object = x.object /\ y.released = x.released /\ y.used = x.used
      /\ y.started = x.started /\ y.handedOff = x.handedOff /\ y.done = x.done
      /\ y.answer = x.answer /\ y.result = x.result
      /\ x.done => y = x
  BY <1>0, Cancelled
<1>2. call' = [call EXCEPT ![c] = y]
  OBVIOUS
<1> HIDE DEF y
<1>3. Quiet(x, y) /\ Keeps(x, y)
  BY <1>1 DEF Quiet, Keeps, Occupies
<1>4. Told(c, y, response[c], c \in wire.delivered, c \in fence.active)
  BY <1>0, <1>1 DEF Told
<1>5. Notified(y) /\ Occupied(y)
  BY <1>0, <1>1 DEF Notified, Occupied
<1> QED
  BY <1>1, <1>2, <1>3, <1>4, <1>5, CallGoes

LEMMA WatchFiresInv ==
  ASSUME CallInv, NEW c \in Calls, WatchFires(c), UNCHANGED <<fence, response>>
  PROVE  CallInv'
<1>1. call' = [call EXCEPT ![c] = RequestCancellation(call[c], "watch")]
  BY CallTyped DEF WatchFires
<1> QED
  BY <1>1, CancelGoes DEF WatchFires

LEMMA CloseCancelsInv ==
  ASSUME CallInv, NEW c \in Calls, CloseCancels(c), UNCHANGED <<fence, response>>
  PROVE  CallInv'
<1>1. call' = [call EXCEPT ![c] = RequestCancellation(call[c], "close")]
  BY CallTyped DEF CloseCancels
<1> QED
  BY <1>1, CancelGoes DEF CloseCancels

LEMMA ExecuteChecksInv ==
  ASSUME CallInv, NEW c \in Calls, ExecuteChecks(c), UNCHANGED <<fence, response>>
  PROVE  CallInv'
<1> DEFINE x == call[c]
<1>0. x \in CallSet /\ Told(c, x, response[c], c \in wire.delivered, c \in fence.active) /\ Notified(x) /\ Occupied(x)
  BY At
<1>1. UNCHANGED <<transport, route, capability, dispatcher, wire, fence, response>>
  BY DEF ExecuteChecks
<1>2. CASE call' = [call EXCEPT ![c] = [x EXCEPT !.used = TRUE, !.pc = "release", !.result = "pre_start"]]
  <2> DEFINE y == [x EXCEPT !.used = TRUE, !.pc = "release", !.result = "pre_start"]
  <2>1. y \in CallSet
    BY <1>0 DEF CallSet, Pcs, Over, Results
  <2>2. Quiet(x, y) /\ Keeps(x, y)
    BY <1>0 DEF ExecuteChecks, Quiet, Keeps, CallSet, Occupies
  <2>3. Told(c, y, response[c], c \in wire.delivered, c \in fence.active)
    BY <1>0 DEF ExecuteChecks, CallSet, Told, Waiting, Admitting, Preparing, Talking, Over, Results
  <2>4. Notified(y) /\ Occupied(y)
    BY <1>0 DEF ExecuteChecks, CallSet, Told, Preparing, Notified, Occupied, Leasing, Waiting, Admitting, Talking
  <2> HIDE DEF y
  <2> QED
    BY <1>1, <1>2, <2>1, <2>2, <2>3, <2>4, CallGoes DEF y
<1>3. CASE call' = [call EXCEPT ![c] = [x EXCEPT !.used = TRUE, !.pc = "start"]]
  <2> DEFINE y == [x EXCEPT !.used = TRUE, !.pc = "start"]
  <2>1. y \in CallSet
    BY <1>0 DEF CallSet, Pcs, Preparing
  <2>2. Quiet(x, y) /\ Keeps(x, y)
    BY <1>0 DEF ExecuteChecks, Quiet, Keeps, CallSet, Occupies
  <2>3. Told(c, y, response[c], c \in wire.delivered, c \in fence.active)
    BY <1>0 DEF ExecuteChecks, CallSet, Told, Waiting, Admitting, Preparing, Talking, Over, Results
  <2>4. Notified(y) /\ Occupied(y)
    BY <1>0 DEF ExecuteChecks, CallSet, Told, Preparing, Notified, Occupied, Leasing, Waiting, Admitting, Talking
  <2> HIDE DEF y
  <2> QED
    BY <1>1, <1>3, <2>1, <2>2, <2>3, <2>4, CallGoes DEF y
<1> QED
  BY <1>0, <1>2, <1>3, CallTyped DEF ExecuteChecks, CallSet

\* A call that failed at its request.
LEMMA FailsToTalk ==
  ASSUME CallInv, NEW c \in Calls, call[c].pc \in {"perform", "waiting", "locked", "write", "await"},
         call' = [call EXCEPT ![c].pc = "returned", ![c].answer = Failed],
         UNCHANGED <<transport, route, capability, dispatcher, wire, fence, response>>
  PROVE  CallInv'
<1> DEFINE x == call[c]
           y == [x EXCEPT !.pc = "returned", !.answer = Failed]
<1>0. x \in CallSet /\ Told(c, x, response[c], c \in wire.delivered, c \in fence.active) /\ Notified(x) /\ Occupied(x)
  BY At
<1>1. call' = [call EXCEPT ![c] = y]
  BY CallTyped
<1>2. y \in CallSet
  BY <1>0 DEF CallSet, Pcs, Talking
<1>3. Quiet(x, y) /\ Keeps(x, y)
  BY <1>0 DEF Quiet, Keeps, CallSet, Occupies
<1>4. Told(c, y, response[c], c \in wire.delivered, c \in fence.active)
  BY <1>0, NothingIsNoResponse DEF CallSet, Told, Waiting, Admitting, Preparing, Talking, Over
<1>5. Notified(y) /\ Occupied(y)
  BY <1>0 DEF CallSet, Told, Preparing, Notified, Occupied, Leasing, Waiting, Admitting, Talking
<1> HIDE DEF y
<1> QED
  BY <1>1, <1>2, <1>3, <1>4, <1>5, CallGoes

\* A call that only moves on, to a place like the one it leaves.
LEMMA MovesOn ==
  ASSUME CallInv, NEW c \in Calls, NEW place, Moves(c, place),
         <<call[c].pc, place>> \in {<<"perform", "waiting">>, <<"perform", "locked">>, <<"waiting", "locked">>, <<"lost", "returned">>},
         UNCHANGED <<transport, route, capability, dispatcher, wire, fence, response>>
  PROVE  CallInv'
<1> DEFINE x == call[c]
           y == [x EXCEPT !.pc = place]
<1>0. x \in CallSet /\ Told(c, x, response[c], c \in wire.delivered, c \in fence.active) /\ Notified(x) /\ Occupied(x)
  BY At
<1>1. call' = [call EXCEPT ![c] = y]
  BY CallTyped DEF Moves
<1>2. y \in CallSet
  BY <1>0 DEF CallSet, Pcs, Talking, Preparing
<1>3. Quiet(x, y) /\ Keeps(x, y)
  BY <1>0 DEF Quiet, Keeps, CallSet, Occupies
<1>4. Told(c, y, response[c], c \in wire.delivered, c \in fence.active)
  BY <1>0, NothingIsNoResponse DEF CallSet, Told, Waiting, Admitting, Preparing, Talking, Over
<1>5. Notified(y) /\ Occupied(y)
  BY <1>0 DEF CallSet, Told, Preparing, Notified, Occupied, Leasing, Waiting, Admitting, Talking
<1> HIDE DEF y
<1> QED
  BY <1>1, <1>2, <1>3, <1>4, <1>5, CallGoes

LEMMA ExchangeBeginsInv ==
  ASSUME CallInv, NEW c \in Calls, ExchangeBegins(c), UNCHANGED <<fence, response>>
  PROVE  CallInv'
BY FailsToTalk, MovesOn DEF ExchangeBegins

LEMMA TakeExchangeInv ==
  ASSUME CallInv, NEW c \in Calls, TakeExchange(c), UNCHANGED <<fence, response>>
  PROVE  CallInv'
BY FailsToTalk, MovesOn DEF TakeExchange

LEMMA SessionLostInv ==
  ASSUME CallInv, NEW c \in Calls, SessionLost(c), UNCHANGED <<fence, response>>
  PROVE  CallInv'
<1>1. CASE Moves(c, "returned")
  BY <1>1, MovesOn DEF SessionLost
<1>2. CASE UNCHANGED call
  BY <1>2, Unmoved DEF SessionLost
<1> QED
  BY <1>1, <1>2 DEF SessionLost

LEMMA PerformReturnsInv ==
  ASSUME CallInv, NEW c \in Calls, PerformReturns(c), UNCHANGED <<fence, response>>
  PROVE  CallInv'
<1> DEFINE x == call[c]
           z == IF x.expired THEN RequestCancellation(x, "self") ELSE x
           a == IF x.expired /\ x.answer.id \in {c, Nothing} THEN Failed ELSE x.answer
           y == [z EXCEPT !.pc = "finish", !.answer = a]
<1>0. x \in CallSet /\ Told(c, x, response[c], c \in wire.delivered, c \in fence.active) /\ Notified(x) /\ Occupied(x)
  BY At
<1>1. /\ z \in CallSet
      /\ z.pc = x.pc /\ z.object = x.object /\ z.released = x.released /\ z.used = x.used
      /\ z.started = x.started /\ z.handedOff = x.handedOff /\ z.done = x.done
      /\ z.answer = x.answer
  BY <1>0, Cancelled
<1>2. call' = [call EXCEPT ![c] = y]
  <2>1. CASE x.expired
    <3>1. z = RequestCancellation(x, "self") /\ a = IF x.answer.id \in {c, Nothing} THEN Failed ELSE x.answer
      BY <2>1
    <3> QED
      BY <2>1, <3>1 DEF PerformReturns
  <2>2. CASE ~x.expired
    <3>1. call' = [call EXCEPT ![c] = [x EXCEPT !.pc = "finish"]]
      BY <2>2, CallTyped DEF PerformReturns
    <3>2. z = x /\ a = x.answer
      BY <2>2
    <3> HIDE DEF z, a
    <3>3. [x EXCEPT !.pc = "finish"] = [x EXCEPT !.pc = "finish", !.answer = x.answer]
      BY <1>0 DEF CallSet
    <3> QED
      BY <3>1, <3>2, <3>3
  <2> QED
    BY <2>1, <2>2
<1>3. x.pc = "returned" /\ a \in Frame \cup {Failed}
  BY <1>0 DEF PerformReturns, Told
<1> HIDE DEF z, a
<1>4. y \in CallSet
  BY <1>1, <1>3 DEF CallSet, Pcs, Talking
<1>5. /\ y.pc = "finish" /\ y.object = x.object /\ y.released = x.released /\ y.used = x.used
      /\ y.started = x.started /\ y.handedOff = x.handedOff /\ y.done = x.done /\ y.answer = a
  BY <1>1 DEF CallSet
<1> HIDE DEF y
<1>6. Quiet(x, y) /\ Keeps(x, y)
  BY <1>3, <1>5 DEF Quiet, Keeps, Occupies
<1>7. Told(c, y, response[c], c \in wire.delivered, c \in fence.active)
  BY <1>0, <1>3, <1>5, NothingIsNoResponse DEF Told, Waiting, Admitting, Preparing, Talking, Over
<1>8. Notified(y) /\ Occupied(y)
  BY <1>0, <1>3, <1>5 DEF Told, Notified, Occupied, Leasing, Waiting, Admitting, Talking
<1>9. UNCHANGED <<transport, route, capability, dispatcher, wire, fence, response>>
  BY DEF PerformReturns
<1> QED
  BY <1>2, <1>4, <1>6, <1>7, <1>8, <1>9, CallGoes

LEMMA Decoded ==
  ASSUME CallInv, NEW c \in Calls, call[c].pc = "finish"
  PROVE  LET r == Decode(c, call[c].answer)
         IN  /\ r \in Results
             /\ r = "pre_start" => ~call[c].handedOff
             /\ r = "ok" => call[c].answer = [id |-> c, body |-> "ok"]
<1> DEFINE x == call[c]
           f == x.answer
<1>0. x \in CallSet /\ f \in Frame \cup {Failed}
  BY At DEF Told
<1>1. CASE f = Failed \/ f.body = "lost"
  <2>1. Decode(c, f) = IF x.handedOff THEN "start_uncertain" ELSE "pre_start"
    BY <1>1 DEF Decode
  <2> QED
    BY <1>0, <2>1 DEF Results, CallSet
<1>2. CASE ~(f = Failed \/ f.body = "lost")
  <2>1. f \in Frame /\ f.body \in {"ok", "error"}
    BY <1>0, <1>2 DEF Frame
  <2>2. Decode(c, f) = IF f.id # c THEN "response_invalid" ELSE f.body
    BY <1>2 DEF Decode
  <2>3. f.id = c /\ f.body = "ok" => f = [id |-> c, body |-> "ok"]
    BY <2>1 DEF Frame
  <2> HIDE DEF f
  <2>4. Decode(c, f) \in Results /\ (Decode(c, f) = "pre_start" => FALSE) /\ (Decode(c, f) = "ok" => f.id = c /\ f.body = "ok")
    BY <2>1, <2>2 DEF Results
  <2> QED
    BY <2>3, <2>4 DEF f
<1> QED
  BY <1>1, <1>2

LEMMA ExecuteReturnsInv ==
  ASSUME CallInv, NEW c \in Calls, ExecuteReturns(c), UNCHANGED <<fence, response>>
  PROVE  CallInv'
<1> DEFINE x == call[c]
           r == Decode(c, x.answer)
           send == x.requested /\ x.handedOff /\ x.sent = 0 /\ shouldNotify
           n == IF send THEN x.sent + 1 ELSE x.sent
           s == IF send THEN "self" ELSE x.sender
           y == [x EXCEPT !.done = TRUE, !.sent = n, !.sender = s, !.pc = "release", !.result = r]
<1>0. x \in CallSet /\ Told(c, x, response[c], c \in wire.delivered, c \in fence.active) /\ Notified(x) /\ Occupied(x)
  BY At
<1>1. x.pc = "finish" /\ r \in Results /\ (r = "pre_start" => ~x.handedOff)
      /\ (r = "ok" => x.answer = [id |-> c, body |-> "ok"])
  BY Decoded DEF ExecuteReturns
<1>2. call' = [call EXCEPT ![c] = y]
  <2>1. call' = [call EXCEPT ![c] = [Finish(x) EXCEPT !.pc = "release", !.result = r]]
    BY CallTyped DEF ExecuteReturns
  <2>2. Finish(x) = [x EXCEPT !.done = TRUE, !.sent = n, !.sender = s]
    BY <1>0 DEF Finish, CallSet
  <2> HIDE DEF r, n, s
  <2>3. [[x EXCEPT !.done = TRUE, !.sent = n, !.sender = s] EXCEPT !.pc = "release", !.result = r] = y
    BY <1>0 DEF CallSet
  <2> QED
    BY <2>1, <2>2, <2>3
<1>3. n \in {0, 1} /\ s \in {"watch", "close", "withdraw", "self", Nothing}
      /\ (x.requested /\ x.handedOff /\ shouldNotify => n = 1)
  BY <1>0 DEF CallSet
<1> HIDE DEF r, n, s
<1>4. y \in CallSet
  BY <1>0, <1>1, <1>3, ZenonT(40) DEF CallSet, Pcs, Over
<1>5. /\ y.pc = "release" /\ y.object = x.object /\ y.released = x.released /\ y.used = x.used
      /\ y.started = x.started /\ y.handedOff = x.handedOff /\ y.done /\ y.answer = x.answer
      /\ y.requested = x.requested /\ y.result = r /\ y.sent = n
  BY <1>0 DEF CallSet
<1> HIDE DEF y
<1>6. Quiet(x, y) /\ Keeps(x, y)
  BY <1>1, <1>5 DEF Quiet, Keeps, Occupies
<1>7. Told(c, y, response[c], c \in wire.delivered, c \in fence.active)
  BY <1>0, <1>1, <1>5, NothingIsNoResponse DEF Told, Waiting, Admitting, Preparing, Talking, Over
<1>8. Notified(y) /\ Occupied(y)
  BY <1>0, <1>1, <1>3, <1>5 DEF Notified, Occupied, Leasing, Waiting, Admitting, Talking
<1>9. UNCHANGED <<transport, route, capability, dispatcher, wire, fence, response>>
  BY DEF ExecuteReturns
<1> QED
  BY <1>2, <1>4, <1>6, <1>7, <1>8, <1>9, CallGoes

-----------------------------------------------------------------------------
(* The wire. *)

WireSet == [delivered : SUBSET Calls, answered : SUBSET Calls, frames : Seq(Frame)]

\* A step of a call that exchanges something with the server.
LEMMA CallTalks ==
  ASSUME CallInv, NEW c \in Calls, NEW y \in CallSet, call' = [call EXCEPT ![c] = y],
         UNCHANGED <<transport, route, capability, dispatcher, fence, response>>, wire' \in WireSet,
         \A d \in Calls \ {c} : d \in wire'.delivered <=> d \in wire.delivered,
         Quiet(call[c], y), Keeps(call[c], y),
         Told(c, y, response[c], c \in wire'.delivered, c \in fence.active),
         Notified(y), Occupied(y)
  PROVE  CallInv'
<1>1. CallTypes'
  BY DEF CallInv, CallTypes, WireSet
<1>2. Told(c, y, response'[c], c \in wire'.delivered, c \in fence'.active)
  OBVIOUS
<1>3. \A d \in Calls \ {c} : /\ response'[d] = response[d]
                             /\ d \in wire'.delivered <=> d \in wire.delivered
                             /\ d \in fence'.active <=> d \in fence.active
  OBVIOUS
<1> QED
  BY <1>1, <1>2, <1>3, CallSteps

LEMMA WireTyped == CallInv => wire \in WireSet
BY DEF CallInv, CallTypes, WireSet

LEMMA WriteRequestInv ==
  ASSUME CallInv, NEW c \in Calls, WriteRequest(c), UNCHANGED <<fence, response>>
  PROVE  CallInv'
<1> DEFINE x == call[c]
           y == [x EXCEPT !.pc = "await"]
<1>0. x \in CallSet /\ Told(c, x, response[c], c \in wire.delivered, c \in fence.active) /\ Notified(x) /\ Occupied(x)
  BY At
<1>1. CASE wire' = [wire EXCEPT !.delivered = @ \cup {c}] /\ Moves(c, "await")
  <2>1. call' = [call EXCEPT ![c] = y]
    BY <1>1, CallTyped DEF Moves
  <2>2. wire' \in WireSet /\ \A d \in Calls \ {c} : d \in wire'.delivered <=> d \in wire.delivered
    BY <1>1, WireTyped DEF WireSet
  <2>3. y \in CallSet
    BY <1>0 DEF CallSet, Pcs, Talking
  <2>4. Quiet(x, y) /\ Keeps(x, y)
    BY <1>0 DEF WriteRequest, Quiet, Keeps, CallSet, Occupies
  <2>5. x.handedOff
    BY <1>0 DEF WriteRequest, Told
  <2>6. Told(c, y, response[c], c \in wire'.delivered, c \in fence.active)
    BY <1>0, <2>5, NothingIsNoResponse DEF WriteRequest, CallSet, Told, Waiting, Admitting, Preparing, Talking, Over
  <2>7. Notified(y) /\ Occupied(y)
    BY <1>0 DEF WriteRequest, CallSet, Told, Preparing, Notified, Occupied, Leasing, Waiting, Admitting, Talking
  <2> HIDE DEF y
  <2>8. UNCHANGED <<transport, route, capability, dispatcher, fence, response>>
    BY DEF WriteRequest
  <2> QED
    BY <2>1, <2>2, <2>3, <2>4, <2>6, <2>7, <2>8, CallTalks
<1> QED
  BY <1>1, FailsToTalk DEF WriteRequest

-----------------------------------------------------------------------------
(* Steps that take or give back a token, a slot or the server's object. *)

LEMMA Recount ==
  ASSUME NEW S \in SUBSET Calls, NEW T \in SUBSET Calls, NEW c \in Calls, \A d \in Calls \ {c} : d \in S <=> d \in T
  PROVE  /\ Cardinality(S) \in Nat /\ Cardinality(T) \in Nat
         /\ (c \in T <=> c \in S) => Cardinality(T) = Cardinality(S)
         /\ c \in T /\ c \notin S => Cardinality(T) = Cardinality(S) + 1
         /\ c \notin T /\ c \in S => Cardinality(T) = Cardinality(S) - 1
<1>0. Cardinality(S) \in Nat /\ Cardinality(T) \in Nat
  BY Finite
<1>1. CASE c \in S <=> c \in T
  <2>1. S = T
    BY <1>1
  <2> QED
    BY <1>0, <1>1, <2>1
<1>2. CASE c \in T /\ c \notin S
  <2>1. T = S \cup {c}
    BY <1>2
  <2>2. Cardinality(T) = Cardinality(S) + 1
    BY <2>1, <1>2, Plus
  <2> QED
    BY <1>0, <1>2, <2>2
<1>3. CASE c \notin T /\ c \in S
  <2>1. T = S \ {c}
    BY <1>3
  <2>2. Cardinality(T) = Cardinality(S) - 1
    BY <2>1, <1>3, Minus
  <2> QED
    BY <1>0, <1>3, <2>2
<1> QED
  BY <1>1, <1>2, <1>3

\* The counts after the step of one call.
HasToken(x) == x.pc = "users" \/ x.object # Nothing

LEMMA Counts ==
  ASSUME NEW f, NEW c \in Calls, NEW y, NEW g, \A e \in Calls : g[e] = IF e = c THEN y ELSE f[e]
  PROVE  /\ Cardinality(Tokens(f)) \in Nat /\ Cardinality(ObjectUsers(f)) \in Nat /\ Cardinality(Holders(f)) \in Nat
         /\ Cardinality(Tokens(g)) \in Nat /\ Cardinality(ObjectUsers(g)) \in Nat /\ Cardinality(Holders(g)) \in Nat
         /\ (HasToken(y) <=> HasToken(f[c])) => Cardinality(Tokens(g)) = Cardinality(Tokens(f))
         /\ HasToken(y) /\ ~HasToken(f[c]) => Cardinality(Tokens(g)) = Cardinality(Tokens(f)) + 1
         /\ ~HasToken(y) /\ HasToken(f[c]) => Cardinality(Tokens(g)) = Cardinality(Tokens(f)) - 1
         /\ (y.object = Nothing <=> f[c].object = Nothing) => Cardinality(ObjectUsers(g)) = Cardinality(ObjectUsers(f))
         /\ y.object # Nothing /\ f[c].object = Nothing => Cardinality(ObjectUsers(g)) = Cardinality(ObjectUsers(f)) + 1
         /\ y.object = Nothing /\ f[c].object # Nothing => Cardinality(ObjectUsers(g)) = Cardinality(ObjectUsers(f)) - 1
         /\ (Occupies(y) <=> Occupies(f[c])) => Cardinality(Holders(g)) = Cardinality(Holders(f))
         /\ Occupies(y) /\ ~Occupies(f[c]) => Cardinality(Holders(g)) = Cardinality(Holders(f)) + 1
         /\ ~Occupies(y) /\ Occupies(f[c]) => Cardinality(Holders(g)) = Cardinality(Holders(f)) - 1
         /\ ObjectUsers(g) = {} <=> Cardinality(ObjectUsers(g)) = 0
<1>1. /\ Tokens(f) \in SUBSET Calls /\ Tokens(g) \in SUBSET Calls
      /\ \A d \in Calls \ {c} : d \in Tokens(f) <=> d \in Tokens(g)
      /\ c \in Tokens(g) <=> HasToken(y)
      /\ c \in Tokens(f) <=> HasToken(f[c])
  BY DEF Tokens, HasToken
<1>2. /\ ObjectUsers(f) \in SUBSET Calls /\ ObjectUsers(g) \in SUBSET Calls
      /\ \A d \in Calls \ {c} : d \in ObjectUsers(f) <=> d \in ObjectUsers(g)
      /\ c \in ObjectUsers(g) <=> y.object # Nothing
      /\ c \in ObjectUsers(f) <=> f[c].object # Nothing
  BY DEF ObjectUsers
<1>3. /\ Holders(f) \in SUBSET Calls /\ Holders(g) \in SUBSET Calls
      /\ \A d \in Calls \ {c} : d \in Holders(f) <=> d \in Holders(g)
      /\ c \in Holders(g) <=> Occupies(y)
      /\ c \in Holders(f) <=> Occupies(f[c])
  BY DEF Holders
<1>4. ObjectUsers(g) = {} <=> Cardinality(ObjectUsers(g)) = 0
  BY <1>2, Finite, FS_EmptySet
<1>5. /\ Cardinality(Tokens(f)) \in Nat /\ Cardinality(Tokens(g)) \in Nat
      /\ (HasToken(y) <=> HasToken(f[c])) => Cardinality(Tokens(g)) = Cardinality(Tokens(f))
      /\ HasToken(y) /\ ~HasToken(f[c]) => Cardinality(Tokens(g)) = Cardinality(Tokens(f)) + 1
      /\ ~HasToken(y) /\ HasToken(f[c]) => Cardinality(Tokens(g)) = Cardinality(Tokens(f)) - 1
  BY <1>1, Recount
<1>6. /\ Cardinality(ObjectUsers(f)) \in Nat /\ Cardinality(ObjectUsers(g)) \in Nat
      /\ (y.object = Nothing <=> f[c].object = Nothing) => Cardinality(ObjectUsers(g)) = Cardinality(ObjectUsers(f))
      /\ y.object # Nothing /\ f[c].object = Nothing => Cardinality(ObjectUsers(g)) = Cardinality(ObjectUsers(f)) + 1
      /\ y.object = Nothing /\ f[c].object # Nothing => Cardinality(ObjectUsers(g)) = Cardinality(ObjectUsers(f)) - 1
  BY <1>2, Recount
<1>7. /\ Cardinality(Holders(f)) \in Nat /\ Cardinality(Holders(g)) \in Nat
      /\ (Occupies(y) <=> Occupies(f[c])) => Cardinality(Holders(g)) = Cardinality(Holders(f))
      /\ Occupies(y) /\ ~Occupies(f[c]) => Cardinality(Holders(g)) = Cardinality(Holders(f)) + 1
      /\ ~Occupies(y) /\ Occupies(f[c]) => Cardinality(Holders(g)) = Cardinality(Holders(f)) - 1
  BY <1>3, Recount
<1> QED
  BY <1>4, <1>5, <1>6, <1>7

\* Whoever has a slot uses the object it is of.
LEMMA HoldersUse ==
  ASSUME NEW f \in [Calls -> CallSet], \A c \in Calls : Occupied(f[c])
  PROVE  Holders(f) \subseteq ObjectUsers(f) /\ Cardinality(Holders(f)) <= Cardinality(ObjectUsers(f))
<1>1. ASSUME NEW c \in Calls, Occupies(f[c]) PROVE f[c].object # Nothing
  <2>1. f[c].pc \in Pcs /\ Occupied(f[c])
    BY DEF CallSet
  <2> QED
    BY <1>1, <2>1 DEF Occupies, Occupied, Leasing, Pcs, Waiting, Admitting, Preparing, Talking, Over
<1>2. Holders(f) \subseteq ObjectUsers(f)
  BY <1>1 DEF Holders, ObjectUsers
<1>3. IsFiniteSet(ObjectUsers(f)) /\ ObjectUsers(f) \in SUBSET Calls
  BY Finite DEF ObjectUsers
<1> QED
  BY <1>2, <1>3, FS_Subset

LEMMA CountedIdle ==
  ASSUME NEW e, NEW g, e.global = Cardinality(Tokens(g)), e.global <= GlobalLimit, Cardinality(Holders(g)) <= e.limit,
         ObjectUsers(g) = {}, e.server = Nothing
  PROVE  CallsCounted(e, g)
BY DEF CallsCounted

LEMMA CountedBusy ==
  ASSUME NEW e, NEW g, e.global = Cardinality(Tokens(g)), e.global <= GlobalLimit, Cardinality(Holders(g)) <= e.limit,
         ObjectUsers(g) # {}, \A k \in ObjectUsers(g) : g[k].object = e.server,
         e.objects[e.server].users = Cardinality(ObjectUsers(g)), e.objects[e.server].slots = Cardinality(Holders(g))
  PROVE  CallsCounted(e, g)
BY DEF CallsCounted

\* A call gives back the object and the token, and the slot if it has one.
GivesBack(d, e, o, slots) ==
  /\ e \in DispatcherSet /\ e.global = d.global - 1 /\ e.limit = d.limit
  /\ e.objects[o].users = d.objects[o].users - 1
  /\ e.objects[o].slots = d.objects[o].slots - slots
  /\ e.server = IF e.objects[o].users = 0 /\ e.objects[o].slots = 0 THEN Nothing ELSE d.server

LEMMA Returned ==
  ASSUME NEW f \in [Calls -> CallSet], NEW c \in Calls, NEW y \in CallSet, \A k \in Calls : Occupied(f[k]), Occupied(y),
         NEW d \in DispatcherSet, NEW e, NEW n, n = IF Occupies(f[c]) THEN 1 ELSE 0, CallsCounted(d, f),
         f[c].object # Nothing, y.object = Nothing, y.pc # "users", ~Occupies(y),
         GivesBack(d, e, f[c].object, n)
  PROVE  CallsCounted(e, [f EXCEPT ![c] = y])
<1> DEFINE g == [f EXCEPT ![c] = y]
           o == f[c].object
<1> SUFFICES CallsCounted(e, g)
  OBVIOUS
<1>1. d.server = o /\ o \in Objects
  BY DEF CallsCounted, ObjectUsers, CallSet
<1>2. \A k \in Calls : g[k] = IF k = c THEN y ELSE f[k]
  OBVIOUS
<1>3. g \in [Calls -> CallSet] /\ \A k \in Calls : Occupied(g[k])
  OBVIOUS
<1>5. Cardinality(Holders(g)) <= Cardinality(ObjectUsers(g))
  BY <1>3, HoldersUse
<1> HIDE DEF g
<1>4. /\ Cardinality(Tokens(f)) \in Nat /\ Cardinality(ObjectUsers(f)) \in Nat /\ Cardinality(Holders(f)) \in Nat
      /\ Cardinality(Tokens(g)) \in Nat /\ Cardinality(ObjectUsers(g)) \in Nat /\ Cardinality(Holders(g)) \in Nat
      /\ Cardinality(Tokens(g)) = Cardinality(Tokens(f)) - 1
      /\ Cardinality(ObjectUsers(g)) = Cardinality(ObjectUsers(f)) - 1
      /\ Cardinality(Holders(g)) = Cardinality(Holders(f)) - n
      /\ ObjectUsers(g) = {} <=> Cardinality(ObjectUsers(g)) = 0
  <2>1. HasToken(f[c]) /\ ~HasToken(y)
    BY DEF HasToken
  <2> QED
    BY <1>2, <2>1, Counts
<1>6. /\ d.global = Cardinality(Tokens(f)) /\ d.global <= GlobalLimit
      /\ d.objects[o].users = Cardinality(ObjectUsers(f)) /\ d.objects[o].slots = Cardinality(Holders(f))
      /\ Cardinality(Holders(f)) <= d.limit /\ d.limit \in Nat /\ d.global \in Int
  BY <1>1, NothingIsNone DEF CallsCounted, DispatcherSet
<1>7. /\ e.objects[o].users = Cardinality(ObjectUsers(g)) /\ e.objects[o].slots = Cardinality(Holders(g))
      /\ e.global = Cardinality(Tokens(g)) /\ e.global <= GlobalLimit /\ Cardinality(Holders(g)) <= e.limit
  BY <1>4, <1>6, DispatchLimits DEF GivesBack
<1>8. CASE ObjectUsers(g) = {}
  <2>1. e.objects[o].users = 0 /\ e.objects[o].slots = 0
    BY <1>4, <1>5, <1>7, <1>8
  <2>2. e.server = Nothing
    BY <2>1 DEF GivesBack
  <2> QED
    BY <1>7, <1>8, <2>2, CountedIdle
<1>9. CASE ObjectUsers(g) # {}
  <2>1. e.server = o
    BY <1>1, <1>4, <1>7, <1>9 DEF GivesBack
  <2>2. \A k \in ObjectUsers(g) : g[k].object = o
    BY <1>1, <1>2 DEF CallsCounted, ObjectUsers
  <2> QED
    BY <1>7, <1>9, <2>1, <2>2, CountedBusy
<1> QED
  BY <1>8, <1>9

\* releaseServer and Slot.
LEMMA ReleaseServer ==
  ASSUME NEW d \in DispatcherSet, NEW o \in Objects, d.server = o
  PROVE  GivesBack(d, releaseServer(d, o), o, 0) /\ GivesBack(d, releaseServer(Slot(d, o, -1), o), o, 1)
<1> SUFFICES ASSUME NEW n \in {0, 1}, NEW b \in DispatcherSet, b.server = o, b.global = d.global, b.limit = d.limit,
                    b.objects[o].users = d.objects[o].users, b.objects[o].slots = d.objects[o].slots - n
             PROVE  GivesBack(d, releaseServer(b, o), o, n)
  <2>1. GivesBack(d, releaseServer(d, o), o, 0)
    BY DEF DispatcherSet
  <2>2. Slot(d, o, -1) = [d EXCEPT !.objects = [d.objects EXCEPT ![o] = [d.objects[o] EXCEPT !.slots = d.objects[o].slots - 1]]]
    BY DEF Slot, DispatcherSet
  <2>3. /\ Slot(d, o, -1) \in DispatcherSet /\ Slot(d, o, -1).server = o /\ Slot(d, o, -1).global = d.global
        /\ Slot(d, o, -1).limit = d.limit /\ Slot(d, o, -1).objects[o].users = d.objects[o].users
        /\ Slot(d, o, -1).objects[o].slots = d.objects[o].slots - 1
    BY <2>2 DEF DispatcherSet
  <2> QED
    BY <2>1, <2>3
<1> DEFINE objects == [b.objects EXCEPT ![o] = [b.objects[o] EXCEPT !.users = b.objects[o].users - 1]]
           server == IF objects[o].users = 0 /\ objects[o].slots = 0 THEN Nothing ELSE o
<1>1. objects \in [Objects -> [slots : Int, users : Int]] /\ objects[o].users = b.objects[o].users - 1
      /\ objects[o].slots = b.objects[o].slots
  BY DEF DispatcherSet
<1>2. releaseServer(b, o) = [b EXCEPT !.global = b.global - 1, !.objects = objects, !.server = server]
  BY DEF releaseServer, DispatcherSet
<1> HIDE DEF objects
<1>3. server \in Objects \cup {Nothing}
  OBVIOUS
<1> HIDE DEF server
<1> DEFINE e == [b EXCEPT !.global = b.global - 1, !.objects = objects, !.server = server]
<1>4. b.global - 1 \in Int
  BY DEF DispatcherSet
<1>5. e \in DispatcherSet /\ e.global = b.global - 1 /\ e.limit = b.limit /\ e.objects = objects /\ e.server = server
  BY <1>1, <1>3, <1>4 DEF DispatcherSet
<1> HIDE DEF e
<1> QED
  BY <1>1, <1>2, <1>5 DEF GivesBack, server, e
\* The step of one call that changes what the dispatcher or a capability counts.
LEMMA CallTakes ==
  ASSUME CallInv, NEW c \in Calls, NEW y \in CallSet, call' = [call EXCEPT ![c] = y],
         UNCHANGED <<transport, route, wire, fence, response>>,
         dispatcher' \in DispatcherSet, capability' \in [Capabilities -> CapabilitySet],
         CallsCounted(dispatcher', [call EXCEPT ![c] = y]), Leased',
         Told(c, y, response[c], c \in wire.delivered, c \in fence.active),
         Notified(y), Occupied(y)
  PROVE  CallInv'
<1>1. CallTypes'
  BY DEF CallInv, CallTypes
<1>2. Told(c, y, response'[c], c \in wire'.delivered, c \in fence'.active)
  OBVIOUS
<1>3. \A d \in Calls \ {c} : /\ response'[d] = response[d]
                             /\ d \in wire'.delivered <=> d \in wire.delivered
                             /\ d \in fence'.active <=> d \in fence.active
  OBVIOUS
<1>4. \A d \in Calls : Sound(d)'
  BY <1>1, <1>2, <1>3, OneCall
<1>5. CallsCounted(dispatcher, call)'
  OBVIOUS
<1> QED
  BY <1>1, <1>4, <1>5 DEF CallInv

LEMMA DispatcherTyped ==
  ASSUME CallInv
  PROVE  /\ dispatcher \in DispatcherSet /\ CallsCounted(dispatcher, call) /\ call \in [Calls -> CallSet]
         /\ capability \in [Capabilities -> CapabilitySet] /\ \A c \in Calls : Occupied(call[c])
BY DEF CallInv, CallTypes, Sound

\* A call that leaves gives back what it has.
LEMMA CallLeaves ==
  ASSUME CallInv, NEW c \in Calls, NEW y \in CallSet, call' = [call EXCEPT ![c] = y],
         UNCHANGED <<transport, route, wire, fence, response>>,
         capability' \in [Capabilities -> CapabilitySet], Leased',
         NEW n, n = IF Occupies(call[c]) THEN 1 ELSE 0, GivesBack(dispatcher, dispatcher', call[c].object, n),
         call[c].object # Nothing, y.object = Nothing, y.pc # "users", ~Occupies(y),
         Told(c, y, response[c], c \in wire.delivered, c \in fence.active),
         Notified(y), Occupied(y)
  PROVE  CallInv'
<1>1. CallsCounted(dispatcher', [call EXCEPT ![c] = y])
  BY DispatcherTyped, Returned
<1>2. dispatcher' \in DispatcherSet
  BY DEF GivesBack
<1> QED
  BY <1>1, <1>2, CallTakes

LEMMA AtServer ==
  ASSUME CallInv, NEW c \in Calls, call[c].object # Nothing
  PROVE  call[c].object \in Objects /\ dispatcher.server = call[c].object
BY DispatcherTyped DEF CallsCounted, ObjectUsers, CallSet

LEMMA AcquireGlobalInv ==
  ASSUME CallInv, NEW c \in Calls, AcquireGlobal(c), UNCHANGED <<fence, response>>
  PROVE  CallInv'
<1> DEFINE x == call[c]
<1>0. x \in CallSet /\ Told(c, x, response[c], c \in wire.delivered, c \in fence.active) /\ Notified(x) /\ Occupied(x)
  BY At
<1>1. CASE call' = [call EXCEPT ![c].pc = "done", ![c].result = "pre_start"] /\ UNCHANGED dispatcher
  <2> DEFINE y == [x EXCEPT !.pc = "done", !.result = "pre_start"]
  <2>1. call' = [call EXCEPT ![c] = y]
    BY <1>1, CallTyped
  <2>2. y \in CallSet
    BY <1>0 DEF CallSet, Pcs, Over, Results
  <2>3. Quiet(x, y) /\ Keeps(x, y)
    BY <1>0 DEF AcquireGlobal, Quiet, Keeps, CallSet, Occupies
  <2>4. Told(c, y, response[c], c \in wire.delivered, c \in fence.active)
    BY <1>0, NothingIsNoResponse DEF AcquireGlobal, CallSet, Told, Waiting, Admitting, Preparing, Talking, Over, Results
  <2>5. Notified(y) /\ Occupied(y)
    BY <1>0 DEF AcquireGlobal, CallSet, Told, Waiting, Notified, Occupied, Leasing, Admitting, Talking
  <2> HIDE DEF y
  <2>6. UNCHANGED <<transport, route, capability, dispatcher, wire, fence, response>>
    BY <1>1 DEF AcquireGlobal
  <2> QED
    BY <2>1, <2>2, <2>3, <2>4, <2>5, <2>6, CallGoes
<1>2. CASE Moves(c, "users") /\ dispatcher.global # GlobalLimit /\ dispatcher' = [dispatcher EXCEPT !.global = @ + 1]
  <2> DEFINE y == [x EXCEPT !.pc = "users"]
             g == [call EXCEPT ![c] = y]
  <2>1. call' = g
    BY <1>2, CallTyped DEF Moves
  <2>2. y \in CallSet
    BY <1>0 DEF CallSet, Pcs, Admitting
  <2>3. Told(c, y, response[c], c \in wire.delivered, c \in fence.active)
    BY <1>0, NothingIsNoResponse DEF AcquireGlobal, CallSet, Told, Waiting, Admitting, Preparing, Talking, Over, Results
  <2>4. Notified(y) /\ Occupied(y)
    BY <1>0 DEF AcquireGlobal, CallSet, Told, Waiting, Notified, Occupied, Leasing, Admitting, Talking
  <2>5. /\ x.object = Nothing /\ y.object = Nothing /\ ~Occupies(x) /\ ~Occupies(y) /\ HasToken(y) /\ ~HasToken(x)
        /\ x.pc # "leased" /\ y.used = x.used
    BY <1>0 DEF AcquireGlobal, CallSet, Occupies, Occupied, HasToken, Waiting
  <2> HIDE DEF y
  <2>6. \A d \in Calls : g[d] = IF d = c THEN y ELSE call[d]
    BY CallTyped
  <2>7. Leased'
    BY <2>1, <2>5, <2>2, StaysLeased DEF Keeps, AcquireGlobal
  <2> HIDE DEF g
  <2>8. /\ Cardinality(Tokens(call)) \in Nat
        /\ Cardinality(Tokens(g)) = Cardinality(Tokens(call)) + 1 /\ Cardinality(ObjectUsers(g)) = Cardinality(ObjectUsers(call))
        /\ Cardinality(Holders(g)) = Cardinality(Holders(call))
    BY <2>5, <2>6, Counts
  <2>9. ObjectUsers(g) = ObjectUsers(call) /\ \A d \in ObjectUsers(g) : g[d].object = call[d].object
    BY <2>5, <2>6 DEF ObjectUsers
  <2>10. dispatcher' \in DispatcherSet /\ dispatcher'.global = dispatcher.global + 1 /\ dispatcher'.limit = dispatcher.limit
         /\ dispatcher'.server = dispatcher.server /\ dispatcher'.objects = dispatcher.objects
    BY <1>2, DispatcherTyped DEF DispatcherSet
  <2>11. dispatcher.global + 1 <= GlobalLimit /\ dispatcher'.global = Cardinality(Tokens(g))
    BY <1>2, <2>8, <2>10, DispatcherTyped, DispatchLimits DEF CallsCounted
  <2>12. CallsCounted(dispatcher', g)
    BY <2>8, <2>9, <2>10, <2>11, DispatcherTyped DEF CallsCounted
  <2>13. capability' \in [Capabilities -> CapabilitySet] /\ UNCHANGED <<transport, route, wire, fence, response>>
    BY DispatcherTyped DEF AcquireGlobal
  <2> QED
    BY <2>1, <2>2, <2>3, <2>4, <2>7, <2>10, <2>12, <2>13, CallTakes DEF g
<1> QED
  BY <1>1, <1>2 DEF AcquireGlobal

LEMMA AcquireServerInv ==
  ASSUME CallInv, NEW c \in Calls, AcquireServer(c), UNCHANGED <<fence, response>>
  PROVE  CallInv'
<1> DEFINE x == call[c]
           d == dispatcher
           free == {o \in Objects : o # d.server /\ \A k \in Calls : call[k].object # o}
           object == IF d.server # Nothing THEN d.server ELSE CHOOSE o \in free : TRUE
           entry == IF d.server = Nothing THEN [slots |-> 0, users |-> 1]
                    ELSE [slots |-> d.objects[object].slots, users |-> d.objects[object].users + 1]
           y == [x EXCEPT !.pc = "slot", !.object = object]
           g == [call EXCEPT ![c] = y]
<1>0. x \in CallSet /\ Told(c, x, response[c], c \in wire.delivered, c \in fence.active) /\ Notified(x) /\ Occupied(x)
  BY At
<1>1. object \in Objects
  <2>1. CASE d.server # Nothing
    BY <2>1, DispatcherTyped DEF DispatcherSet
  <2>2. CASE d.server = Nothing
    <3>1. \A k \in Calls : call[k].object = Nothing
      BY <2>2, DispatcherTyped DEF CallsCounted, ObjectUsers
    <3>2. free # {}
      BY <2>2, <3>1, ObjectsExist, NothingIsNone
    <3> QED
      BY <2>2, <3>2
  <2> QED
    BY <2>1, <2>2
<1>2. dispatcher' = [d EXCEPT !.server = object, !.objects = [d.objects EXCEPT ![object] = entry]]
  BY DEF AcquireServer, acquireServer
<1>3. d.server # Nothing => object = d.server
  OBVIOUS
<1> HIDE DEF object
<1>4. /\ dispatcher' \in DispatcherSet /\ dispatcher'.server = object /\ dispatcher'.global = d.global
      /\ dispatcher'.limit = d.limit /\ dispatcher'.objects[object] = entry
  <2>1. d \in DispatcherSet
    BY DispatcherTyped
  <2>2. entry \in [slots : Int, users : Int]
    BY <1>1, <2>1 DEF DispatcherSet
  <2> HIDE DEF entry
  <2>3. [d.objects EXCEPT ![object] = entry] \in [Objects -> [slots : Int, users : Int]]
        /\ [d.objects EXCEPT ![object] = entry][object] = entry
    BY <1>1, <2>1, <2>2 DEF DispatcherSet
  <2> QED
    BY <1>1, <1>2, <2>1, <2>3 DEF DispatcherSet
<1>5. call' = g
  BY <1>4, CallTyped DEF AcquireServer
<1>6. y \in CallSet
  BY <1>0, <1>1 DEF CallSet, Pcs, Admitting
<1>7. Told(c, y, response[c], c \in wire.delivered, c \in fence.active)
  BY <1>0, NothingIsNoResponse DEF AcquireServer, CallSet, Told, Waiting, Admitting, Preparing, Talking, Over, Results
<1>8. Notified(y) /\ Occupied(y)
  BY <1>0, <1>1, NothingIsNone DEF AcquireServer, CallSet, Told, Waiting, Notified, Occupied, Leasing, Admitting, Talking
<1>9. /\ x.object = Nothing /\ y.object = object /\ object # Nothing /\ ~Occupies(x) /\ ~Occupies(y)
      /\ HasToken(y) /\ HasToken(x) /\ x.pc # "leased" /\ y.used = x.used
  BY <1>0, <1>1, NothingIsNone DEF AcquireServer, CallSet, Occupies, Occupied, HasToken
<1> HIDE DEF y
<1>10. \A k \in Calls : g[k] = IF k = c THEN y ELSE call[k]
  BY CallTyped
<1>11. Leased'
  BY <1>5, <1>6, <1>9, StaysLeased DEF Keeps, AcquireServer
<1> HIDE DEF g
<1>12. /\ Cardinality(ObjectUsers(call)) \in Nat
       /\ Cardinality(Tokens(g)) = Cardinality(Tokens(call)) /\ Cardinality(ObjectUsers(g)) = Cardinality(ObjectUsers(call)) + 1
       /\ Cardinality(Holders(g)) = Cardinality(Holders(call)) /\ Cardinality(Holders(call)) \in Nat
  BY <1>9, <1>10, Counts
<1>13. c \in ObjectUsers(g) /\ \A k \in ObjectUsers(g) : g[k].object = object
  BY <1>3, <1>9, <1>10, DispatcherTyped DEF ObjectUsers, CallsCounted
<1>14. entry.users = Cardinality(ObjectUsers(g)) /\ entry.slots = Cardinality(Holders(g))
  <2>1. CASE d.server = Nothing
    <3>1. ObjectUsers(call) = {}
      BY <2>1, DispatcherTyped DEF CallsCounted, ObjectUsers
    <3>2. Cardinality(ObjectUsers(call)) = 0 /\ Cardinality(Holders(call)) <= Cardinality(ObjectUsers(call))
      BY <3>1, DispatcherTyped, HoldersUse, FS_EmptySet
    <3>3. Cardinality(Holders(g)) = 0 /\ Cardinality(ObjectUsers(g)) = 1
      BY <3>2, <1>12
    <3> QED
      BY <2>1, <3>3
  <2>2. CASE d.server # Nothing
    BY <2>2, <1>3, <1>12, DispatcherTyped DEF CallsCounted
  <2> QED
    BY <2>1, <2>2
<1>15. CallsCounted(dispatcher', g)
  <2>1. dispatcher'.global = Cardinality(Tokens(g)) /\ dispatcher'.global <= GlobalLimit /\ Cardinality(Holders(g)) <= dispatcher'.limit
    BY <1>4, <1>12, DispatcherTyped DEF CallsCounted
  <2> HIDE DEF entry
  <2> QED
    BY <2>1, <1>4, <1>13, <1>14, CountedBusy
<1>16. capability' \in [Capabilities -> CapabilitySet] /\ UNCHANGED <<transport, route, wire, fence, response>>
  BY DispatcherTyped DEF AcquireServer
<1> QED
  BY <1>4, <1>5, <1>6, <1>7, <1>8, <1>11, <1>15, <1>16, CallTakes DEF g

LEMMA AcquireSlotInv ==
  ASSUME CallInv, NEW c \in Calls, AcquireSlot(c), UNCHANGED <<fence, response>>
  PROVE  CallInv'
<1> DEFINE x == call[c]
           d == dispatcher
           o == x.object
<1>0. x \in CallSet /\ Told(c, x, response[c], c \in wire.delivered, c \in fence.active) /\ Notified(x) /\ Occupied(x)
  BY At
<1>1. x.pc = "slot" /\ o # Nothing /\ ~Occupies(x)
  BY <1>0 DEF AcquireSlot, Occupied, Occupies
<1>2. o \in Objects /\ d.server = o
  BY <1>1, AtServer
<1>3. capability' \in [Capabilities -> CapabilitySet] /\ UNCHANGED <<transport, route, wire, fence, response>>
  BY DispatcherTyped DEF AcquireSlot
<1>4. CASE d.objects[o].slots < d.limit /\ Moves(c, "revalidate") /\ dispatcher' = Slot(d, o, 1)
  <2> DEFINE y == [x EXCEPT !.pc = "revalidate"]
             g == [call EXCEPT ![c] = y]
             objects == [d.objects EXCEPT ![o] = [d.objects[o] EXCEPT !.slots = d.objects[o].slots + 1]]
  <2>1. call' = g
    BY <1>4, CallTyped DEF Moves
  <2>2. y \in CallSet
    BY <1>0 DEF CallSet, Pcs, Admitting
  <2>3. Told(c, y, response[c], c \in wire.delivered, c \in fence.active)
    BY <1>0, <1>1, NothingIsNoResponse DEF CallSet, Told, Waiting, Admitting, Preparing, Talking, Over, Results
  <2>4. Notified(y) /\ Occupied(y)
    BY <1>0, <1>1 DEF CallSet, Told, Waiting, Notified, Occupied, Leasing, Admitting, Talking
  <2>5. y.object = o /\ Occupies(y) /\ HasToken(y) /\ HasToken(x) /\ x.pc # "leased" /\ y.used = x.used
    BY <1>0, <1>1 DEF CallSet, Occupies, HasToken
  <2> HIDE DEF y
  <2>6. \A k \in Calls : g[k] = IF k = c THEN y ELSE call[k]
    BY CallTyped
  <2>7. Leased'
    BY <2>1, <2>2, <2>5, StaysLeased DEF Keeps, AcquireSlot
  <2> HIDE DEF g
  <2>8. /\ Cardinality(Holders(call)) \in Nat
        /\ Cardinality(Tokens(g)) = Cardinality(Tokens(call)) /\ Cardinality(ObjectUsers(g)) = Cardinality(ObjectUsers(call))
        /\ Cardinality(Holders(g)) = Cardinality(Holders(call)) + 1
    BY <1>1, <2>5, <2>6, Counts
  <2>9. c \in ObjectUsers(g) /\ \A k \in ObjectUsers(g) : g[k].object = o
    BY <1>1, <1>2, <2>5, <2>6, DispatcherTyped DEF ObjectUsers, CallsCounted
  <2>10. objects \in [Objects -> [slots : Int, users : Int]] /\ objects[o].slots = d.objects[o].slots + 1
         /\ objects[o].users = d.objects[o].users
    BY <1>2, DispatcherTyped DEF DispatcherSet
  <2>11. dispatcher' = [d EXCEPT !.objects = objects]
    BY <1>4, DispatcherTyped DEF Slot, DispatcherSet
  <2> HIDE DEF objects
  <2>12. /\ dispatcher' \in DispatcherSet /\ dispatcher'.server = o /\ dispatcher'.global = d.global
         /\ dispatcher'.limit = d.limit /\ dispatcher'.objects = objects
    BY <1>2, <2>10, <2>11, DispatcherTyped DEF DispatcherSet
  <2>13. /\ dispatcher'.global = Cardinality(Tokens(g)) /\ dispatcher'.global <= GlobalLimit
         /\ objects[o].users = Cardinality(ObjectUsers(g)) /\ objects[o].slots = Cardinality(Holders(g))
    BY <1>1, <1>2, <2>8, <2>10, <2>12, DispatcherTyped DEF CallsCounted
  <2>14. Cardinality(Holders(g)) <= dispatcher'.limit
    <3>1. d.objects[o].slots = Cardinality(Holders(call)) /\ d.limit \in Nat
      BY <1>1, <1>2, DispatcherTyped DEF CallsCounted, DispatcherSet
    <3> QED
      BY <1>4, <3>1, <2>8, <2>12
  <2>15. CallsCounted(dispatcher', g)
    BY <2>9, <2>12, <2>13, <2>14, CountedBusy
  <2> QED
    BY <1>3, <2>1, <2>2, <2>3, <2>4, <2>7, <2>12, <2>15, CallTakes DEF g
<1>5. CASE /\ call' = [call EXCEPT ![c].pc = "done", ![c].result = "pre_start", ![c].object = Nothing]
           /\ dispatcher' = releaseServer(d, o)
  <2> DEFINE y == [x EXCEPT !.pc = "done", !.result = "pre_start", !.object = Nothing]
  <2>1. call' = [call EXCEPT ![c] = y]
    BY <1>5, CallTyped
  <2>2. y \in CallSet
    BY <1>0 DEF CallSet, Pcs, Over, Results
  <2>3. Told(c, y, response[c], c \in wire.delivered, c \in fence.active)
    BY <1>0, <1>1, NothingIsNoResponse DEF CallSet, Told, Waiting, Admitting, Preparing, Talking, Over, Results
  <2>4. Notified(y) /\ Occupied(y)
    BY <1>0, <1>1 DEF CallSet, Told, Waiting, Notified, Occupied, Leasing, Admitting, Talking
  <2>5. y.object = Nothing /\ y.pc # "users" /\ ~Occupies(y) /\ x.pc # "leased" /\ y.used = x.used
    BY <1>0, <1>1 DEF CallSet, Occupies
  <2> HIDE DEF y
  <2>6. Leased'
    BY <2>1, <2>2, <2>5, StaysLeased DEF Keeps, AcquireSlot
  <2>7. GivesBack(d, dispatcher', o, 0)
    BY <1>2, <1>5, DispatcherTyped, ReleaseServer
  <2> QED
    BY <1>1, <1>3, <2>1, <2>2, <2>3, <2>4, <2>5, <2>6, <2>7, CallLeaves
<1> QED
  BY <1>4, <1>5 DEF AcquireSlot

LEMMA AcquireRegisterInv ==
  ASSUME CallInv, NEW c \in Calls, AcquireRegister(c), UNCHANGED <<fence, response>>
  PROVE  CallInv'
<1> DEFINE x == call[c]
           k == x.cap
<1>0. x \in CallSet /\ Told(c, x, response[c], c \in wire.delivered, c \in fence.active) /\ Notified(x) /\ Occupied(x)
  BY At
<1>1. CASE Moves(c, "leased") /\ capability' = [capability EXCEPT ![k].leases = @ \cup {c}]
  <2> DEFINE y == [x EXCEPT !.pc = "leased"]
  <2>1. call' = [call EXCEPT ![c] = y]
    BY <1>1, CallTyped DEF Moves
  <2>2. y \in CallSet
    BY <1>0 DEF CallSet, Pcs, Preparing
  <2>3. Told(c, y, response[c], c \in wire.delivered, c \in fence.active)
    BY <1>0, NothingIsNoResponse DEF AcquireRegister, CallSet, Told, Waiting, Admitting, Preparing, Talking, Over, Results
  <2>4. Notified(y) /\ Occupied(y)
    BY <1>0 DEF AcquireRegister, CallSet, Told, Waiting, Notified, Occupied, Leasing, Admitting, Talking
  <2>5. Quiet(x, y) /\ y.pc = "leased"
    BY <1>0 DEF AcquireRegister, Quiet, CallSet, Occupies, Occupied, Admitting
  <2> HIDE DEF y
  <2>6. capability' \in [Capabilities -> CapabilitySet] /\ dispatcher' \in DispatcherSet
        /\ UNCHANGED <<transport, route, dispatcher, wire, fence, response>>
    <3>1. ASSUME NEW q \in Capabilities PROVE capability'[q] \in CapabilitySet
      <4>1. capability[q] \in CapabilitySet
        BY DispatcherTyped
      <4>2. [capability[q] EXCEPT !.leases = capability[q].leases \cup {c}] \in CapabilitySet
        BY <4>1 DEF CapabilitySet
      <4>3. capability'[q] = IF q = k THEN [capability[q] EXCEPT !.leases = capability[q].leases \cup {c}] ELSE capability[q]
        BY <1>1, DispatcherTyped
      <4> QED
        BY <4>1, <4>2, <4>3
    <3>2. DOMAIN capability' = Capabilities /\ capability' = [q \in Capabilities |-> capability'[q]]
      BY <1>1, DispatcherTyped
    <3>3. capability' \in [Capabilities -> CapabilitySet]
      BY <3>1, <3>2
    <3> QED
      BY <3>3, DispatcherTyped DEF AcquireRegister
  <2>7. Leased'
    <3> SUFFICES ASSUME NEW q \in Capabilities, NEW e \in Calls, e \in capability'[q].leases \cup capability'[q].withdrawing
                 PROVE  call'[e].pc = "leased" \/ call'[e].used
      BY DEF Leased
    <3>1. CASE e = c
      BY <2>1, <2>5, <3>1, CallTyped
    <3>2. CASE e # c
      <4>1. call'[e] = call[e]
        BY <2>1, <3>2, CallTyped
      <4>2. e \in capability[q].leases \cup capability[q].withdrawing
        BY <1>1, <3>2, DispatcherTyped DEF CapabilitySet
      <4> QED
        BY <4>1, <4>2 DEF CallInv, Leased
    <3> QED
      BY <3>1, <3>2
  <2>8. CallsCounted(dispatcher', [call EXCEPT ![c] = y])
    BY <2>5, <2>6, DispatcherTyped, SameCounts
  <2> QED
    BY <2>1, <2>2, <2>3, <2>4, <2>6, <2>7, <2>8, CallTakes
<1>2. CASE Moves(c, "refuse") /\ UNCHANGED capability
  <2> DEFINE y == [x EXCEPT !.pc = "refuse"]
  <2>1. call' = [call EXCEPT ![c] = y]
    BY <1>2, CallTyped DEF Moves
  <2>2. y \in CallSet
    BY <1>0 DEF CallSet, Pcs, Admitting
  <2>3. Quiet(x, y) /\ Keeps(x, y)
    BY <1>0 DEF AcquireRegister, Quiet, Keeps, CallSet, Occupies
  <2>4. Told(c, y, response[c], c \in wire.delivered, c \in fence.active)
    BY <1>0, NothingIsNoResponse DEF AcquireRegister, CallSet, Told, Waiting, Admitting, Preparing, Talking, Over, Results
  <2>5. Notified(y) /\ Occupied(y)
    BY <1>0 DEF AcquireRegister, CallSet, Told, Waiting, Notified, Occupied, Leasing, Admitting, Talking
  <2> HIDE DEF y
  <2>6. UNCHANGED <<transport, route, capability, dispatcher, wire, fence, response>>
    BY <1>2 DEF AcquireRegister
  <2> QED
    BY <2>1, <2>2, <2>3, <2>4, <2>5, <2>6, CallGoes
<1> QED
  BY <1>1, <1>2 DEF AcquireRegister

LEMMA AcquireRefusedInv ==
  ASSUME CallInv, NEW c \in Calls, AcquireRefused(c), UNCHANGED <<fence, response>>
  PROVE  CallInv'
<1> DEFINE x == call[c]
           d == dispatcher
           o == x.object
           y == [x EXCEPT !.pc = "done", !.result = "pre_start", !.object = Nothing]
<1>0. x \in CallSet /\ Told(c, x, response[c], c \in wire.delivered, c \in fence.active) /\ Notified(x) /\ Occupied(x)
  BY At
<1>1. x.pc = "refuse" /\ o # Nothing /\ Occupies(x)
  BY <1>0 DEF AcquireRefused, Occupied, Occupies
<1>2. o \in Objects /\ d.server = o
  BY <1>1, AtServer
<1>3. capability' \in [Capabilities -> CapabilitySet] /\ UNCHANGED <<transport, route, wire, fence, response>>
  BY DispatcherTyped DEF AcquireRefused
<1>4. call' = [call EXCEPT ![c] = y]
  BY CallTyped DEF AcquireRefused
<1>5. y \in CallSet
  BY <1>0 DEF CallSet, Pcs, Over, Results
<1>6. Told(c, y, response[c], c \in wire.delivered, c \in fence.active)
  BY <1>0, <1>1, NothingIsNoResponse DEF CallSet, Told, Waiting, Admitting, Preparing, Talking, Over, Results
<1>7. Notified(y) /\ Occupied(y)
  BY <1>0, <1>1 DEF CallSet, Told, Waiting, Notified, Occupied, Leasing, Admitting, Talking
<1>8. y.object = Nothing /\ y.pc # "users" /\ ~Occupies(y) /\ x.pc # "leased" /\ y.used = x.used
  BY <1>0, <1>1 DEF CallSet, Occupies
<1> HIDE DEF y
<1>9. Leased'
  BY <1>4, <1>5, <1>8, StaysLeased DEF Keeps, AcquireRefused
<1>10. GivesBack(d, dispatcher', o, 1)
  BY <1>2, DispatcherTyped, ReleaseServer DEF AcquireRefused
<1> QED
  BY <1>1, <1>3, <1>4, <1>5, <1>6, <1>7, <1>8, <1>9, <1>10, CallLeaves

\* Fewer leases, and calls that keep theirs.
LEMMA FewerLeases ==
  ASSUME CallInv, NEW c \in Calls, NEW y \in CallSet, call' = [call EXCEPT ![c] = y], Keeps(call[c], y),
         \A k \in Capabilities : capability'[k].leases \cup capability'[k].withdrawing
                                   \subseteq capability[k].leases \cup capability[k].withdrawing
  PROVE  Leased'
BY CallTyped DEF Keeps, CallInv, Leased

LEMMA ReleaseSlotInv ==
  ASSUME CallInv, NEW c \in Calls, ReleaseSlot(c), UNCHANGED <<fence, response>>
  PROVE  CallInv'
<1> DEFINE x == call[c]
           d == dispatcher
           o == x.object
           k == x.cap
<1>0. x \in CallSet /\ Told(c, x, response[c], c \in wire.delivered, c \in fence.active) /\ Notified(x) /\ Occupied(x)
  BY At
<1>1. CASE x.released /\ Moves(c, "done") /\ UNCHANGED <<capability, dispatcher>>
  <2> DEFINE y == [x EXCEPT !.pc = "done"]
  <2>1. call' = [call EXCEPT ![c] = y]
    BY <1>1, CallTyped DEF Moves
  <2>2. y \in CallSet
    BY <1>0 DEF CallSet, Pcs, Over
  <2>3. Quiet(x, y) /\ Keeps(x, y)
    BY <1>0, <1>1 DEF ReleaseSlot, Quiet, Keeps, CallSet, Occupies
  <2>4. Told(c, y, response[c], c \in wire.delivered, c \in fence.active)
    BY <1>0, NothingIsNoResponse DEF ReleaseSlot, CallSet, Told, Waiting, Admitting, Preparing, Talking, Over, Results
  <2>5. Notified(y) /\ Occupied(y)
    BY <1>0, <1>1 DEF ReleaseSlot, CallSet, Waiting, Notified, Occupied, Leasing, Admitting, Talking
  <2> HIDE DEF y
  <2>6. UNCHANGED <<transport, route, capability, dispatcher, wire, fence, response>>
    BY <1>1 DEF ReleaseSlot
  <2> QED
    BY <2>1, <2>2, <2>3, <2>4, <2>5, <2>6, CallGoes
<1>2. CASE /\ ~x.released /\ call' = [call EXCEPT ![c].pc = "released", ![c].released = TRUE]
           /\ capability' = [capability EXCEPT ![k].leases = @ \ {c}]
           /\ dispatcher' = Slot(d, o, -1)
  <2> DEFINE y == [x EXCEPT !.pc = "released", !.released = TRUE]
             g == [call EXCEPT ![c] = y]
             objects == [d.objects EXCEPT ![o] = [d.objects[o] EXCEPT !.slots = d.objects[o].slots - 1]]
  <2>a. x.pc = "release" /\ o # Nothing /\ Occupies(x)
    BY <1>0, <1>2 DEF ReleaseSlot, Occupied, Occupies, Leasing
  <2>b. o \in Objects /\ d.server = o
    BY <2>a, AtServer
  <2>1. call' = g
    BY <1>2, CallTyped
  <2>2. y \in CallSet
    BY <1>0 DEF CallSet, Pcs, Over
  <2>3. Told(c, y, response[c], c \in wire.delivered, c \in fence.active)
    BY <1>0, NothingIsNoResponse DEF ReleaseSlot, CallSet, Told, Waiting, Admitting, Preparing, Talking, Over, Results
  <2>4. Notified(y) /\ Occupied(y)
    BY <1>0, <2>a DEF CallSet, Waiting, Notified, Occupied, Leasing, Admitting, Talking
  <2>5. y.object = o /\ ~Occupies(y) /\ HasToken(y) /\ HasToken(x) /\ Keeps(x, y)
    BY <1>0, <2>a DEF CallSet, Occupies, HasToken, Keeps
  <2> HIDE DEF y
  <2>6. \A q \in Calls : g[q] = IF q = c THEN y ELSE call[q]
    BY CallTyped
  <2>7. \A q \in Capabilities :
            capability'[q] = IF q = k THEN [capability[q] EXCEPT !.leases = capability[q].leases \ {c}] ELSE capability[q]
    BY <1>2, DispatcherTyped
  <2>8. ASSUME NEW q \in Capabilities
        PROVE  /\ capability'[q] \in CapabilitySet
               /\ capability'[q].leases \subseteq capability[q].leases /\ capability'[q].withdrawing = capability[q].withdrawing
    <3>1. capability[q] \in CapabilitySet
      BY DispatcherTyped
    <3> DEFINE less == [capability[q] EXCEPT !.leases = capability[q].leases \ {c}]
    <3>2. less \in CapabilitySet /\ less.leases \subseteq capability[q].leases /\ less.withdrawing = capability[q].withdrawing
      BY <3>1 DEF CapabilitySet
    <3> HIDE DEF less
    <3>3. capability'[q] = IF q = k THEN less ELSE capability[q]
      BY <2>7 DEF less
    <3> QED
      BY <3>1, <3>2, <3>3
  <2>9. capability' = [q \in Capabilities |-> capability'[q]]
    BY <1>2, DispatcherTyped
  <2>10. capability' \in [Capabilities -> CapabilitySet]
    BY <2>8, <2>9
  <2>11. Leased'
    <3>1. \A q \in Capabilities : capability'[q].leases \cup capability'[q].withdrawing
                                    \subseteq capability[q].leases \cup capability[q].withdrawing
      BY <2>8
    <3> QED
      BY <2>1, <2>2, <2>5, <3>1, FewerLeases
  <2> HIDE DEF g
  <2>12. /\ Cardinality(Holders(call)) \in Nat
         /\ Cardinality(Tokens(g)) = Cardinality(Tokens(call)) /\ Cardinality(ObjectUsers(g)) = Cardinality(ObjectUsers(call))
         /\ Cardinality(Holders(g)) = Cardinality(Holders(call)) - 1
    BY <2>a, <2>5, <2>6, Counts
  <2>13. c \in ObjectUsers(g) /\ \A q \in ObjectUsers(g) : g[q].object = o
    BY <2>a, <2>b, <2>5, <2>6, DispatcherTyped DEF ObjectUsers, CallsCounted
  <2>14. objects \in [Objects -> [slots : Int, users : Int]] /\ objects[o].slots = d.objects[o].slots - 1
         /\ objects[o].users = d.objects[o].users
    BY <2>b, DispatcherTyped DEF DispatcherSet
  <2>15. dispatcher' = [d EXCEPT !.objects = objects]
    BY <1>2, DispatcherTyped DEF Slot, DispatcherSet
  <2> HIDE DEF objects
  <2>16. /\ dispatcher' \in DispatcherSet /\ dispatcher'.server = o /\ dispatcher'.global = d.global
         /\ dispatcher'.limit = d.limit /\ dispatcher'.objects = objects
    BY <2>b, <2>14, <2>15, DispatcherTyped DEF DispatcherSet
  <2>17. /\ dispatcher'.global = Cardinality(Tokens(g)) /\ dispatcher'.global <= GlobalLimit
         /\ objects[o].users = Cardinality(ObjectUsers(g)) /\ objects[o].slots = Cardinality(Holders(g))
    BY <2>a, <2>b, <2>12, <2>14, <2>16, DispatcherTyped DEF CallsCounted
  <2>18. Cardinality(Holders(g)) <= dispatcher'.limit
    <3>1. Cardinality(Holders(call)) <= d.limit /\ d.limit \in Nat
      BY DispatcherTyped DEF CallsCounted, DispatcherSet
    <3> QED
      BY <3>1, <2>12, <2>16
  <2>19. CallsCounted(dispatcher', g)
    BY <2>13, <2>16, <2>17, <2>18, CountedBusy
  <2>20. UNCHANGED <<transport, route, wire, fence, response>>
    BY DEF ReleaseSlot
  <2> QED
    BY <2>1, <2>2, <2>3, <2>4, <2>10, <2>11, <2>16, <2>19, <2>20, CallTakes DEF g
<1> QED
  BY <1>1, <1>2 DEF ReleaseSlot

LEMMA ReleaseUserInv ==
  ASSUME CallInv, NEW c \in Calls, ReleaseUser(c), UNCHANGED <<fence, response>>
  PROVE  CallInv'
<1> DEFINE x == call[c]
           d == dispatcher
           o == x.object
           y == [x EXCEPT !.pc = "done", !.object = Nothing]
<1>0. x \in CallSet /\ Told(c, x, response[c], c \in wire.delivered, c \in fence.active) /\ Notified(x) /\ Occupied(x)
  BY At
<1>1. x.pc = "released" /\ o # Nothing /\ ~Occupies(x)
  BY <1>0 DEF ReleaseUser, Occupied, Occupies
<1>2. o \in Objects /\ d.server = o
  BY <1>1, AtServer
<1>3. capability' \in [Capabilities -> CapabilitySet] /\ UNCHANGED <<transport, route, wire, fence, response>>
  BY DispatcherTyped DEF ReleaseUser
<1>4. call' = [call EXCEPT ![c] = y]
  BY CallTyped DEF ReleaseUser
<1>5. y \in CallSet
  BY <1>0 DEF CallSet, Pcs, Over
<1>6. Told(c, y, response[c], c \in wire.delivered, c \in fence.active)
  BY <1>0, <1>1, NothingIsNoResponse DEF CallSet, Told, Waiting, Admitting, Preparing, Talking, Over, Results
<1>7. Notified(y) /\ Occupied(y)
  BY <1>0, <1>1 DEF CallSet, Waiting, Notified, Occupied, Leasing, Admitting, Talking
<1>8. y.object = Nothing /\ y.pc # "users" /\ ~Occupies(y) /\ x.pc # "leased" /\ y.used = x.used
  BY <1>0, <1>1 DEF CallSet, Occupies
<1> HIDE DEF y
<1>9. Leased'
  BY <1>4, <1>5, <1>8, StaysLeased DEF Keeps, ReleaseUser
<1>10. GivesBack(d, dispatcher', o, 0)
  BY <1>2, DispatcherTyped, ReleaseServer DEF ReleaseUser
<1> QED
  BY <1>1, <1>3, <1>4, <1>5, <1>6, <1>7, <1>8, <1>9, <1>10, CallLeaves

-----------------------------------------------------------------------------
(* Publications and what the server sends. *)

LEMMA CatalogChanges ==
  ASSUME CallInv, UNCHANGED <<transport, dispatcher, wire, call, fence, response>>,
         route' \in Capabilities \cup {Nothing}, capability' \in [Capabilities -> CapabilitySet], Leased'
  PROVE  CallInv'
<1>1. CallTypes'
  BY DEF CallInv, CallTypes
<1>2. \A c \in Calls : Sound(c)'
  BY ZenonT(40) DEF CallInv, Sound, Told, Notified, shouldNotify, Occupied
<1>3. CallsCounted(dispatcher, call)'
  BY DEF CallInv
<1> QED
  BY <1>1, <1>2, <1>3 DEF CallInv

\* One capability changes.
LEMMA OneCapability ==
  ASSUME CallInv, NEW k, NEW z \in CapabilitySet, capability' = [capability EXCEPT ![k] = z]
  PROVE  /\ capability' \in [Capabilities -> CapabilitySet]
         /\ \A q \in Capabilities : capability'[q] = IF q = k THEN z ELSE capability[q]
BY DispatcherTyped

LEMMA ReplaceInv ==
  ASSUME CallInv, NEW next \in Capabilities \cup {Nothing}, Replace(next), UNCHANGED <<fence, response>>
  PROVE  CallInv'
<1> DEFINE a == IF next = Nothing THEN "unavailable" ELSE "stale"
           z == [capability[route] EXCEPT !.current = FALSE, !.availability = a, !.withdrawing = {"pending"}]
<1>1. route \in Capabilities /\ capability[route] \in CapabilitySet
  BY DispatcherTyped DEF Replace, CallInv, CallTypes
<1>2. a \in {"unavailable", "stale"}
  OBVIOUS
<1>3. capability' = [capability EXCEPT ![route] = z]
  BY DispatcherTyped DEF Replace
<1> HIDE DEF a
<1>4. z \in CapabilitySet /\ z.leases = capability[route].leases /\ z.withdrawing = {"pending"}
  BY <1>1, <1>2 DEF CapabilitySet
<1> HIDE DEF z
<1>5. capability' \in [Capabilities -> CapabilitySet] /\ \A q \in Capabilities : capability'[q] = IF q = route THEN z ELSE capability[q]
  BY <1>3, <1>4, OneCapability
<1>6. Leased'
  <2> SUFFICES ASSUME NEW q \in Capabilities, NEW e \in Calls, e \in capability'[q].leases \cup capability'[q].withdrawing
               PROVE  call'[e].pc = "leased" \/ call'[e].used
    BY DEF Leased
  <2>1. call' = call
    BY DEF Replace
  <2>2. e \in capability[q].leases \cup capability[q].withdrawing
    BY <1>4, <1>5, PendingIsNoCall
  <2> QED
    BY <2>1, <2>2 DEF CallInv, Leased
<1>7. UNCHANGED <<transport, dispatcher, wire, call, fence, response>> /\ route' \in Capabilities \cup {Nothing}
  BY DEF Replace
<1> QED
  BY <1>5, <1>6, <1>7, CatalogChanges

LEMMA WithdrawBeginsInv ==
  ASSUME CallInv, NEW k \in Capabilities, WithdrawBegins(k), UNCHANGED <<fence, response>>
  PROVE  CallInv'
<1> DEFINE z == [capability[k] EXCEPT !.withdrawing = capability[k].leases]
<1>1. capability[k] \in CapabilitySet
  BY DispatcherTyped
<1>2. capability' = [capability EXCEPT ![k] = z]
  BY DispatcherTyped DEF WithdrawBegins
<1>3. z \in CapabilitySet /\ z.leases = capability[k].leases /\ z.withdrawing = capability[k].leases
  BY <1>1 DEF CapabilitySet
<1> HIDE DEF z
<1>4. capability' \in [Capabilities -> CapabilitySet] /\ \A q \in Capabilities : capability'[q] = IF q = k THEN z ELSE capability[q]
  BY <1>2, <1>3, OneCapability
<1>5. Leased'
  <2> SUFFICES ASSUME NEW q \in Capabilities, NEW e \in Calls, e \in capability'[q].leases \cup capability'[q].withdrawing
               PROVE  call'[e].pc = "leased" \/ call'[e].used
    BY DEF Leased
  <2>1. call' = call
    BY DEF WithdrawBegins
  <2>2. e \in capability[q].leases \cup capability[q].withdrawing
    BY <1>3, <1>4
  <2> QED
    BY <2>1, <2>2 DEF CallInv, Leased
<1>6. UNCHANGED <<transport, dispatcher, wire, call, fence, response>> /\ route' \in Capabilities \cup {Nothing}
  BY DEF WithdrawBegins, CallInv, CallTypes
<1> QED
  BY <1>4, <1>5, <1>6, CatalogChanges

LEMMA WithdrawCancelsInv ==
  ASSUME CallInv, NEW k \in Capabilities, NEW c \in Calls, WithdrawCancels(k, c), UNCHANGED <<fence, response>>
  PROVE  CallInv'
<1> DEFINE v == call[c]
           x == [v EXCEPT !.leaseCancelled = TRUE]
           unused == ~x.used /\ ~x.released
           l == IF unused THEN capability[k].leases \ {c} ELSE capability[k].leases
           z == [capability[k] EXCEPT !.withdrawing = capability[k].withdrawing \ {c}, !.leases = l]
<1>0. v \in CallSet /\ Told(c, v, response[c], c \in wire.delivered, c \in fence.active) /\ Notified(v) /\ Occupied(v)
  BY At
<1>1. /\ x \in CallSet /\ x.pc = v.pc /\ x.object = v.object /\ x.used = v.used /\ x.released = v.released
      /\ x.started = v.started /\ x.handedOff = v.handedOff /\ x.done = v.done /\ x.answer = v.answer
      /\ x.result = v.result /\ x.requested = v.requested /\ x.sent = v.sent
  BY <1>0 DEF CallSet
<1>2. Told(c, x, response[c], c \in wire.delivered, c \in fence.active) /\ Notified(x) /\ Occupied(x)
  BY <1>0, <1>1 DEF Told, Notified, Occupied
<1>3. call' = [call EXCEPT ![c] = IF x.started THEN RequestCancellation(x, "withdraw")
                                  ELSE IF unused THEN [x EXCEPT !.released = TRUE, !.object = Nothing] ELSE x]
      /\ dispatcher' = IF unused THEN releaseServer(Slot(dispatcher, x.object, -1), x.object) ELSE dispatcher
  BY DEF WithdrawCancels
<1>4. capability' = [capability EXCEPT ![k] = z]
  BY DispatcherTyped DEF WithdrawCancels, CapabilitySet
<1>5. z \in CapabilitySet /\ z.leases \cup z.withdrawing \subseteq capability[k].leases \cup capability[k].withdrawing
  <2>1. capability[k] \in CapabilitySet /\ l \subseteq capability[k].leases
    BY DispatcherTyped
  <2> HIDE DEF l
  <2> QED
    BY <2>1 DEF CapabilitySet
<1>6. v.pc = "leased" \/ v.used
  BY DEF WithdrawCancels, CallInv, Leased
<1> HIDE DEF z
<1>7. capability' \in [Capabilities -> CapabilitySet] /\ \A q \in Capabilities : capability'[q] = IF q = k THEN z ELSE capability[q]
  BY <1>4, <1>5, OneCapability
<1>8. \A q \in Capabilities : capability'[q].leases \cup capability'[q].withdrawing
                                \subseteq capability[q].leases \cup capability[q].withdrawing
  BY <1>5, <1>7
<1>9. UNCHANGED <<transport, route, wire, fence, response>>
  BY DEF WithdrawCancels
<1> HIDE DEF x
<1>10. ASSUME NEW y \in CallSet, call' = [call EXCEPT ![c] = y], UNCHANGED dispatcher,
              y.pc = x.pc, y.object = x.object, y.released = x.released, y.used = x.used, y.started = x.started,
              y.handedOff = x.handedOff, y.done = x.done, y.answer = x.answer, y.result = x.result, x.done => y = x
       PROVE  CallInv'
  <2>1. Quiet(v, y) /\ Keeps(v, y)
    BY <1>1, <1>10 DEF Quiet, Keeps, Occupies
  <2>2. Told(c, y, response[c], c \in wire.delivered, c \in fence.active)
    BY <1>2, <1>10 DEF Told
  <2>3. Notified(y) /\ Occupied(y)
    BY <1>2, <1>10 DEF Notified, Occupied
  <2>4. Leased'
    BY <1>8, <1>10, <2>1, FewerLeases
  <2>5. CallsCounted(dispatcher', [call EXCEPT ![c] = y])
    BY <1>10, <2>1, DispatcherTyped, SameCounts
  <2>6. dispatcher' \in DispatcherSet
    BY <1>10, DispatcherTyped
  <2> QED
    BY <1>7, <1>9, <1>10, <2>2, <2>3, <2>4, <2>5, <2>6, CallTakes
<1>11. CASE x.started
  <2> DEFINE y == RequestCancellation(x, "withdraw")
  <2>1. call' = [call EXCEPT ![c] = y]
    BY <1>3, <1>11
  <2>2. ~unused /\ UNCHANGED dispatcher
    BY <1>2, <1>3, <1>11 DEF Occupied
  <2>3. /\ y \in CallSet
        /\ y.pc = x.pc /\ y.object = x.object /\ y.released = x.released /\ y.used = x.used
        /\ y.started = x.started /\ y.handedOff = x.handedOff /\ y.done = x.done
        /\ y.answer = x.answer /\ y.result = x.result
        /\ x.done => y = x
    BY <1>1, Cancelled
  <2> HIDE DEF y
  <2> QED
    BY <1>10, <2>1, <2>2, <2>3
<1>12. CASE ~x.started /\ ~unused
  <2>1. call' = [call EXCEPT ![c] = x] /\ UNCHANGED dispatcher
    BY <1>3, <1>12
  <2> QED
    BY <1>1, <1>10, <2>1
<1>13. CASE ~x.started /\ unused
  <2> DEFINE y == [x EXCEPT !.released = TRUE, !.object = Nothing]
             o == v.object
  <2>1. call' = [call EXCEPT ![c] = y] /\ dispatcher' = releaseServer(Slot(dispatcher, o, -1), o)
    BY <1>1, <1>3, <1>13
  <2>2. v.pc = "leased" /\ o # Nothing /\ Occupies(v)
    BY <1>0, <1>1, <1>6, <1>13 DEF Occupied, Leasing, Occupies
  <2>3. /\ y \in CallSet /\ y.pc = x.pc /\ y.object = Nothing /\ y.released /\ y.used = x.used
        /\ y.started = x.started /\ y.handedOff = x.handedOff /\ y.done = x.done /\ y.answer = x.answer
        /\ y.result = x.result /\ y.requested = x.requested /\ y.sent = x.sent
    BY <1>1 DEF CallSet
  <2> HIDE DEF y
  <2>4. Told(c, y, response[c], c \in wire.delivered, c \in fence.active)
    BY <1>2, <2>3 DEF Told
  <2>5. Notified(y)
    BY <1>2, <2>3 DEF Notified
  <2>6. Occupied(y)
    BY <1>1, <1>13, <2>2, <2>3 DEF Occupied, Waiting, Admitting, Leasing
  <2>7. y.pc # "users" /\ ~Occupies(y) /\ Keeps(v, y)
    BY <1>1, <2>2, <2>3 DEF Occupies, Keeps
  <2>8. Leased'
    BY <1>8, <2>1, <2>3, <2>7, FewerLeases
  <2>9. o \in Objects /\ dispatcher.server = o
    BY <2>2, AtServer
  <2>10. GivesBack(dispatcher, dispatcher', o, 1)
    BY <2>1, <2>9, DispatcherTyped, ReleaseServer
  <2> QED
    BY <1>7, <1>9, <2>1, <2>2, <2>3, <2>4, <2>5, <2>6, <2>7, <2>8, <2>10, CallLeaves
<1> QED
  BY <1>11, <1>12, <1>13

LEMMA WireChanges ==
  ASSUME CallInv, UNCHANGED <<transport, route, capability, dispatcher, call, fence, response>>,
         wire' \in WireSet, wire'.delivered = wire.delivered
  PROVE  CallInv'
<1>1. CallTypes'
  BY DEF CallInv, CallTypes, WireSet
<1>2. \A c \in Calls : Sound(c)'
  BY ZenonT(40) DEF CallInv, Sound, Told, Notified, shouldNotify, Occupied
<1>3. CallsCounted(dispatcher, call)' /\ Leased'
  BY DEF CallInv, Leased
<1> QED
  BY <1>1, <1>2, <1>3 DEF CallInv

LEMMA ServerAnswersInv ==
  ASSUME CallInv, NEW c \in Calls, ServerAnswers(c), UNCHANGED <<fence, response>>
  PROVE  CallInv'
<1>1. PICK body \in {"ok", "error", "lost"} :
         wire' = [wire EXCEPT !.answered = @ \cup {c}, !.frames = Append(@, [id |-> c, body |-> body])]
  BY DEF ServerAnswers
<1>2. [id |-> c, body |-> body] \in Frame
  BY DEF Frame
<1>3. wire \in WireSet /\ Append(wire.frames, [id |-> c, body |-> body]) \in Seq(Frame)
  BY <1>2, WireTyped DEF WireSet
<1>4. wire' \in WireSet /\ wire'.delivered = wire.delivered
  BY <1>1, <1>3 DEF WireSet
<1> QED
  BY <1>4, WireChanges DEF ServerAnswers

LEMMA ExchangeReturnsInv ==
  ASSUME CallInv, NEW c \in Calls, ExchangeReturns(c), UNCHANGED <<fence, response>>
  PROVE  CallInv'
<1> DEFINE x == call[c]
<1>0. x \in CallSet /\ Told(c, x, response[c], c \in wire.delivered, c \in fence.active) /\ Notified(x) /\ Occupied(x)
  BY At
<1>1. ASSUME NEW i \in 1 .. Len(wire.frames),
             call' = [call EXCEPT ![c].pc = IF wire.frames[i].body = "lost" THEN "lost" ELSE "returned",
                                  ![c].answer = wire.frames[i]],
             wire' = [wire EXCEPT !.frames = SubSeq(@, 1, i - 1) \o SubSeq(@, i + 1, Len(@))]
      PROVE  CallInv'
  <2> DEFINE s == wire.frames
             p == IF s[i].body = "lost" THEN "lost" ELSE "returned"
             a == s[i]
             y == [x EXCEPT !.pc = p, !.answer = a]
  <2>1. wire \in WireSet /\ s \in Seq(Frame) /\ a \in Frame
    BY <1>1, WireTyped, SMTT(30) DEF WireSet
  <2>2. SubSeq(s, 1, i - 1) \o SubSeq(s, i + 1, Len(s)) \in Seq(Frame)
    <3>1. SubSeq(s, 1, i - 1) \in Seq(Frame) /\ SubSeq(s, i + 1, Len(s)) \in Seq(Frame)
      BY <2>1, SubSeqProperties, LenProperties
    <3> QED
      BY <3>1, ConcatProperties
  <2>3. wire' \in WireSet /\ wire'.delivered = wire.delivered
    BY <1>1, <2>1, <2>2 DEF WireSet
  <2>4. p \in {"lost", "returned"}
    OBVIOUS
  <2>5. call' = [call EXCEPT ![c] = y]
    BY <1>1, CallTyped
  <2> HIDE DEF p, a
  <2>6. y \in CallSet
    BY <1>0, <2>1, <2>4 DEF CallSet, Pcs, Talking
  <2>7. /\ y.pc = p /\ y.object = x.object /\ y.released = x.released /\ y.used = x.used
        /\ y.started = x.started /\ y.handedOff = x.handedOff /\ y.done = x.done /\ y.answer = a
        /\ y.result = x.result /\ y.requested = x.requested /\ y.sent = x.sent
    BY <1>0 DEF CallSet
  <2> HIDE DEF y
  <2>8. x.pc = "await"
    BY DEF ExchangeReturns
  <2>9. Quiet(x, y) /\ Keeps(x, y)
    BY <2>4, <2>7, <2>8 DEF Quiet, Keeps, Occupies
  <2>10. Told(c, y, response[c], c \in wire'.delivered, c \in fence.active)
    BY <1>0, <2>1, <2>3, <2>4, <2>7, <2>8, NothingIsNoResponse DEF Told, Waiting, Admitting, Preparing, Talking, Over
  <2>11. Notified(y) /\ Occupied(y)
    BY <1>0, <2>4, <2>7, <2>8 DEF Told, Notified, Occupied, Leasing, Waiting, Admitting, Talking
  <2>12. UNCHANGED <<transport, route, capability, dispatcher, fence, response>>
    BY DEF ExchangeReturns
  <2> QED
    BY <2>3, <2>5, <2>6, <2>9, <2>10, <2>11, <2>12, CallTalks
<1>2. CASE call' = [call EXCEPT ![c].pc = "returned", ![c].answer = Failed] /\ UNCHANGED wire
  BY <1>2, FailsToTalk DEF ExchangeReturns
<1> QED
  BY <1>1, <1>2 DEF ExchangeReturns

-----------------------------------------------------------------------------
(* The pipeline around the calls, and the invariant. *)

LEMMA TransportGoes ==
  ASSUME CallInv, CloseTransport \/ ServerStopsReading \/ ServerReadsAgain, UNCHANGED <<fence, response>>
  PROVE  CallInv'
<1>0. UNCHANGED <<route, capability, dispatcher, wire, call>>
  BY DEF CloseTransport, ServerStopsReading, ServerReadsAgain
<1>1. CallTypes' /\ transport'.kind = transport.kind /\ transport'.era = transport.era
  BY <1>0 DEF CloseTransport, ServerStopsReading, ServerReadsAgain, CallInv, CallTypes
<1>2. shouldNotify' = shouldNotify
  BY <1>1 DEF shouldNotify
<1>3. \A c \in Calls : Sound(c)'
  BY <1>0, <1>2, ZenonT(40) DEF CallInv, Sound, Told, Notified, Occupied
<1>4. CallsCounted(dispatcher, call)' /\ Leased'
  BY <1>0 DEF CallInv, Leased
<1> QED
  BY <1>1, <1>3, <1>4 DEF CallInv

\* A step of the pipeline moves one call, its response and its place behind the fence.
LEMMA CallPasses ==
  ASSUME CallInv, NEW c \in Calls, NEW y \in CallSet, call' = [call EXCEPT ![c] = y],
         UNCHANGED <<transport, route, capability, dispatcher, wire>>,
         fence' \in [draining : BOOLEAN, active : SUBSET Calls], DOMAIN response' = Calls,
         \A d \in Calls \ {c} : response'[d] = response[d] /\ (d \in fence'.active <=> d \in fence.active),
         Quiet(call[c], y), Keeps(call[c], y),
         Told(c, y, response'[c], c \in wire.delivered, c \in fence'.active),
         Notified(y), Occupied(y)
  PROVE  CallInv'
<1>1. CallTypes'
  BY DEF CallInv, CallTypes
<1>2. Told(c, y, response'[c], c \in wire'.delivered, c \in fence'.active)
  OBVIOUS
<1>3. \A d \in Calls \ {c} : /\ response'[d] = response[d]
                             /\ d \in wire'.delivered <=> d \in wire.delivered
                             /\ d \in fence'.active <=> d \in fence.active
  OBVIOUS
<1> QED
  BY <1>1, <1>2, <1>3, CallSteps

LEMMA FenceTyped ==
  CallInv => fence \in [draining : BOOLEAN, active : SUBSET Calls] /\ DOMAIN response = Calls /\ route \in Capabilities \cup {Nothing}
BY DEF CallInv, CallTypes

LEMMA EnterInv ==
  ASSUME CallInv, NEW c \in Calls, Enter(c)
  PROVE  CallInv'
<1> DEFINE x == call[c]
           y == [x EXCEPT !.pc = "resolve"]
<1>0. x \in CallSet /\ Told(c, x, response[c], c \in wire.delivered, c \in fence.active) /\ Notified(x) /\ Occupied(x)
  BY At
<1>1. call' = [call EXCEPT ![c] = y]
  BY CallTyped DEF Enter, Moves
<1>2. y \in CallSet
  BY <1>0 DEF CallSet, Pcs, Waiting
<1>3. Quiet(x, y) /\ Keeps(x, y)
  BY <1>0 DEF Enter, Quiet, Keeps, CallSet, Occupies
<1>4. fence' \in [draining : BOOLEAN, active : SUBSET Calls] /\ \A d \in Calls \ {c} : d \in fence'.active <=> d \in fence.active
  BY FenceTyped DEF Enter
<1>5. UNCHANGED <<transport, route, capability, dispatcher, wire, response>>
  BY DEF Enter
<1>6. Told(c, y, response'[c], c \in wire.delivered, c \in fence'.active)
  BY <1>0, <1>5, NothingIsNoResponse DEF Enter, CallSet, Told, Waiting, Admitting, Preparing, Talking, Over
<1>7. Notified(y) /\ Occupied(y)
  BY <1>0 DEF Enter, CallSet, Told, Notified, Occupied, Leasing, Waiting, Admitting, Talking
<1> HIDE DEF y
<1> QED
  BY <1>1, <1>2, <1>3, <1>4, <1>5, <1>6, <1>7, FenceTyped, CallPasses

LEMMA AdmitInv ==
  ASSUME CallInv, NEW c \in Calls, Admit(c)
  PROVE  CallInv'
<1> DEFINE x == call[c]
<1>0. x \in CallSet /\ Told(c, x, response[c], c \in wire.delivered, c \in fence.active) /\ Notified(x) /\ Occupied(x)
  BY At
<1>1. UNCHANGED <<transport, route, capability, dispatcher, wire>> /\ x.pc = "resolve"
  BY DEF Admit
<1>2. CASE /\ call' = [call EXCEPT ![c].pc = "done"] /\ response' = [response EXCEPT ![c] = "rejected"]
           /\ fence' = [fence EXCEPT !.active = @ \ {c}]
  <2> DEFINE y == [x EXCEPT !.pc = "done"]
  <2>1. call' = [call EXCEPT ![c] = y]
    BY <1>2, CallTyped
  <2>2. y \in CallSet
    BY <1>0 DEF CallSet, Pcs, Over
  <2>3. Quiet(x, y) /\ Keeps(x, y)
    BY <1>0, <1>1 DEF Quiet, Keeps, CallSet, Occupies
  <2>4. /\ fence' \in [draining : BOOLEAN, active : SUBSET Calls] /\ c \notin fence'.active
        /\ \A d \in Calls \ {c} : d \in fence'.active <=> d \in fence.active
    BY <1>2, FenceTyped
  <2>5. DOMAIN response' = Calls /\ response'[c] = "rejected" /\ \A d \in Calls \ {c} : response'[d] = response[d]
    BY <1>2, FenceTyped
  <2>6. ~x.handedOff /\ ~x.done /\ c \notin wire.delivered
    BY <1>0, <1>1 DEF Told, Waiting
  <2>7. /\ y.pc = "done" /\ y.handedOff = x.handedOff /\ y.result = x.result /\ y.answer = x.answer /\ y.done = x.done
        /\ y.object = x.object /\ y.released = x.released /\ y.used = x.used /\ y.started = x.started
    BY <1>0 DEF CallSet
  <2> HIDE DEF y
  <2>9. Told(c, y, response'[c], c \in wire.delivered, c \in fence'.active)
    BY <2>4, <2>5, <2>6, <2>7 DEF Told, Waiting, Admitting, Preparing, Talking, Over
  <2>10. Notified(y) /\ Occupied(y)
    BY <1>0, <1>1, <2>6, <2>7 DEF Notified, Occupied, Leasing, Waiting, Admitting, Talking
  <2> QED
    BY <1>1, <2>1, <2>2, <2>3, <2>4, <2>5, <2>9, <2>10, CallPasses
<1>3. CASE /\ route # Nothing /\ call' = [call EXCEPT ![c].pc = "acquire", ![c].cap = route]
           /\ UNCHANGED <<response, fence>>
  <2> DEFINE y == [x EXCEPT !.pc = "acquire", !.cap = route]
  <2>1. call' = [call EXCEPT ![c] = y]
    BY <1>3, CallTyped
  <2>2. y \in CallSet
    BY <1>0, FenceTyped DEF CallSet, Pcs, Waiting
  <2>3. Quiet(x, y) /\ Keeps(x, y)
    BY <1>0, <1>1 DEF Quiet, Keeps, CallSet, Occupies
  <2>4. Told(c, y, response[c], c \in wire.delivered, c \in fence.active)
    BY <1>0, <1>1, NothingIsNoResponse DEF CallSet, Told, Waiting, Admitting, Preparing, Talking, Over
  <2>5. Notified(y) /\ Occupied(y)
    BY <1>0, <1>1 DEF CallSet, Told, Notified, Occupied, Leasing, Waiting, Admitting, Talking
  <2> HIDE DEF y
  <2> QED
    BY <1>1, <1>3, <2>1, <2>2, <2>3, <2>4, <2>5, CallGoes
<1> QED
  BY <1>2, <1>3 DEF Admit

LEMMA RespondInv ==
  ASSUME CallInv, NEW c \in Calls, Respond(c)
  PROVE  CallInv'
<1> DEFINE x == call[c]
           class == TerminalClass(x.result)
<1>0. x \in CallSet /\ Told(c, x, response[c], c \in wire.delivered, c \in fence.active) /\ Notified(x) /\ Occupied(x)
  BY At
<1>1. /\ x.pc = "done" /\ x.result \in Results
      /\ x.result = "pre_start" => ~x.handedOff
      /\ x.result = "ok" => x.answer = [id |-> c, body |-> "ok"]
  BY <1>0 DEF Respond, Told, Over
<1>2. /\ class \in {"succeeded", "downstream_failure", "prestart_failure", "outcome_unknown"}
      /\ class = "succeeded" => x.result = "ok"
      /\ class = "prestart_failure" => x.result = "pre_start"
  BY <1>1 DEF TerminalClass, Results
<1>3. /\ response' = [response EXCEPT ![c] = class] /\ fence' = [fence EXCEPT !.active = @ \ {c}]
      /\ UNCHANGED <<transport, route, capability, dispatcher, wire, call>>
  BY DEF Respond, downstreamVars
<1> HIDE DEF class
<1>4. /\ fence' \in [draining : BOOLEAN, active : SUBSET Calls] /\ c \notin fence'.active
      /\ \A d \in Calls \ {c} : d \in fence'.active <=> d \in fence.active
  BY <1>3, FenceTyped
<1>5. DOMAIN response' = Calls /\ response'[c] = class /\ \A d \in Calls \ {c} : response'[d] = response[d]
  BY <1>3, FenceTyped
<1>6. call' = [call EXCEPT ![c] = x]
  BY <1>3, CallTyped
<1>7. Quiet(x, x) /\ Keeps(x, x)
  BY DEF Quiet, Keeps
<1>8. Told(c, x, response'[c], c \in wire.delivered, c \in fence'.active)
  BY <1>0, <1>1, <1>2, <1>4, <1>5 DEF Told
<1> QED
  BY <1>0, <1>3, <1>4, <1>5, <1>6, <1>7, <1>8, CallPasses

LEMMA DrainInv ==
  ASSUME CallInv, Drain
  PROVE  CallInv'
<1>0. UNCHANGED <<transport, route, capability, dispatcher, wire, call, response>>
  BY DEF Drain, downstreamVars
<1>1. fence' \in [draining : BOOLEAN, active : SUBSET Calls] /\ fence'.active = fence.active
  BY FenceTyped DEF Drain
<1>2. CallTypes'
  BY <1>0, <1>1 DEF CallInv, CallTypes
<1>3. \A c \in Calls : Sound(c)'
  BY <1>0, <1>1, ZenonT(40) DEF CallInv, Sound, Told, Notified, shouldNotify, Occupied
<1>4. CallsCounted(dispatcher, call)' /\ Leased'
  BY <1>0 DEF CallInv, Leased
<1> QED
  BY <1>2, <1>3, <1>4 DEF CallInv

LEMMA CallsStart == CallsInit => CallInv
<1> SUFFICES ASSUME CallsInit PROVE CallInv
  OBVIOUS
<1>1. /\ \A c \in Calls : call[c] = Fresh
      /\ call = [c \in Calls |-> Fresh] /\ response = [c \in Calls |-> Nothing]
      /\ wire = [delivered |-> {}, answered |-> {}, frames |-> <<>>] /\ fence = [draining |-> FALSE, active |-> {}]
  BY DEF CallsInit, DownstreamInit
<1>2. Fresh \in CallSet
  BY DEF Fresh, CallSet, Pcs, Waiting
<1>3. CallTypes
  <2>1. transport \in [kind : {"stdio", "http"}, era : {"modern", "legacy"}, closed : BOOLEAN, reading : {"yet", "not", "again"}]
        /\ route \in Capabilities \cup {Nothing}
    BY DEF CallsInit, DownstreamInit
  <2>2. NewCapability \in CapabilitySet
    BY DEF NewCapability, CapabilitySet
  <2>3. capability \in [Capabilities -> CapabilitySet]
    BY <2>2 DEF CallsInit, DownstreamInit
  <2>4. dispatcher \in DispatcherSet
    <3>1. [o \in Objects |-> [slots |-> 0, users |-> 0]] \in [Objects -> [slots : Int, users : Int]]
      OBVIOUS
    <3>2. dispatcher.limit \in Nat /\ dispatcher = [global |-> 0, limit |-> dispatcher.limit, server |-> Nothing,
                                                   objects |-> [o \in Objects |-> [slots |-> 0, users |-> 0]]]
      BY DispatchLimits DEF CallsInit, DownstreamInit
    <3> QED
      BY <3>1, <3>2 DEF DispatcherSet
  <2>5. wire \in [delivered : SUBSET Calls, answered : SUBSET Calls, frames : Seq(Frame)]
    BY <1>1
  <2>6. call \in [Calls -> CallSet] /\ DOMAIN response = Calls /\ fence \in [draining : BOOLEAN, active : SUBSET Calls]
    BY <1>1, <1>2
  <2> QED
    BY <2>1, <2>3, <2>4, <2>5, <2>6 DEF CallTypes
<1>4. \A c \in Calls : Sound(c)
  <2>1. \A c \in Calls : Told(c, Fresh, Nothing, FALSE, FALSE)
    BY NothingIsNoResponse DEF Told, Fresh, Waiting, Admitting, Preparing, Talking, Over
  <2>2. Notified(Fresh) /\ Occupied(Fresh)
    BY DEF Notified, Occupied, Fresh, Leasing, Talking, Waiting, Admitting
  <2> QED
    BY <1>1, <2>1, <2>2 DEF Sound, Told
<1>5. CallsCounted(dispatcher, call)
  <2>1. Tokens(call) = {} /\ ObjectUsers(call) = {} /\ Holders(call) = {}
    BY <1>1 DEF Tokens, ObjectUsers, Holders, Occupies, Fresh
  <2>2. dispatcher.global = 0 /\ dispatcher.server = Nothing /\ dispatcher.limit \in Nat
    BY DispatchLimits DEF CallsInit, DownstreamInit
  <2> QED
    BY <2>1, <2>2, DispatchLimits, FS_EmptySet DEF CallsCounted
<1>6. Leased
  BY DEF CallsInit, DownstreamInit, NewCapability, Leased
<1> QED
  BY <1>3, <1>4, <1>5, <1>6 DEF CallInv

LEMMA DispatchStepInv ==
  ASSUME CallInv, NEW c \in Calls, DispatchStep(c), UNCHANGED <<fence, response>>
  PROVE  CallInv'
BY AcquireGlobalInv, AcquireServerInv, AcquireSlotInv, AcquireRevalidateInv, AcquireRegisterInv, AcquireRefusedInv,
   ExecuteChecksInv, ExecuteStartsInv, ReleaseSlotInv, ReleaseUserInv, ExecuteInv, EnrollInv, ExchangeBeginsInv, TakeExchangeInv,
   MarkHandoffInv, WriteRequestInv, ExchangeReturnsInv, PerformReturnsInv, ExecuteReturnsInv, SessionLostInv
   DEF DispatchStep

LEMMA DownstreamStepInv ==
  ASSUME CallInv, DownstreamStep, UNCHANGED <<fence, response>>
  PROVE  CallInv'
<1>1. ASSUME NEW c \in Calls, DispatchStep(c) \/ ContextEnds(c) \/ WatchFires(c) \/ SendCancellation(c) \/ ServerAnswers(c) \/ CloseCancels(c)
      PROVE  CallInv'
  BY <1>1, DispatchStepInv, ContextEndsInv, WatchFiresInv, SendCancellationInv, ServerAnswersInv, CloseCancelsInv
<1>2. ASSUME NEW next \in Capabilities \cup {Nothing}, Replace(next) PROVE CallInv'
  BY <1>2, ReplaceInv
<1>3. ASSUME NEW k \in Capabilities, WithdrawBegins(k) \/ \E c \in Calls : WithdrawCancels(k, c) PROVE CallInv'
  BY <1>3, WithdrawBeginsInv, WithdrawCancelsInv
<1>4. CASE CloseBegins
  BY <1>4, Unmoved DEF CloseBegins
<1>5. CASE CloseTransport \/ ServerStopsReading \/ ServerReadsAgain
  BY <1>5, TransportGoes
<1> QED
  BY <1>1, <1>2, <1>3, <1>4, <1>5 DEF DownstreamStep

LEMMA CallsStep == CallInv /\ [CallsNext]_callsVars => CallInv'
<1> SUFFICES ASSUME CallInv, [CallsNext]_callsVars PROVE CallInv'
  OBVIOUS
<1>1. ASSUME NEW c \in Calls, CallStep(c) PROVE CallInv'
  BY <1>1, EnterInv, AdmitInv, RespondInv DEF CallStep
<1>2. CASE Drain
  BY <1>2, DrainInv
<1>3. CASE DownstreamStep /\ UNCHANGED <<trafficVars, processVars, fence, response>>
  BY <1>3, DownstreamStepInv
<1>4. CASE UNCHANGED <<downstreamVars, fence, response>>
  BY <1>4, Unmoved DEF downstreamVars
<1> QED
  BY <1>1, <1>2, <1>3, <1>4 DEF CallsNext, HistoryStep, callsVars

\* The inductive invariant of the calls, for any number of them, of publications
\* and of tokens: what a call holds and was told at each place, that the counts
\* of the dispatcher are the calls that hold, and whose a lease is.
THEOREM CallsInvariant == CallsSpec => []CallInv
BY CallsStart, CallsStep, PTL DEF CallsSpec

\* What the agent and the server are told about one call agrees: a call said not
\* to have started never reached the server, a success is the server's answer to
\* that call, and a cancelled call that may be running was cancelled once
\* (call.go Execute, requestCancellation, finish; result.go SanitizeCallResult).
THEOREM StoriesAgree == CallsSpec => []OneStory
<1>1. ASSUME CallInv PROVE OneStory
  <2>1. \A c \in Calls : call[c] \in CallSet /\ Told(c, call[c], response[c], c \in wire.delivered, c \in fence.active) /\ Notified(call[c])
    BY <1>1, At
  <2>2. HonestOutcome
    BY <2>1 DEF HonestOutcome, Told
  <2>3. CancellationIsSent
    <3>1. \A n \in {0, 1} : n <= 1
      OBVIOUS
    <3> QED
      BY <2>1, <3>1 DEF CancellationIsSent, Notified, CallSet
  <2> QED
    BY <2>2, <2>3 DEF OneStory
<1> QED
  BY <1>1, CallsInvariant, PTL
-----------------------------------------------------------------------------
(* Negotiation and its processes. *)

ProcessSet ==
  [slot : {"none", "held"}, alive : BOOLEAN, children : BOOLEAN, stdout : {"none", "reading", "done"},
   stderr : {"none", "reading", "done"}, frames : Int, failure : BOOLEAN, requested : BOOLEAN,
   exited : BOOLEAN, finished : BOOLEAN, cancelled : BOOLEAN, callers : SUBSET {"reader", "context", "close"},
   stopper : {"reader", "context", "close", Absent},
   stop : {"none", "graceful", "join", "confirmed", "unconfirmed"}]

Probing == {"discover", "close_probe", "closing_probe", "open_fresh"}
NegotiationSet ==
  [mode : {"modern", "legacy", "auto"}, coordinator : Procs \cup {Absent},
   pc : {"idle", "initialize", "modern", "legacy", "close_failed", "closing_failed", "failed"} \cup Probing]

\* A process that is not counted is gone, one that was waited for has ended, and a stop was asked for or came too late.
Supervised(x) ==
  /\ x.slot = "none" => ~x.alive /\ x.stdout # "reading" /\ x.stderr # "reading"
  /\ x.exited => ~x.alive
  /\ x.finished => x.exited
  /\ x.stop = "confirmed" => x.finished
  /\ x.stop # "none" => x.requested \/ x.exited

\* Which process the negotiator has, and that the other one is not yet or no longer there.
NegotiationInv ==
  /\ process \in [Procs -> ProcessSet] /\ negotiation \in NegotiationSet
  /\ \A p \in Procs : Supervised(process[p])
  /\ negotiation.pc = "idle" => \A p \in Procs : process[p].slot = "none"
  /\ negotiation.pc \in Probing => negotiation.coordinator = "probe"
  /\ negotiation.pc \notin {"idle", "failed"} => negotiation.coordinator \in Procs
  /\ negotiation.coordinator = "fresh" /\ negotiation.pc \notin {"idle", "failed"} => process["probe"].finished
  /\ negotiation.coordinator = "probe" /\ negotiation.pc \notin {"idle", "failed"} => process["fresh"].slot = "none"
  /\ process["fresh"].slot = "held" \/ negotiation.pc = "open_fresh" => process["probe"].finished
  /\ negotiation.pc = "failed" => \A p \in Procs : process[p].alive => process[p].requested


LEMMA ProcessTyped ==
  ASSUME NegotiationInv, NEW p \in Procs
  PROVE  process[p] \in ProcessSet /\ Supervised(process[p]) /\ process \in [Procs -> ProcessSet]
BY DEF NegotiationInv

\* One process moves while the negotiator waits.
LEMMA ProcessMoves ==
  ASSUME NegotiationInv, NEW p \in Procs, NEW y \in ProcessSet, process' = [process EXCEPT ![p] = y], UNCHANGED negotiation,
         Supervised(y), y.slot \in {process[p].slot, "none"}, process[p].finished => y.finished,
         y.alive => process[p].alive, process[p].requested => y.requested
  PROVE  NegotiationInv'
<1>1. /\ \A q \in Procs : process'[q] = IF q = p THEN y ELSE process[q]
      /\ process' \in [Procs -> ProcessSet]
  BY DEF NegotiationInv
<1>2. \A q \in Procs : /\ Supervised(process'[q]) /\ process'[q].slot \in {process[q].slot, "none"}
                       /\ process[q].finished => process'[q].finished
                       /\ process'[q].alive => process[q].alive
                       /\ process[q].requested => process'[q].requested
  BY <1>1 DEF NegotiationInv
<1> QED
  BY <1>1, <1>2 DEF NegotiationInv, Procs, Probing

LEMMA ReadsInv ==
  ASSUME NegotiationInv, NEW p \in Procs, ReadFrame(p) \/ ReadStderr(p) \/ ReaderEnds(p)
  PROVE  NegotiationInv'
<1> DEFINE x == process[p]
<1>0. x \in ProcessSet /\ Supervised(x) /\ process \in [Procs -> ProcessSet]
  BY ProcessTyped
<1>1. ASSUME NEW y \in ProcessSet, process' = [process EXCEPT ![p] = y], UNCHANGED negotiation,
             y.slot = x.slot, y.alive = x.alive, y.requested = x.requested, y.exited = x.exited, y.finished = x.finished,
             y.stop = x.stop, y.stdout \in {x.stdout, "done"}, y.stderr \in {x.stderr, "done"}
      PROVE  NegotiationInv'
  <2>1. Supervised(y)
    BY <1>0, <1>1 DEF Supervised
  <2> QED
    BY <1>1, <2>1, ProcessMoves
<1>2. CASE ReadFrame(p)
  <2>1. CASE x.cancelled
    <3> DEFINE y == [x EXCEPT !.stdout = "done"]
    <3>1. y \in ProcessSet /\ y.slot = x.slot /\ y.alive = x.alive /\ y.requested = x.requested /\ y.exited = x.exited
          /\ y.finished = x.finished /\ y.stop = x.stop /\ y.stdout \in {x.stdout, "done"} /\ y.stderr \in {x.stderr, "done"}
      BY <1>0 DEF ProcessSet
    <3>2. process' = [process EXCEPT ![p] = y] /\ UNCHANGED negotiation
      BY <1>2, <2>1 DEF ReadFrame
    <3> HIDE DEF y
    <3> QED
      BY <1>1, <3>1, <3>2
  <2>2. CASE ~x.cancelled /\ x.frames = FrameQueue
    <3> DEFINE y == [x EXCEPT !.stdout = "done", !.failure = TRUE, !.callers = x.callers \cup {"reader"}]
    <3>1. y \in ProcessSet /\ y.slot = x.slot /\ y.alive = x.alive /\ y.requested = x.requested /\ y.exited = x.exited
          /\ y.finished = x.finished /\ y.stop = x.stop /\ y.stdout \in {x.stdout, "done"} /\ y.stderr \in {x.stderr, "done"}
      BY <1>0 DEF ProcessSet
    <3>2. StoppedBy([x EXCEPT !.stdout = "done", !.failure = TRUE], "reader") = y
      BY <1>0 DEF StoppedBy, ProcessSet
    <3>3. process' = [process EXCEPT ![p] = y] /\ UNCHANGED negotiation
      BY <1>2, <2>2, <3>2 DEF ReadFrame
    <3> HIDE DEF y
    <3> QED
      BY <1>1, <3>1, <3>3
  <2>3. CASE ~x.cancelled /\ x.frames # FrameQueue
    <3> DEFINE y == [x EXCEPT !.frames = x.frames + 1]
    <3>1. y \in ProcessSet /\ y.slot = x.slot /\ y.alive = x.alive /\ y.requested = x.requested /\ y.exited = x.exited
          /\ y.finished = x.finished /\ y.stop = x.stop /\ y.stdout \in {x.stdout, "done"} /\ y.stderr \in {x.stderr, "done"}
      BY <1>0 DEF ProcessSet
    <3>2. process' = [process EXCEPT ![p] = y] /\ UNCHANGED negotiation
      BY <1>2, <2>3 DEF ReadFrame
    <3> HIDE DEF y
    <3> QED
      BY <1>1, <3>1, <3>2
  <2> QED
    BY <2>1, <2>2, <2>3
<1>3. CASE ReadStderr(p)
  <2>1. CASE process' = [process EXCEPT ![p] = StoppedBy([x EXCEPT !.stderr = "done", !.failure = TRUE], "reader")]
    <3> DEFINE y == [x EXCEPT !.stderr = "done", !.failure = TRUE, !.callers = x.callers \cup {"reader"}]
    <3>1. y \in ProcessSet /\ y.slot = x.slot /\ y.alive = x.alive /\ y.requested = x.requested /\ y.exited = x.exited
          /\ y.finished = x.finished /\ y.stop = x.stop /\ y.stdout \in {x.stdout, "done"} /\ y.stderr \in {x.stderr, "done"}
      BY <1>0 DEF ProcessSet
    <3>2. StoppedBy([x EXCEPT !.stderr = "done", !.failure = TRUE], "reader") = y
      BY <1>0 DEF StoppedBy, ProcessSet
    <3>3. process' = [process EXCEPT ![p] = y] /\ UNCHANGED negotiation
      BY <1>3, <2>1, <3>2 DEF ReadStderr
    <3> HIDE DEF y
    <3> QED
      BY <1>1, <3>1, <3>3
  <2>2. CASE process' = [process EXCEPT ![p].stderr = "done"]
    <3> DEFINE y == [x EXCEPT !.stderr = "done"]
    <3>1. y \in ProcessSet /\ y.slot = x.slot /\ y.alive = x.alive /\ y.requested = x.requested /\ y.exited = x.exited
          /\ y.finished = x.finished /\ y.stop = x.stop /\ y.stdout \in {x.stdout, "done"} /\ y.stderr \in {x.stderr, "done"}
      BY <1>0 DEF ProcessSet
    <3>2. process' = [process EXCEPT ![p] = y] /\ UNCHANGED negotiation
      BY <1>0, <1>3, <2>2 DEF ReadStderr
    <3> HIDE DEF y
    <3> QED
      BY <1>1, <3>1, <3>2
  <2> QED
    BY <1>3, <2>1, <2>2 DEF ReadStderr
<1>4. CASE ReaderEnds(p) /\ process' = [process EXCEPT ![p] = [x EXCEPT !.stdout = "done", !.stderr = "done"]]
  <2> DEFINE y == [x EXCEPT !.stdout = "done", !.stderr = "done"]
  <2>1. y \in ProcessSet /\ y.slot = x.slot /\ y.alive = x.alive /\ y.requested = x.requested /\ y.exited = x.exited
        /\ y.finished = x.finished /\ y.stop = x.stop /\ y.stdout \in {x.stdout, "done"} /\ y.stderr \in {x.stderr, "done"}
    BY <1>0 DEF ProcessSet
  <2>2. process' = [process EXCEPT ![p] = y] /\ UNCHANGED negotiation
    BY <1>0, <1>4 DEF ReaderEnds
  <2> HIDE DEF y
  <2> QED
    BY <1>1, <2>1, <2>2
<1>5. CASE ReaderEnds(p) /\ process' # [process EXCEPT ![p] = [x EXCEPT !.stdout = "done", !.stderr = "done"]]
  <2> DEFINE y == [x EXCEPT !.stdout = "done", !.stderr = "done", !.failure = TRUE, !.callers = x.callers \cup {"reader"}]
  <2>1. y \in ProcessSet /\ y.slot = x.slot /\ y.alive = x.alive /\ y.requested = x.requested /\ y.exited = x.exited
        /\ y.finished = x.finished /\ y.stop = x.stop /\ y.stdout \in {x.stdout, "done"} /\ y.stderr \in {x.stderr, "done"}
    BY <1>0 DEF ProcessSet
  <2>2. StoppedBy([[x EXCEPT !.stdout = "done", !.stderr = "done"] EXCEPT !.failure = TRUE], "reader") = y
    BY <1>0 DEF StoppedBy, ProcessSet
  <2>3. process' = [process EXCEPT ![p] = y] /\ UNCHANGED negotiation
    BY <1>5, <2>2 DEF ReaderEnds
  <2> HIDE DEF y
  <2> QED
    BY <1>1, <2>1, <2>3
<1> QED
  BY <1>2, <1>3, <1>4, <1>5

\* What happens to a process, and its supervision.
LEMMA LivesInv ==
  ASSUME NegotiationInv, NEW p \in Procs,
         ChildAppears(p) \/ ChildEnds(p) \/ ProcessEnds(p) \/ WaitReturns(p) \/ Reaped(p) \/ ContextDone(p)
  PROVE  NegotiationInv'
<1> DEFINE x == process[p]
<1>0. x \in ProcessSet /\ Supervised(x) /\ process \in [Procs -> ProcessSet]
  BY ProcessTyped
<1>1. ASSUME NEW b \in BOOLEAN, process' = [process EXCEPT ![p].children = b], UNCHANGED negotiation PROVE NegotiationInv'
  <2> DEFINE y == [x EXCEPT !.children = b]
  <2>1. y \in ProcessSet /\ Supervised(y) /\ y.slot = x.slot /\ y.finished = x.finished /\ y.alive = x.alive /\ y.requested = x.requested
    BY <1>0 DEF ProcessSet, Supervised
  <2>2. process' = [process EXCEPT ![p] = y]
    BY <1>0, <1>1
  <2> HIDE DEF y
  <2> QED
    BY <1>1, <2>1, <2>2, ProcessMoves
<1>2. CASE ProcessEnds(p)
  <2> DEFINE y == [x EXCEPT !.alive = FALSE]
  <2>1. y \in ProcessSet /\ Supervised(y) /\ y.slot = x.slot /\ y.finished = x.finished /\ ~y.alive /\ y.requested = x.requested
    BY <1>0 DEF ProcessSet, Supervised
  <2>2. process' = [process EXCEPT ![p] = y] /\ UNCHANGED negotiation
    BY <1>0, <1>2 DEF ProcessEnds
  <2> HIDE DEF y
  <2> QED
    BY <2>1, <2>2, ProcessMoves
<1>3. CASE WaitReturns(p)
  <2> DEFINE y == [x EXCEPT !.exited = TRUE]
  <2>1. y \in ProcessSet /\ Supervised(y) /\ y.slot = x.slot /\ y.finished = x.finished /\ y.alive = x.alive /\ y.requested = x.requested
    BY <1>0, <1>3 DEF WaitReturns, ProcessSet, Supervised
  <2>2. process' = [process EXCEPT ![p] = y] /\ UNCHANGED negotiation
    BY <1>0, <1>3 DEF WaitReturns
  <2> HIDE DEF y
  <2> QED
    BY <2>1, <2>2, ProcessMoves
<1>4. CASE Reaped(p)
  <2> DEFINE y == [x EXCEPT !.slot = "none", !.finished = TRUE, !.cancelled = TRUE]
  <2>1. y \in ProcessSet /\ Supervised(y) /\ y.slot = "none" /\ y.finished /\ y.alive = x.alive /\ y.requested = x.requested
    BY <1>0, <1>4 DEF Reaped, ProcessSet, Supervised
  <2>2. process' = [process EXCEPT ![p] = y] /\ UNCHANGED negotiation
    BY <1>0, <1>4 DEF Reaped
  <2> HIDE DEF y
  <2> QED
    BY <2>1, <2>2, ProcessMoves
<1>5. CASE ContextDone(p)
  <2> DEFINE y == [x EXCEPT !.callers = x.callers \cup {"context"}]
  <2>1. y \in ProcessSet /\ Supervised(y) /\ y.slot = x.slot /\ y.finished = x.finished /\ y.alive = x.alive /\ y.requested = x.requested
    BY <1>0 DEF ProcessSet, Supervised
  <2>2. process' = [process EXCEPT ![p] = y] /\ UNCHANGED negotiation
    BY <1>0, <1>5 DEF ContextDone, StoppedBy
  <2> HIDE DEF y
  <2> QED
    BY <2>1, <2>2, ProcessMoves
<1> QED
  BY <1>1, <1>2, <1>3, <1>4, <1>5 DEF ChildAppears, ChildEnds

LEMMA StopsInv ==
  ASSUME NegotiationInv, NEW p \in Procs,
         StopForces(p) \/ StopSettles(p) \/ StopNowReturns(p) \/ \E caller \in process[p].callers : StopBegins(p, caller)
  PROVE  NegotiationInv'
<1> DEFINE x == process[p]
<1>0. x \in ProcessSet /\ Supervised(x) /\ process \in [Procs -> ProcessSet]
  BY ProcessTyped
<1>1. ASSUME NEW s \in {"none", "graceful", "join", "confirmed", "unconfirmed"}, NEW w \in {x.stopper, Absent},
             process' = [process EXCEPT ![p].stop = s, ![p].stopper = w], UNCHANGED negotiation,
             s = "confirmed" => x.finished, s # "none" => x.stop # "none"
      PROVE  NegotiationInv'
  <2> DEFINE y == [x EXCEPT !.stop = s, !.stopper = w]
  <2>1. y \in ProcessSet /\ Supervised(y) /\ y.slot = x.slot /\ y.finished = x.finished /\ y.alive = x.alive /\ y.requested = x.requested
    BY <1>0, <1>1, ZenonT(40) DEF ProcessSet, Supervised
  <2>2. process' = [process EXCEPT ![p] = y]
    BY <1>0, <1>1
  <2> HIDE DEF y
  <2> QED
    BY <1>1, <2>1, <2>2, ProcessMoves
<1>2. ASSUME NEW s \in {"join", "confirmed", "unconfirmed"}, process' = [process EXCEPT ![p].stop = s], UNCHANGED negotiation,
             s = "confirmed" => x.finished, x.stop # "none"
      PROVE  NegotiationInv'
  <2>1. [process EXCEPT ![p].stop = s] = [process EXCEPT ![p].stop = s, ![p].stopper = x.stopper]
    BY <1>0, ZenonT(40) DEF ProcessSet
  <2> QED
    BY <1>1, <1>2, <2>1
<1>3. CASE StopForces(p)
  <2>1. CASE process' = [process EXCEPT ![p].alive = FALSE, ![p].children = FALSE, ![p].stop = "join"]
    <3> DEFINE y == [x EXCEPT !.alive = FALSE, !.children = FALSE, !.stop = "join"]
    <3>1. y \in ProcessSet /\ Supervised(y) /\ y.slot = x.slot /\ y.finished = x.finished /\ ~y.alive /\ y.requested = x.requested
      BY <1>0, <1>3 DEF StopForces, ProcessSet, Supervised
    <3>2. process' = [process EXCEPT ![p] = y] /\ UNCHANGED negotiation
      BY <1>0, <1>3, <2>1 DEF StopForces
    <3> HIDE DEF y
    <3> QED
      BY <3>1, <3>2, ProcessMoves
  <2>2. CASE process' = [process EXCEPT ![p].stop = IF process[p].exited THEN "join" ELSE "unconfirmed"]
    BY <1>2, <1>3, <2>2 DEF StopForces
  <2> QED
    BY <1>3, <2>1, <2>2 DEF StopForces
<1>4. CASE StopSettles(p)
  BY <1>2, <1>4 DEF StopSettles
<1>5. CASE StopNowReturns(p)
  BY <1>1, <1>5 DEF StopNowReturns
<1>6. ASSUME NEW caller \in x.callers, StopBegins(p, caller) PROVE NegotiationInv'
  <2>1. caller \in {"reader", "context", "close"} /\ x.callers \ {caller} \in SUBSET {"reader", "context", "close"}
    BY <1>0 DEF ProcessSet
  <2>2. ASSUME NEW s \in {"join", "graceful", "unconfirmed"}, s # "join" => ~x.exited, s = "join" => x.exited
        PROVE  LET y == [x EXCEPT !.callers = x.callers \ {caller}, !.stopper = caller, !.stop = s,
                                  !.requested = x.requested \/ ~x.exited, !.cancelled = x.cancelled \/ ~x.exited]
               IN  /\ y \in ProcessSet /\ Supervised(y) /\ y.slot = x.slot /\ y.finished = x.finished /\ y.alive = x.alive
                   /\ x.requested => y.requested
    <3> DEFINE r == x.requested \/ ~x.exited
               k == x.cancelled \/ ~x.exited
               y == [x EXCEPT !.callers = x.callers \ {caller}, !.stopper = caller, !.stop = s, !.requested = r, !.cancelled = k]
    <3>1. r \in BOOLEAN /\ k \in BOOLEAN /\ (x.requested => r) /\ (s # "join" => r)
      BY <2>2
    <3> HIDE DEF r, k
    <3>2. /\ y \in ProcessSet /\ y.slot = x.slot /\ y.finished = x.finished /\ y.alive = x.alive /\ y.requested = r
          /\ y.stdout = x.stdout /\ y.stderr = x.stderr /\ y.exited = x.exited /\ y.stop = s
      BY <1>0, <2>1, <3>1 DEF ProcessSet
    <3> HIDE DEF y
    <3>3. Supervised(y)
      BY <1>0, <2>2, <3>1, <3>2 DEF Supervised
    <3> QED
      BY <3>1, <3>2, <3>3 DEF y, r, k
  <2>3. PICK s \in {"join", "graceful", "unconfirmed"} :
           /\ s # "join" => ~x.exited
           /\ s = "join" => x.exited
           /\ process' = [process EXCEPT ![p] = [x EXCEPT !.callers = x.callers \ {caller}, !.stopper = caller, !.stop = s,
                             !.requested = x.requested \/ ~x.exited, !.cancelled = x.cancelled \/ ~x.exited]]
    <3>1. CASE process' = [process EXCEPT ![p] = [x EXCEPT !.callers = @ \ {caller}, !.stopper = caller,
                              !.stop = IF x.exited THEN "join" ELSE "graceful",
                              !.requested = @ \/ ~x.exited, !.cancelled = @ \/ ~x.exited]]
      <4>1. CASE x.exited
        BY <1>0, <3>1, <4>1 DEF ProcessSet
      <4>2. CASE ~x.exited
        BY <1>0, <3>1, <4>2 DEF ProcessSet
      <4> QED
        BY <4>1, <4>2
    <3>2. CASE ~x.exited /\ process' = [process EXCEPT ![p] = [x EXCEPT !.callers = @ \ {caller}, !.stopper = caller,
                                 !.stop = "unconfirmed", !.requested = TRUE, !.cancelled = TRUE]]
      BY <1>0, <3>2 DEF ProcessSet
    <3> QED
      BY <1>6, <3>1, <3>2 DEF StopBegins
  <2>4. UNCHANGED negotiation
    BY <1>6 DEF StopBegins
  <2> QED
    BY <2>2, <2>3, <2>4, ProcessMoves
<1> QED
  BY <1>3, <1>4, <1>5, <1>6

\* The negotiator's own steps.
LEMMA StartInv ==
  ASSUME NegotiationInv, NEW p \in Procs, NEW place \in {"initialize", "discover"}, Start(p, place),
         place = "discover" => p = "probe", p = "fresh" => process["probe"].finished
  PROVE  NegotiationInv'
<1> DEFINE y == [NotStarted EXCEPT !.slot = "held", !.alive = TRUE, !.stdout = "reading", !.stderr = "reading"]
<1>1. y \in ProcessSet /\ Supervised(y)
  <2>1. NotStarted \in ProcessSet /\ ~NotStarted.exited /\ ~NotStarted.finished /\ NotStarted.stop = "none"
    BY DEF NotStarted, ProcessSet
  <2>2. /\ y \in ProcessSet /\ y.slot = "held" /\ y.exited = NotStarted.exited /\ y.finished = NotStarted.finished
        /\ y.stop = NotStarted.stop
    BY <2>1 DEF ProcessSet
  <2> HIDE DEF y
  <2> QED
    BY <2>1, <2>2 DEF Supervised
<1>2. process' = [process EXCEPT ![p] = y] /\ \A q \in Procs : process[q].slot = "none"
  BY DEF Start
<1> HIDE DEF y
<1>3. process' \in [Procs -> ProcessSet] /\ \A q \in Procs : process'[q] = IF q = p THEN y ELSE process[q]
  BY <1>1, <1>2 DEF NegotiationInv
<1>4. negotiation' \in NegotiationSet /\ negotiation'.pc = place /\ negotiation'.coordinator = p
  BY DEF Start, NegotiationInv, NegotiationSet, Probing
<1>5. \A q \in Procs : Supervised(process'[q])
  BY <1>1, <1>3 DEF NegotiationInv
<1>6. p = "fresh" => process'["probe"].finished
  BY <1>3 DEF Procs
<1>7. p = "probe" => process'["fresh"].slot = "none"
  BY <1>2, <1>3 DEF Procs
<1> QED
  BY <1>3, <1>4, <1>5, <1>6, <1>7 DEF NegotiationInv, Procs, Probing

\* A process that is no longer wanted, or never was, is gone or asked to stop.
LEMMA FailsInv ==
  ASSUME NegotiationInv, negotiation' \in NegotiationSet, negotiation'.pc = "failed",
         process' \in [Procs -> ProcessSet],
         \A p \in Procs : /\ Supervised(process'[p])
                          /\ process'[p].alive => process'[p].requested
                          /\ process'[p].slot = process[p].slot /\ process'[p].finished = process[p].finished
  PROVE  NegotiationInv'
<1>1. /\ process' \in [Procs -> ProcessSet] /\ negotiation' \in NegotiationSet
      /\ \A p \in Procs : Supervised(process'[p])
      /\ negotiation'.pc = "failed" => \A p \in Procs : process'[p].alive => process'[p].requested
  OBVIOUS
<1>2. negotiation'.pc \notin {"idle", "open_fresh"} \cup Probing /\ negotiation'.pc \in {"idle", "failed"}
  BY DEF Probing
<1>3. process'["fresh"].slot = "held" => process'["probe"].finished
  BY DEF NegotiationInv, Procs
<1> QED
  BY <1>1, <1>2, <1>3 DEF NegotiationInv

\* While the negotiator has a process the other one is gone.
LEMMA OtherIsGone ==
  ASSUME NegotiationInv, negotiation.pc \notin {"idle", "failed"}, NEW p \in Procs, p # negotiation.coordinator
  PROVE  ~process[p].alive
BY DEF NegotiationInv, Supervised, Procs

LEMMA NegotiationStepInv ==
  ASSUME NegotiationInv, NegotiationStep
  PROVE  NegotiationInv'
<1> DEFINE p == negotiation.coordinator
<1>0. negotiation \in NegotiationSet /\ process \in [Procs -> ProcessSet]
  BY DEF NegotiationInv
<1>1. CASE OpenProbe
  <2>1. CASE Start("probe", IF negotiation.mode = "legacy" THEN "initialize" ELSE "discover")
    BY <2>1, StartInv DEF Procs
  <2>2. CASE StartFails
    <3>1. negotiation' \in NegotiationSet /\ negotiation'.pc = "failed" /\ process' = process
      BY <1>0, <2>2 DEF StartFails, NegotiationSet
    <3>2. \A q \in Procs : Supervised(process[q]) /\ ~process[q].alive
      BY <1>1 DEF OpenProbe, NegotiationInv, Supervised
    <3> QED
      BY <1>0, <3>1, <3>2, FailsInv
  <2> QED
    BY <1>1, <2>1, <2>2 DEF OpenProbe
<1>2. CASE OpenFresh
  <2>1. negotiation.pc = "open_fresh" /\ process["probe"].finished
    BY <1>2 DEF OpenFresh, NegotiationInv
  <2>2. CASE Start("fresh", "initialize")
    BY <2>1, <2>2, StartInv DEF Procs
  <2>3. CASE StartFails
    <3>1. negotiation' \in NegotiationSet /\ negotiation'.pc = "failed" /\ process' = process
      BY <1>0, <2>3 DEF StartFails, NegotiationSet
    <3>2. \A q \in Procs : Supervised(process[q]) /\ ~process[q].alive
      BY <2>1 DEF NegotiationInv, Supervised, Procs, Probing
    <3> QED
      BY <1>0, <3>1, <3>2, FailsInv
  <2> QED
    BY <1>2, <2>2, <2>3 DEF OpenFresh
<1>3. ASSUME NEW place \in {"modern", "legacy", "close_probe", "close_failed", "closing_probe", "closing_failed", "open_fresh"},
             Goes(place), negotiation.pc \notin {"idle", "failed", "open_fresh"},
             place \in Probing => negotiation.coordinator = "probe", place = "open_fresh" => process["probe"].finished,
             process' \in [Procs -> ProcessSet],
             \A q \in Procs : /\ Supervised(process'[q]) /\ process'[q].slot = process[q].slot
                              /\ process'[q].finished = process[q].finished
      PROVE  NegotiationInv'
  <2>1. negotiation' \in NegotiationSet /\ negotiation'.pc = place /\ negotiation'.coordinator = negotiation.coordinator
    BY <1>0, <1>3 DEF Goes, NegotiationSet, Probing
  <2> QED
    BY <1>3, <2>1 DEF NegotiationInv, Procs
<1>4. CASE Discover \/ Initialize
  <2>1. negotiation.pc = "discover" => p = "probe"
    BY DEF NegotiationInv, Probing
  <2>2. process' = process /\ \A q \in Procs : Supervised(process[q])
    BY <1>4 DEF Discover, Initialize, NegotiationInv
  <2>3. CASE Discover
    BY <1>0, <1>3, <2>1, <2>2, <2>3 DEF Discover, Probing
  <2>4. CASE Initialize
    BY <1>0, <1>3, <2>2, <2>4 DEF Initialize, Probing
  <2> QED
    BY <1>4, <2>3, <2>4
<1>5. CASE CloseCoordinator
  <2> DEFINE x == process[p]
             y == [x EXCEPT !.callers = x.callers \cup {"close"}]
  <2>1. p \in Procs /\ (negotiation.pc = "close_probe" => p = "probe")
    BY <1>5 DEF CloseCoordinator, NegotiationInv, Probing
  <2>2. x \in ProcessSet /\ Supervised(x)
    BY <2>1, ProcessTyped
  <2>3. process' = [process EXCEPT ![p] = y]
    BY <1>0, <1>5, <2>1 DEF CloseCoordinator, StoppedBy
  <2>4. y \in ProcessSet /\ Supervised(y) /\ y.slot = x.slot /\ y.finished = x.finished
    BY <2>2 DEF ProcessSet, Supervised
  <2> HIDE DEF y
  <2>5. process' \in [Procs -> ProcessSet] /\ \A q \in Procs : process'[q] = IF q = p THEN y ELSE process[q]
    BY <1>0, <2>1, <2>3, <2>4
  <2>6. \A q \in Procs : Supervised(process'[q]) /\ process'[q].slot = process[q].slot /\ process'[q].finished = process[q].finished
    BY <2>4, <2>5 DEF NegotiationInv
  <2> QED
    BY <1>3, <1>5, <2>1, <2>5, <2>6 DEF CloseCoordinator, Probing
<1>6. CASE CloseReturned
  <2> DEFINE x == process[p]
             y == [x EXCEPT !.stop = "none", !.stopper = Absent]
  <2>1. p \in Procs /\ (negotiation.pc = "closing_probe" => p = "probe")
    BY <1>6 DEF CloseReturned, NegotiationInv, Probing
  <2>2. x \in ProcessSet /\ Supervised(x) /\ (x.alive => x.requested) /\ (x.stop = "confirmed" => x.finished)
    BY <1>6, <2>1, ProcessTyped DEF CloseReturned, Supervised
  <2>3. process' = [process EXCEPT ![p] = y]
    BY <1>0, <1>6, <2>1 DEF CloseReturned
  <2>4. y \in ProcessSet /\ Supervised(y) /\ y.slot = x.slot /\ y.finished = x.finished /\ (y.alive => y.requested)
    BY <2>2 DEF ProcessSet, Supervised
  <2> HIDE DEF y
  <2>5. process' \in [Procs -> ProcessSet] /\ \A q \in Procs : process'[q] = IF q = p THEN y ELSE process[q]
    BY <1>0, <2>1, <2>3, <2>4
  <2>6. \A q \in Procs : Supervised(process'[q]) /\ process'[q].slot = process[q].slot /\ process'[q].finished = process[q].finished
    BY <2>4, <2>5 DEF NegotiationInv
  <2>7. CASE Goes("failed")
    <3>1. negotiation' \in NegotiationSet /\ negotiation'.pc = "failed"
      BY <1>0, <2>7 DEF Goes, NegotiationSet
    <3>2. \A q \in Procs : process'[q].alive => process'[q].requested
      BY <1>6, <2>4, <2>5, OtherIsGone DEF CloseReturned
    <3> QED
      BY <2>5, <2>6, <3>1, <3>2, FailsInv
  <2>8. CASE Goes("open_fresh") /\ negotiation.pc = "closing_probe" /\ x.stop = "confirmed"
    <3>1. p = "probe" /\ process["probe"].finished
      BY <2>1, <2>2, <2>8
    <3> QED
      BY <1>3, <2>5, <2>6, <2>8, <3>1
  <2> QED
    BY <1>6, <2>7, <2>8 DEF CloseReturned, AfterClose
<1> QED
  BY <1>1, <1>2, <1>4, <1>5, <1>6 DEF NegotiationStep

LEMMA NegotiationStarts == ProcessInit => NegotiationInv
<1>1. NotStarted \in ProcessSet /\ Supervised(NotStarted) /\ NotStarted.slot = "none" /\ ~NotStarted.alive
  BY DEF NotStarted, ProcessSet, Supervised
<1> QED
  BY <1>1 DEF ProcessInit, NegotiationInv, NegotiationSet, Probing, Procs

LEMMA NegotiationMoves == NegotiationInv /\ [CallsNext]_callsVars => NegotiationInv'
<1> SUFFICES ASSUME NegotiationInv, [CallsNext]_callsVars PROVE NegotiationInv'
  OBVIOUS
<1>1. CASE ProcessStep
  <2>1. ASSUME NEW p \in Procs,
               \/ SuperviseStep(p)
               \/ ReadFrame(p) \/ ReadStderr(p) \/ ContextDone(p)
               \/ ChildAppears(p) \/ ProcessEnds(p) \/ ChildEnds(p)
        PROVE  NegotiationInv'
    BY <2>1, ReadsInv, LivesInv, StopsInv DEF SuperviseStep
  <2> QED
    BY <1>1, <2>1, NegotiationStepInv DEF ProcessStep
<1>2. CASE UNCHANGED processVars
  BY <1>2 DEF processVars, NegotiationInv, Supervised
<1> QED
  BY <1>1, <1>2 DEF CallsNext, callsVars

\* The inductive invariant of a negotiation: which process the negotiator has,
\* that the other one is not there yet or no longer, and that a process which is
\* not counted is gone.
THEOREM NegotiationInvariant == CallsSpec => []NegotiationInv
BY NegotiationStarts, NegotiationMoves, PTL DEF CallsSpec, CallsInit

\* What a call or a process occupies is bounded and given back: across
\* publications no more calls than the limit hold a slot of the server and calls
\* that are over hold nothing, and no process runs that the supervisor does not
\* count or beside the one it replaces (capability.go Acquire, releaseServer;
\* stdio.go supervise; negotiation.go Negotiate).
THEOREM ResourcesStayOwned == CallsSpec => []ResourcesAreOwned
<1>1. ASSUME CallInv PROVE SlotsAreBounded
  <2>1. {c \in Calls : Holding(c)} = Holders(call)
    BY DEF Holding, Holders, Occupies
  <2>2. Cardinality(Holders(call)) <= dispatcher.limit /\ dispatcher.global <= GlobalLimit
    BY <1>1, DispatcherTyped DEF CallsCounted
  <2>3. ASSUME \A c \in Calls : call[c].pc \in {"idle", "resolve", "acquire", "done"}
        PROVE  dispatcher.global = 0 /\ dispatcher.server = Nothing
    <3>1. Tokens(call) = {} /\ ObjectUsers(call) = {}
      BY <1>1, <2>3, DispatcherTyped DEF Tokens, ObjectUsers, Occupied, Waiting
    <3> QED
      BY <1>1, <3>1, DispatcherTyped, FS_EmptySet DEF CallsCounted
  <2> QED
    BY <2>1, <2>2, <2>3 DEF SlotsAreBounded
<1>2. ASSUME NegotiationInv PROVE ProcessesAreOwned /\ FallbackAfterReap
  <2>1. \A p \in Procs : process[p].slot \in {"none", "held"} /\ Supervised(process[p])
    BY <1>2, ProcessTyped DEF ProcessSet
  <2>2. ProcessesAreOwned
    BY <1>2, <2>1 DEF NegotiationInv, Supervised, ProcessesAreOwned
  <2>3. FallbackAfterReap
    BY <1>2, <2>1 DEF NegotiationInv, Supervised, FallbackAfterReap, Procs
  <2> QED
    BY <2>2, <2>3
<1> QED
  BY <1>1, <1>2, CallsInvariant, NegotiationInvariant, PTL DEF ResourcesAreOwned

-----------------------------------------------------------------------------
(* Recovery of the history. *)

Fields == DOMAIN NewStore
StoreCurrent(s) == DOMAIN s = Fields /\ (~s.faulted => s.revision = s.validated)
StoreInv == StoreCurrent(store)

LEMMA FieldsAre ==
  {"open", "published", "closed", "draining", "faulted", "recoverable", "revision", "validated", "incident", "pending", "queued"} = Fields
BY DEF Fields, NewStore

\* A generation with other counts, flags or incident, and one that has failed.
LEMMA StoreKeeps ==
  ASSUME NEW s, StoreCurrent(s), NEW f \in Fields \ {"faulted", "revision", "validated"}, NEW v
  PROVE  StoreCurrent([s EXCEPT ![f] = v])
BY FieldsAre DEF StoreCurrent

LEMMA FailingKeeps ==
  ASSUME NEW s, StoreCurrent(s), NEW cause, NEW settlement
  PROVE  StoreCurrent(Failing(s, cause, settlement))
<1> DEFINE i == IF Recoverable(cause, settlement) THEN "recovering" ELSE "operator_action_required"
           t == [s EXCEPT !.faulted = TRUE, !.recoverable = Recoverable(cause, settlement), !.revision = s.revision + 1, !.incident = i]
<1>1. Failing(s, cause, settlement) \in {s, t}
  BY DEF Failing
<1>2. StoreCurrent(t)
  <2>1. DOMAIN t = DOMAIN s
    OBVIOUS
  <2>2. t.faulted
    BY FieldsAre DEF StoreCurrent
  <2> QED
    BY <2>1, <2>2 DEF StoreCurrent
<1> QED
  BY <1>1, <1>2

LEMMA EnqueueKeeps ==
  ASSUME StoreInv, NEW r, Enqueue(r)
  PROVE  StoreInv'
<1>1. ASSUME NEW q, store' = [store EXCEPT !.queued = q] PROVE StoreInv'
  BY <1>1, StoreKeeps, FieldsAre DEF StoreInv
<1>2. CASE UNCHANGED store
  BY <1>2 DEF StoreInv
<1> QED
  BY <1>1, <1>2 DEF Enqueue

LEMMA WriteEndsKeeps ==
  ASSUME StoreInv, NEW h, NEW cause, NEW settlement, NEW pending, WriteEnds(h, cause, settlement, pending)
  PROVE  StoreInv'
<1> DEFINE u == IF pending THEN "uncertain" ELSE settlement
           t == Failing(store, cause, u)
<1>1. StoreCurrent(t)
  BY FailingKeeps DEF StoreInv
<1>2. store' = IF cause = Nil THEN store ELSE [t EXCEPT !.pending = pending]
  BY DEF WriteEnds
<1> HIDE DEF t
<1>3. StoreCurrent([t EXCEPT !.pending = pending])
  BY <1>1, StoreKeeps, FieldsAre
<1> QED
  BY <1>2, <1>3 DEF StoreInv

LEMMA WriterKeeps ==
  ASSUME StoreInv, WriterStep
  PROVE  StoreInv'
<1>1. CASE UNCHANGED store
  BY <1>1 DEF StoreInv
<1>2. CASE Process
  <2>1. ASSUME NEW q, store' = [store EXCEPT !.queued = q] PROVE StoreInv'
    BY <2>1, StoreKeeps, FieldsAre DEF StoreInv
  <2> QED
    BY <1>1, <1>2, <2>1 DEF Process
<1>3. CASE Write
  BY <1>3, WriteEndsKeeps DEF Write
<1>4. CASE Settle
  <2> DEFINE q == store.queued - Len(writer.batch)
             i == IF writer.error = Nil /\ store.incident # Nil /\ ~store.faulted THEN "recovered" ELSE store.incident
  <2>1. store' = [[store EXCEPT !.queued = q] EXCEPT !.incident = i]
    BY <1>4, FieldsAre DEF Settle, StoreInv, StoreCurrent
  <2> HIDE DEF q, i
  <2>2. StoreCurrent([store EXCEPT !.queued = q])
    BY StoreKeeps, FieldsAre DEF StoreInv
  <2>3. StoreCurrent([[store EXCEPT !.queued = q] EXCEPT !.incident = i])
    BY <2>2, StoreKeeps, FieldsAre
  <2> QED
    BY <2>1, <2>3 DEF StoreInv
<1>5. CASE DrainTraffic
  BY <1>5, StoreKeeps, FieldsAre DEF DrainTraffic, StoreInv
<1>6. CASE RecoverBegins
  BY <1>6, StoreKeeps, FieldsAre DEF RecoverBegins, StoreInv
<1>7. CASE RecoverEnds
  <2>1. CASE /\ writer.revision = store.revision
             /\ store' = [store EXCEPT !.faulted = FALSE, !.recoverable = FALSE, !.incident = "degraded", !.validated = writer.revision]
    <3>1. DOMAIN store' = DOMAIN store
      BY <2>1
    <3>2. store'.revision = store.revision /\ store'.validated = writer.revision
      BY <2>1, FieldsAre DEF StoreInv, StoreCurrent
    <3> QED
      BY <2>1, <3>1, <3>2 DEF StoreInv, StoreCurrent
  <2> QED
    BY <1>1, <1>7, <2>1, FailingKeeps DEF RecoverEnds, StoreInv
<1> QED
  BY <1>1, <1>2, <1>3, <1>4, <1>5, <1>6, <1>7 DEF WriterStep, Gather

LEMMA OpenerKeeps ==
  ASSUME StoreInv, OpenerStep
  PROVE  StoreInv'
<1>1. CASE UNCHANGED store
  BY <1>1 DEF StoreInv
<1>2. CASE store' = [NewStore EXCEPT !.open = TRUE]
  <2>1. StoreCurrent(NewStore)
    BY DEF StoreCurrent, Fields, NewStore
  <2> QED
    BY <1>2, <2>1, StoreKeeps, FieldsAre DEF StoreInv
<1>3. CASE OpenPublishes
  <2> DEFINE i == IF facade.faulted THEN "degraded" ELSE Nil
  <2>1. CASE store' = [store EXCEPT !.closed = TRUE]
    BY <2>1, StoreKeeps, FieldsAre DEF StoreInv
  <2>2. CASE store' = [[store EXCEPT !.published = TRUE] EXCEPT !.incident = i]
    <3>1. StoreCurrent([store EXCEPT !.published = TRUE])
      BY StoreKeeps, FieldsAre DEF StoreInv
    <3> HIDE DEF i
    <3>2. StoreCurrent([[store EXCEPT !.published = TRUE] EXCEPT !.incident = i])
      BY <3>1, StoreKeeps, FieldsAre
    <3> QED
      BY <2>2, <3>2 DEF StoreInv
  <2>3. [store EXCEPT !.published = TRUE, !.incident = i] = [[store EXCEPT !.published = TRUE] EXCEPT !.incident = i]
    BY FieldsAre DEF StoreInv, StoreCurrent
  <2> QED
    BY <1>3, <2>1, <2>2, <2>3 DEF OpenPublishes
<1> QED
  BY <1>1, <1>2, <1>3 DEF OpenerStep, OpenAttempt, OpenRetries

LEMMA StoreMoves == StoreInv /\ [CallsNext]_callsVars => StoreInv'
<1> SUFFICES ASSUME StoreInv, [CallsNext]_callsVars PROVE StoreInv'
  OBVIOUS
<1>1. CASE UNCHANGED store
  BY <1>1 DEF StoreInv
<1>2. ASSUME NEW c \in Calls, CallStep(c) PROVE StoreInv'
  BY <1>1, <1>2, EnqueueKeeps DEF CallStep, Enter, Admit, Respond, ObserveMCP, ObserveMCPCompletion, trafficVars
<1>3. CASE Drain
  BY <1>3, StoreKeeps, FieldsAre DEF Drain, BeginDrain, StoreInv
<1>4. CASE HistoryStep
  <2>1. CASE ReadFails
    BY <2>1, FailingKeeps DEF ReadFails, StoreInv
  <2>2. CASE CloseFacade
    BY <2>2, StoreKeeps, FieldsAre DEF CloseFacade, StoreInv
  <2>3. CASE CloseReturns
    <3>1. StoreCurrent([store EXCEPT !.open = FALSE])
      BY StoreKeeps, FieldsAre DEF StoreInv
    <3>2. StoreCurrent([[store EXCEPT !.open = FALSE] EXCEPT !.published = FALSE])
      BY <3>1, StoreKeeps, FieldsAre
    <3>3. store' = [[store EXCEPT !.open = FALSE] EXCEPT !.published = FALSE]
      BY <2>3, FieldsAre DEF CloseReturns, StoreInv, StoreCurrent
    <3> QED
      BY <3>2, <3>3 DEF StoreInv
  <2>4. ASSUME NEW i \in TrafficIds, ObserveCollision(i) PROVE StoreInv'
    BY <2>4, EnqueueKeeps DEF ObserveCollision
  <2>5. CASE StartOpening
    BY <1>1, <2>5 DEF StartOpening
  <2> QED
    BY <1>4, <2>1, <2>2, <2>3, <2>4, <2>5, WriterKeeps, OpenerKeeps DEF HistoryStep
<1> QED
  BY <1>1, <1>2, <1>3, <1>4 DEF CallsNext, callsVars, trafficVars

\* A generation of the history is healthy only if a complete revalidation began
\* after the last failure that its readers or its writer reported
\* (traffic_recovery.go failureRevision).
THEOREM RecoveriesAreCurrent == CallsSpec => []RecoveryIsCurrent
<1>1. CallsInit => StoreInv
  BY DEF CallsInit, TrafficInit, StoreInv, StoreCurrent, Fields, NewStore
<1>2. StoreInv => RecoveryIsCurrent
  BY DEF StoreInv, StoreCurrent, RecoveryIsCurrent
<1> QED
  BY <1>1, <1>2, StoreMoves, PTL DEF CallsSpec

=============================================================================
