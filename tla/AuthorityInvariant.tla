------------------------- MODULE AuthorityInvariant -------------------------
(***************************************************************************)
(* The inductive invariant behind the safety properties of Authority: why  *)
(* a lease that survived a mutation is current, and why what an evaluation *)
(* saw is still in force when its candidate is confirmed.                  *)
(***************************************************************************)
EXTENDS Authority

RequestLabels == {"ready", "waiting", "won", "in", "read", "leave", "execute",
                  "held", "release", "swap", "remove", "done"}
AdminLabels == {"start", "ready", "waiting", "won", "in", "tx", "latch", "settle",
                "returned", "cancel", "leave", "done"}

\* Every process is at a point of its own program.
Labels ==
  /\ \A r \in Requests : pc[r] \in RequestLabels
  /\ \A a \in Admins : pc[a] \in AdminLabels
  /\ pc[Drainer] \in {"start", "fenced", "cancel", "drain", "done"}
  /\ pc[Drainer] # "start" <=> draining

\* A request has a lease from its registration on, and a lease it still has
\* to release until it removes it.
LeaseOwned ==
  \A r \in Requests :
    /\ stage[r] = "authenticate" /\ pc[r] \in {"ready", "waiting", "won", "in", "read"}
         => phase[r] = "none"
    /\ pc[r] = "leave" /\ result[r] = "ok" => phase[r] # "none"
    /\ pc[r] = "read" => stage[r] # "evaluate"
    /\ stage[r] # "authenticate" \/ pc[r] \in {"held", "execute", "release", "swap", "remove"}
         => phase[r] # "none"
    /\ pc[r] = "swap" => loaded[r] \in {"pending", "admitted"}
    /\ pc[r] = "remove" => phase[r] \in {"cancelled", "released"}
    /\ pc[r] = "done" => phase[r] \in {"none", "cancelled", "released"} /\ r \notin leases
    /\ r \in leases => phase[r] \in {"pending", "released"}
    /\ \A o \in Owners : r \in cancelling[o] => r \notin leases /\ phase[r] # "none"

\* Some admin that owns the gate has changed the principal of the lease, or
\* may have, and is bound to cancel the lease before it gives the gate back.
CancelIsDue(r) ==
  \E a \in Admins :
    /\ gate = a
    /\ binding[r].principal \in Affected(mutation[a])
    /\ \/ pc[a] = "latch" /\ r \in leases
       \/ pc[a] \in {"settle", "returned"} /\ r \in leases /\ (result[a] = "ok" \/ latched)
       \/ pc[a] = "cancel" /\ r \in cancelling[a]

\* A pending lease can be found: it is in the map, or an owner that took it
\* out is about to cancel it.
PendingIsTracked ==
  \A r \in Requests :
    phase[r] = "pending" =>
      r \in leases \/ draining \/ \E a \in Admins : pc[a] = "cancel" /\ r \in cancelling[a]

\* A pending lease is current, or its cancellation is due, or the process
\* drains and nothing can use it.
PendingIsCurrent ==
  \A r \in Requests :
    phase[r] = "pending" => CurrentBinding(binding[r]) \/ CancelIsDue(r) \/ draining

\* Between its view and its use, under the gate, a binding stays current.
ReadIsCurrent ==
  \A r \in Requests :
    pc[r] = "read" =>
      /\ CurrentBinding(binding[r])
      /\ stage[r] = "confirm" => candidate[r] = authRev

\* What a candidate's evaluation saw is in force as long as the authorization
\* revision has not moved.
Evaluated(r) == \/ stage[r] = "confirm"
                \/ stage[r] = "evaluate" /\ pc[r] = "leave" /\ result[r] = "ok"
CandidateIsSound ==
  \A r \in Requests :
    Evaluated(r) =>
      /\ candidate[r] <= authRev
      /\ candidate[r] = authRev => seen[r] \subseteq grants /\ grants \ seen[r] \subseteq expired
      /\ Decision(seen[r], binding[r].principal, target[r]) = "allow"

IInv ==
  /\ TypeOK /\ Labels /\ GateAccounting /\ LeaseOwned /\ PendingIsTracked
  /\ PendingIsCurrent /\ ReadIsCurrent /\ CandidateIsSound /\ DoneClosedOnce
=============================================================================
