----------------------------- MODULE MCIngress -----------------------------
(* Ingress on a small instance: an initialisation meets a second one that wants its slot,
   or a request that uses its session, or a timer that fires before it is installed. *)
EXTENDS Ingress

CONSTANTS r1, r2, r3, i1, i2, c1

Idle(r) == pc'[r] = "start"
Cancelled(s) == lease[s] = "current" /\ lease'[s] = "done" /\ pc' = pc /\ stage' = stage

\* Initialisations arrive in one order and each has an id of its own.  Once the second has
\* arrived the authority neither halts nor cancels.
Allowed ==
  /\ Idle(r2) \/ Idle(r3)
  /\ Idle(r1) => Idle(r2)
  /\ id'[r1] \in {None, i1} /\ id'[r2] \in {None, i2}
  /\ ~Idle(r2) => ~halted' /\ \A r \in Requests : ~Cancelled(r)
  /\ early' # {} => Idle(r2) /\ Idle(r3)

MCNext == Next /\ Allowed
MCSpec == Init /\ [][MCNext]_vars /\ WF_vars(Obliged)
=============================================================================
