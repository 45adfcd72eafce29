--------------------------- MODULE MCAdminSessions ---------------------------
(* Administrative sessions for TLC: two sign-ins for one slot and a change of the authority
   meet a second change, or an event stream and the end of the process. *)
EXTENDS AdminSessions

CONSTANTS n1, n2, e1, x1, x2, t1, a1, a2

(* The sign-ins and the changes arrive in one order, and a second change excludes the
   stream and the shutdown; a second sign-in excludes the two together. *)
Allowed ==
  /\ sign'[x1].pc = "idle" => sign'[x2].pc = "idle"
  /\ change'[a1].pc = "idle" => change'[a2].pc = "idle"
  /\ change'[a2].pc # "idle" => stream'[t1].pc = "idle" /\ drain' = "serving"
  /\ drain' = "serving" \/ stream'[t1].pc = "idle" \/ sign'[x2].pc = "idle"

MCNext == Next /\ Allowed
MCSpec == Init /\ [][MCNext]_vars /\ Fairness
=============================================================================
