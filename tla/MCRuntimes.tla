----------------------------- MODULE MCRuntimes -----------------------------
(* The runtime manager for TLC: a server meets an edit, or a callback of the credential
   services. *)
EXTENDS Runtimes

CONSTANTS s1, e1, c1

(* An edit and a callback exclude each other, and a callback a fault together with a shutdown.
   After an edit the shutdown begins before the fault.  A second fault meets no callback, and not
   both an edit and a shutdown. *)
Allowed ==
    /\ call'[e1].pc = "idle" \/ call'[c1].pc = "idle"
    /\ call'[c1].pc = "idle" \/ faults' = 0 \/ drain'.pc = "none"
    /\ (drain.pc = "none" /\ drain'.pc # "none" /\ call[e1].pc # "idle") => faults = 0
    /\ faults' = 2 =>
          call'[c1].pc = "idle" /\ (drain'.pc = "none" \/ call'[e1].pc = "idle")

MCNext == Next /\ Allowed
MCSpec == Init /\ [][MCNext]_vars /\ Fairness
=============================================================================
