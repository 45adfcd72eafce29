----------------------------- MODULE SecretSlot -----------------------------
(***************************************************************************)
(* What the fenced cutover of a secret (internal/keyring) promises to the  *)
(* consumers of the secret, whatever fails and wherever the process stops: *)
(* at any time at most one generation can be read; a new generation comes  *)
(* into force only where none is; and a generation that went out of force  *)
(* never comes back.                                                       *)
(***************************************************************************)
CONSTANTS Handles, None

VARIABLES current,   \* the generation that can be read, or None
          past       \* every generation that was ever in force

Init == current = None /\ past = {}

Withdraw == current # None /\ current' = None /\ past' = past

Install(h) == /\ current = None /\ h \notin past
              /\ current' = h /\ past' = past \cup {h}

Next == Withdraw \/ \E h \in Handles : Install(h)

Spec == Init /\ [][Next]_<<current, past>>
=============================================================================
