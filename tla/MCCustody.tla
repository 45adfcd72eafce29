----------------------------- MODULE MCCustody -----------------------------
(***************************************************************************)
(* One run over what keeps secrets at rest: the cutover of a secret, the   *)
(* rotation of the master key and the initialization of the installation,  *)
(* both of which only run while the gateway is stopped.  A behaviour       *)
(* follows one of them.                                                    *)
(***************************************************************************)
EXTENDS Custody, KeyRotation, Installation

CONSTANTS e1, e2, r1, h1, h2, k1, k2, k3, k4

VARIABLE focus   \* "cutover", "rotation" or "installation"

MCInit == Init /\ RotationInit /\ InstallInit /\ focus \in {"cutover", "rotation", "installation"}

MCNext ==
  \/ focus = "cutover" /\ Next /\ UNCHANGED <<rotationVars, installVars, focus>>
  \/ focus = "rotation" /\ RotationNext /\ UNCHANGED <<vars, installVars, focus>>
  \/ focus = "installation" /\ InstallNext /\ UNCHANGED <<vars, rotationVars, focus>>

MCSpec == MCInit /\ [][MCNext]_<<vars, rotationVars, installVars, focus>> /\ Fairness
=============================================================================
