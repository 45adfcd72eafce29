---------------------------- MODULE MCMutations ----------------------------
(* One client at a time against the administrative API: a form of the console, which its
   user may leave and open again, or a command.  The variables of the other client keep
   their first values. *)
EXTENDS WebForms, Commands

CONSTANT Clients

VARIABLE client   \* [kind, name]: which client acts

MCInit ==
  /\ Init /\ FormInit /\ CommandInit
  /\ \E kind \in Clients :
       client = [kind |-> kind, name |-> IF kind = "web" THEN form ELSE command.name]
  /\ client.kind = "cli" => form = CHOOSE f \in Forms : TRUE
  /\ client.kind = "web" => command.name = CHOOSE n \in Names : TRUE

\* The user comes back to the same form.
SameForm == form' \in {None, client.name}

\* Whether a draft was touched matters only to forms that hold a precondition, and
\* an answer that nobody waits for is discarded as soon as it is there.
Touched == draft'.dirty /\ form # None => Shown.expected = "held"
Waiting == \E n \in late : requests[n].stage = "answered"

MCNext ==
  \/ /\ client.kind = "web" /\ FormNext /\ SameForm /\ Touched /\ UNCHANGED <<commandVars, client>>
     /\ Waiting => late' # late
  \/ client.kind = "cli" /\ CommandNext /\ UNCHANGED <<formVars, client>>

MCvars == <<writeVars, formVars, commandVars, client>>
MCSpec == MCInit /\ [][MCNext]_MCvars

(* A client deals honestly with its user: it reports no more about a write than it knows
   (mutation.ts, controlclient), submits only against what its author reviewed, and shows a
   secret to nobody else (sinks.ts). *)
ClientIsHonest == OutcomeIsHonest /\ FormsAreFaithful
=============================================================================
