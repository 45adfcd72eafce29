----------------------------- MODULE Commands ------------------------------
(* The commands of the agent-gateway client that change something.  A command is the
   sequence of its steps: what it reads and asks before it submits anything, how it
   resolves its precondition, where it will put a secret, and which answers leave its
   outcome uncertain.  The longest is the rotation of an administrator's credential,
   which creates a replacement, stores it durably and revokes the old one with it.
   A command may be killed at any step, and the machine may lose what is not on disk. *)
EXTENDS AdminWrites

CONSTANT Names   \* the commands under study

VARIABLES
  command,   \* [name, pc, etag, key, attempt, request, exit]: the command that runs
  file       \* the file of the secret: none, open, written, synced, durable or lost

commandVars == <<command, file>>

-----------------------------------------------------------------------------
(* The commands. *)

\* Every command first checks its flags and files, then finds the operator's bearer.
Command(routes, steps, unsure) == [routes |-> routes, steps |-> <<"intent", "bearer">> \o steps, unsure |-> unsure]
Unclear == {"storage_unavailable", "unreadable"}

RunServerCreate == Command(<<"create_server">>, <<"input", "key", "submit">>, Unclear)
RunServerUpdate == Command(<<"patch_server">>, <<"input", "confirm", "etag", "submit">>, Unclear)
RunServerDelete == Command(<<"delete_server">>, <<"confirm", "etag", "submit">>, Unclear)
RunServerOperationStart == Command(<<"create_operation">>, <<"input", "confirm", "key", "etag", "submit">>, Unclear)
RunAuthFlowStart == Command(<<"create_flow">>, <<"sink", "etag", "submit", "publish">>, Unclear)
RunAuthFlowCancel == Command(<<"delete_flow">>, <<"item", "confirm", "submit">>, Unclear)
RunCredentialReplace == Command(<<"replace_credential">>, <<"input", "confirm", "etag", "submit">>, Unclear)

RunPrincipalCreate == Command(<<"create_principal">>, <<"input", "submit">>, Unclear)
RunPrincipalUpdate == Command(<<"patch_principal">>, <<"input", "confirm", "etag", "submit">>, Unclear)
RunPrincipalCredential == Command(<<"principal_credential">>, <<"confirm", "sink", "item", "submit", "publish">>, Unclear)
RunPrincipalCredentialRevoke == Command(<<"principal_credential">>, <<"confirm", "etag", "submit">>, Unclear)
RunGrantCreate == Command(<<"create_grant">>, <<"input", "submit">>, Unclear)
RunGrantUpdate == Command(<<"patch_grant">>, <<"input", "etag", "submit">>, {})
RunGrantDelete == Command(<<"delete_grant">>, <<"confirm", "submit">>, Unclear)
RunGrantRequestApprove == Command(<<"adjudicate">>, <<"input", "confirm", "item", "submit">>, Unclear \union {"keyring_unavailable"})
RunGrantRequestReject == Command(<<"adjudicate">>, <<"input", "confirm", "etag", "submit">>, Unclear \union {"keyring_unavailable"})

RunHTTPCredential == Command(<<"rotate_http_credential">>, <<"input", "confirm", "etag", "submit">>, Unclear \union {"keyring_unavailable"})
RunHTTPPolicy == Command(<<"http_grant">>, <<"input", "confirm", "etag", "submit">>, Unclear)
RunGitPolicy(route) == Command(<<route>>, <<"input", "confirm", "etag", "submit">>, Unclear)

RunAdminCredentialCreate == Command(<<"create_admin">>, <<"input", "sink", "submit", "publish">>, Unclear)
RunAdminCredentialRevoke == Command(<<"revoke_admin">>, <<"confirm", "submit">>, Unclear)
RunAdminCredentialRotate ==
  Command(<<"rotation_create", "rotation_complete">>,
          <<"old", "authority", "sink", "confirm", "submit", "write", "sync", "syncdir", "reopen", "verify", "complete", "final">>,
          Unclear)

CommandOf ==
  [server_create |-> RunServerCreate, server_update |-> RunServerUpdate, server_delete |-> RunServerDelete,
   operation_start |-> RunServerOperationStart, auth_flow_start |-> RunAuthFlowStart, auth_flow_cancel |-> RunAuthFlowCancel,
   credential_replace |-> RunCredentialReplace, principal_create |-> RunPrincipalCreate,
   principal_update |-> RunPrincipalUpdate, principal_credential_rotate |-> RunPrincipalCredential,
   principal_credential_revoke |-> RunPrincipalCredentialRevoke, grant_create |-> RunGrantCreate, grant_update |-> RunGrantUpdate,
   grant_delete |-> RunGrantDelete, grant_request_approve |-> RunGrantRequestApprove, grant_request_reject |-> RunGrantRequestReject,
   http_credential_rotate |-> RunHTTPCredential, http_grant_update |-> RunHTTPPolicy,
   git_repository_update |-> RunGitPolicy("git_repository"), git_credential_rotate |-> RunGitPolicy("rotate_git_credential"),
   admin_credential_create |-> RunAdminCredentialCreate, admin_credential_revoke |-> RunAdminCredentialRevoke, admin_credential_rotate |-> RunAdminCredentialRotate]

ASSUME NamesAssumption == Names \subseteq DOMAIN CommandOf

-----------------------------------------------------------------------------
(* The steps. *)

Now == CommandOf[command.name]
Running == command.exit = "running"
At(step) == Running /\ Now.steps[command.pc] = step
Advanced(c) == IF c.pc = Len(Now.steps) THEN [c EXCEPT !.exit = "ok"] ELSE [c EXCEPT !.pc = @ + 1]
Failed(c) == [c EXCEPT !.exit = "failed"]

\* A file that holds no finished secret is removed when its command ends.
Cleanup == file' = IF file \in {"open", "written"} THEN "none" ELSE file

CommandInit ==
  /\ \E name \in Names :
       command = [name |-> name, pc |-> 1, etag |-> None, key |-> None, attempt |-> 0, request |-> 0, exit |-> "running"]
  /\ file = "none"

\* A step that reads, asks or checks, and ends the command when it is not content: nothing was submitted.
Check(step) ==
  /\ At(step)
  /\ \/ command' = Advanced(command) /\ UNCHANGED file
     \/ command' = Failed(command) /\ Cleanup
  /\ UNCHANGED writeVars
PrepareOnlineIntent == Check("intent")
AcquireAdminBearer == Check("bearer")
ReadInput == Check("input")
RequireConfirmation == Check("confirm")

\* The key is the operator's, from an earlier run, or a new one.
ResolveKey ==
  /\ At("key")
  /\ command' = [Advanced(command) EXCEPT !.key = IF @ = None THEN Len(attempts) + 1 ELSE @]
  /\ UNCHANGED <<writeVars, file>>

\* resolveMutationETag: given with the command, however old, or read now.
ResolveMutationETag ==
  /\ At("etag")
  /\ \/ \E rev \in 1 .. target.rev : command' = [Advanced(command) EXCEPT !.etag = rev] /\ UNCHANGED file
     \/ command' = Failed(command) /\ Cleanup
  /\ UNCHANGED writeVars

\* loadValidatedItem: the item is always read; its state, and a revision given with the command, must fit.
LoadValidatedItem ==
  /\ At("item")
  /\ \/ ~target.gone /\ command' = [Advanced(command) EXCEPT !.etag = target.rev] /\ UNCHANGED file
     \/ command' = Failed(command) /\ Cleanup
  /\ UNCHANGED writeVars

LoadRotationCredential ==
  /\ At("old")
  /\ \/ target.old = "active" /\ command' = Advanced(command)
     \/ command' = Failed(command)
  /\ UNCHANGED <<writeVars, file>>
LoadRotationAuthority ==
  /\ At("authority")
  /\ command' \in {[Advanced(command) EXCEPT !.etag = target.rev], Failed(command)}
  /\ UNCHANGED <<writeVars, file>>

\* PrepareSensitiveSink: a new file of the owner's own, or nothing is submitted.
PrepareSensitiveSink ==
  /\ At("sink")
  /\ \/ command' = Advanced(command) /\ file' = "open"
     \/ command' = Failed(command) /\ UNCHANGED file
  /\ UNCHANGED writeVars

RouteOf(step) == Now.routes[IF step = "complete" THEN 2 ELSE 1]
PreconditionOf(route) == IF Routes[route].handler = <<"body">> THEN None ELSE command.etag

\* Client.Do.  A failure before the headers were written is a definite one.
Submit(step) ==
  LET route == RouteOf(step) IN
  /\ At(step) /\ command.request = 0
  /\ \/ command' = Failed(command) /\ Cleanup /\ UNCHANGED <<requests, attempts>>
     \/ /\ IF command.attempt # 0 /\ step = "submit"
           THEN SendAgain(command.attempt, PreconditionOf(route)) /\ UNCHANGED attempts
           ELSE Send(command.name, route, PreconditionOf(route), command.key, command.etag)
        /\ command' = [command EXCEPT !.request = Len(requests'), !.attempt = IF step = "submit" /\ @ # 0 THEN @ ELSE Len(attempts')]
        /\ UNCHANGED file
  /\ UNCHANGED <<target, records, lapsed, carried, latched>>
SubmitMutation == Submit("submit")
SubmitRotationCompletion == Submit("complete")

Tell(what) == attempts' = [attempts EXCEPT ![command.attempt].told = what]

\* runServerMutation and its like: what an answer, or none, means for the operator.
Classify(answer) ==
  IF answer.kind = "ok" THEN {"acknowledged"} \union (IF "unreadable" \in Now.unsure THEN {"uncertain"} ELSE {"rejected"})
  ELSE IF answer.code \in Now.unsure THEN {"uncertain"} ELSE {"rejected"}

Conclude(step, outcome, rev) ==
  /\ Tell(outcome)
  /\ LET settled == [command EXCEPT !.request = 0, !.etag = IF rev = 0 THEN @ ELSE rev] IN
     CASE outcome = "acknowledged" -> command' = Advanced(settled) /\ UNCHANGED file
       [] outcome = "rejected" -> command' = Failed(settled) /\ Cleanup
       [] outcome = "uncertain" -> command' = [settled EXCEPT !.exit = IF step = "complete" THEN "recovering" ELSE "uncertain"] /\ Cleanup
  /\ UNCHANGED <<target, records, lapsed, requests, carried, latched>>

Receive ==
  \E step \in {"submit", "complete"} :
    /\ At(step) /\ command.request # 0
    /\ requests[command.request].stage = "answered"
    /\ LET answer == requests[command.request].answer IN
       \E outcome \in Classify(answer) : Conclude(step, outcome, answer.rev)

\* The connection fails, or the deadline passes, after the handoff.
LoseAnswer ==
  \E step \in {"submit", "complete"} : At(step) /\ command.request # 0 /\ Conclude(step, "uncertain", 0)

\* Publish: written, synced and closed, or removed again and reported as lost.
Publish ==
  /\ At("publish")
  /\ \/ command' = Advanced(command) /\ file' = "synced"
     \/ command' = [command EXCEPT !.exit = "lost"] /\ Cleanup
  /\ UNCHANGED writeVars

\* Mutant: the file is not synced.
PublishWithoutSync(step, from, to) ==
  /\ At(step) /\ file \in {from, "written"}
  /\ \/ command' = Advanced(command) /\ file' = IF file = "written" THEN file ELSE to
     \/ command' = Failed(command) /\ file' = "none"
  /\ UNCHANGED writeVars

\* PublishAdminRotation, one call of the file system at a time.
PublishStep(step, from, to) ==
  /\ At(step) /\ file = from
  /\ \/ command' = Advanced(command) /\ file' = to
     \/ command' = Failed(command) /\ file' = "none"
  /\ UNCHANGED writeVars
PublishAdminRotation ==
  \/ PublishStep("write", "open", "written")
  \/ PublishStep("sync", "written", "synced")
  \/ PublishStep("syncdir", "synced", "durable")
  \/ PublishStep("reopen", "durable", "durable")

\* The replacement is read with the bearer that was read back.
VerifyReplacement ==
  /\ At("verify")
  /\ \/ target.new = "active" /\ command' = Advanced(command)
     \/ command' = Failed(command)
  /\ UNCHANGED <<writeVars, file>>

\* An uncertain completion is settled by one read of the old credential.
RecoverUncertainRotation ==
  /\ command.exit = "recovering"
  /\ \/ command' = [command EXCEPT !.exit = "uncertain"] /\ UNCHANGED attempts
     \/ target.old = "revoked" /\ command' = [command EXCEPT !.exit = "ok"] /\ Tell("acknowledged")
  /\ UNCHANGED <<target, records, lapsed, requests, carried, latched, file>>

\* The old credential, the new one and the revision are read back: as the completion left them, or reported.
VerifyFinal ==
  /\ At("final")
  /\ \/ target.old = "revoked" /\ target.rev = command.etag /\ command' = Advanced(command)
     \/ command' = Failed(command)
  /\ UNCHANGED <<writeVars, file>>

\* The operator runs a command of uncertain outcome again, deliberately, with the key it printed.
RunAgain ==
  /\ command.exit = "uncertain" /\ command.key # None
  /\ command' = [command EXCEPT !.pc = 1, !.exit = "running", !.request = 0]
  /\ UNCHANGED <<writeVars, file>>

\* Another administrator revokes the replacement.
RevokeReplacement ==
  /\ target.new = "active" /\ target.rev < MaxRevision /\ ~latched
  /\ target' = [target EXCEPT !.new = "revoked", !.rev = @ + 1]
  /\ UNCHANGED <<records, lapsed, requests, attempts, carried, latched, commandVars>>

\* The process is killed; or the machine stops, and with it goes what was not synced.
Kill ==
  /\ Running
  /\ command' = [command EXCEPT !.exit = "killed"]
  /\ file' \in {file} \union (IF file \in {"open", "written", "synced"} THEN {"none"} ELSE {})
  /\ UNCHANGED writeVars

CommandSteps ==
  \/ PrepareOnlineIntent \/ AcquireAdminBearer \/ ReadInput \/ RequireConfirmation \/ ResolveKey \/ ResolveMutationETag \/ LoadValidatedItem
  \/ LoadRotationCredential \/ LoadRotationAuthority \/ PrepareSensitiveSink \/ SubmitMutation \/ SubmitRotationCompletion
  \/ Receive \/ LoseAnswer \/ Publish \/ PublishAdminRotation \/ VerifyReplacement \/ VerifyFinal \/ RecoverUncertainRotation
CommandNext == CommandSteps \/ RunAgain \/ RevokeReplacement \/ Kill \/ (Server /\ UNCHANGED commandVars)

CommandSpec == Init /\ CommandInit /\ [][CommandNext]_<<writeVars, commandVars>>

-----------------------------------------------------------------------------
(* What the commands promise. *)

(* The rotation never leaves its operator without a credential: when it has the old one
   revoked, the replacement was active and its bearer is on disk, where neither a killed
   command nor a machine that stops can take it away. *)
NeverLockedOut == target.old = "revoked" => file = "durable" /\ target.new # "none"
=============================================================================
