SPECIFICATION MCSpec
CONSTANTS
  None = None
  MaxRevision = 3
  MaxRequests = 2
  MaxReads = 2
  MaxEpochs = 2
  Forms = {"delete_server", "start_operation", "start_flow", "cancel_flow", "replace_credential", "create_server", "edit_server", "edit_principal", "issue_credential", "create_admin", "edit_routing", "rotate_git", "edit_http_grant", "rotate_http", "create_grant", "correct_grant", "adjudicate"}
  Names = {"server_create", "server_update", "server_delete", "operation_start", "auth_flow_start", "auth_flow_cancel", "credential_replace", "principal_create", "principal_update", "principal_credential_rotate", "principal_credential_revoke", "grant_create", "grant_update", "grant_delete", "grant_request_approve", "grant_request_reject", "http_credential_rotate", "http_grant_update", "git_repository_update", "git_credential_rotate", "admin_credential_create", "admin_credential_revoke", "admin_credential_rotate"}
  Clients = {"web", "cli"}
INVARIANTS
  OnceOnly
  ClientIsHonest
  NeverLockedOut
\* A command ends, and a console may be left alone.
CHECK_DEADLOCK FALSE
