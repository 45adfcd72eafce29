---------------------------- MODULE Installation ----------------------------
(***************************************************************************)
(* How an installation comes to be (cmd/agent-gateway/init.go,             *)
(* composition/initialization.go, paths/initialization.go): `init` records *)
(* a plan and then produces database, master key, traffic history, the     *)
(* administrator's bearer, the certificate authority and its published     *)
(* certificate, and stages an imported configuration.  After each of them  *)
(* it seals a receipt; the last receipt makes the directory acceptable to  *)
(* `serve`.  A command may end at any step, the machine may lose its power *)
(* at any step, and `init --resume` continues what it recognises and       *)
(* refuses the rest.                                                       *)
(*                                                                         *)
(* A secret, an identity or a file content is the name of the command that *)
(* made it.  `disk` is what processes see, `survives` what a loss of power *)
(* may leave of each file: the name of a new file may be lost until its    *)
(* directory is synced, and its content until the file is.  A committed    *)
(* transaction survives.  What the gateway changes once it serves is the   *)
(* subject of other modules.                                               *)
(***************************************************************************)
EXTENDS Naturals

CONSTANT Runs   \* the commands that are ever started

Absent == "absent"     \* no such file, no such row
Partial == "partial"   \* created and not finished: an empty or staging file, an open cutover

ASSUME RunsAssumption == Absent \notin Runs /\ Partial \notin Runs

Contents == Runs \cup {Absent, Partial}

\* The receipts in the order of ReadInitialization.
Receipts ==
  {"control", "custody", "traffic", "administrator", "ca", "certificate", "import", "complete"}
Evidence == Receipts \cup {"plan", "input", "custody-attempt", "input-removed"}
\* history is the file of the traffic generation, public the published certificate;
\* the bearer may lie outside the data directory.
Files == Evidence \cup {"lock", "database", "key", "history", "bearer", "public"}
Rows == {"key", "traffic", "attempt", "admin", "ca", "import"}

VARIABLES
  disk,       \* every file as processes see it
  survives,   \* what a loss of power may leave of it
  tables,     \* the committed rows that initialization writes
  wal,        \* committed content still sits in the write-ahead log
  runs,       \* the commands: what they set out to do, for which plan
  imports,    \* whether the plan of a command imports a configuration
  owner,      \* the command that holds the installation lock
  at, stage   \* where it is: the step, and how far the file of the step has got

NoOwner == Absent
installVars == <<disk, survives, tables, wal, runs, imports, owner, at, stage>>

Run(does, plan) == [does |-> does, plan |-> plan]

InstallInit ==
  /\ disk = [f \in Files |-> Absent] /\ survives = [f \in Files |-> {Absent}]
  /\ tables = [row \in Rows |-> Absent] /\ wal = FALSE
  /\ runs = [r \in Runs |-> Run("new", Absent)] /\ imports = [r \in Runs |-> FALSE]
  /\ owner = NoOwner /\ at = "idle" /\ stage = "start"
-----------------------------------------------------------------------------
(* What the evidence says: ReadInitialization.                             *)

Previous(s, importing) ==
  CASE s = "custody" -> "control" [] s = "traffic" -> "custody" [] s = "administrator" -> "traffic"
    [] s = "ca" -> "administrator" [] s = "certificate" -> "ca" [] s = "import" -> "certificate"
    [] s = "complete" -> IF importing THEN "import" ELSE "certificate"

\* The receipts form a prefix, and those that name the plan name this one.  Evidence is
\* written once, so the digest in the last receipt fits when all the others can be read.
Readable(d) ==
  LET p == d["plan"] IN
  /\ p \in Runs /\ \A f \in Evidence : d[f] # Partial
  /\ ~imports[p] => \A f \in {"input", "import", "input-removed"} : d[f] = Absent
  /\ d["custody-attempt"] # Absent => d["control"] # Absent
  /\ d["custody"] # Absent => d["custody-attempt"] # Absent
  /\ \A s \in Receipts \ {"control"} :
       d[s] # Absent => d[Previous(s, imports[p])] # Absent
  /\ \A s \in {"control", "traffic", "import", "complete", "input", "input-removed"} :
       d[s] \in {Absent, p}
  /\ d["input-removed"] # Absent => d["complete"] # Absent /\ d["input"] = Absent
  /\ d["complete"] = Absent /\ imports[p] => d["input"] # Absent

Complete(d) == Readable(d) /\ d["complete"] # Absent

\* init takes an absent or empty directory, and nothing else, for a fresh one.
Empty(d) == \A f \in Files \ {"bearer"} : d[f] = Absent
-----------------------------------------------------------------------------
(* The command decides before it takes the lock, and asks its user.        *)

Intends(r, does, plan) ==
  /\ runs[r].does = "new" /\ runs' = [runs EXCEPT ![r] = Run(does, plan)]
  /\ UNCHANGED <<disk, survives, tables, wal, owner, at, stage>>

\* With or without --from.
PlanFresh(r) ==
  /\ Empty(disk) /\ Intends(r, "fresh", r)
  /\ \E from \in BOOLEAN : imports' = [imports EXCEPT ![r] = from]
PlanResume(r) ==
  /\ Readable(disk) /\ ~Complete(disk) /\ Intends(r, "resume", disk["plan"]) /\ UNCHANGED imports
PlanCleanup(r) ==
  /\ Complete(disk) /\ imports[disk["plan"]] /\ disk["input-removed"] = Absent
  /\ Intends(r, "cleanup", disk["plan"]) /\ UNCHANGED imports
PlanServe(r) == Intends(r, "serve", Absent) /\ UNCHANGED imports

\* A directory sync makes the names in it durable; a staged file was synced before it got
\* its name.  The bearer's directory is another one.
Linked == {"history", "public"}
Named(fs) ==
  [f \in Files |-> CASE f \notin fs -> survives[f]
                     [] f \in fs /\ (disk[f] = Absent \/ f \in Linked) -> {disk[f]}
                     [] OTHER -> survives[f] \ {Absent}]
DataFiles == Files \ {"bearer"}

Takes(r, step) ==
  /\ owner = NoOwner /\ owner' = r /\ at' = step /\ stage' = "start"
  /\ UNCHANGED <<tables, wal, runs, imports>>

\* AcquireInitialization makes the lock file; BeginInitialization wants nothing beside it.
AcquireInitialization(r) ==
  /\ runs[r].does = "fresh" /\ \A f \in DataFiles \ {"lock"} : disk[f] = Absent
  /\ Takes(r, "plan")
  /\ disk' = [disk EXCEPT !["lock"] = IF @ = Absent THEN r ELSE @]
  /\ survives' = [f \in Files |-> IF f = "lock" THEN {disk'["lock"]} ELSE Named(DataFiles)[f]]

\* AcquireStoppedControl; what was read before the lock is read again under it.
AcquireStoppedControl(r) ==
  /\ disk["lock"] \in Runs /\ Readable(disk) /\ disk["plan"] = runs[r].plan
  /\ \/ runs[r].does = "resume" /\ ~Complete(disk) /\ Takes(r, "inspect")
     \/ /\ runs[r].does = "cleanup" /\ Complete(disk) /\ disk["input-removed"] = Absent
        /\ Takes(r, "remove")
  /\ UNCHANGED <<disk, survives>>

\* AcquireExisting, RequireInitializationComplete.  A root without an initialization
\* directory, which is accepted too, is of a time before the protocol and not of this disk.
AcquireExisting(r) ==
  /\ runs[r].does = "serve" /\ disk["lock"] \in Runs /\ Complete(disk) /\ Takes(r, "serving")
  /\ UNCHANGED <<disk, survives>>
-----------------------------------------------------------------------------
(* Writing a file under the lock: created exclusively, written, synced     *)
(* with its directory.  A staging file that is linked counts as created.   *)

plan == runs[owner].plan
\* These may exist when they are written.
Sealed == (Evidence \ {"plan", "input"}) \cup {"key"}
Written == Evidence \cup {"key", "history", "bearer", "public"}

\* Commands draw identities, keys and bearers; a receipt names what it confirms.
Content(f) ==
  CASE f \in {"plan", "key", "bearer"} -> owner
    [] f = "custody" -> disk["key"]
    [] f = "administrator" -> disk["bearer"]
    [] f \in {"ca", "public", "certificate"} -> tables["ca"]
    [] OTHER -> plan

\* A bound key is never drawn anew, the bearer on disk authenticates before its receipt
\* is written, and the last receipt digests all the others.
MayWrite(f) ==
  /\ f = "key" => tables["key"] = Absent
  /\ f = "administrator" => disk["bearer"] = tables["admin"]
  /\ f = "complete" => Readable(disk)

After(f) ==
  CASE f = "plan" -> IF imports[plan] THEN "input" ELSE "inspect"
    [] f = "input" -> "inspect"
    [] f = "control" -> "custody-attempt"
    [] f = "custody-attempt" -> "key"
    [] f = "key" -> "bind"
    [] f = "custody" -> IF tables["traffic"] = Absent THEN "history" ELSE "traffic"
    [] f = "history" -> "select"
    [] f = "traffic" -> IF tables["admin"] = Absent THEN "announce" ELSE "administrator"
    [] f = "bearer" -> "enroll"
    [] f = "administrator" -> "close"
    [] f = "ca" -> "public"
    [] f = "public" -> "certificate"
    [] f = "certificate" -> IF imports[plan] THEN "stage" ELSE "verify"
    [] f = "import" -> "verify"
    [] f = "complete" -> IF imports[plan] THEN "remove" ELSE "done"
    [] f = "input-removed" -> "done"

SameRun == UNCHANGED <<wal, runs, imports, owner>>
Puts(f, content) ==
  /\ disk' = [disk EXCEPT ![f] = content] /\ survives' = [survives EXCEPT ![f] = @ \cup {content}]

CreateFile ==
  /\ owner # NoOwner /\ at \in Written /\ stage = "start" /\ disk[at] = Absent /\ MayWrite(at)
  /\ Puts(at, Partial) /\ stage' = "created" /\ UNCHANGED <<tables, at>> /\ SameRun

WriteFile ==
  /\ owner # NoOwner /\ at \in Written /\ stage = "created"
  /\ Puts(at, Content(at)) /\ stage' = "written" /\ UNCHANGED <<tables, at>> /\ SameRun

\* A receipt that is there and says the same, or a whole key, is only synced again.
Reseal ==
  /\ owner # NoOwner /\ at \in Sealed /\ stage = "start" /\ disk[at] \in Runs
  /\ at # "key" => disk[at] = Content(at) /\ MayWrite(at)
  /\ stage' = "written" /\ UNCHANGED <<disk, survives, tables, at>> /\ SameRun

\* The file, then the directories: what a crash between the two leaves is among what
\* it may leave before them.
Synced(f, fs) == [Named(fs) EXCEPT ![f] = {disk[f]}]
SyncFile ==
  /\ owner # NoOwner /\ at \in Written /\ stage = "written"
  /\ survives' = Synced(at, IF at = "bearer" THEN {"bearer"} ELSE DataFiles)
  /\ at' = After(at) /\ stage' = "start" /\ UNCHANGED <<disk, tables>> /\ SameRun

\* PublishCertificate leaves an identical file alone, without a sync.
KeepCertificate ==
  /\ owner # NoOwner /\ at = "public" /\ stage = "start" /\ disk["public"] = tables["ca"]
  /\ at' = "certificate" /\ UNCHANGED <<disk, survives, tables, stage>> /\ SameRun
-----------------------------------------------------------------------------
(* The steps of InitializeOwned between the files.                         *)

\* inspectInitialization: the closed database, the files and the receipts fit each other.
Expected(f) ==
  CASE f = "control" -> plan [] f = "custody" -> disk["key"] [] f = "traffic" -> tables["traffic"]
    [] f = "administrator" -> tables["admin"] [] f = "ca" -> tables["ca"]
    [] f = "certificate" -> disk["public"]

\* Nothing is left in the log, and the database is the planned one.
InspectMaintenance == disk["database"] = plan /\ ~wal

Inspected ==
  /\ InspectMaintenance
  /\ tables["admin"] = Absent => tables["attempt"] = Absent
  /\ tables["import"] # Absent => tables["import"] = plan /\ imports[plan]
  /\ disk["import"] # Absent => disk["import"] = tables["import"]
  /\ disk["key"] # Partial /\ (tables["key"] # Absent => disk["key"] = tables["key"])
  /\ disk["key"] = Absent => disk["custody-attempt"] = Absent
  /\ tables["ca"] # Partial
  /\ tables["traffic"] # Absent => tables["traffic"] = plan /\ disk["history"] = plan
  /\ tables["admin"] # Absent => disk["bearer"] = tables["admin"]
  /\ disk["public"] # Absent => disk["public"] = tables["ca"]
  /\ \A f \in Receipts \ {"import", "complete"} : disk[f] # Absent => disk[f] = Expected(f)

\* Without a database there is nothing but the evidence so far.
Untouched ==
  \A f \in {"database", "key", "history", "public", "control"} : disk[f] = Absent

\* The document that init --from keeps for its resumptions.
RetainedInput == disk["input"] = plan

Goes(step) ==
  owner # NoOwner /\ stage = "start" /\ at' = step /\ UNCHANGED <<stage, runs, imports, owner>>

Inspect ==
  /\ at = "inspect" /\ Readable(disk) /\ disk["plan"] = plan /\ ~Complete(disk)
  /\ imports[plan] => RetainedInput
  /\ disk["history"] # Partial /\ disk["public"] # Partial
  /\ Inspected \/ Untouched
  /\ tables["admin"] = Absent => disk["bearer"] = Absent
  /\ Goes("confirm") /\ UNCHANGED <<disk, survives, tables, wal>>

\* ConfirmInitialization: plan and input are durable before anything is done for them.
Confirm ==
  /\ at = "confirm" /\ Goes("database")
  /\ survives' = [Synced("plan", DataFiles) EXCEPT !["input"] = {disk["input"]}]
  /\ UNCHANGED <<disk, tables, wal>>

\* storage.Initialize: the file, then bootstrap and migrations.
CreateDatabase ==
  /\ at = "database" /\ owner # NoOwner /\ stage = "start" /\ disk["database"] = Absent
  /\ Puts("database", Partial) /\ stage' = "created" /\ UNCHANGED <<tables, at>> /\ SameRun

Migrate ==
  /\ at = "database" /\ owner # NoOwner /\ stage = "created"
  /\ disk' = [disk EXCEPT !["database"] = plan]
  /\ survives' = [survives EXCEPT !["database"] = {plan}]
  /\ wal' = TRUE /\ at' = "control" /\ stage' = "start"
  /\ UNCHANGED <<tables, runs, imports, owner>>

OpenDatabase ==
  /\ at = "database" /\ disk["database"] = plan /\ Goes("control")
  /\ UNCHANGED <<disk, survives, tables, wal>>

\* A transaction commits; when its answer is lost the command ends here.
Commit(row, content, step) ==
  /\ Goes(step) /\ tables' = [tables EXCEPT ![row] = content] /\ wal' = TRUE
  /\ UNCHANGED <<disk, survives>>

\* SetupCustody binds the database to the key.
BindKey ==
  /\ at = "bind"
  /\ \/ tables["key"] = Absent /\ Commit("key", disk["key"], "custody")
     \/ /\ tables["key"] # Absent /\ tables["key"] = disk["key"] /\ Goes("custody")
        /\ UNCHANGED <<disk, survives, tables, wal>>

SelectTraffic == at = "select" /\ tables["traffic"] = Absent /\ Commit("traffic", plan, "traffic")

\* admin.Service.Initialize: the attempt is recorded, the bearer published, then enrolled.
Announce == at = "announce" /\ tables["attempt"] = Absent /\ Commit("attempt", owner, "bearer")
Enroll == at = "enroll" /\ tables["admin"] = Absent /\ Commit("admin", owner, "administrator")

CloseStore ==
  /\ at = "close" /\ Goes(IF tables["ca"] = Absent THEN "cutover" ELSE "signer")
  /\ wal' = FALSE /\ UNCHANGED <<disk, survives, tables>>

\* httpca.Service.Replace: fenced, then settled with the new authority.
FenceCA ==
  /\ at = "cutover" /\ tables["ca"] = Absent /\ tables["key"] = disk["key"]
  /\ Commit("ca", Partial, "settle")
SettleCA == at = "settle" /\ Commit("ca", owner, "signer")

\* The store is closed, and the selected authority loads.
LoadSigner == tables["ca"] \in Runs /\ tables["key"] = disk["key"]
ValidateSigner ==
  /\ at = "signer" /\ LoadSigner
  /\ Goes("ca") /\ wal' = FALSE /\ UNCHANGED <<disk, survives, tables>>

\* initializeConfiguration: one transaction with its own receipt, at most once.
StageImport ==
  /\ at = "stage"
  /\ \/ tables["import"] = Absent /\ RetainedInput /\ Commit("import", plan, "staged")
     \/ tables["import"] = plan /\ Goes("staged") /\ UNCHANGED <<disk, survives, tables, wal>>

CheckpointImport ==
  at = "staged" /\ Goes("import") /\ wal' = FALSE /\ UNCHANGED <<disk, survives, tables>>

VerifyAll ==
  /\ at = "verify" /\ Inspected
  /\ tables["admin"] # Absent /\ tables["ca"] \in Runs /\ tables["traffic"] = plan
  /\ Goes("complete") /\ UNCHANGED <<disk, survives, tables, wal>>
-----------------------------------------------------------------------------
(* RemoveInitializationInput.                                              *)

\* Mutant: a last receipt that can be read is taken for durable.
TrustComplete ==
  /\ at = "remove" /\ owner # NoOwner /\ stage = "start" /\ Complete(disk)
  /\ stage' = "created" /\ UNCHANGED <<disk, survives, tables, at>> /\ SameRun

\* The last receipt is durable before the input goes.
ConfirmComplete ==
  /\ at = "remove" /\ owner # NoOwner /\ stage = "start" /\ Complete(disk)
  /\ survives' = Synced("complete", DataFiles)
  /\ IF disk["input"] = Absent THEN at' = "input-removed" /\ UNCHANGED stage
                               ELSE stage' = "created" /\ UNCHANGED at
  /\ UNCHANGED <<disk, tables>> /\ SameRun

RemoveInput ==
  /\ at = "remove" /\ owner # NoOwner /\ stage = "created"
  /\ Puts("input", Absent) /\ stage' = "written" /\ UNCHANGED <<tables, at>> /\ SameRun

SyncRemoval ==
  /\ at = "remove" /\ owner # NoOwner /\ stage = "written"
  /\ survives' = Named(DataFiles) /\ at' = "input-removed" /\ stage' = "start"
  /\ UNCHANGED <<disk, tables>> /\ SameRun
-----------------------------------------------------------------------------
(* Endings.                                                                *)

\* A command that fails by itself removes the database it was making, and the staging
\* file of the certificate.
Discards ==
  IF stage = "created" /\ at \in {"database", "public"}
  THEN {disk, [disk EXCEPT ![at] = Absent]} ELSE {disk}

\* The command returns, at an error of any step or at its end, or its process dies;
\* closing the store may have emptied the log.
Ends ==
  /\ owner # NoOwner /\ owner' = NoOwner /\ at' = "idle" /\ stage' = "start"
  /\ runs' = [runs EXCEPT ![owner] = Run("ended", Absent)]
  /\ disk' \in Discards /\ wal' \in {wal, FALSE}
  /\ UNCHANGED <<survives, tables, imports>>

\* What the next start of the machine may find.
Loose == {f \in Files : survives[f] # {disk[f]}}
Remains ==
  {[f \in Files |-> IF f \in Loose THEN found[f] ELSE disk[f]] :
      found \in {c \in [Loose -> Contents] : \A f \in Loose : c[f] \in survives[f]}}

LosePower ==
  /\ disk' \in Remains /\ survives' = [f \in Files |-> {disk'[f]}]
  /\ owner' = NoOwner /\ at' = "idle" /\ stage' = "start"
  /\ runs' = [r \in Runs |-> IF runs[r].does = "new" THEN runs[r] ELSE Run("ended", Absent)]
  /\ UNCHANGED <<tables, wal, imports>>

InstallNext ==
  \/ \E r \in Runs : PlanFresh(r) \/ PlanResume(r) \/ PlanCleanup(r) \/ PlanServe(r)
                     \/ AcquireInitialization(r) \/ AcquireStoppedControl(r) \/ AcquireExisting(r)
  \/ CreateFile \/ WriteFile \/ Reseal \/ SyncFile \/ KeepCertificate
  \/ Inspect \/ Confirm \/ CreateDatabase \/ Migrate \/ OpenDatabase
  \/ BindKey \/ SelectTraffic \/ Announce \/ Enroll \/ CloseStore
  \/ FenceCA \/ SettleCA \/ ValidateSigner \/ StageImport \/ CheckpointImport \/ VerifyAll
  \/ ConfirmComplete \/ RemoveInput \/ SyncRemoval \/ Ends \/ LosePower

InstallSpec == InstallInit /\ [][InstallNext]_installVars
-----------------------------------------------------------------------------
(* What init promises, whatever a loss of power at this moment leaves.     *)

\* The database is never separated from the only copies of its secrets: the master key
\* it is bound to, the bearer it accepts, the history it selects.
MaterialIsKept(d) ==
  /\ tables["key"] # Absent => d["key"] = tables["key"]
  /\ tables["admin"] # Absent => d["bearer"] = tables["admin"]
  /\ tables["traffic"] # Absent => d["history"] = tables["traffic"]

\* A directory that serve accepts is whole: every part of the plan is there and belongs
\* to this installation, and its certificate is the one its authority signs with.
AcceptedIsWhole(d) ==
  Complete(d) =>
    /\ d["database"] = d["plan"] /\ tables["traffic"] = d["plan"]
    /\ tables["key"] \in Runs /\ tables["admin"] \in Runs /\ tables["ca"] \in Runs
    /\ d["public"] = tables["ca"]
    /\ imports[d["plan"]] => tables["import"] = d["plan"]

\* An installation that is begun and not complete still has its plan and its input, and
\* no configuration is imported without one.
ConsentIsKept(d) ==
  /\ d["database"] # Absent =>
       /\ d["plan"] \in Runs /\ d["database"] \in {Partial, d["plan"]}
       /\ imports[d["plan"]] /\ d["complete"] = Absent => d["input"] = d["plan"]
  /\ tables["import"] # Absent => d["database"] = tables["import"] /\ imports[tables["import"]]

(* No command that stops, and no loss of power, during `init` or its resumption leaves
   an installation that is accepted and incomplete, or one that lost its secrets. *)
InstallationIsWhole ==
  \A d \in Remains : MaterialIsKept(d) /\ AcceptedIsWhole(d) /\ ConsentIsKept(d)
=============================================================================
