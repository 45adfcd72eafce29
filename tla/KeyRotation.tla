---------------------------- MODULE KeyRotation ----------------------------
(***************************************************************************)
(* The installation's master key (internal/keyring/custody.go,             *)
(* rotation.go; internal/paths/master_key_unix.go, key_rotation_unix.go):  *)
(* a stopped setup creates the key file and binds the database to it, a    *)
(* stopped rotation reseals the database under a fresh key and replaces    *)
(* the file, and a stopped recovery settles a rotation that was cut off.   *)
(*                                                                         *)
(* The root directory holds the key file, the rotation slot and the        *)
(* retained bundles.  What a process sees of it (`files`) runs ahead of    *)
(* what surely survives a power loss (`durable`): a rename or a created    *)
(* file may be lost until the directory is synced.  The contents of a file *)
(* are synced before it is renamed, and a transaction that commits is      *)
(* durable (journal in WAL mode, synchronous FULL).  Exclusive ownership   *)
(* of the root keeps the stopped operations and the gateway apart.         *)
(***************************************************************************)
EXTENDS Naturals, FiniteSets

CONSTANT MasterKeys   \* the keys the entropy source produces, each once

NoKey == "absent"         \* no key file, or a database bound to no key
PartialKey == "partial"   \* a key file that was created and not yet written

ASSUME MasterKeysAssumption == NoKey \notin MasterKeys /\ PartialKey \notin MasterKeys

\* KeyRotationMaterial, and what RetainKeyRotation names a bundle after.
Bundle(old, new) == [old |-> old, new |-> new]
Directory(master, slot, retained) == [master |-> master, slot |-> slot, retained |-> retained]

VARIABLES
  files,     \* the root directory as processes see it; slot holds at most one bundle
  durable,   \* the root directory at its last sync
  boundKey,  \* secret_custody.key_id: every generation is sealed under this key
  walOpen,   \* committed content still sits in the write-ahead log
  phase,     \* where the process that owns the root is
  oldKey, newKey,
  drawn,     \* the keys drawn so far
  bound      \* history: the keys the database was ever sealed under

rotationVars == <<files, durable, boundKey, walOpen, phase, oldKey, newKey, drawn, bound>>
material == <<oldKey, newKey, drawn>>
database == <<boundKey, walOpen, bound>>

RotationInit ==
  /\ files = Directory(NoKey, {}, {}) /\ durable = files
  /\ boundKey = NoKey /\ walOpen = FALSE /\ phase = "stopped"
  /\ oldKey = NoKey /\ newKey = NoKey /\ drawn = {} /\ bound = {}

\* Each entry that changed since the last sync may come back either way; a bundle
\* moves from the slot to its retained name by one rename.
Survivors ==
  {Directory(f.master, g.slot, g.retained) : f \in {files, durable}, g \in {files, durable}}

\* syncDirectory, and the fsync of DurableMasterKey.
SyncRoot == durable' = files

\* A transaction binds the database to a key.
BindTo(k) == boundKey' = k /\ bound' = bound \cup {k}
-----------------------------------------------------------------------------
(* Setup: SetupCustody.                                                    *)

\* An existing complete key is sealed to the directory and adopted.
AdoptKey ==
  /\ phase = "stopped" /\ files.slot = {} /\ files.master \in MasterKeys /\ boundKey = NoKey
  /\ SyncRoot /\ newKey' = files.master /\ phase' = "bind"
  /\ UNCHANGED <<files, database, oldKey, drawn>>

\* O_EXCL: the file appears empty.
CreateKey ==
  /\ phase = "stopped" /\ files.slot = {} /\ files.master = NoKey /\ boundKey = NoKey
  /\ \E k \in MasterKeys \ drawn : newKey' = k /\ drawn' = drawn \cup {k}
  /\ files' = Directory(PartialKey, files.slot, files.retained)
  /\ phase' = "create"
  /\ UNCHANGED <<durable, database, oldKey>>

WriteKey ==
  /\ phase = "create"
  /\ files' = Directory(newKey, files.slot, files.retained)
  /\ phase' = "created"
  /\ UNCHANGED <<durable, database, material>>

SyncCreated ==
  /\ phase = "created" /\ SyncRoot /\ phase' = "bind"
  /\ UNCHANGED <<files, database, material>>

\* The answer of the commit may be lost; the command ends either way.
BindCustody ==
  /\ phase = "bind" /\ BindTo(newKey) /\ walOpen' \in BOOLEAN /\ phase' = "stopped"
  /\ UNCHANGED <<files, durable, material>>
-----------------------------------------------------------------------------
(* The gateway: storage.Open and UseDatabaseCustody.                       *)

StartGateway ==
  /\ phase = "stopped" /\ files.slot = {} /\ boundKey \in MasterKeys /\ files.master = boundKey
  /\ phase' = "running" /\ walOpen' = TRUE
  /\ UNCHANGED <<files, durable, boundKey, bound, material>>

StopGateway ==
  /\ phase = "running" /\ phase' = "stopped" /\ walOpen' = FALSE
  /\ UNCHANGED <<files, durable, boundKey, bound, material>>
-----------------------------------------------------------------------------
(* Rotation: rotateStoppedMasterKey.                                       *)

\* The slot is free, the database is closed and opens with the key file, the operator
\* approves, and a key never used before is drawn.
BeginRotation ==
  /\ phase = "stopped" /\ files.slot = {} /\ ~walOpen
  /\ boundKey \in MasterKeys /\ files.master = boundKey
  /\ SyncRoot
  /\ oldKey' = files.master
  /\ \E k \in MasterKeys \ drawn : newKey' = k /\ drawn' = drawn \cup {k}
  /\ phase' = "prepare"
  /\ UNCHANGED <<files, database>>

\* PrepareKeyRotation: the key file is sealed again, then both keys and the
\* installation are staged, synced and renamed into the slot.
ArmSlot ==
  /\ phase = "prepare" /\ files.slot = {} /\ files.master = oldKey
  /\ SyncRoot
  /\ files' = Directory(files.master, {Bundle(oldKey, newKey)}, files.retained)
  /\ phase' = "armed"
  /\ UNCHANGED <<database, material>>

SyncArmed ==
  /\ phase = "armed" /\ SyncRoot /\ phase' = "rewrap"
  /\ UNCHANGED <<files, database, material>>

\* RewrapCustody, one transaction; its acknowledgement may be lost.
Rewrap ==
  /\ phase = "rewrap" /\ boundKey = oldKey
  /\ BindTo(newKey) /\ walOpen' = TRUE
  /\ phase' \in {"checkpoint", "stopped"}
  /\ UNCHANGED <<files, durable, material>>

\* Checkpoint, Identity and Close.
CloseDatabase ==
  /\ phase = "checkpoint" /\ walOpen' = FALSE /\ phase' = "publish"
  /\ UNCHANGED <<files, durable, boundKey, bound, material>>

\* PublishRotatedKey: a key file that is new already is only sealed again.
PublishKey ==
  /\ phase = "publish" /\ files.master \in {oldKey, newKey}
  /\ SyncRoot
  /\ files' = Directory(newKey, files.slot, files.retained)
  /\ phase' = IF files.master = newKey THEN "verify" ELSE "published"
  /\ UNCHANGED <<database, material>>

\* Mutant: the replaced key file is not synced to its directory.
SyncPublishedNot ==
  /\ phase = "published" /\ phase' = "verify"
  /\ UNCHANGED <<files, durable, database, material>>

SyncPublished ==
  /\ phase = "published" /\ SyncRoot /\ phase' = "verify"
  /\ UNCHANGED <<files, database, material>>

\* A rotation opens the closed database with the key file once more; a recovery did
\* so before (its database may still have a write-ahead log).
VerifyPublished ==
  /\ phase = "verify" /\ files.master = boundKey /\ phase' = "retain"
  /\ UNCHANGED <<files, durable, database, material>>

\* RetainKeyRotation: the fence is lifted by a rename to a name that must be free.
RetainBundle ==
  /\ phase = "retain" /\ files.slot # {}
  /\ \A b \in files.retained : b.new # newKey
  /\ files' = Directory(files.master, {}, files.retained \cup files.slot)
  /\ phase' = "retained"
  /\ UNCHANGED <<durable, database, material>>

SyncRetained ==
  /\ phase = "retained" /\ SyncRoot /\ phase' = "stopped"
  /\ UNCHANGED <<files, database, material>>
-----------------------------------------------------------------------------
(* Recovery: recoverMasterKey.                                             *)

\* The key the database names decides; the key file is the old key, or the new one
\* of a committed rotation.
KeyFileFits(master, b) == master = b.old \/ (boundKey = b.new /\ master = b.new)

BeginRecovery ==
  /\ phase = "stopped"
  /\ \E b \in files.slot :
       /\ boundKey \in {b.old, b.new} /\ KeyFileFits(files.master, b)
       /\ oldKey' = b.old /\ newKey' = b.new
       /\ phase' = IF boundKey = b.new THEN "publish" ELSE "retain"
  /\ SyncRoot
  /\ UNCHANGED <<files, database, drawn>>
-----------------------------------------------------------------------------
\* A stopped operation ends at the error of any of its steps, or its process dies;
\* closing the store may have emptied the log.
OperationFails ==
  /\ phase \notin {"stopped", "running"} /\ phase' = "stopped"
  /\ walOpen' \in {walOpen, FALSE}
  /\ UNCHANGED <<files, durable, boundKey, bound, material>>

GatewayDies ==
  /\ phase = "running" /\ phase' = "stopped"
  /\ UNCHANGED <<files, durable, database, material>>

PowerLoss ==
  /\ files' \in Survivors /\ durable' = files' /\ phase' = "stopped"
  /\ UNCHANGED <<database, material>>

RotationNext ==
  \/ AdoptKey \/ CreateKey \/ WriteKey \/ SyncCreated \/ BindCustody
  \/ StartGateway \/ StopGateway
  \/ BeginRotation \/ ArmSlot \/ SyncArmed \/ Rewrap \/ CloseDatabase
  \/ PublishKey \/ SyncPublished \/ VerifyPublished \/ RetainBundle \/ SyncRetained
  \/ BeginRecovery \/ OperationFails \/ GatewayDies \/ PowerLoss

RotationSpec == RotationInit /\ [][RotationNext]_rotationVars
-----------------------------------------------------------------------------
(* Properties.                                                             *)

\* Whatever the directory looks like after a loss of power at this moment, the
\* installation goes on: with an empty slot the key file opens the database, so
\* startup accepts it, and with an armed slot recovery accepts what it finds.
CanResume ==
  \A d \in Survivors :
    /\ d.slot = {} /\ boundKey # NoKey => d.master = boundKey
    /\ \A b \in d.slot : boundKey \in {b.old, b.new} /\ KeyFileFits(d.master, b)

\* "No key is silently destroyed": every key the database was ever sealed under is
\* in the key file, in the slot or in a retained bundle, whatever survives.
KeysAreKept ==
  \A d \in Survivors : \A k \in bound :
    \/ k = d.master
    \/ \E b \in d.slot \cup d.retained : k \in {b.old, b.new}

\* No crash between two file operations of a setup, a rotation or a recovery separates
\* the database from its key (paths/key_rotation_unix.go, keyring/rotation.go).
KeyOpensCustody == CanResume /\ KeysAreKept
=============================================================================
