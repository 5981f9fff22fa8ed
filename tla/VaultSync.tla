------------------------------ MODULE VaultSync ------------------------------
(***************************************************************************)
(* Synchronising the encrypted vault of several devices through one file   *)
(* in a shared folder: the coordinator and the folder backend              *)
(* (vida-core/src/sync.rs) as the daemon drives them (vida-daemon/state.rs)*)
(*                                                                         *)
(* A vault is its revision and the set of user edits it contains; `edits'  *)
(* is what the encrypted content stands for, so that losing one shows.     *)
(* Every encryption is salted, so a file in the folder has a hash no other *)
(* file has had: `id'.  A baseline (SyncState) is the revision and the     *)
(* hash of the last synchronisation; it lives in the coordinator and in    *)
(* sync_state.json, and the coordinator reads the file only when it is     *)
(* created.  The daemon holds its mutex for the whole of sync and resolve, *)
(* so one device runs one operation at a time, but the devices interleave  *)
(* at every access to the folder and a device may crash between two steps. *)
(***************************************************************************)
EXTENDS Integers, FiniteSets

CONSTANTS
  Devices,    \* daemons that share the folder
  None,       \* no vault in memory, no file, no baseline, no coordinator
  Races,      \* what becomes of a file renamed over one the uploader has not
              \* seen: subset of {"overwrite", "copy"}; {} when no device or
              \* person touches the file between an uploader's check and rename
  Mishaps,    \* what may go wrong besides crashes: subset of AllMishaps
  CrashAt,    \* steps before which the daemon may die: subset of Steps
  MaxEdits,   \* bound on the edits users make
  MaxMishaps  \* bound on mishaps and crashes together

ASSUME DevicesAssumption == IsFiniteSet(Devices)
ASSUME NoneAssumption ==
  /\ None \notin [rev : Nat, edits : SUBSET Nat]
  /\ None \notin [id : Nat, vault : [rev : Nat, edits : SUBSET Nat]]
  /\ None \notin [rev : Nat, id : Nat]
  /\ None \notin [base : [rev : Nat, id : Nat] \cup {None}]
ASSUME FoldersAssumption == Races \subseteq {"overwrite", "copy"}

\* "edit": writing vault.age after an edit; "apply": writing a downloaded file
\* over it; "save" and "take": saving sync_state.json after an upload or a
\* download, where the code ignores a failure; "resolve": the same in a
\* resolution, which returns the error; "cleanup": removing sync_state.json.
\* "restore": a user restores an old backup; "delete": somebody deletes the file
\* in the shared folder.
AllMishaps == {"edit", "apply", "save", "take", "resolve", "cleanup", "restore", "delete"}

\* Where an operation stands; the daemon's mutex is free only at "idle".
Steps == {"idle", "download", "check", "rename", "save", "backup", "apply", "take", "clear"}
ASSUME CrashAssumption == CrashAt \subseteq Steps
ASSUME MishapsAssumption == Mishaps \subseteq AllMishaps
ASSUME LimitsAssumption == MaxEdits \in Nat /\ MaxMishaps \in Nat

VARIABLES
  remote,   \* vault.age in the shared folder, or None
  copies,   \* vaults in the conflict files the cloud service left there
  disk,     \* per device: the vault in its own vault.age
  mem,      \* per device: the vault in memory, None while locked
  coord,    \* per device: the coordinator (its baseline), None without one
  saved,    \* per device: sync_state.json
  op,       \* per device: the operation holding the daemon's mutex
  acked,    \* edits whose save succeeded
  kept,     \* edits in backups: conflicts/, rotated backups, *.reviewed
  edits, mishaps   \* counters for the bounds

dataVars  == <<disk, mem, coord, saved, op, acked, kept>>
boundVars == <<edits, mishaps>>
syncVars  == <<remote, copies, dataVars, boundVars>>

Idle == [pc |-> "idle", kind |-> "none", seen |-> None]
At(d, pc) == op[d].pc = pc

\* The vault each device starts from, and the backup a user may restore.
Vault0 == [rev |-> 1, edits |-> {}]

\* A hash no file and no baseline has.
Hashes(b) == IF b = None THEN {} ELSE {b.id}
HashesOf(d) ==
  Hashes(saved[d]) \cup Hashes(op[d].seen)
    \cup (IF coord[d] = None THEN {} ELSE Hashes(coord[d].base))
InUse == Hashes(remote) \cup UNION { HashesOf(d) : d \in Devices }
FreshId == CHOOSE n \in 1..(Cardinality(InUse) + 1) : n \notin InUse

Init ==
  /\ remote = None
  /\ copies = {}
  /\ disk = [d \in Devices |-> Vault0]
  /\ mem = [d \in Devices |-> Vault0]
  /\ coord = [d \in Devices |-> [base |-> None]]
  /\ saved = [d \in Devices |-> None]
  /\ op = [d \in Devices |-> Idle]
  /\ acked = {}
  /\ kept = {}
  /\ edits = 0 /\ mishaps = 0

-----------------------------------------------------------------------------
(* Editing, locking and unlocking, one device.                             *)

Mishap == mishaps < MaxMishaps /\ mishaps' = mishaps + 1
Happens(kind) == kind \in Mishaps /\ Mishap
Works == UNCHANGED mishaps

\* update_host, update_host_notes, delete_host, set_host_agent_trust and
\* update_settings with an unchanged folder: the vault in memory gets the edit
\* and the next revision, then the file is replaced.  When write_atomic fails,
\* before or after its rename, the caller sees an error and memory keeps the edit.
Edit(d) ==
  LET new == [rev |-> mem[d].rev + 1, edits |-> mem[d].edits \cup {edits + 1}]
  IN /\ At(d, "idle") /\ mem[d] # None
     /\ edits < MaxEdits
     /\ edits' = edits + 1
     /\ mem' = [mem EXCEPT ![d] = new]
     /\ \/ Works /\ acked' = acked \cup {edits'} /\ disk' = [disk EXCEPT ![d] = new]
        \/ Happens("edit") /\ UNCHANGED acked
             /\ disk' \in {disk, [disk EXCEPT ![d] = new]}
     /\ UNCHANGED <<remote, copies, coord, saved, op, kept>>

\* Mutant: locking leaves the coordinator and its baseline in place.
LockKeepsSync(d) ==
  /\ At(d, "idle") /\ mem[d] # None
  /\ mem' = [mem EXCEPT ![d] = None]
  /\ UNCHANGED <<remote, copies, coord, disk, saved, op, acked, kept, boundVars>>

\* lock: vault, passphrase and coordinator go.
Lock(d) ==
  /\ At(d, "idle") /\ mem[d] # None
  /\ mem' = [mem EXCEPT ![d] = None]
  /\ coord' = [coord EXCEPT ![d] = None]
  /\ UNCHANGED <<remote, copies, disk, saved, op, acked, kept, boundVars>>

\* unlock and try_unlock_cached: the vault is read from the file and init_sync
\* makes a coordinator, which loads sync_state.json.
Unlock(d) ==
  /\ At(d, "idle") /\ mem[d] = None
  /\ mem' = [mem EXCEPT ![d] = disk[d]]
  /\ coord' = [coord EXCEPT ![d] = [base |-> saved[d]]]
  /\ UNCHANGED <<remote, copies, disk, saved, op, acked, kept, boundVars>>

\* The daemon dies, possibly in the middle of an operation, and starts locked.
Crash(d) ==
  /\ op[d].pc \in CrashAt
  /\ Mishap
  /\ mem' = [mem EXCEPT ![d] = None]
  /\ coord' = [coord EXCEPT ![d] = None]
  /\ op' = [op EXCEPT ![d] = Idle]
  /\ UNCHANGED <<remote, copies, disk, saved, acked, kept, edits>>

-----------------------------------------------------------------------------
(* One sync cycle, and the resolution of a conflict, which starts with one. *)

\* The two questions of the decision table.
RemoteChanged(d) ==
  remote # None /\ (coord[d].base # None => remote.id # coord[d].base.id)
LocalChanged(d) == coord[d].base # None => mem[d].rev > coord[d].base.rev

Finish(d)   == op' = [op EXCEPT ![d] = Idle]
Goto(d, pc) == op' = [op EXCEPT ![d].pc = pc]

\* sync or resolve_conflict begins with scan_conflict_files; a conflict file
\* ends the operation there.
Start(d, kind) ==
  /\ At(d, "idle") /\ coord[d] # None
  /\ copies = {}
  /\ op' = [op EXCEPT ![d] = [pc |-> "download", kind |-> kind, seen |-> None]]
  /\ UNCHANGED <<remote, copies, disk, mem, coord, saved, acked, kept, boundVars>>

\* Without races nobody else is between its check and its rename.
MayCommit(d) == Races # {} \/ \A x \in Devices \ {d} : ~At(x, "rename")

\* Mutant: the decision table takes a conflict for a plain download.
DownloadIgnoresLocal(d) ==
  LET changed == RemoteChanged(d) IN
  /\ At(d, "download")
  /\ remote = None /\ LocalChanged(d) => MayCommit(d)
  /\ \/ /\ ~changed /\ LocalChanged(d)
        /\ op' = [op EXCEPT ![d] = [pc |-> IF remote = None THEN "rename" ELSE "check",
                                    kind |-> "sync", seen |-> remote]]
     \/ ~changed /\ ~LocalChanged(d) /\ Finish(d)
     \/ changed /\ op' = [op EXCEPT ![d].pc = "apply", ![d].seen = remote]
  /\ UNCHANGED <<remote, copies, disk, mem, coord, saved, acked, kept, boundVars>>

\* download and the decision table.  A resolution that does not meet a conflict
\* still uploads, and otherwise ends in an error; a plain sync that meets one
\* only reports it.
Download(d) ==
  LET rc == RemoteChanged(d)
      lc == LocalChanged(d)
      plain == op[d].kind = "sync"
  IN
  /\ At(d, "download")
  /\ remote = None /\ lc => MayCommit(d)
  /\ \/ /\ ~rc /\ lc
        /\ op' = [op EXCEPT ![d] = [pc |-> IF remote = None THEN "rename" ELSE "check",
                                    kind |-> "sync", seen |-> remote]]
     \/ ~rc /\ ~lc /\ Finish(d)                    \* NoChange or RemoteMissing
     \/ rc /\ ~lc /\ plain /\ op' = [op EXCEPT ![d].pc = "apply", ![d].seen = remote]
     \/ rc /\ ~lc /\ ~plain /\ Finish(d)
     \/ rc /\ lc /\ plain /\ Finish(d)             \* Conflict, for the user to resolve
     \/ rc /\ lc /\ ~plain /\ op' = [op EXCEPT ![d].pc = "backup", ![d].seen = remote]
  /\ UNCHANGED <<remote, copies, disk, mem, coord, saved, acked, kept, boundVars>>

\* Mutant: the remote file is not compared with the one that was downloaded.
CheckNothing(d) ==
  /\ At(d, "check")
  /\ MayCommit(d) /\ Goto(d, "rename")
  /\ UNCHANGED <<remote, copies, disk, mem, coord, saved, acked, kept, boundVars>>

\* upload's concurrency check, made only when there was a remote file to expect
\* and there still is one.
Check(d) ==
  /\ At(d, "check")
  /\ \/ remote # None /\ remote.id # op[d].seen.id /\ Finish(d)
     \/ remote # None /\ remote.id = op[d].seen.id /\ MayCommit(d) /\ Goto(d, "rename")
     \/ remote = None /\ MayCommit(d) /\ Goto(d, "rename")
  /\ UNCHANGED <<remote, copies, disk, mem, coord, saved, acked, kept, boundVars>>

\* upload's rename.  When the file has changed since it was read or checked, a
\* plain folder is overwritten; a cloud service keeps one of the two as a
\* conflict file, here the one that came second.  (With Races = {} the check
\* leaves no such change to meet.)
Rename(d) ==
  LET new == [id |-> FreshId, vault |-> mem[d]] IN
  /\ At(d, "rename")
  /\ op' = [op EXCEPT ![d].pc = "save", ![d].seen = new]
  /\ \/ remote \in {None, op[d].seen} /\ remote' = new /\ UNCHANGED copies
     \/ /\ remote \notin {None, op[d].seen} /\ Races # {"copy"}
        /\ remote' = new /\ UNCHANGED copies
     \/ /\ remote \notin {None, op[d].seen} /\ "copy" \in Races
        /\ copies' = copies \cup {mem[d]} /\ UNCHANGED remote
  /\ UNCHANGED <<disk, mem, coord, saved, acked, kept, boundVars>>

\* Sets the baseline of d, in the coordinator and in sync_state.json.  When the
\* write fails, update_state and update_state_after_download go on and the
\* resolutions return the error before they touch the coordinator.
SetBaseline(d, rev, id) ==
  LET b == [rev |-> rev, id |-> id] IN
  \/ /\ Works
     /\ coord' = [coord EXCEPT ![d].base = b]
     /\ saved' = [saved EXCEPT ![d] = b]
  \/ /\ op[d].kind = "sync" /\ Happens(op[d].pc)
     /\ coord' = [coord EXCEPT ![d].base = b]
     /\ UNCHANGED saved
  \/ /\ op[d].kind # "sync" /\ Happens("resolve")
     /\ UNCHANGED <<coord, saved>>

\* Mutant: the baseline takes the revision the next edit will have.
SaveNextRevision(d) ==
  /\ At(d, "save")
  /\ SetBaseline(d, mem[d].rev + 1, op[d].seen.id)
  /\ Finish(d)
  /\ UNCHANGED <<remote, copies, disk, mem, acked, kept, edits>>

\* update_state after an upload, and the last step of resolve_conflict_local.
Save(d) ==
  /\ At(d, "save")
  /\ SetBaseline(d, mem[d].rev, op[d].seen.id)
  /\ Finish(d)
  /\ UNCHANGED <<remote, copies, disk, mem, acked, kept, edits>>

\* Mutant: a resolution goes ahead without a backup.
BackupNothing(d) ==
  /\ At(d, "backup")
  /\ Goto(d, IF op[d].kind = "remote" THEN "apply" ELSE "check")
  /\ UNCHANGED <<remote, copies, disk, mem, coord, saved, acked, kept, boundVars>>

\* The version the user gave up is written to conflicts/ first.
Backup(d) ==
  /\ At(d, "backup")
  /\ \/ op[d].kind = "remote" /\ kept' = kept \cup mem[d].edits /\ Goto(d, "apply")
     \/ op[d].kind = "local" /\ kept' = kept \cup op[d].seen.vault.edits /\ Goto(d, "check")
  /\ UNCHANGED <<remote, copies, disk, mem, coord, saved, acked, boundVars>>

\* write_atomic of the downloaded file over vault.age.
Apply(d) ==
  LET new == [disk EXCEPT ![d] = op[d].seen.vault] IN
  /\ At(d, "apply")
  /\ \/ Works /\ disk' = new /\ Goto(d, "take")
     \/ Happens("apply") /\ disk' \in {disk, new} /\ Finish(d)
  /\ UNCHANGED <<remote, copies, mem, coord, saved, acked, kept, edits>>

\* Mutant: the vault in memory is not replaced (the hazard the contract of
\* SyncResult::Downloaded warns of).
TakeKeepsMemory(d) ==
  /\ At(d, "take")
  /\ SetBaseline(d, op[d].seen.vault.rev, op[d].seen.id)
  /\ Finish(d)
  /\ UNCHANGED <<remote, copies, disk, mem, acked, kept, edits>>

\* Decrypt, replace the vault in memory and set the baseline.  A resolution
\* whose baseline cannot be saved also leaves memory as it was.
Take(d) ==
  /\ At(d, "take")
  /\ SetBaseline(d, op[d].seen.vault.rev, op[d].seen.id)
  /\ mem' = IF op[d].kind = "sync" \/ mishaps' = mishaps
            THEN [mem EXCEPT ![d] = op[d].seen.vault] ELSE mem
  /\ Finish(d)
  /\ UNCHANGED <<remote, copies, disk, acked, kept, edits>>

-----------------------------------------------------------------------------
(* Conflict files, a missing remote, and restoring a backup.               *)

\* adopt_conflict_file: the current vault is backed up, the file replaces
\* vault.age and memory, and is renamed to *.reviewed.
Adopt(d, c) ==
  /\ At(d, "idle") /\ mem[d] # None
  /\ kept' = kept \cup disk[d].edits \cup c.edits
  /\ disk' = [disk EXCEPT ![d] = c]
  /\ mem' = [mem EXCEPT ![d] = c]
  /\ copies' = copies \ {c}
  /\ UNCHANGED <<remote, coord, saved, op, acked, boundVars>>

\* ignore_conflict_file only renames it.
Ignore(c) ==
  /\ copies' = copies \ {c}
  /\ kept' = kept \cup c.edits
  /\ UNCHANGED <<remote, disk, mem, coord, saved, op, acked, boundVars>>

\* handle_remote_missing("clear_state") clears the coordinator's baseline, then
\* removes sync_state.json.  The other answer, "reupload", changes nothing.
ClearState(d) ==
  /\ At(d, "idle") /\ coord[d] # None
  /\ coord' = [coord EXCEPT ![d].base = None]
  /\ \/ Works /\ saved' = [saved EXCEPT ![d] = None]
     \/ Happens("cleanup") /\ UNCHANGED saved
  /\ UNCHANGED <<remote, copies, disk, mem, op, acked, kept, edits>>

\* restore_backup, first half: save_vault rotates the current file away and
\* writes the restored vault, which then replaces the one in memory.
Restore(d) ==
  /\ At(d, "idle")
  /\ Happens("restore")
  /\ kept' = kept \cup disk[d].edits
  /\ disk' = [disk EXCEPT ![d] = Vault0]
  /\ mem' = [mem EXCEPT ![d] = Vault0]
  /\ op' = [op EXCEPT ![d] = [Idle EXCEPT !.pc = "clear"]]
  /\ UNCHANGED <<remote, copies, coord, saved, acked, edits>>

\* Mutant: the baseline of the replaced vault survives the restore.
RestoreKeepsBaseline(d) ==
  /\ At(d, "clear")
  /\ coord' = [coord EXCEPT ![d] = [base |-> saved[d]]]
  /\ Finish(d)
  /\ UNCHANGED <<remote, copies, disk, mem, saved, acked, kept, boundVars>>

\* Second half: remove sync_state.json and make a new coordinator; when the file
\* cannot be removed, synchronisation stays off.
RestoreClear(d) ==
  /\ At(d, "clear")
  /\ \/ Works /\ saved' = [saved EXCEPT ![d] = None]
          /\ coord' = [coord EXCEPT ![d] = [base |-> None]]
     \/ Happens("cleanup") /\ UNCHANGED saved /\ coord' = [coord EXCEPT ![d] = None]
  /\ Finish(d)
  /\ UNCHANGED <<remote, copies, disk, mem, acked, kept, edits>>

\* Somebody deletes the file in the shared folder.
DeleteRemote ==
  /\ remote # None
  /\ Races # {} \/ \A d \in Devices : ~At(d, "rename")
  /\ Happens("delete")
  /\ remote' = None
  /\ UNCHANGED <<copies, dataVars, edits>>

-----------------------------------------------------------------------------
SyncStep(d) ==
  \/ \E kind \in {"sync", "local", "remote"} : Start(d, kind)
  \/ Download(d) \/ Check(d) \/ Rename(d) \/ Save(d)
  \/ Backup(d) \/ Apply(d) \/ Take(d)

Next ==
  \/ \E d \in Devices :
       \/ Edit(d) \/ Lock(d) \/ Unlock(d) \/ Crash(d)
       \/ SyncStep(d)
       \/ \E c \in copies : Adopt(d, c)
       \/ ClearState(d) \/ Restore(d) \/ RestoreClear(d)
  \/ \E c \in copies : Ignore(c)
  \/ DeleteRemote

Spec == Init /\ [][Next]_syncVars

-----------------------------------------------------------------------------
Vaults    == [rev : Nat, edits : SUBSET (1..edits)]
Files     == [id : Nat, vault : Vaults]
Baselines == [rev : Nat, id : Nat]

TypeOK ==
  /\ remote \in Files \cup {None}
  /\ copies \subseteq Vaults
  /\ disk \in [Devices -> Vaults]
  /\ mem \in [Devices -> Vaults \cup {None}]
  /\ coord \in [Devices -> [base : Baselines \cup {None}] \cup {None}]
  /\ saved \in [Devices -> Baselines \cup {None}]
  /\ op \in [Devices -> [pc : Steps,
                         kind : {"none", "sync", "local", "remote"},
                         seen : Files \cup {None}]]
  /\ acked \subseteq 1..edits /\ kept \subseteq 1..edits
  /\ edits \in 0..MaxEdits /\ mishaps \in 0..MaxMishaps
  /\ \A d \in Devices : mem[d] = None => coord[d] = None

\* Where an edit can be found by its owner.
Findable ==
  kept \cup (UNION { disk[d].edits : d \in Devices })
       \cup (UNION { c.edits : c \in copies })
       \cup (IF remote = None THEN {} ELSE remote.vault.edits)

\* A baseline that names the file now in the folder also has the revision of the
\* vault in it, in the coordinator and in sync_state.json: with a wrong one the
\* next sync would take an old vault for an edited one, or the reverse.
BaselineTrue ==
  \A d \in Devices :
    \A b \in {saved[d]} \cup (IF coord[d] = None THEN {} ELSE {coord[d].base}) :
      b # None /\ remote # None =>
        (b.id = remote.id => b.rev = remote.vault.rev)

\* An edit whose save succeeded is never lost without a trace: whatever the
\* devices overwrite in one another's favour, it is on some device, in the
\* folder or in a backup.
NothingLost == acked \subseteq Findable

\* When a sync would answer "no change", the device's vault and the one in the
\* folder hold the same edits: the green tick means what it says.
SyncedMeansEqual ==
  \A d \in Devices :
    /\ At(d, "idle") /\ coord[d] # None /\ remote # None
    /\ ~RemoteChanged(d) /\ ~LocalChanged(d)
    => mem[d].edits = remote.vault.edits

\* An upload that expected a file replaces that file and no other.
ReplacesWhatItExpected ==
  [][\A d \in Devices :
       At(d, "rename") /\ op'[d].pc = "save" /\ op[d].seen # None /\ remote' # remote
       => remote \in {None, op[d].seen}]_syncVars

\* No work is overwritten blindly: a file in the folder is replaced only by one that
\* contains its edits, and a device's own vault by a download that does, or the edits
\* went into a backup before (a plain sync never asks the user).
NoBlindReplacement ==
  [][/\ remote # None /\ remote' # None /\ remote' # remote
          => remote.vault.edits \subseteq remote'.vault.edits \cup kept
     /\ \A d \in Devices : At(d, "apply") /\ disk'[d] # disk[d]
          => disk[d].edits \subseteq disk'[d].edits \cup kept]_syncVars
=============================================================================
