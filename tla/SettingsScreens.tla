---------------------------- MODULE SettingsScreens ----------------------------
(***************************************************************************)
(* The settings and backups of the desktop application, and the screens a  *)
(* synchronisation asks its questions on (vida-gui: app.rs, screens s5 to  *)
(* s9; vida-daemon: state.rs).                                             *)
(*                                                                         *)
(* Every button starts a task of its own that sends a request and turns    *)
(* its answer into a message; the owner goes on meanwhile.  The settings   *)
(* are the folder to synchronise with and the look of the terminals.  What *)
(* a synchronisation finds is up to its environment here (VaultSync has    *)
(* the algorithm).  A backup is a file, its contents a passphrase and      *)
(* settings.                                                               *)
(***************************************************************************)
EXTENDS Integers, FiniteSets, Bags

CONSTANTS
  Paths,   \* folders to synchronise with
  Looks,   \* looks of a terminal
  Files,   \* backup files
  Secrets, \* passphrases
  Disk,    \* the backups there are at first
  Plans    \* bounds: how often each thing may happen

NoPath == "none"

Settings == [path : Paths \cup {NoPath}, look : Looks]
Backups == [secret : Secrets, set : Settings]
NoBackup == [secret |-> "", set |-> [path |-> NoPath, look |-> ""]]  \* torn, or none
Troubles == {"conflict", "files", "missing"}

VARIABLES
  vault,    \* the settings in the daemon's vault
  secret,   \* its passphrase
  locked,   \* whether the daemon has no vault
  folder,   \* the folder its coordinator uses
  trouble,  \* what a synchronisation finds in the way; how many files, of conflict files
  disk,     \* the contents of the backup files
  screen, sync, locking,
  form,     \* settings_state, without its backup part
  backup,   \* settings_state.backup: its restore part
  exporting,
  look,     \* terminal_appearance
  work,
  left

settingsVars == <<vault, secret, locked, folder, trouble, disk, screen, sync, locking, form,
                  backup, exporting, look, work, left>>
daemonVars == <<vault, secret, locked, folder, trouble, disk>>
backupVars == <<backup, exporting>>

NoForm == [on |-> FALSE, path |-> NoPath, look |-> CHOOSE l \in Looks : TRUE, saving |-> FALSE]
\* State::from_json
FormOf(set) == [NoForm EXCEPT !.on = TRUE, !.path = set.path, !.look = set.look]
NoPreview == [on |-> FALSE, file |-> "", secret |-> "", data |-> NoBackup]
NoRestore == [file |-> "", secret |-> "", checking |-> FALSE, preview |-> NoPreview,
              restoring |-> FALSE]

Item(kind, what) == [kind |-> kind, set |-> [path |-> NoPath, look |-> NoForm.look],
                     what |-> what, preview |-> NoPreview]
At(kind) == {w \in BagToSet(work) : w.kind = kind}
Post(w) == work' = work (+) SetToBag({w})
Done(w) == work' = work (-) SetToBag({w})
Become(w, v) == work' = (work (-) SetToBag({w})) (+) SetToBag({v})
Use(what) == left[what] > 0 /\ left' = [left EXCEPT ![what] = @ - 1]

Init ==
  /\ left \in Plans
  /\ vault \in Settings
  /\ secret = (CHOOSE s \in Secrets : TRUE) /\ locked = FALSE
  /\ folder = vault.path /\ trouble = [kind |-> "none", files |-> 0]
  /\ disk = Disk
  /\ screen = "main" /\ sync = "unknown" /\ locking = FALSE
  /\ form = NoForm /\ backup = NoRestore /\ exporting = FALSE
  /\ look = vault.look
  /\ work = EmptyBag

-----------------------------------------------------------------------------
(* Settings.                                                               *)

OnSettings == screen = "main" /\ form.on

OpenSettingsTab ==
  /\ screen = "main" /\ ~form.on /\ Use("opens")
  /\ Post(Item("get", ""))
  /\ UNCHANGED <<daemonVars, screen, sync, locking, form, backupVars, look>>

\* A field changes; without synchronisation the folder is cleared.
EditSettings(set) ==
  /\ OnSettings /\ Use("edits")
  /\ form' = [form EXCEPT !.path = set.path, !.look = set.look]
  /\ form' # form
  /\ UNCHANGED <<daemonVars, screen, sync, locking, backupVars, look, work>>

SettingsSave ==
  /\ OnSettings /\ ~form.saving /\ Use("saves")
  /\ form' = [form EXCEPT !.saving = TRUE]
  /\ Post([Item("update", "") EXCEPT !.set = [path |-> form.path, look |-> form.look]])
  /\ UNCHANGED <<daemonVars, screen, sync, locking, backupVars, look>>

SettingsLoaded(w) ==
  /\ form' = FormOf(w.set)
  /\ backup' = NoRestore /\ exporting' = FALSE
  /\ look' = w.set.look
  /\ Done(w)
  /\ UNCHANGED <<daemonVars, screen, sync, locking, left>>

\* The terminals take the look the form has by now.
SettingsSaved(w) ==
  /\ form' = IF form.on THEN [form EXCEPT !.saving = FALSE] ELSE form
  /\ look' = IF form.on THEN form.look ELSE look
  /\ Done(w)
  /\ UNCHANGED <<daemonVars, screen, sync, locking, backupVars, left>>

-----------------------------------------------------------------------------
(* Backups.                                                                *)

\* The chooser and the input may be used at any time.
BackupRestoreChooseFile(f) ==
  /\ OnSettings /\ Use("picks")
  /\ backup' = [backup EXCEPT !.file = f, !.preview = NoPreview]
  /\ UNCHANGED <<daemonVars, screen, sync, locking, form, exporting, look, work>>

BackupRestorePassphraseChanged(s) ==
  /\ OnSettings /\ backup.secret # s /\ Use("picks")
  /\ backup' = [backup EXCEPT !.secret = s, !.preview = NoPreview]
  /\ UNCHANGED <<daemonVars, screen, sync, locking, form, exporting, look, work>>

BackupRestorePreview ==
  /\ OnSettings /\ backup.file # "" /\ backup.secret # ""
  /\ ~backup.checking /\ ~backup.restoring /\ Use("checks")
  /\ backup' = [backup EXCEPT !.checking = TRUE, !.preview = NoPreview]
  /\ Post([Item("read", "") EXCEPT !.preview = [on |-> TRUE, file |-> backup.file,
                                                secret |-> backup.secret, data |-> NoBackup]])
  /\ UNCHANGED <<daemonVars, screen, sync, locking, form, exporting, look>>

BackupRestorePreviewed(w) ==
  /\ backup' = IF form.on THEN [backup EXCEPT !.checking = FALSE, !.preview = w.preview]
               ELSE backup
  /\ Done(w)
  /\ UNCHANGED <<daemonVars, screen, sync, locking, form, exporting, look, left>>

\* What is sent to be restored: the data that were previewed, whatever the file has become.
BackupRestoreConfirm ==
  /\ OnSettings /\ backup.preview.on /\ ~backup.restoring
  /\ backup' = [backup EXCEPT !.restoring = TRUE]
  /\ Post([Item("restore", "") EXCEPT
             !.preview = [backup.preview EXCEPT !.secret = backup.secret]])
  /\ UNCHANGED <<daemonVars, screen, sync, locking, form, exporting, look, left>>

BackupRestored(w) ==
  /\ form' = FormOf(w.set)
  /\ backup' = NoRestore /\ exporting' = FALSE
  /\ look' = w.set.look
  /\ Done(w)
  /\ UNCHANGED <<daemonVars, screen, sync, locking, left>>

BackupRestoreFailed(w) ==
  /\ backup' = IF form.on THEN [backup EXCEPT !.checking = FALSE, !.restoring = FALSE] ELSE backup
  /\ Done(w)
  /\ UNCHANGED <<daemonVars, screen, sync, locking, form, exporting, look, left>>

BackupExport(f, s) ==
  /\ OnSettings /\ ~exporting /\ Use("exports")
  /\ exporting' = TRUE
  /\ Post([Item("export", "") EXCEPT !.preview = [NoPreview EXCEPT !.file = f, !.secret = s]])
  /\ UNCHANGED <<daemonVars, screen, sync, locking, form, backup, look>>

\* The answer is written over the file that was chosen, in place.
WriteExport(w) ==
  /\ \/ /\ disk' = [disk EXCEPT ![w.preview.file] = w.preview.data]
        /\ UNCHANGED left
     \/ /\ Use("faults")
        /\ disk' = [disk EXCEPT ![w.preview.file] = NoBackup]
  /\ Become(w, Item("exported", ""))
  /\ UNCHANGED <<vault, secret, locked, folder, trouble, screen, sync, locking, form, backupVars, look>>

BackupExported(w) ==
  /\ exporting' = IF form.on THEN FALSE ELSE exporting
  /\ Done(w)
  /\ UNCHANGED <<daemonVars, screen, sync, locking, form, backup, look, left>>

-----------------------------------------------------------------------------
(* Synchronisation.                                                        *)

SyncTriggered ==
  /\ screen = "main" /\ Use("syncs")
  /\ sync' = "syncing"
  /\ Post(Item("sync", ""))
  /\ UNCHANGED <<daemonVars, screen, locking, form, backupVars, look>>

\* SyncCompleted: what needs an answer gets a screen of its own.
SyncCompleted(w) ==
  /\ sync' = CASE w.what \in Troubles -> "attention"
               [] w.what = "off" -> "off"
               [] OTHER -> "synced"
  /\ screen' = CASE w.what \in Troubles -> w.what
                 [] w.what = "downloaded" -> "main"
                 [] OTHER -> screen
  /\ Done(w)
  /\ UNCHANGED <<daemonVars, locking, form, backupVars, look, left>>

\* ConflictResolveLocal, ConflictResolveRemote, ConflictFileAdopt, ConflictFileIgnore,
\* RemoteMissingAction; the buttons may be pressed again before there is an answer.
Resolve ==
  /\ screen \in Troubles /\ Use("syncs")
  /\ Post(Item("resolve", screen))
  /\ UNCHANGED <<daemonVars, screen, sync, locking, form, backupVars, look>>

\* ConflictResolved, ConflictFileHandled, RemoteMissingHandled.
Resolved(w) ==
  /\ sync' = "synced"
  /\ Become(w, Item("hosts", ""))
  /\ UNCHANGED <<daemonVars, screen, locking, form, backupVars, look, left>>

HostsLoaded(w) ==
  /\ screen' = "main"
  /\ Done(w)
  /\ UNCHANGED <<daemonVars, sync, locking, form, backupVars, look, left>>

\* Mutant: the indicator is left to the answer that will not come.
ErrorKeeps(s) == s

\* What the indicator becomes by an error of any request.
ErrorShown(s) == IF s = "syncing" THEN "error" ELSE s

WsError(w) ==
  /\ sync' = ErrorShown(sync)
  /\ screen' = "failure"
  /\ Done(w)
  /\ UNCHANGED <<daemonVars, locking, form, backupVars, look, left>>

\* RetryConnection, and DaemonChecked.
Retry ==
  /\ screen = "failure" /\ At("hosts") = {} /\ At("loaded hosts") = {}
  /\ IF locked THEN screen' = "unlock" /\ UNCHANGED work
     ELSE Post(Item("hosts", "")) /\ UNCHANGED screen
  /\ UNCHANGED <<daemonVars, sync, locking, form, backupVars, look, left>>

\* Bound: one request to lock.
LockVault ==
  /\ screen = "main" /\ ~locking /\ Use("locks")
  /\ locking' = TRUE
  /\ Post(Item("lock", ""))
  /\ UNCHANGED <<daemonVars, screen, sync, form, backupVars, look>>

VaultLocked(w) ==
  /\ screen' = "unlock" /\ locking' = FALSE
  /\ Done(w)
  /\ UNCHANGED <<daemonVars, sync, form, backupVars, look, left>>

\* UnlockVault with the right passphrase, up to UnlockSuccess.  Bound: one list at a time.
Unlock ==
  /\ screen = "unlock" /\ At("hosts") = {} /\ At("loaded hosts") = {}
  /\ locked' = FALSE /\ folder' = vault.path
  /\ Post(Item("hosts", ""))
  /\ UNCHANGED <<vault, secret, trouble, disk, screen, sync, locking, form, backupVars, look, left>>

-----------------------------------------------------------------------------
(* The daemon.                                                             *)

AppVars == <<screen, sync, locking, form, backup, exporting, look>>
NoTrouble == [kind |-> "none", files |-> 0]

GetSettings(w) ==
  /\ ~locked
  /\ Become(w, [Item("settings", "") EXCEPT !.set = vault])
  /\ UNCHANGED <<daemonVars, AppVars, left>>

UpdateSettings(w) ==
  /\ ~locked
  /\ vault' = w.set /\ folder' = w.set.path
  /\ Become(w, Item("saved", ""))
  /\ UNCHANGED <<secret, locked, trouble, disk, AppVars, left>>

\* The file is read by the application and decrypted by the daemon, locked or not.
Preview(w) ==
  LET data == disk[w.preview.file]
  IN /\ Become(w, IF data # NoBackup /\ data.secret = w.preview.secret
                  THEN [Item("previewed", "") EXCEPT !.preview = [w.preview EXCEPT !.data = data]]
                  ELSE Item("unrestored", ""))
     /\ UNCHANGED <<daemonVars, AppVars, left>>

\* DaemonState::restore_backup: it needs no open vault and leaves one.
RestoreBackup(w) ==
  LET data == w.preview.data
  IN IF data.secret = w.preview.secret
     THEN /\ vault' = data.set /\ secret' = data.secret /\ locked' = FALSE
          /\ folder' = data.set.path
          /\ Become(w, [Item("restored", "") EXCEPT !.set = data.set])
          /\ UNCHANGED <<trouble, disk, AppVars, left>>
     ELSE /\ Become(w, Item("unrestored", ""))
          /\ UNCHANGED <<daemonVars, AppVars, left>>

\* DaemonState::export_backup
ExportBackup(w) ==
  /\ Become(w, IF locked THEN Item("exported", "")
               ELSE [Item("write", "") EXCEPT
                       !.preview = [w.preview EXCEPT !.data = [secret |-> w.preview.secret, set |-> vault]]])
  /\ UNCHANGED <<daemonVars, AppVars, left>>

\* Found in the folder: nothing to do, other settings, or something to ask about.
Sync(w, found) ==
  IF locked \/ folder = NoPath
  THEN Become(w, Item("completed", "off")) /\ UNCHANGED <<daemonVars, AppVars, left>>
  ELSE IF trouble.kind # "none"
  THEN Become(w, Item("completed", trouble.kind)) /\ UNCHANGED <<daemonVars, AppVars, left>>
  ELSE /\ CASE found \in Troubles -> trouble' = [kind |-> found, files |-> 2] /\ UNCHANGED vault
            [] found = "downloaded" -> \E s \in Settings : vault' = s /\ UNCHANGED trouble
            [] OTHER -> UNCHANGED <<vault, trouble>>
       /\ Become(w, Item("completed", found))
       /\ UNCHANGED <<secret, locked, folder, disk, AppVars, left>>

\* Conflict files are handled one at a time.  "reupload" and "clear_state" both end what a
\* missing file asks.
AnswerResolve(w) ==
  /\ ~locked /\ trouble.kind = w.what
  /\ trouble' = IF w.what = "files" /\ trouble.files > 1 THEN [trouble EXCEPT !.files = @ - 1]
                ELSE NoTrouble
  /\ Become(w, Item("handled", ""))
  /\ UNCHANGED <<vault, secret, locked, folder, disk, AppVars, left>>

ListHosts(w) ==
  /\ ~locked
  /\ Become(w, Item("loaded hosts", ""))
  /\ UNCHANGED <<daemonVars, AppVars, left>>

Lock(w) ==
  /\ locked' = TRUE /\ folder' = NoPath
  /\ Become(w, Item("locked", ""))
  /\ UNCHANGED <<vault, secret, trouble, disk, AppVars, left>>

Fails(w) ==
  CASE w.kind \in {"get", "hosts", "update"} -> locked
    [] w.kind = "resolve" -> locked \/ trouble.kind # w.what
    [] OTHER -> FALSE

\* A refused request, one that does not get through, or settings that name no folder that
\* can be written.
RequestFails(w) ==
  /\ \/ Fails(w) /\ UNCHANGED left
     \/ Use("faults")
  /\ Become(w, Item(IF w.kind \in {"read", "restore"} THEN "unrestored"
                    ELSE IF w.kind = "export" THEN "exported" ELSE "error", ""))
  /\ UNCHANGED <<daemonVars, AppVars>>

-----------------------------------------------------------------------------
Requests == {"get", "update", "read", "restore", "export", "sync", "resolve", "hosts", "lock"}
Found == Troubles \cup {"downloaded", "uploaded"}

Owner ==
  \/ OpenSettingsTab \/ SettingsSave
  \/ \E s \in Settings : EditSettings(s)
  \/ \E f \in Files : BackupRestoreChooseFile(f)
  \/ \E s \in Secrets : BackupRestorePassphraseChanged(s)
  \/ BackupRestorePreview \/ BackupRestoreConfirm
  \/ \E f \in Files, s \in Secrets : BackupExport(f, s)
  \/ SyncTriggered \/ Resolve \/ Retry \/ LockVault \/ Unlock

\* A request is answered, a message handled.
Answer(w) ==
  \/ w.kind = "get" /\ GetSettings(w)
  \/ w.kind = "update" /\ UpdateSettings(w)
  \/ w.kind = "read" /\ Preview(w)
  \/ w.kind = "restore" /\ RestoreBackup(w)
  \/ w.kind = "export" /\ ExportBackup(w)
  \/ w.kind = "sync" /\ \E x \in Found : Sync(w, x)
  \/ w.kind = "resolve" /\ AnswerResolve(w)
  \/ w.kind = "hosts" /\ ListHosts(w)
  \/ w.kind = "lock" /\ Lock(w)

Handle(w) ==
  \/ w.kind = "settings" /\ SettingsLoaded(w)
  \/ w.kind = "saved" /\ SettingsSaved(w)
  \/ w.kind = "previewed" /\ BackupRestorePreviewed(w)
  \/ w.kind = "restored" /\ BackupRestored(w)
  \/ w.kind = "unrestored" /\ BackupRestoreFailed(w)
  \/ w.kind = "write" /\ WriteExport(w)
  \/ w.kind = "exported" /\ BackupExported(w)
  \/ w.kind = "completed" /\ SyncCompleted(w)
  \/ w.kind = "handled" /\ Resolved(w)
  \/ w.kind = "loaded hosts" /\ HostsLoaded(w)
  \/ w.kind = "error" /\ WsError(w)
  \/ w.kind = "locked" /\ VaultLocked(w)

\* The tasks that run side by side, by what they come to on their way.
Tasks ==
  {{"update", "saved"}, {"read", "previewed", "restore", "restored", "unrestored"},
   {"export", "write", "exported"}, {"sync", "completed"},
   {"get", "settings", "resolve", "handled", "hosts", "loaded hosts", "lock", "locked", "error"}}
GoesOn(task) == \E w \in BagToSet(work) : w.kind \in task /\ (Answer(w) \/ Handle(w))

Next ==
  \/ Owner
  \/ \E w \in BagToSet(work) : Answer(w) \/ Handle(w)
  \/ \E w \in UNION {At(k) : k \in Requests} : RequestFails(w)

Spec == Init /\ [][Next]_settingsVars

\* Each task goes on; the owner is obliged to nothing.
FairSpec == Spec /\ (\A task \in Tasks : WF_settingsVars(GoesOn(task)))
                 /\ WF_settingsVars(\E w \in BagToSet(work) : Fails(w) /\ RequestFails(w))

-----------------------------------------------------------------------------
(* Properties.                                                             *)

TypeOK ==
  /\ {vault} \subseteq Settings
  /\ secret \in Secrets /\ folder \in Paths \cup {NoPath}
  /\ {locked, exporting, locking} \subseteq BOOLEAN
  /\ trouble \in [kind : Troubles \cup {"none"}, files : 0..2]
  /\ disk \in [Files -> Backups \cup {NoBackup}]
  /\ screen \in Troubles \cup {"main", "failure", "unlock"}
  /\ sync \in {"unknown", "syncing", "attention", "synced", "error", "off"}
  /\ look \in Looks
  /\ backup.preview.on => backup.preview.data \in Backups

\* The indicator does not stay at work, nor do the buttons that preview, restore and export
\* a backup: whatever fails, each ends or an error is shown (app.rs, 1197 to 1207, 2195 to
\* 2313 and 2886 to 2959).
Busy == sync = "syncing" \/ backup.checking \/ backup.restoring \/ exporting
WorkEnds == Busy ~> ~Busy

\* The button that saves the settings stays disabled for good only if a request was refused
\* meanwhile (app.rs, 2490 to 2533).
Disabled == form.saving
Refused == Disabled /\ At("error") # {}
SaveEnds == <>[]Disabled => <>Refused

\* It always comes back.  (It fails: an error leads to another screen and leaves the form as
\* it is.)
SaveReturns == Disabled ~> ~Disabled

\* A preview is of the file and the passphrase beside it: app.rs, 2792, says that editing
\* either requires validation again.  (It fails when the answer comes after the edit.)
PreviewIsCurrent ==
  backup.preview.on => backup.preview.file = backup.file /\ backup.preview.secret = backup.secret

\* After the owner answered, the indicator says all is well only when nothing is left to
\* ask (app.rs, 2628).  (It fails: one of two conflict files was handled.)
SyncedMeansSettled == [][sync' = "synced" /\ sync = "attention" => trouble.kind = "none"]_settingsVars

\* The terminals look the way the settings that were saved have it.  (It fails: fields
\* edited while a save is on its way are applied, and not saved.)
LookIsSaved == work = EmptyBag /\ ~locked => look = vault.look

\* The folder used is the one of the settings.  (It fails: downloaded settings bring the
\* other device's folder, which is used from the next unlocking on.)
FolderIsSet == ~locked => folder = vault.path

\* A locked application shows nothing but the way to unlock it.  (It fails: an answer that
\* is handled after VaultLocked brings the main screen back.)
LockedStaysClosed == [][screen = "unlock" /\ locked => screen' # "main"]_settingsVars

\* An export never destroys a backup that could be opened.  (It fails: the file is written
\* in place, and a write may fail half way.)
BackupsSurvive == [][\A f \in Files : disk[f] # NoBackup => disk'[f] # NoBackup]_settingsVars
=============================================================================
