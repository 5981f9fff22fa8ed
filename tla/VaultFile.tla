------------------------------- MODULE VaultFile -------------------------------
(***************************************************************************)
(* The vault on disk (vida-core: persist.rs, vault.rs) under the daemon    *)
(* that opens and replaces it (vida-daemon: state.rs).                     *)
(*                                                                         *)
(* Every change is a sequence of calls of the file system, any of which    *)
(* may fail.  The daemon may die between two of them, and the machine may  *)
(* lose power: then each name of the directory is left with what it named  *)
(* when the directory was last synchronised or with what it names now, and *)
(* a file whose data were not synchronised may be torn.                    *)
(*                                                                         *)
(* What a file holds is a vault (a number), its passphrase and the format  *)
(* it was written in; opening an older format migrates it in memory.       *)
(***************************************************************************)
EXTENDS Integers, FiniteSets

CONSTANTS
  Secrets,     \* passphrases
  OldFormats,  \* formats of the vault there is at first
  MaxBackups,  \* MAX_BACKUPS: 10 in the code
  MaxVaults,   \* bound on the vaults there ever are
  Plans        \* bounds: how often each thing may happen

-----------------------------------------------------------------------------
(* Formats.                                                                *)

Current == 7

Formats == [version : 1..Current + 1, auth : {"unit", "entry"}, ids : Nat,
            path : {"absent", "none"}, font : {"absent", "Menlo", "JetBrainsMono", "own"},
            trust : {"absent", "ask", "own"}]

\* What a program of version v wrote: each field since the version that brought it (a later
\* one writes them all).
WrittenBy(v) == {f \in [version : {v}, auth : {"unit", "entry"}, ids : {0, 1},
                        path : {"absent", "none"},
                        font : {"absent", "Menlo", "JetBrainsMono", "own"},
                        trust : {"absent", "ask", "own"}] :
  /\ f.auth = "unit" <=> v = 1
  /\ f.ids = 0 <=> v < 3
  /\ f.path = "absent" <=> v < 4
  /\ (f.font = "absent" <=> v < 5) /\ (v = 5 => f.font # "JetBrainsMono")
  /\ f.trust = "absent" <=> v < 7}

\* The first vault was written by a program of some version, and there is place for a backup.
FileConstants ==
  /\ MaxBackups \in Nat \ {0} /\ MaxVaults \in Nat \ {0}
  /\ \A f \in OldFormats : \E v \in 1..Current + 1 : f \in WrittenBy(v)

\* Mutant: the old default font counts as the owner's choice.
Migrate5Later(f) == [f EXCEPT !.version = 6, !.font = IF @ = "Menlo" THEN "own" ELSE @]

\* migrate_json_v1_to_v2 and so on; fresh is the number of the ids made up for hosts.
Migrate1(f)        == [f EXCEPT !.version = 2, !.auth = "entry"]
Migrate2(f, fresh) == [f EXCEPT !.version = 3, !.ids = IF @ = 0 THEN fresh ELSE @]
Migrate3(f)        == [f EXCEPT !.version = 4, !.path = "none"]
Migrate4(f)        == [f EXCEPT !.version = 5, !.font = IF @ = "absent" THEN "Menlo" ELSE @]
Migrate5(f)        == [f EXCEPT !.version = 6, !.font = IF @ = "Menlo" THEN "JetBrainsMono" ELSE @]
Migrate6(f)        == [f EXCEPT !.version = 7, !.trust = IF @ = "absent" THEN "ask" ELSE @]

Migrated(form, fresh) ==
  LET f2 == IF form.version < 2 THEN Migrate1(form) ELSE form
      f3 == IF form.version < 3 THEN Migrate2(f2, fresh) ELSE f2
      f4 == IF form.version < 4 THEN Migrate3(f3) ELSE f3
      f5 == IF form.version < 5 THEN Migrate4(f4) ELSE f4
      f6 == IF form.version < 6 THEN Migrate5(f5) ELSE f5
  IN IF form.version < 7 THEN Migrate6(f6) ELSE f6

-----------------------------------------------------------------------------
(* The directory.                                                          *)

None == 0
NoSecret == "none"
NoForm == [version |-> Current, auth |-> "entry", ids |-> 0, path |-> "none",
           font |-> "JetBrainsMono", trust |-> "ask"]
Held == [vault : 0..MaxVaults, secret : Secrets \cup {NoSecret}, form : Formats]
Nothing == [vault |-> None, secret |-> NoSecret, form |-> NoForm]

NoFile == [kind |-> "none", held |-> Nothing, synced |-> TRUE]
Whole(held, synced) == [kind |-> "whole", held |-> held, synced |-> synced]
Torn(held) == [kind |-> "torn", held |-> held, synced |-> FALSE]

Backups == 1..MaxBackups
VaultName == 0
TempName == MaxBackups + 1
Names == VaultName..TempName

VARIABLES
  now,      \* what each name names
  safe,     \* what it named when the directory was last synchronised
  memory,   \* the open vault and its passphrase
  cache,    \* the passphrase the session host remembers
  job,      \* the call under way
  made,     \* vaults and ids there have been
  answered, \* what the last change that was answered left
  tried,    \* what later changes may have left
  known,    \* the vault that was last open
  replaced, \* what the last restore replaced
  turns,    \* rotations begun since
  cut,      \* the power failed since
  left      \* bounds

fileVars == <<now, safe, memory, cache, job, made, answered, tried, known, replaced, turns, cut, left>>
ghostVars == <<answered, tried, known, replaced, turns, cut>>

Idle == [kind |-> "idle", step |-> "none", at |-> 0, held |-> Nothing]
Use(what) == left[what] > 0 /\ left' = [left EXCEPT ![what] = @ - 1]
Fresh == made + 1

Init ==
  /\ left \in Plans
  /\ \/ now = [n \in Names |-> NoFile] /\ made = 1 /\ answered = Nothing
     \/ \E f \in OldFormats, s \in Secrets :
          LET held == [vault |-> 1, secret |-> s, form |-> f]
          IN /\ now = [n \in Names |-> IF n = VaultName THEN Whole(held, TRUE) ELSE NoFile]
             /\ made = 1 /\ answered = held
  /\ safe = now
  /\ memory = Nothing /\ cache = NoSecret /\ job = Idle
  /\ tried = {} /\ known = Nothing /\ replaced = Nothing /\ turns = 0 /\ cut = FALSE

\* load_vault and decrypt: a torn file, another passphrase and a later version are errors.
Opens(file, s) == file.kind = "whole" /\ file.held.secret = s /\ file.held.form.version <= Current
Opened(held) == [held EXCEPT !.form = Migrated(@, Fresh)]

-----------------------------------------------------------------------------
(* What the daemon is asked.                                               *)

Begin(kind, step, held) ==
  /\ job' = [kind |-> kind, step |-> step, at |-> 0, held |-> held]
  /\ tried' = tried \cup {held}

CreateVault(s) ==
  /\ job = Idle /\ now[VaultName] = NoFile /\ made < MaxVaults
  /\ made' = Fresh
  /\ Begin("write", "create", [vault |-> Fresh, secret |-> s, form |-> [NoForm EXCEPT !.ids = Fresh]])
  /\ UNCHANGED <<now, safe, memory, cache, answered, known, replaced, turns, cut, left>>

\* unlock: what is remembered is remembered before the vault is taken over.
UnlockVault(s, remember) ==
  /\ job = Idle /\ Opens(now[VaultName], s) /\ memory = Nothing /\ made < MaxVaults
  /\ memory' = Opened(now[VaultName].held)
  /\ made' = IF memory'.form = now[VaultName].held.form \/ now[VaultName].held.form.ids # 0
             THEN made ELSE Fresh
  /\ cache' = IF remember THEN s ELSE NoSecret
  /\ known' = memory'
  /\ UNCHANGED <<now, safe, job, answered, tried, replaced, turns, cut, left>>

Lock ==
  /\ job = Idle /\ memory # Nothing /\ Use("locks")
  /\ memory' = Nothing /\ cache' = NoSecret
  /\ UNCHANGED <<now, safe, job, made, ghostVars>>

\* The remembered passphrase has its time.
Expire ==
  /\ cache # NoSecret /\ cache' = NoSecret
  /\ UNCHANGED <<now, safe, memory, job, made, ghostVars, left>>

\* update_host and the other changes: the vault in memory is changed first, whether the
\* file can be written or not.
Edit ==
  /\ job = Idle /\ memory # Nothing /\ made < MaxVaults /\ Use("edits")
  /\ made' = Fresh
  /\ memory' = [memory EXCEPT !.vault = Fresh]
  /\ Begin("write", "create", memory') /\ known' = memory'
  /\ UNCHANGED <<now, safe, cache, answered, replaced, turns, cut>>

\* sync: what is downloaded is written before it is opened.
Download(s) ==
  /\ job = Idle /\ memory # Nothing /\ made < MaxVaults /\ Use("downloads")
  /\ made' = Fresh
  /\ Begin("download", "create", [vault |-> Fresh, secret |-> s, form |-> [NoForm EXCEPT !.ids = Fresh]])
  /\ UNCHANGED <<now, safe, memory, cache, answered, known, replaced, turns, cut>>

\* restore_backup, which needs no open vault.
RestoreBackup(s) ==
  /\ job = Idle /\ made < MaxVaults /\ Use("restores")
  /\ made' = Fresh
  /\ LET held == [vault |-> Fresh, secret |-> s, form |-> [NoForm EXCEPT !.ids = Fresh]]
     IN Begin("restore", IF now[VaultName] = NoFile THEN "create" ELSE "removeOldest", held)
  /\ turns' = IF now[VaultName] = NoFile THEN turns ELSE turns + 1
  /\ UNCHANGED <<now, safe, memory, cache, answered, known, replaced, cut>>

-----------------------------------------------------------------------------
(* rotate_backups.                                                         *)

At(step) == job.step = step
Goto(step, at) == job' = [job EXCEPT !.step = step, !.at = at]
JobVars == <<safe, memory, cache, made, ghostVars, left>>

\* Mutant: the last but one stays.
FirstShiftShort == MaxBackups - 2

\* The backups move the oldest first.
FirstShift == MaxBackups - 1

RemoveOldest ==
  /\ At("removeOldest")
  /\ now' = [now EXCEPT ![MaxBackups] = NoFile]
  /\ Goto("shift", FirstShift)
  /\ UNCHANGED JobVars

Shift ==
  /\ At("shift") /\ job.at > 0
  /\ now' = IF now[job.at] = NoFile THEN now
            ELSE [now EXCEPT ![job.at] = NoFile, ![job.at + 1] = now[job.at]]
  /\ Goto("shift", job.at - 1)
  /\ UNCHANGED JobVars

\* fs::copy is not synchronised.
CopyBegins ==
  /\ At("shift") /\ job.at = 0
  /\ now' = [now EXCEPT ![1] = Torn(now[VaultName].held)]
  /\ Goto("copy", 0)
  /\ UNCHANGED JobVars

CopyEnds ==
  /\ At("copy")
  /\ now' = [now EXCEPT ![1] = [now[VaultName] EXCEPT !.synced = FALSE]]
  /\ Goto("create", 0)
  /\ UNCHANGED JobVars

-----------------------------------------------------------------------------
(* write_atomic, and the same of save_vault.                               *)

CreateTemp ==
  /\ At("create")
  /\ now' = [now EXCEPT ![TempName] = Torn(job.held)]
  /\ Goto("write", 0)
  /\ UNCHANGED JobVars

\* Mutant: the data are not synchronised before the file gets its name.
WrittenOnly(held) == Whole(held, FALSE)

\* write_all and full_fsync.
Written(held) == Whole(held, TRUE)

WriteTemp ==
  /\ At("write")
  /\ now' = [now EXCEPT ![TempName] = Written(job.held)]
  /\ Goto("rename", 0)
  /\ UNCHANGED JobVars

Rename ==
  /\ At("rename")
  /\ now' = [now EXCEPT ![VaultName] = now[TempName], ![TempName] = NoFile]
  /\ Goto("sync", 0)
  /\ IF job.kind = "restore" /\ now[VaultName].kind = "whole"
     THEN replaced' = now[VaultName].held /\ turns' = 1 /\ cut' = FALSE
     ELSE UNCHANGED <<replaced, turns, cut>>
  /\ UNCHANGED <<safe, memory, cache, made, answered, tried, known, left>>

\* Mutant: the directory is not synchronised.
NotSynced == safe

DirectorySynced == now

SyncDirectory ==
  /\ At("sync")
  /\ safe' = DirectorySynced
  /\ Goto("answer", 0)
  /\ UNCHANGED <<now, memory, cache, made, ghostVars, left>>

\* A download is opened only now, with the passphrase there is.
Answer ==
  /\ At("answer")
  /\ job' = Idle
  /\ answered' = job.held /\ tried' = {}
  /\ memory' = IF job.kind = "download" /\ job.held.secret # memory.secret THEN memory ELSE job.held
  /\ known' = IF memory' = Nothing THEN known ELSE memory'
  /\ UNCHANGED <<now, safe, cache, made, replaced, turns, cut, left>>

\* A call fails: the change ends in an error.
Fail ==
  /\ job # Idle /\ ~At("answer") /\ Use("faults")
  /\ job' = Idle
  /\ UNCHANGED <<now, safe, memory, cache, made, ghostVars>>

-----------------------------------------------------------------------------
(* The end of the daemon, and what it finds when it starts again.          *)

\* try_unlock_cached: a passphrase that does not open the vault is forgotten.
Restarted(file, remembered, fresh) ==
  IF remembered # NoSecret /\ Opens(file, remembered)
  THEN [memory |-> [file.held EXCEPT !.form = Migrated(@, fresh)], cache |-> remembered]
  ELSE [memory |-> Nothing, cache |-> IF file = NoFile THEN remembered ELSE NoSecret]

Kill ==
  /\ Use("kills") /\ made < MaxVaults
  /\ job' = Idle
  /\ memory' = Restarted(now[VaultName], cache, Fresh).memory
  /\ cache' = Restarted(now[VaultName], cache, Fresh).cache
  /\ made' = IF memory' # Nothing /\ now[VaultName].held.form.ids = 0 THEN Fresh ELSE made
  /\ known' = IF memory' = Nothing THEN known ELSE memory'
  /\ UNCHANGED <<now, safe, answered, tried, replaced, turns, cut>>

\* What may be found of a file after the power failed.
Remains(file) ==
  IF file.kind = "none" THEN {NoFile}
  ELSE IF file.synced THEN {file}
  ELSE {[Torn(file.held) EXCEPT !.synced = TRUE]} \cup
         (IF file.kind = "whole" THEN {Whole(file.held, TRUE)} ELSE {})

\* The vault is looked at apart; the other names are all old or all new.
PowerCut ==
  /\ Use("cuts")
  /\ \E old \in {{}, Names, {VaultName}, Names \ {VaultName}} :
       LET named == [n \in Names |-> IF n \in old THEN safe[n] ELSE now[n]]
       IN \E torn \in BOOLEAN :
            now' = [n \in Names |->
                      CHOOSE f \in Remains(named[n]) :
                        \/ f.kind = (IF torn THEN "torn" ELSE "whole")
                        \/ Remains(named[n]) = {f}]
  /\ safe' = now'
  /\ memory' = Nothing /\ cache' = NoSecret /\ job' = Idle
  /\ cut' = TRUE
  /\ UNCHANGED <<made, answered, tried, known, replaced, turns>>

Asked ==
  \/ \E s \in Secrets : CreateVault(s) \/ Download(s) \/ RestoreBackup(s)
  \/ \E s \in Secrets, r \in BOOLEAN : UnlockVault(s, r)
  \/ Lock \/ Expire \/ Edit

Steps ==
  \/ RemoveOldest \/ Shift \/ CopyBegins \/ CopyEnds
  \/ CreateTemp \/ WriteTemp \/ Rename \/ SyncDirectory \/ Answer

Next == Asked \/ Steps \/ Fail \/ Kill \/ PowerCut

Spec == Init /\ [][Next]_fileVars

-----------------------------------------------------------------------------
(* Properties.                                                             *)

FileRecords == [kind : {"none", "whole", "torn"}, held : Held, synced : BOOLEAN]

TypeOK ==
  /\ \A n \in Names : now[n] \in FileRecords /\ safe[n] \in FileRecords
  /\ {memory, answered, known, replaced} \cup tried \subseteq Held
  /\ cache \in Secrets \cup {NoSecret}
  /\ job.held \in Held /\ job.at \in 0..MaxBackups
  /\ made \in 0..MaxVaults /\ turns \in Nat /\ cut \in BOOLEAN

\* What an answered change left is in the file, whole, whatever fails, dies or loses power
\* afterwards and whenever: the file holds it or one of the changes tried since, in what
\* the directory names now and in what it named when it was last synchronised
\* (persist.rs, 36 to 60 and 70 to 102).
AnsweredIsDurable ==
  answered # Nothing =>
    \A file \in {now[VaultName], safe[VaultName]} :
      file.kind = "whole" /\ file.synced /\ file.held \in {answered} \cup tried

\* The vault a restore replaced is among the backups until they are turned over, if the
\* power has not failed since: state.rs, 233, promises it "轮转备份" (persist.rs, 117 to 173).
ReplacedIsKept ==
  replaced # Nothing /\ ~cut /\ turns <= MaxBackups =>
    \E n \in Backups \cup {VaultName} : now[n].kind = "whole" /\ now[n].held.vault = replaced.vault

\* A vault of any version opens in the current format: nothing is absent, the hosts have
\* ids, what an owner chose is kept and nothing trusts an agent more than to ask
\* (vault.rs, 254 to 279 and 337 to 452).
OldVaultsOpen ==
  memory # Nothing =>
    /\ memory.form.version = Current /\ memory.form.auth = "entry" /\ memory.form.ids # 0
    /\ memory.form.path # "absent" /\ memory.form.trust # "absent"
    /\ \A f \in OldFormats : memory.vault = 1 /\ f = answered.form =>
         /\ memory.form.font = (IF f.font = "own" THEN "own"
                                ELSE IF f.font = "Menlo" /\ f.version >= 6 THEN "Menlo"
                                ELSE "JetBrainsMono")
         /\ memory.form.trust = (IF f.trust = "own" THEN "own" ELSE "ask")

\* The same with the power failing.  (It fails: the copy is never synchronised.)
ReplacedIsSafe ==
  replaced # Nothing /\ turns <= MaxBackups =>
    \E n \in Backups \cup {VaultName} : now[n].kind = "whole" /\ now[n].held.vault = replaced.vault

\* Two backups are different.  (It fails: restores that fail turn the backups over and fill
\* them with copies of the same vault.)
BackupsDiffer ==
  \A m, n \in Backups : m # n /\ now[m].kind = "whole" /\ now[n].kind = "whole" =>
    now[m].held.vault # now[n].held.vault

\* The open vault's passphrase opens the file, when nothing is under way.  (It fails: a
\* download is written before it is opened, with another passphrase as it may be.)
FileOpens == memory # Nothing /\ job = Idle => Opens(now[VaultName], memory.secret)

\* Hosts keep their ids: vault.rs, 79, says they are created once and never change.  (It
\* fails: a vault of version 1 or 2 gets new ones each time it is opened, until it is
\* changed.)
IdsStay ==
  [][memory' # Nothing /\ memory'.vault = known.vault => memory'.form.ids = known.form.ids]_fileVars
=============================================================================
