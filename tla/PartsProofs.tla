------------------------------ MODULE PartsProofs ------------------------------
(***************************************************************************)
(* Proofs about five of the parts that Services puts side by side, each by *)
(* an inductive invariant of its own and for every value of its constants: *)
(* the vault file, the notes of a host, vidactl, the calls of the MCP      *)
(* server, and the logins of terminals and transfers.  ServicesProofs      *)
(* cites them.                                                             *)
(***************************************************************************)
EXTENDS Integers, Sequences, FiniteSets, FiniteSetTheorems, TLAPS

CONSTANTS
  Secrets, OldFormats, MaxBackups, MaxVaults, FilePlans,  \* VaultFile
  Requests, Sections, Asks, Documents,                    \* HostNotes
  Runs, Ids, Home, Names, Commands, MaxEdits,             \* VidaCtl
  Calls, Daemons, CallPlans,                              \* AgentClient
  Uses, LoginPlans, Inherits                              \* SshLogin

VARIABLES
  now, safe, memory, cache, job, made, answered, tried, known, replaced, turns, cut, left,
  vault, disk, audit, requests, drafts,
  names, trust, locked, gate, edits, runs,
  files, daemons, links, shared, calls, logins, bound, did, rotated, steady, allowed,
  use, keys, torn, broker, helper, plan

File == INSTANCE VaultFile WITH Plans <- FilePlans
Notes == INSTANCE HostNotes
Ctl == INSTANCE VidaCtl
Client == INSTANCE AgentClient WITH left <- allowed, Plans <- CallPlans
Login == INSTANCE SshLogin WITH files <- keys, left <- plan, Plans <- LoginPlans

-----------------------------------------------------------------------------
(* The vault file.                                                         *)
(*                                                                         *)
(* AnsweredIsDurable needs two things at each step of save_vault: the file *)
(* with the vault's name is not there, or whole and synced (Firm), and the *)
(* temporary file is whole from the write on (JobInv).  For ReplacedIsKept *)
(* BackupsInv follows the backup of the replaced vault through the shifts  *)
(* of a rotation.  For OldVaultsOpen a form is one that a program of its   *)
(* version wrote, and the migrations keep what the owner chose.            *)

\* The jobs a daemon can be at.
JobKinds == {"idle", "write", "download", "restore"}
JobSteps ==
  {"none", "removeOldest", "shift", "copy", "create", "write", "rename", "sync", "answer"}
Jobs == [kind : JobKinds, step : JobSteps, at : 0..MaxBackups, held : File!Held]

TypeInv ==
  /\ now \in [File!Names -> File!FileRecords] /\ safe \in [File!Names -> File!FileRecords]
  /\ memory \in File!Held /\ answered \in File!Held /\ known \in File!Held /\ replaced \in File!Held
  /\ tried \subseteq File!Held
  /\ cache \in Secrets \cup {File!NoSecret}
  /\ job \in Jobs
  /\ made \in 1..MaxVaults /\ turns \in Nat /\ cut \in BOOLEAN

\* Not there, or there for good.
Firm(file) == file = File!NoFile \/ (file.kind = "whole" /\ file.synced)

\* What the file system holds of the change under way, at each of its steps.
JobInv ==
  /\ job.step # "none" => job.held \in tried
  /\ job.step = "rename" => now[File!TempName] = File!Whole(job.held, TRUE)
  /\ job.step \in {"sync", "answer"} => now[File!VaultName] = File!Whole(job.held, TRUE)
  /\ job.step = "answer" => safe[File!VaultName] = now[File!VaultName]

DurableInv ==
  /\ Firm(now[File!VaultName]) /\ Firm(safe[File!VaultName])
  /\ JobInv
  /\ File!AnsweredIsDurable

\* How far down the backup n can be that was made t rotations ago.
Reach(j, n, t) ==
  IF j.step = "removeOldest" \/ (j.step = "shift" /\ n <= j.at) THEN t - 1 ELSE t

\* n still has the vault that the last restore replaced.
Keeps(n) == now[n].kind = "whole" /\ now[n].held.vault = replaced.vault

\* A rotation leaves a free place before the one it moves next, and a restore has copied
\* the vault by the time it replaces it.
BackupsInv ==
  /\ job.step = "shift" => job.at < MaxBackups /\ now[job.at + 1] = File!NoFile
  /\ job.step = "copy" => now[1].kind = "torn"
  /\ (/\ job.kind = "restore" /\ job.step \in {"create", "write", "rename"}
      /\ now[File!VaultName].kind = "whole")
       => now[1].kind = "whole" /\ now[1].held = now[File!VaultName].held
  /\ replaced # File!Nothing /\ ~cut /\ turns <= MaxBackups =>
       \E n \in File!Backups : Keeps(n) /\ n <= Reach(job, n, turns)

\* As a program of its version wrote it.
WellFormed(f) ==
  /\ f.auth = "unit" <=> f.version = 1
  /\ f.ids = 0 <=> f.version < 3
  /\ f.path = "absent" <=> f.version < 4
  /\ f.font = "absent" <=> f.version < 5
  /\ ~(f.version = 5 /\ f.font = "JetBrainsMono")
  /\ f.trust = "absent" <=> f.version < 7
Modern(f) == WellFormed(f) /\ f.version = File!Current

\* The form of a vault that was opened from one of the form f keeps what the owner chose.
KeepsChoices(form, f) ==
  /\ form.font = (IF f.font = "own" THEN "own"
                  ELSE IF f.font = "Menlo" /\ f.version >= 6 THEN "Menlo"
                  ELSE "JetBrainsMono")
  /\ form.trust = (IF f.trust = "own" THEN "own" ELSE "ask")

\* What the vault's name names; the first vault is there only until a change is answered.
SoundFile(file) ==
  file.kind = "whole" =>
    /\ WellFormed(file.held.form)
    /\ file.held.vault = 1 => answered.vault = 1 /\ file.held.form = answered.form

FormInv ==
  /\ SoundFile(now[File!VaultName]) /\ SoundFile(safe[File!VaultName])
  /\ job.step # "none" => Modern(job.held.form) /\ job.held.vault >= 2
  /\ job.kind = "download" => job.held.form.ids >= 2
  /\ memory # File!Nothing => Modern(memory.form)
  /\ memory.vault = 1 /\ answered.vault = 1 => KeepsChoices(memory.form, answered.form)
  /\ memory.vault = 1 /\ answered.vault # 1 => answered.form.ids >= 2

FileInv == TypeInv /\ DurableInv /\ BackupsInv /\ FormInv

-----------------------------------------------------------------------------
(* Names, files and vaults.                                                *)

LEMMA NamesDiffer ==
  ASSUME File!FileConstants
  PROVE  /\ File!VaultName \in File!Names /\ File!TempName \in File!Names /\ 1 \in File!Backups
         /\ File!Backups \subseteq File!Names
         /\ File!VaultName # File!TempName /\ File!VaultName \notin File!Backups /\ File!TempName \notin File!Backups
BY DEF File!FileConstants, File!VaultName, File!TempName, File!Names, File!Backups

LEMMA NoFormTyped == File!NoForm \in File!Formats
BY DEF File!NoForm, File!Formats, File!Current

LEMMA ModernFields ==
  ASSUME NEW f, f.version = File!Current, f.auth = "entry", f.ids # 0, f.path = "none",
         f.font = "JetBrainsMono", f.trust = "ask"
  PROVE  Modern(f)
BY DEF File!Current, Modern, WellFormed

LEMMA NewFormTyped ==
  ASSUME NEW n \in Nat, n > 0
  PROVE  /\ [File!NoForm EXCEPT !.ids = n] \in File!Formats
         /\ [File!NoForm EXCEPT !.ids = n].ids = n
         /\ Modern([File!NoForm EXCEPT !.ids = n])
<1> DEFINE f == [File!NoForm EXCEPT !.ids = n]
<1>1. f \in File!Formats
  BY NoFormTyped DEF File!Formats
<1>2. /\ f.version = File!Current /\ f.auth = "entry" /\ f.path = "none"
      /\ f.font = "JetBrainsMono" /\ f.trust = "ask"
  BY DEF File!NoForm
<1>3. f.ids = n
  BY DEF File!NoForm
<1>4. f.ids # 0
  BY <1>3
<1> HIDE DEF f
<1>5. Modern(f)
  BY <1>2, <1>4, ModernFields
<1> QED
  BY <1>1, <1>3, <1>5 DEF f

LEMMA NothingTyped ==
  ASSUME File!FileConstants
  PROVE  File!Nothing \in File!Held /\ File!Nothing.vault = 0 /\ File!Nothing.form = File!NoForm
<1>1. 0 \in 0..MaxVaults
  BY DEF File!FileConstants
<1> QED
  BY <1>1, NoFormTyped DEF File!Nothing, File!Held, File!None

LEMMA FilesTyped ==
  ASSUME File!FileConstants
  PROVE  /\ File!NoFile \in File!FileRecords
         /\ \A h \in File!Held : File!Torn(h) \in File!FileRecords
         /\ \A h \in File!Held, b \in BOOLEAN : File!Whole(h, b) \in File!FileRecords
BY NothingTyped DEF File!NoFile, File!Torn, File!Whole, File!FileRecords

LEMMA IdleTyped ==
  ASSUME File!FileConstants
  PROVE  File!Idle \in Jobs /\ File!Idle.step = "none" /\ File!Idle.kind = "idle"
BY NothingTyped DEF File!Idle, Jobs, JobKinds, JobSteps, File!FileConstants

LEMMA OldFormatsWellFormed ==
  ASSUME File!FileConstants, NEW f \in OldFormats
  PROVE  f \in File!Formats /\ WellFormed(f) /\ f.ids < 2
<1>1. PICK v \in 1..File!Current + 1 : f \in File!WrittenBy(v)
  BY DEF File!FileConstants
<1>2. f \in [version : {v}, auth : {"unit", "entry"}, ids : {0, 1}, path : {"absent", "none"},
             font : {"absent", "Menlo", "JetBrainsMono", "own"},
             trust : {"absent", "ask", "own"}]
  BY <1>1 DEF File!WrittenBy
<1>3. /\ f.auth = "unit" <=> v = 1
      /\ f.ids = 0 <=> v < 3
      /\ f.path = "absent" <=> v < 4
      /\ (f.font = "absent" <=> v < 5) /\ (v = 5 => f.font # "JetBrainsMono")
      /\ f.trust = "absent" <=> v < 7
  BY <1>1 DEF File!WrittenBy
<1>4. f.version = v /\ f.ids \in {0, 1}
  BY <1>2
<1>5. f \in File!Formats
  <2>1. {0, 1} \subseteq Nat /\ {v} \subseteq 1..File!Current + 1
    BY <1>1
  <2> QED
    BY <1>2, <2>1 DEF File!Formats
<1>6. v \in Nat
  BY <1>1 DEF File!Current
<1>7. WellFormed(f)
  BY <1>3, <1>4, <1>6 DEF WellFormed
<1> QED
  BY <1>4, <1>5, <1>7

-----------------------------------------------------------------------------
(* Migration.                                                              *)

LEMMA Migrate1Fields ==
  ASSUME NEW f \in File!Formats
  PROVE  LET g == File!Migrate1(f) IN
         /\ g \in File!Formats /\ g.version = 2
         /\ g.auth = "entry"
         /\ g.ids = f.ids /\ g.path = f.path /\ g.font = f.font /\ g.trust = f.trust
<1> DEFINE g == File!Migrate1(f)
<1>1. g \in File!Formats
  <2>1. 2 \in 1..File!Current + 1
    BY DEF File!Current
  <2>2. "entry" \in {"unit", "entry"}
    BY DEF File!Formats
  <2> QED
    BY <2>1, <2>2 DEF File!Formats, File!Migrate1
<1>2. /\ g.version = 2
      /\ g.auth = "entry"
      /\ g.ids = f.ids /\ g.path = f.path /\ g.font = f.font /\ g.trust = f.trust
  BY DEF File!Formats, File!Migrate1
<1> QED
  BY <1>1, <1>2

LEMMA Migrate2Fields ==
  ASSUME NEW f \in File!Formats, NEW fresh \in Nat
  PROVE  LET g == File!Migrate2(f, fresh) IN
         /\ g \in File!Formats /\ g.version = 3
         /\ g.ids = (IF f.ids = 0 THEN fresh ELSE f.ids)
         /\ g.auth = f.auth /\ g.path = f.path /\ g.font = f.font /\ g.trust = f.trust
<1> DEFINE g == File!Migrate2(f, fresh)
<1>1. g \in File!Formats
  <2>1. 3 \in 1..File!Current + 1
    BY DEF File!Current
  <2>2. (IF f.ids = 0 THEN fresh ELSE f.ids) \in Nat
    BY DEF File!Formats
  <2> QED
    BY <2>1, <2>2 DEF File!Formats, File!Migrate2
<1>2. /\ g.version = 3
      /\ g.ids = (IF f.ids = 0 THEN fresh ELSE f.ids)
      /\ g.auth = f.auth /\ g.path = f.path /\ g.font = f.font /\ g.trust = f.trust
  BY DEF File!Formats, File!Migrate2
<1> QED
  BY <1>1, <1>2

LEMMA Migrate3Fields ==
  ASSUME NEW f \in File!Formats
  PROVE  LET g == File!Migrate3(f) IN
         /\ g \in File!Formats /\ g.version = 4
         /\ g.path = "none"
         /\ g.auth = f.auth /\ g.ids = f.ids /\ g.font = f.font /\ g.trust = f.trust
<1> DEFINE g == File!Migrate3(f)
<1>1. g \in File!Formats
  <2>1. 4 \in 1..File!Current + 1
    BY DEF File!Current
  <2>2. "none" \in {"absent", "none"}
    BY DEF File!Formats
  <2> QED
    BY <2>1, <2>2 DEF File!Formats, File!Migrate3
<1>2. /\ g.version = 4
      /\ g.path = "none"
      /\ g.auth = f.auth /\ g.ids = f.ids /\ g.font = f.font /\ g.trust = f.trust
  BY DEF File!Formats, File!Migrate3
<1> QED
  BY <1>1, <1>2

LEMMA Migrate4Fields ==
  ASSUME NEW f \in File!Formats
  PROVE  LET g == File!Migrate4(f) IN
         /\ g \in File!Formats /\ g.version = 5
         /\ g.font = (IF f.font = "absent" THEN "Menlo" ELSE f.font)
         /\ g.auth = f.auth /\ g.ids = f.ids /\ g.path = f.path /\ g.trust = f.trust
<1> DEFINE g == File!Migrate4(f)
<1>1. g \in File!Formats
  <2>1. 5 \in 1..File!Current + 1
    BY DEF File!Current
  <2>2. (IF f.font = "absent" THEN "Menlo" ELSE f.font) \in {"absent", "Menlo", "JetBrainsMono", "own"}
    BY DEF File!Formats
  <2> QED
    BY <2>1, <2>2 DEF File!Formats, File!Migrate4
<1>2. /\ g.version = 5
      /\ g.font = (IF f.font = "absent" THEN "Menlo" ELSE f.font)
      /\ g.auth = f.auth /\ g.ids = f.ids /\ g.path = f.path /\ g.trust = f.trust
  BY DEF File!Formats, File!Migrate4
<1> QED
  BY <1>1, <1>2

LEMMA Migrate5Fields ==
  ASSUME NEW f \in File!Formats
  PROVE  LET g == File!Migrate5(f) IN
         /\ g \in File!Formats /\ g.version = 6
         /\ g.font = (IF f.font = "Menlo" THEN "JetBrainsMono" ELSE f.font)
         /\ g.auth = f.auth /\ g.ids = f.ids /\ g.path = f.path /\ g.trust = f.trust
<1> DEFINE g == File!Migrate5(f)
<1>1. g \in File!Formats
  <2>1. 6 \in 1..File!Current + 1
    BY DEF File!Current
  <2>2. (IF f.font = "Menlo" THEN "JetBrainsMono" ELSE f.font)
        \in {"absent", "Menlo", "JetBrainsMono", "own"}
    BY DEF File!Formats
  <2> QED
    BY <2>1, <2>2 DEF File!Formats, File!Migrate5
<1>2. /\ g.version = 6
      /\ g.font = (IF f.font = "Menlo" THEN "JetBrainsMono" ELSE f.font)
      /\ g.auth = f.auth /\ g.ids = f.ids /\ g.path = f.path /\ g.trust = f.trust
  BY DEF File!Formats, File!Migrate5
<1> QED
  BY <1>1, <1>2

LEMMA Migrate6Fields ==
  ASSUME NEW f \in File!Formats
  PROVE  LET g == File!Migrate6(f) IN
         /\ g \in File!Formats /\ g.version = 7
         /\ g.trust = (IF f.trust = "absent" THEN "ask" ELSE f.trust)
         /\ g.auth = f.auth /\ g.ids = f.ids /\ g.path = f.path /\ g.font = f.font
<1> DEFINE g == File!Migrate6(f)
<1>1. g \in File!Formats
  <2>1. 7 \in 1..File!Current + 1
    BY DEF File!Current
  <2>2. (IF f.trust = "absent" THEN "ask" ELSE f.trust) \in {"absent", "ask", "own"}
    BY DEF File!Formats
  <2> QED
    BY <2>1, <2>2 DEF File!Formats, File!Migrate6
<1>2. /\ g.version = 7
      /\ g.trust = (IF f.trust = "absent" THEN "ask" ELSE f.trust)
      /\ g.auth = f.auth /\ g.ids = f.ids /\ g.path = f.path /\ g.font = f.font
  BY DEF File!Formats, File!Migrate6
<1> QED
  BY <1>1, <1>2

\* Every form a program can have written becomes the current one.
LEMMA Migrates ==
  ASSUME NEW f \in File!Formats, WellFormed(f), f.version <= File!Current, NEW fresh \in Nat, fresh > 0
  PROVE  /\ File!Migrated(f, fresh) \in File!Formats /\ Modern(File!Migrated(f, fresh))
         /\ KeepsChoices(File!Migrated(f, fresh), f)
<1> DEFINE f2 == IF f.version < 2 THEN File!Migrate1(f) ELSE f
           f3 == IF f.version < 3 THEN File!Migrate2(f2, fresh) ELSE f2
           f4 == IF f.version < 4 THEN File!Migrate3(f3) ELSE f3
           f5 == IF f.version < 5 THEN File!Migrate4(f4) ELSE f4
           f6 == IF f.version < 6 THEN File!Migrate5(f5) ELSE f5
           f7 == IF f.version < 7 THEN File!Migrate6(f6) ELSE f6
<1>0. f.version \in 1..7 /\ f.auth \in {"unit", "entry"} /\ f.trust \in {"absent", "ask", "own"}
      /\ f.font \in {"absent", "Menlo", "JetBrainsMono", "own"}
  BY DEF File!Formats, File!Current
<1>2. /\ f2 \in File!Formats /\ f2.auth = "entry"
      /\ f2.ids = f.ids /\ f2.path = f.path /\ f2.font = f.font /\ f2.trust = f.trust
  BY <1>0, Migrate1Fields DEF WellFormed
<1> HIDE DEF f2
<1>3. /\ f3 \in File!Formats /\ f3.auth = "entry" /\ f3.ids # 0
      /\ f3.path = f.path /\ f3.font = f.font /\ f3.trust = f.trust
  <2>1. f.version < 3 => f2.ids = 0
    BY <1>0, <1>2 DEF WellFormed
  <2>2. f.version >= 3 => f2.ids # 0
    BY <1>0, <1>2 DEF WellFormed
  <2>3. CASE f.version < 3
    <3>1. f3 = File!Migrate2(f2, fresh) /\ f2.ids = 0
      BY <2>1, <2>3
    <3> HIDE DEF f3
    <3>2. /\ f3 \in File!Formats /\ f3.ids = fresh /\ f3.auth = f2.auth /\ f3.path = f2.path
          /\ f3.font = f2.font /\ f3.trust = f2.trust
      BY <1>2, <3>1, Migrate2Fields
    <3> QED
      BY <1>2, <3>2
  <2>4. CASE f.version >= 3
    BY <1>0, <1>2, <2>2, <2>4
  <2> QED
    BY <1>0, <2>3, <2>4
<1> HIDE DEF f3
<1>4. /\ f4 \in File!Formats /\ f4.auth = "entry" /\ f4.ids # 0 /\ f4.path # "absent"
      /\ f4.font = f.font /\ f4.trust = f.trust
  BY <1>0, <1>3, Migrate3Fields DEF WellFormed
<1> HIDE DEF f4
<1>5. /\ f5 \in File!Formats /\ f5.auth = "entry" /\ f5.ids # 0 /\ f5.path # "absent"
      /\ f5.font = (IF f.version < 5 THEN "Menlo" ELSE f.font) /\ f5.trust = f.trust
  BY <1>0, <1>4, Migrate4Fields DEF WellFormed
<1> HIDE DEF f5
<1>6. /\ f6 \in File!Formats /\ f6.auth = "entry" /\ f6.ids # 0 /\ f6.path # "absent"
      /\ f6.trust = f.trust
      /\ f6.font = (IF f.font = "own" THEN "own"
                    ELSE IF f.font = "Menlo" /\ f.version >= 6 THEN "Menlo"
                    ELSE "JetBrainsMono")
  BY <1>0, <1>5, Migrate5Fields DEF WellFormed
<1> HIDE DEF f6
<1>7. /\ f7 \in File!Formats /\ f7.version = 7
      /\ f7.auth = "entry" /\ f7.ids # 0 /\ f7.path # "absent" /\ f7.font = f6.font
      /\ f7.trust = (IF f.trust = "own" THEN "own" ELSE "ask")
  <2>1. CASE f.version < 7
    BY <1>0, <1>6, <2>1, Migrate6Fields DEF WellFormed
  <2>2. CASE f.version = 7
    <3>1. f7 = f6 /\ f6 = f5 /\ f5 = f4 /\ f4 = f3 /\ f3 = f2 /\ f2 = f
      BY <2>2 DEF f2, f3, f4, f5, f6
    <3> QED
      BY <1>0, <1>6, <2>2, <3>1 DEF WellFormed
  <2> QED
    BY <1>0, <2>1, <2>2
<1>8. File!Migrated(f, fresh) = f7
  BY DEF File!Migrated, f2, f3, f4, f5, f6, f7
<1> HIDE DEF f7
<1>9. Modern(f7)
  BY <1>6, <1>7 DEF Modern, WellFormed, File!Current
<1> QED
  BY <1>6, <1>7, <1>8, <1>9 DEF KeepsChoices

-----------------------------------------------------------------------------
(* Steps that leave the directory alone.                                   *)

\* What opening the file would leave in memory.
OpenedWith(file, fresh) == [file.held EXCEPT !.form = File!Migrated(@, fresh)]

LEMMA OpensWell ==
  ASSUME File!FileConstants, FileInv, NEW fresh \in 1..MaxVaults,
         now[File!VaultName].kind = "whole", now[File!VaultName].held.form.version <= File!Current
  PROVE  LET m == OpenedWith(now[File!VaultName], fresh) IN
         /\ m \in File!Held /\ Modern(m.form)
         /\ m.vault = 1 => answered.vault = 1 /\ KeepsChoices(m.form, answered.form)
<1> DEFINE h == now[File!VaultName].held
           m == OpenedWith(now[File!VaultName], fresh)
<1>1. h \in File!Held /\ h.form \in File!Formats
  BY NamesDiffer DEF FileInv, TypeInv, File!FileRecords, File!Held
<1>2. WellFormed(h.form) /\ (h.vault = 1 => answered.vault = 1 /\ h.form = answered.form)
  BY DEF FileInv, FormInv, SoundFile
<1>3. fresh \in Nat /\ fresh > 0
  OBVIOUS
<1>4. /\ File!Migrated(h.form, fresh) \in File!Formats /\ Modern(File!Migrated(h.form, fresh))
      /\ KeepsChoices(File!Migrated(h.form, fresh), h.form)
  BY <1>1, <1>2, <1>3, Migrates
<1>5. m = [h EXCEPT !.form = File!Migrated(h.form, fresh)]
  BY DEF OpenedWith
<1>6. m \in File!Held /\ m.form = File!Migrated(h.form, fresh) /\ m.vault = h.vault
  BY <1>1, <1>4, <1>5 DEF File!Held
<1> HIDE DEF m, h
<1>7. m.vault = 1 => answered.vault = 1 /\ KeepsChoices(m.form, answered.form)
  BY <1>2, <1>4, <1>6
<1> QED
  BY <1>4, <1>6, <1>7 DEF m, h

\* Opening, closing and forgetting the vault, and the end of a change before its end.
LEMMA Reopens ==
  ASSUME File!FileConstants, FileInv,
         UNCHANGED <<now, safe, answered, tried, replaced, turns, cut>>,
         job' \in {job, File!Idle}, made' \in 1..MaxVaults, cache' \in Secrets \cup {File!NoSecret},
         known' \in {known, memory'},
         \/ memory' \in {memory, File!Nothing}
         \/ \E fresh \in 1..MaxVaults :
              /\ now[File!VaultName].kind = "whole" /\ now[File!VaultName].held.form.version <= File!Current
              /\ memory' = OpenedWith(now[File!VaultName], fresh)
  PROVE  FileInv'
<1>1. /\ memory' \in File!Held
      /\ memory' # File!Nothing => Modern(memory'.form)
      /\ memory'.vault = 1 /\ answered.vault = 1 => KeepsChoices(memory'.form, answered.form)
      /\ memory'.vault = 1 /\ answered.vault # 1 => answered.form.ids >= 2
  <2>1. CASE memory' = memory
    BY <2>1 DEF FileInv, TypeInv, FormInv
  <2>2. CASE memory' = File!Nothing
    BY <2>2, NothingTyped
  <2>3. CASE \E fresh \in 1..MaxVaults :
               /\ now[File!VaultName].kind = "whole" /\ now[File!VaultName].held.form.version <= File!Current
               /\ memory' = OpenedWith(now[File!VaultName], fresh)
    BY <2>3, OpensWell
  <2> QED
    BY <2>1, <2>2, <2>3
<1>2. TypeInv'
  BY <1>1, IdleTyped DEF FileInv, TypeInv
<1>3. DurableInv'
  <2>1. JobInv'
    BY IdleTyped DEF FileInv, DurableInv, JobInv
  <2> QED
    BY <2>1 DEF FileInv, DurableInv, Firm, File!AnsweredIsDurable
<1>4. BackupsInv'
  <2>1. ASSUME NEW n \in File!Backups, n <= Reach(job, n, turns) PROVE n <= Reach(job', n, turns)
    BY <2>1, IdleTyped, NamesDiffer DEF FileInv, TypeInv, Reach, File!Backups, File!FileConstants
  <2>2. /\ job'.step = "shift" => job'.at < MaxBackups /\ now[job'.at + 1] = File!NoFile
        /\ job'.step = "copy" => now[1].kind = "torn"
        /\ (/\ job'.kind = "restore" /\ job'.step \in {"create", "write", "rename"}
            /\ now[File!VaultName].kind = "whole")
             => now[1].kind = "whole" /\ now[1].held = now[File!VaultName].held
    BY IdleTyped DEF FileInv, BackupsInv
  <2>3. replaced # File!Nothing /\ ~cut /\ turns <= MaxBackups =>
          \E n \in File!Backups : Keeps(n) /\ n <= Reach(job', n, turns)
    BY <2>1 DEF FileInv, BackupsInv
  <2> QED
    BY <2>2, <2>3 DEF BackupsInv, Keeps
<1>5. FormInv'
  <2>1. /\ job'.step # "none" => Modern(job'.held.form) /\ job'.held.vault >= 2
        /\ job'.kind = "download" => job'.held.form.ids >= 2
    BY IdleTyped DEF FileInv, FormInv
  <2>2. SoundFile(now[File!VaultName])' /\ SoundFile(safe[File!VaultName])'
    BY DEF FileInv, FormInv, SoundFile
  <2> QED
    BY <1>1, <2>1, <2>2 DEF FormInv
<1> QED
  BY <1>2, <1>3, <1>4, <1>5 DEF FileInv

LEMMA ExpireKeeps ==
  ASSUME File!FileConstants, FileInv, File!Expire
  PROVE  FileInv'
BY Reopens DEF FileInv, TypeInv, File!Expire, File!ghostVars

LEMMA LockKeeps ==
  ASSUME File!FileConstants, FileInv, File!Lock
  PROVE  FileInv'
BY Reopens DEF FileInv, TypeInv, File!Lock, File!ghostVars

LEMMA FailKeeps ==
  ASSUME File!FileConstants, FileInv, File!Fail
  PROVE  FileInv'
BY Reopens DEF FileInv, TypeInv, File!Fail, File!ghostVars

LEMMA UnlockKeeps ==
  ASSUME File!FileConstants, FileInv, NEW s \in Secrets, NEW r \in BOOLEAN, File!UnlockVault(s, r)
  PROVE  FileInv'
<1>1. made \in 1..MaxVaults /\ made < MaxVaults /\ MaxVaults \in Nat /\ File!Fresh \in 1..MaxVaults
  BY DEF FileInv, TypeInv, File!UnlockVault, File!Fresh, File!FileConstants
<1>2. /\ now[File!VaultName].kind = "whole" /\ now[File!VaultName].held.form.version <= File!Current
      /\ memory' = OpenedWith(now[File!VaultName], File!Fresh)
  BY DEF File!UnlockVault, File!Opens, File!Opened, OpenedWith
<1>3. /\ job' = job /\ made' \in 1..MaxVaults /\ cache' \in Secrets \cup {File!NoSecret} /\ known' = memory'
      /\ UNCHANGED <<now, safe, answered, tried, replaced, turns, cut>>
  BY <1>1 DEF File!UnlockVault
<1> QED
  BY <1>1, <1>2, <1>3, Reopens

LEMMA KillKeeps ==
  ASSUME File!FileConstants, FileInv, File!Kill
  PROVE  FileInv'
<1> DEFINE after == File!Restarted(now[File!VaultName], cache, File!Fresh)
<1>1. made \in 1..MaxVaults /\ made < MaxVaults /\ MaxVaults \in Nat /\ File!Fresh \in 1..MaxVaults
  BY DEF FileInv, TypeInv, File!Kill, File!Fresh, File!FileConstants
<1>2. cache \in Secrets \cup {File!NoSecret}
  BY DEF FileInv, TypeInv
<1>3. /\ memory' = after.memory /\ cache' = after.cache /\ job' = File!Idle /\ made' \in {made, File!Fresh}
      /\ known' \in {known, memory'}
      /\ UNCHANGED <<now, safe, answered, tried, replaced, turns, cut>>
  BY DEF File!Kill
<1>4. CASE cache # File!NoSecret /\ File!Opens(now[File!VaultName], cache)
  <2>1. after.memory = OpenedWith(now[File!VaultName], File!Fresh) /\ after.cache = cache
    BY <1>4 DEF File!Restarted, OpenedWith
  <2>2. now[File!VaultName].kind = "whole" /\ now[File!VaultName].held.form.version <= File!Current
    BY <1>4 DEF File!Opens
  <2> HIDE DEF after
  <2> QED
    BY <1>1, <1>2, <1>3, <2>1, <2>2, Reopens
<1>5. CASE ~(cache # File!NoSecret /\ File!Opens(now[File!VaultName], cache))
  <2>1. after.memory = File!Nothing /\ after.cache \in Secrets \cup {File!NoSecret}
    BY <1>2, <1>5 DEF File!Restarted
  <2> HIDE DEF after
  <2> QED
    BY <1>1, <1>2, <1>3, <2>1, Reopens
<1> QED
  BY <1>4, <1>5

-----------------------------------------------------------------------------
(* Changes begin.                                                          *)

\* A change begins with a vault there never was, which may be in memory already.
LEMMA Begins ==
  ASSUME File!FileConstants, FileInv,
         NEW kind \in {"write", "download", "restore"}, NEW step \in {"create", "removeOldest"},
         NEW held \in File!Held,
         job = File!Idle, File!Begin(kind, step, held),
         Modern(held.form), held.vault >= 2,
         kind = "download" => held.form.ids >= 2,
         kind = "restore" /\ step = "create" => now[File!VaultName] = File!NoFile,
         made' \in 1..MaxVaults, memory' \in {memory, held}, known' \in {known, memory'},
         turns' = (IF step = "removeOldest" THEN turns + 1 ELSE turns),
         UNCHANGED <<now, safe, cache, answered, replaced, cut>>
  PROVE  FileInv'
<1>0. job' = [kind |-> kind, step |-> step, at |-> 0, held |-> held] /\ tried' = tried \cup {held}
  BY DEF File!Begin
<1>1. /\ job' \in Jobs /\ job'.kind = kind /\ job'.step = step /\ job'.held = held
      /\ step # "none" /\ step # "rename" /\ step # "sync" /\ step # "answer" /\ step # "shift"
      /\ step # "copy"
  <2>1. 0 \in 0..MaxBackups /\ kind \in JobKinds /\ step \in JobSteps
    BY DEF File!FileConstants, JobKinds, JobSteps
  <2> QED
    BY <1>0, <2>1 DEF Jobs
<1>2. TypeInv'
  <2>1. turns' \in Nat
    BY DEF FileInv, TypeInv
  <2>2. memory' \in File!Held /\ known' \in File!Held /\ tried' \subseteq File!Held
    BY <1>0 DEF FileInv, TypeInv
  <2> QED
    BY <1>1, <2>1, <2>2 DEF FileInv, TypeInv
<1>3. DurableInv'
  <2>1. JobInv'
    BY <1>0, <1>1 DEF JobInv
  <2>2. File!AnsweredIsDurable'
    BY <1>0 DEF FileInv, DurableInv, File!AnsweredIsDurable
  <2> QED
    BY <2>1, <2>2 DEF FileInv, DurableInv, Firm
<1>4. BackupsInv'
  <2>1. (/\ job'.kind = "restore" /\ job'.step \in {"create", "write", "rename"}
         /\ now[File!VaultName].kind = "whole")
          => now[1].kind = "whole" /\ now[1].held = now[File!VaultName].held
    BY <1>1 DEF File!NoFile
  <2>2. ASSUME replaced # File!Nothing, ~cut, turns' <= MaxBackups
        PROVE  \E n \in File!Backups : Keeps(n) /\ n <= Reach(job', n, turns')
    <3>1. turns \in Nat /\ turns <= turns' /\ MaxBackups \in Nat
      BY DEF FileInv, TypeInv, File!FileConstants
    <3>2. turns <= MaxBackups
      BY <2>2, <3>1
    <3>3. PICK n \in File!Backups : Keeps(n) /\ n <= Reach(job, n, turns)
      BY <2>2, <3>2 DEF FileInv, BackupsInv
    <3>4. Reach(job, n, turns) = turns
      BY IdleTyped DEF Reach
    <3>5. Reach(job', n, turns') = turns
      BY <1>1, <3>1 DEF Reach
    <3> QED
      BY <3>3, <3>4, <3>5
  <2> QED
    BY <1>1, <2>1, <2>2 DEF BackupsInv, Keeps
<1>5. FormInv'
  <2>1. SoundFile(now[File!VaultName])' /\ SoundFile(safe[File!VaultName])'
    BY DEF FileInv, FormInv, SoundFile
  <2>2. /\ memory' # File!Nothing => Modern(memory'.form)
        /\ memory'.vault = 1 => memory' = memory
    BY DEF FileInv, FormInv
  <2> QED
    BY <1>1, <2>1, <2>2 DEF FileInv, FormInv
<1> QED
  BY <1>2, <1>3, <1>4, <1>5 DEF FileInv

\* A vault that is new.
LEMMA NewVault ==
  ASSUME File!FileConstants, FileInv, made < MaxVaults, NEW s \in Secrets,
         NEW h, h = [vault |-> File!Fresh, secret |-> s, form |-> [File!NoForm EXCEPT !.ids = File!Fresh]]
  PROVE  /\ File!Fresh \in 1..MaxVaults
         /\ h \in File!Held /\ Modern(h.form) /\ h.vault >= 2 /\ h.form.ids >= 2
<1>1. File!Fresh \in Nat /\ File!Fresh \in 1..MaxVaults /\ File!Fresh \in 0..MaxVaults /\ File!Fresh >= 2 /\ File!Fresh > 0
  BY DEF FileInv, TypeInv, File!FileConstants, File!Fresh
<1> QED
  BY <1>1, NewFormTyped DEF File!Held

LEMMA CreateKeeps ==
  ASSUME File!FileConstants, FileInv, NEW s \in Secrets, File!CreateVault(s)
  PROVE  FileInv'
<1> DEFINE h == [vault |-> File!Fresh, secret |-> s, form |-> [File!NoForm EXCEPT !.ids = File!Fresh]]
<1>1. /\ job = File!Idle /\ made < MaxVaults /\ made' = File!Fresh /\ File!Begin("write", "create", h)
      /\ UNCHANGED <<now, safe, memory, cache, answered, known, replaced, turns, cut>>
  BY DEF File!CreateVault
<1>2. /\ File!Fresh \in 1..MaxVaults
      /\ h \in File!Held /\ Modern(h.form) /\ h.vault >= 2 /\ h.form.ids >= 2
  BY <1>1, NewVault
<1> HIDE DEF h
<1> QED
  BY <1>1, <1>2, Begins

LEMMA DownloadKeeps ==
  ASSUME File!FileConstants, FileInv, NEW s \in Secrets, File!Download(s)
  PROVE  FileInv'
<1> DEFINE h == [vault |-> File!Fresh, secret |-> s, form |-> [File!NoForm EXCEPT !.ids = File!Fresh]]
<1>1. /\ job = File!Idle /\ made < MaxVaults /\ made' = File!Fresh /\ File!Begin("download", "create", h)
      /\ UNCHANGED <<now, safe, memory, cache, answered, known, replaced, turns, cut>>
  BY DEF File!Download
<1>2. /\ File!Fresh \in 1..MaxVaults
      /\ h \in File!Held /\ Modern(h.form) /\ h.vault >= 2 /\ h.form.ids >= 2
  BY <1>1, NewVault
<1> HIDE DEF h
<1> QED
  BY <1>1, <1>2, Begins

LEMMA RestoreKeeps ==
  ASSUME File!FileConstants, FileInv, NEW s \in Secrets, File!RestoreBackup(s)
  PROVE  FileInv'
<1> DEFINE h == [vault |-> File!Fresh, secret |-> s, form |-> [File!NoForm EXCEPT !.ids = File!Fresh]]
           step == IF now[File!VaultName] = File!NoFile THEN "create" ELSE "removeOldest"
<1>1. /\ job = File!Idle /\ made < MaxVaults /\ made' = File!Fresh /\ File!Begin("restore", step, h)
      /\ turns' = (IF step = "removeOldest" THEN turns + 1 ELSE turns)
      /\ UNCHANGED <<now, safe, memory, cache, answered, known, replaced, cut>>
  BY DEF File!RestoreBackup
<1>2. /\ File!Fresh \in 1..MaxVaults
      /\ h \in File!Held /\ Modern(h.form) /\ h.vault >= 2 /\ h.form.ids >= 2
  BY <1>1, NewVault
<1>3. step \in {"create", "removeOldest"} /\ (step = "create" => now[File!VaultName] = File!NoFile)
  OBVIOUS
<1> HIDE DEF h, step
<1> QED
  BY <1>1, <1>2, <1>3, Begins

LEMMA EditKeeps ==
  ASSUME File!FileConstants, FileInv, File!Edit
  PROVE  FileInv'
<1>1. /\ job = File!Idle /\ memory # File!Nothing /\ made < MaxVaults /\ made' = File!Fresh
      /\ memory' = [memory EXCEPT !.vault = File!Fresh] /\ File!Begin("write", "create", memory')
      /\ known' = memory'
      /\ UNCHANGED <<now, safe, cache, answered, replaced, turns, cut>>
  BY DEF File!Edit
<1>2. File!Fresh \in 1..MaxVaults /\ File!Fresh \in 0..MaxVaults /\ File!Fresh >= 2
  BY <1>1 DEF FileInv, TypeInv, File!FileConstants, File!Fresh
<1>3. memory \in File!Held /\ Modern(memory.form)
  BY <1>1 DEF FileInv, TypeInv, FormInv
<1>4. memory' \in File!Held /\ memory'.vault = File!Fresh /\ memory'.form = memory.form
  BY <1>1, <1>2, <1>3 DEF File!Held
<1> QED
  BY <1>1, <1>2, <1>3, <1>4, Begins

-----------------------------------------------------------------------------
(* Steps that leave the vault's own name alone.                            *)

\* A step of the change under way, with the vault's name naming what it did.
StepBeside(step, at) ==
  /\ job' = [job EXCEPT !.step = step, !.at = at]
  /\ now' \in [File!Names -> File!FileRecords] /\ now'[File!VaultName] = now[File!VaultName]
  /\ UNCHANGED <<safe, memory, cache, made, answered, tried, known, replaced, turns, cut, left>>

LEMMA NextJob ==
  ASSUME File!FileConstants, FileInv, NEW step \in JobSteps, NEW at \in 0..MaxBackups,
         job' = [job EXCEPT !.step = step, !.at = at]
  PROVE  job' \in Jobs /\ job'.step = step /\ job'.at = at /\ job'.kind = job.kind
         /\ job'.held = job.held
BY DEF FileInv, TypeInv, Jobs

LEMMA BesideKeeps ==
  ASSUME File!FileConstants, FileInv, job.step # "none",
         NEW step \in {"shift", "copy", "create", "write", "rename"}, NEW at \in 0..MaxBackups,
         StepBeside(step, at),
         step = "rename" => now'[File!TempName] = File!Whole(job.held, TRUE),
         BackupsInv'
  PROVE  FileInv'
<1>1. job' \in Jobs /\ job'.step = step /\ job'.at = at /\ job'.kind = job.kind
      /\ job'.held = job.held
  BY NextJob DEF StepBeside, JobSteps
<1>2. TypeInv'
  BY <1>1 DEF FileInv, TypeInv, StepBeside
<1>3. DurableInv'
  <2>1. JobInv'
    <3>1. job'.held \in tried'
      BY <1>1 DEF FileInv, DurableInv, JobInv, StepBeside
    <3>2. job'.step = "rename" => now'[File!TempName] = File!Whole(job'.held, TRUE)
      BY <1>1
    <3>3. job'.step \notin {"sync", "answer"}
      BY <1>1
    <3> QED
      BY <3>1, <3>2, <3>3 DEF JobInv
  <2>2. File!AnsweredIsDurable'
    BY DEF FileInv, DurableInv, File!AnsweredIsDurable, StepBeside
  <2> QED
    BY <2>1, <2>2 DEF FileInv, DurableInv, Firm, StepBeside
<1>4. FormInv'
  <2>1. SoundFile(now[File!VaultName])' /\ SoundFile(safe[File!VaultName])'
    BY DEF FileInv, FormInv, SoundFile, StepBeside
  <2> QED
    BY <1>1, <2>1 DEF FileInv, FormInv, StepBeside
<1> QED
  BY <1>2, <1>3, <1>4 DEF FileInv

\* The rotation never has two backups for one place, so none is lost but the oldest.
LEMMA RemoveOldestKeeps ==
  ASSUME File!FileConstants, FileInv, File!RemoveOldest
  PROVE  FileInv'
<1>1. /\ MaxBackups \in Nat /\ MaxBackups >= 1 /\ turns \in Nat /\ MaxBackups \in File!Names
      /\ MaxBackups # File!VaultName /\ MaxBackups \in File!Backups
      /\ File!FirstShift = MaxBackups - 1 /\ File!FirstShift \in 0..MaxBackups
  BY DEF FileInv, TypeInv, File!FileConstants, File!Names, File!VaultName, File!TempName,
     File!Backups, File!FirstShift
<1>2. /\ job.step = "removeOldest" /\ now' = [now EXCEPT ![MaxBackups] = File!NoFile]
      /\ job' = [job EXCEPT !.step = "shift", !.at = File!FirstShift]
      /\ UNCHANGED <<safe, memory, cache, made, answered, tried, known, replaced, turns, cut, left>>
  BY DEF File!RemoveOldest, File!At, File!Goto, File!JobVars, File!ghostVars
<1>3. /\ now' \in [File!Names -> File!FileRecords] /\ now'[MaxBackups] = File!NoFile
      /\ \A n \in File!Names : n # MaxBackups => now'[n] = now[n]
  BY <1>1, <1>2, FilesTyped DEF FileInv, TypeInv
<1>4. job'.step = "shift" /\ job'.at = MaxBackups - 1
  BY <1>1, <1>2, NextJob DEF JobSteps
<1>5. BackupsInv'
  <2>1. ASSUME replaced # File!Nothing, ~cut, turns <= MaxBackups
        PROVE  \E n \in File!Backups : /\ now'[n].kind = "whole"
                                  /\ now'[n].held.vault = replaced.vault
                                  /\ n <= Reach(job', n, turns)
    <3>1. PICK n \in File!Backups : Keeps(n) /\ n <= Reach(job, n, turns)
      BY <2>1 DEF FileInv, BackupsInv
    <3>2. n \in File!Names /\ n \in Nat /\ n <= turns - 1
      BY <1>2, <3>1, NamesDiffer DEF Reach, File!Backups
    <3>3. n # MaxBackups
      BY <1>1, <2>1, <3>2
    <3>4. Reach(job', n, turns) >= turns - 1
      BY <1>1 DEF Reach
    <3>5. Reach(job', n, turns) \in Int
      BY <1>1 DEF Reach
    <3> QED
      BY <1>1, <1>3, <3>1, <3>2, <3>3, <3>4, <3>5 DEF Keeps
  <2>2. job'.at < MaxBackups /\ now'[job'.at + 1] = File!NoFile
    BY <1>1, <1>3, <1>4
  <2>3. replaced' = replaced /\ cut' = cut /\ turns' = turns
    BY <1>2
  <2> QED
    BY <1>4, <2>1, <2>2, <2>3 DEF BackupsInv, Keeps
<1>6. StepBeside("shift", File!FirstShift)
  BY <1>1, <1>2, <1>3, NamesDiffer DEF StepBeside
<1> QED
  BY <1>1, <1>2, <1>5, <1>6, BesideKeeps

LEMMA ShiftKeeps ==
  ASSUME File!FileConstants, FileInv, File!Shift
  PROVE  FileInv'
<1> DEFINE at == job.at
<1>1. /\ job.step = "shift" /\ at > 0
      /\ now' = IF now[at] = File!NoFile THEN now
                ELSE [now EXCEPT ![at] = File!NoFile, ![at + 1] = now[at]]
      /\ job' = [job EXCEPT !.step = "shift", !.at = at - 1]
      /\ UNCHANGED <<safe, memory, cache, made, answered, tried, known, replaced, turns, cut, left>>
  BY DEF File!Shift, File!At, File!Goto, File!JobVars, File!ghostVars
<1>2. at \in Nat /\ at < MaxBackups /\ now[at + 1] = File!NoFile
  BY <1>1 DEF FileInv, TypeInv, BackupsInv, Jobs
<1>3. /\ MaxBackups \in Nat /\ turns \in Nat
      /\ at \in File!Names /\ at + 1 \in File!Names /\ at + 1 \in File!Backups
      /\ File!VaultName \in File!Names /\ at # File!VaultName /\ at + 1 # File!VaultName
      /\ at - 1 \in 0..MaxBackups
  BY <1>1, <1>2 DEF FileInv, TypeInv, File!FileConstants, File!Names, File!VaultName,
     File!TempName, File!Backups
<1>4. /\ now' \in [File!Names -> File!FileRecords]
      /\ now'[at] = File!NoFile /\ now'[at + 1] = now[at]
      /\ \A n \in File!Names : n # at /\ n # at + 1 => now'[n] = now[n]
  BY <1>1, <1>2, <1>3, FilesTyped DEF FileInv, TypeInv
<1>5. job'.step = "shift" /\ job'.at = at - 1
  BY <1>1, <1>3, NextJob DEF JobSteps
<1> HIDE DEF at
<1>6. BackupsInv'
  <2>1. ASSUME replaced # File!Nothing, ~cut, turns <= MaxBackups
        PROVE  \E n \in File!Backups : /\ now'[n].kind = "whole"
                                  /\ now'[n].held.vault = replaced.vault
                                  /\ n <= Reach(job', n, turns)
    <3>1. PICK n \in File!Backups : Keeps(n) /\ n <= Reach(job, n, turns)
      BY <2>1 DEF FileInv, BackupsInv
    <3>2. n \in File!Names /\ n \in Nat
      BY NamesDiffer DEF File!Backups
    <3>3. n <= turns /\ (n <= at => n <= turns - 1)
      BY <1>1, <1>3, <3>1, <3>2 DEF Reach, at
    <3>4. n # at + 1
      BY <1>2, <3>1 DEF Keeps, File!NoFile
    <3>5. CASE n = at
      <4>1. now'[at + 1].kind = "whole" /\ now'[at + 1].held.vault = replaced.vault
        BY <1>4, <3>1, <3>5 DEF Keeps
      <4>2. Reach(job', at + 1, turns) = turns
        BY <1>2, <1>5 DEF Reach
      <4>3. at + 1 <= turns
        BY <1>2, <1>3, <3>3, <3>5
      <4> QED
        BY <1>3, <4>1, <4>2, <4>3
    <3>6. CASE n # at
      <4>1. now'[n] = now[n]
        BY <1>4, <3>2, <3>4, <3>6
      <4>2. n <= Reach(job', n, turns)
        BY <1>2, <1>3, <1>5, <3>2, <3>3 DEF Reach
      <4> QED
        BY <3>1, <4>1, <4>2 DEF Keeps
    <3> QED
      BY <3>5, <3>6
  <2>2. job'.at < MaxBackups /\ now'[job'.at + 1] = File!NoFile
    <3>1. job'.at + 1 = at /\ job'.at < MaxBackups
      BY <1>2, <1>3, <1>5
    <3> QED
      BY <1>4, <3>1
  <2>3. replaced' = replaced /\ cut' = cut /\ turns' = turns
    BY <1>1
  <2> QED
    BY <1>5, <2>1, <2>2, <2>3 DEF BackupsInv, Keeps
<1>7. StepBeside("shift", at - 1)
  BY <1>1, <1>3, <1>4 DEF StepBeside
<1> QED
  BY <1>1, <1>3, <1>6, <1>7, BesideKeeps

\* When the backups have moved the first place is free, and the copy takes it.
LEMMA CopyBeginsKeeps ==
  ASSUME File!FileConstants, FileInv, File!CopyBegins
  PROVE  FileInv'
<1>1. /\ job.step = "shift" /\ job.at = 0 /\ now' = [now EXCEPT ![1] = File!Torn(now[File!VaultName].held)]
      /\ job' = [job EXCEPT !.step = "copy", !.at = 0]
      /\ UNCHANGED <<safe, memory, cache, made, answered, tried, known, replaced, turns, cut, left>>
  BY DEF File!CopyBegins, File!At, File!Goto, File!JobVars, File!ghostVars
<1>2. now[1] = File!NoFile
  BY <1>1 DEF FileInv, BackupsInv
<1>3. MaxBackups \in Nat /\ turns \in Nat /\ 1 \in File!Names /\ 1 # File!VaultName /\ 0 \in 0..MaxBackups
  BY NamesDiffer DEF FileInv, TypeInv, File!FileConstants, File!VaultName
<1>4. File!Torn(now[File!VaultName].held) \in File!FileRecords
  BY FilesTyped, NamesDiffer DEF FileInv, TypeInv, File!FileRecords
<1>5. /\ now' \in [File!Names -> File!FileRecords] /\ now'[1].kind = "torn"
      /\ \A n \in File!Names : n # 1 => now'[n] = now[n]
  BY <1>1, <1>3, <1>4 DEF FileInv, TypeInv, File!Torn
<1>6. job'.step = "copy"
  BY <1>1, <1>3, NextJob DEF JobSteps
<1>7. BackupsInv'
  <2>1. ASSUME replaced # File!Nothing, ~cut, turns <= MaxBackups
        PROVE  \E n \in File!Backups : /\ now'[n].kind = "whole"
                                  /\ now'[n].held.vault = replaced.vault
                                  /\ n <= Reach(job', n, turns)
    <3>1. PICK n \in File!Backups : Keeps(n) /\ n <= Reach(job, n, turns)
      BY <2>1 DEF FileInv, BackupsInv
    <3>2. n \in File!Names /\ n \in Nat /\ n # 1
      BY <1>2, <3>1, NamesDiffer DEF File!Backups, Keeps, File!NoFile
    <3>3. n <= turns
      BY <1>3, <3>1, <3>2 DEF Reach
    <3>4. Reach(job', n, turns) = turns
      BY <1>6 DEF Reach
    <3> QED
      BY <1>5, <3>1, <3>2, <3>3, <3>4 DEF Keeps
  <2>2. replaced' = replaced /\ cut' = cut /\ turns' = turns
    BY <1>1
  <2> QED
    BY <1>5, <1>6, <2>1, <2>2 DEF BackupsInv, Keeps
<1>8. StepBeside("copy", 0)
  BY <1>1, <1>3, <1>5, NamesDiffer DEF StepBeside
<1> QED
  BY <1>1, <1>3, <1>7, <1>8, BesideKeeps

LEMMA CopyEndsKeeps ==
  ASSUME File!FileConstants, FileInv, File!CopyEnds
  PROVE  FileInv'
<1> DEFINE copy == [now[File!VaultName] EXCEPT !.synced = FALSE]
<1>1. /\ job.step = "copy" /\ now' = [now EXCEPT ![1] = copy]
      /\ job' = [job EXCEPT !.step = "create", !.at = 0]
      /\ UNCHANGED <<safe, memory, cache, made, answered, tried, known, replaced, turns, cut, left>>
  BY DEF File!CopyEnds, File!At, File!Goto, File!JobVars, File!ghostVars
<1>2. MaxBackups \in Nat /\ turns \in Nat /\ 1 \in File!Names /\ 1 # File!VaultName /\ 0 \in 0..MaxBackups
  BY NamesDiffer DEF FileInv, TypeInv, File!FileConstants, File!VaultName
<1>3. copy \in File!FileRecords /\ copy.kind = now[File!VaultName].kind /\ copy.held = now[File!VaultName].held
  <2>1. now[File!VaultName] \in File!FileRecords
    BY NamesDiffer DEF FileInv, TypeInv
  <2> QED
    BY <2>1 DEF File!FileRecords
<1> HIDE DEF copy
<1>4. /\ now' \in [File!Names -> File!FileRecords] /\ now'[1] = copy
      /\ \A n \in File!Names : n # 1 => now'[n] = now[n]
  BY <1>1, <1>2, <1>3 DEF FileInv, TypeInv
<1>5. job'.step = "create"
  BY <1>1, <1>2, NextJob DEF JobSteps
<1>6. File!VaultName \in File!Names /\ now'[File!VaultName] = now[File!VaultName]
  BY <1>2, <1>4, NamesDiffer
<1>7. BackupsInv'
  <2>1. ASSUME replaced # File!Nothing, ~cut, turns <= MaxBackups
        PROVE  \E n \in File!Backups : /\ now'[n].kind = "whole"
                                  /\ now'[n].held.vault = replaced.vault
                                  /\ n <= Reach(job', n, turns)
    <3>1. PICK n \in File!Backups : Keeps(n) /\ n <= Reach(job, n, turns)
      BY <2>1 DEF FileInv, BackupsInv
    <3>2. n \in File!Names /\ n <= turns /\ n # 1
      BY <1>1, <3>1, NamesDiffer DEF Reach, Keeps, FileInv, BackupsInv
    <3>3. Reach(job', n, turns) = turns
      BY <1>5 DEF Reach
    <3> QED
      BY <1>4, <3>1, <3>2, <3>3 DEF Keeps
  <2>2. replaced' = replaced /\ cut' = cut /\ turns' = turns
    BY <1>1
  <2> QED
    BY <1>3, <1>4, <1>5, <1>6, <2>1, <2>2 DEF BackupsInv, Keeps
<1>8. StepBeside("create", 0)
  BY <1>1, <1>4, <1>6 DEF StepBeside
<1> QED
  BY <1>1, <1>2, <1>7, <1>8, BesideKeeps

-----------------------------------------------------------------------------
(* The change gets its name.                                               *)

\* The temporary file is no backup.
LEMMA TempKeeps ==
  ASSUME File!FileConstants, FileInv,
         NEW before \in {"create", "write"}, NEW step \in {"write", "rename"},
         NEW file \in File!FileRecords,
         job.step = before, job' = [job EXCEPT !.step = step, !.at = 0],
         now' = [now EXCEPT ![File!TempName] = file],
         step = "rename" => file = File!Whole(job.held, TRUE),
         UNCHANGED <<safe, memory, cache, made, answered, tried, known, replaced, turns, cut, left>>
  PROVE  FileInv'
<1>1. /\ now' \in [File!Names -> File!FileRecords] /\ now'[File!TempName] = file
      /\ \A n \in File!Names : n # File!TempName => now'[n] = now[n]
  BY NamesDiffer DEF FileInv, TypeInv
<1>2. 0 \in 0..MaxBackups
  BY DEF File!FileConstants
<1>3. job'.step = step /\ job'.kind = job.kind
  BY <1>2, NextJob DEF JobSteps
<1>4. now'[File!VaultName] = now[File!VaultName] /\ \A n \in File!Backups : now'[n] = now[n]
  BY <1>1, NamesDiffer
<1>5. \A n : Reach(job', n, turns) = Reach(job, n, turns)
  BY <1>3 DEF Reach
<1>6. BackupsInv'
  BY <1>3, <1>4, <1>5, NamesDiffer DEF FileInv, BackupsInv, Keeps
<1>7. StepBeside(step, 0)
  BY <1>1, <1>4 DEF StepBeside
<1> QED
  BY <1>1, <1>2, <1>6, <1>7, BesideKeeps

LEMMA CreateTempKeeps ==
  ASSUME File!FileConstants, FileInv, File!CreateTemp
  PROVE  FileInv'
<1>1. File!Torn(job.held) \in File!FileRecords
  BY FilesTyped DEF FileInv, TypeInv, Jobs
<1>2. /\ job.step = "create" /\ now' = [now EXCEPT ![File!TempName] = File!Torn(job.held)]
      /\ job' = [job EXCEPT !.step = "write", !.at = 0]
      /\ UNCHANGED <<safe, memory, cache, made, answered, tried, known, replaced, turns, cut, left>>
  BY DEF File!CreateTemp, File!At, File!Goto, File!JobVars, File!ghostVars
<1> QED
  BY <1>1, <1>2, TempKeeps

LEMMA WriteTempKeeps ==
  ASSUME File!FileConstants, FileInv, File!WriteTemp
  PROVE  FileInv'
<1>1. File!Whole(job.held, TRUE) \in File!FileRecords
  BY FilesTyped DEF FileInv, TypeInv, Jobs
<1>2. /\ job.step = "write" /\ now' = [now EXCEPT ![File!TempName] = File!Whole(job.held, TRUE)]
      /\ job' = [job EXCEPT !.step = "rename", !.at = 0]
      /\ UNCHANGED <<safe, memory, cache, made, answered, tried, known, replaced, turns, cut, left>>
  BY DEF File!WriteTemp, File!At, File!Goto, File!JobVars, File!ghostVars, File!Written
<1> QED
  BY <1>1, <1>2, TempKeeps

LEMMA RenameKeeps ==
  ASSUME File!FileConstants, FileInv, File!Rename
  PROVE  FileInv'
<1> DEFINE file == File!Whole(job.held, TRUE)
<1>1. /\ job.step = "rename"
      /\ now' = [now EXCEPT ![File!VaultName] = now[File!TempName], ![File!TempName] = File!NoFile]
      /\ job' = [job EXCEPT !.step = "sync", !.at = 0]
      /\ UNCHANGED <<safe, memory, cache, made, answered, tried, known, left>>
  BY DEF File!Rename, File!At, File!Goto
<1>2. now[File!TempName] = file /\ job.held \in tried /\ job.held \in File!Held
  BY <1>1 DEF FileInv, TypeInv, Jobs, DurableInv, JobInv
<1>3. /\ now' \in [File!Names -> File!FileRecords] /\ now'[File!VaultName] = file
      /\ \A n \in File!Backups : now'[n] = now[n]
  BY <1>1, <1>2, FilesTyped, NamesDiffer DEF FileInv, TypeInv
<1>4. job' \in Jobs /\ job'.step = "sync" /\ job'.kind = job.kind /\ job'.held = job.held
  <2>1. 0 \in 0..MaxBackups
    BY DEF File!FileConstants
  <2> QED
    BY <1>1, <2>1, NextJob DEF JobSteps
<1>5. file.kind = "whole" /\ file.synced /\ file.held = job.held
  BY DEF File!Whole
<1> HIDE DEF file
<1>6. \/ /\ job.kind = "restore" /\ now[File!VaultName].kind = "whole"
         /\ replaced' = now[File!VaultName].held /\ turns' = 1 /\ cut' = FALSE
      \/ UNCHANGED <<replaced, turns, cut>>
  BY DEF File!Rename
<1>7. TypeInv'
  <2>1. replaced' \in File!Held /\ turns' \in Nat /\ cut' \in BOOLEAN
    <3>1. now[File!VaultName].held \in File!Held
      BY NamesDiffer DEF FileInv, TypeInv, File!FileRecords
    <3>2. replaced \in File!Held /\ turns \in Nat /\ cut \in BOOLEAN /\ 1 \in Nat
      BY DEF FileInv, TypeInv
    <3>3. CASE UNCHANGED <<replaced, turns, cut>>
      BY <3>2, <3>3
    <3>4. CASE replaced' = now[File!VaultName].held /\ turns' = 1 /\ cut' = FALSE
      BY <3>1, <3>2, <3>4
    <3> QED
      BY <1>6, <3>3, <3>4
  <2> QED
    BY <1>1, <1>3, <1>4, <2>1 DEF FileInv, TypeInv
<1>8. DurableInv'
  <2>1. JobInv'
    <3>1. job'.held \in tried' /\ job'.step # "rename" /\ job'.step # "answer"
      BY <1>1, <1>2, <1>4
    <3>2. now'[File!VaultName] = File!Whole(job'.held, TRUE)
      BY <1>3, <1>4 DEF file
    <3> QED
      BY <3>1, <3>2 DEF JobInv
  <2>2. File!AnsweredIsDurable'
    BY <1>1, <1>2, <1>3, <1>5 DEF FileInv, DurableInv, File!AnsweredIsDurable
  <2> QED
    BY <1>1, <1>3, <1>5, <2>1, <2>2 DEF FileInv, DurableInv, Firm
<1>9. BackupsInv'
  <2>1. \A n, t : Reach(job', n, t) = t /\ Reach(job, n, t) = t
    BY <1>1, <1>4 DEF Reach
  <2>2. CASE job.kind = "restore" /\ now[File!VaultName].kind = "whole"
             /\ replaced' = now[File!VaultName].held /\ turns' = 1 /\ cut' = FALSE
    <3>1. now[1].kind = "whole" /\ now[1].held = now[File!VaultName].held
      BY <1>1, <2>2 DEF FileInv, BackupsInv
    <3>2. 1 \in File!Backups /\ now'[1].kind = "whole" /\ now'[1].held.vault = replaced'.vault
      BY <1>3, <2>2, <3>1, NamesDiffer
    <3> QED
      BY <1>4, <2>1, <2>2, <3>2 DEF BackupsInv, Keeps
  <2>3. CASE UNCHANGED <<replaced, turns, cut>>
    BY <1>3, <1>4, <2>1, <2>3 DEF FileInv, BackupsInv, Keeps
  <2> QED
    BY <1>6, <2>2, <2>3
<1>10. FormInv'
  <2>1. /\ Modern(job.held.form) /\ job.held.vault >= 2
    BY <1>1 DEF FileInv, FormInv
  <2>2. SoundFile(now[File!VaultName])'
    BY <1>3, <1>5, <2>1 DEF SoundFile, Modern
  <2>3. SoundFile(safe[File!VaultName])'
    BY <1>1 DEF FileInv, FormInv, SoundFile
  <2> QED
    BY <1>1, <1>4, <2>1, <2>2, <2>3 DEF FileInv, FormInv
<1> QED
  BY <1>7, <1>8, <1>9, <1>10 DEF FileInv

LEMMA SyncKeeps ==
  ASSUME File!FileConstants, FileInv, File!SyncDirectory
  PROVE  FileInv'
<1>1. /\ job.step = "sync" /\ safe' = now
      /\ job' = [job EXCEPT !.step = "answer", !.at = 0]
      /\ UNCHANGED <<now, memory, cache, made, answered, tried, known, replaced, turns, cut, left>>
  BY DEF File!SyncDirectory, File!DirectorySynced, File!At, File!Goto, File!ghostVars
<1>2. job' \in Jobs /\ job'.step = "answer" /\ job'.kind = job.kind /\ job'.held = job.held
  <2>1. 0 \in 0..MaxBackups
    BY DEF File!FileConstants
  <2> QED
    BY <1>1, <2>1, NextJob DEF JobSteps
<1>3. TypeInv'
  BY <1>1, <1>2 DEF FileInv, TypeInv
<1>4. DurableInv'
  <2>1. JobInv'
    <3>1. job.held \in tried /\ now[File!VaultName] = File!Whole(job.held, TRUE)
      BY <1>1 DEF FileInv, DurableInv, JobInv
    <3>2. job'.held \in tried' /\ now'[File!VaultName] = File!Whole(job'.held, TRUE)
      BY <1>1, <1>2, <3>1
    <3> QED
      BY <1>1, <1>2, <3>2 DEF JobInv
  <2>2. File!AnsweredIsDurable'
    BY <1>1 DEF FileInv, DurableInv, File!AnsweredIsDurable
  <2> QED
    BY <1>1, <2>1, <2>2 DEF FileInv, DurableInv, Firm
<1>5. BackupsInv'
  <2>1. \A n, t : Reach(job', n, t) = Reach(job, n, t)
    BY <1>1, <1>2 DEF Reach
  <2> QED
    BY <1>1, <1>2, <2>1 DEF FileInv, BackupsInv, Keeps
<1>6. FormInv'
  <2>1. SoundFile(now[File!VaultName])' /\ SoundFile(safe[File!VaultName])'
    BY <1>1 DEF FileInv, FormInv, SoundFile
  <2> QED
    BY <1>1, <1>2, <2>1 DEF FileInv, FormInv
<1> QED
  BY <1>3, <1>4, <1>5, <1>6 DEF FileInv

\* The vault that is answered for is the one the file holds.
LEMMA AnswerKeeps ==
  ASSUME File!FileConstants, FileInv, File!Answer
  PROVE  FileInv'
<1> DEFINE held == job.held
<1>1. /\ job.step = "answer" /\ job' = File!Idle /\ answered' = held /\ tried' = {}
      /\ memory' = (IF job.kind = "download" /\ held.secret # memory.secret THEN memory ELSE held)
      /\ known' = (IF memory' = File!Nothing THEN known ELSE memory')
      /\ UNCHANGED <<now, safe, cache, made, replaced, turns, cut, left>>
  BY DEF File!Answer, File!At
<1>2. held \in File!Held
  BY DEF FileInv, TypeInv, Jobs
<1>3. Modern(held.form) /\ held.vault >= 2 /\ (job.kind = "download" => held.form.ids >= 2)
  BY <1>1 DEF FileInv, FormInv
<1>4. now[File!VaultName] = File!Whole(held, TRUE) /\ safe[File!VaultName] = File!Whole(held, TRUE)
  BY <1>1 DEF FileInv, DurableInv, JobInv
<1>5. held.vault # 1
  BY <1>2, <1>3 DEF File!Held
<1>6. \/ memory' = held
      \/ memory' = memory /\ job.kind = "download"
  BY <1>1
<1> HIDE DEF held
<1>7. TypeInv'
  BY <1>1, <1>2, <1>6, IdleTyped DEF FileInv, TypeInv
<1>8. DurableInv'
  BY <1>1, <1>4, IdleTyped DEF DurableInv, JobInv, File!AnsweredIsDurable, Firm, File!Whole
<1>9. BackupsInv'
  <2>1. \A n, t : Reach(job', n, t) = t /\ Reach(job, n, t) = t
    BY <1>1, IdleTyped DEF Reach
  <2> QED
    BY <1>1, <2>1, IdleTyped DEF FileInv, BackupsInv, Keeps
<1>10. FormInv'
  <2>1. SoundFile(now[File!VaultName])' /\ SoundFile(safe[File!VaultName])'
    BY <1>1, <1>3, <1>4, <1>5 DEF SoundFile, File!Whole, Modern
  <2>2. memory' # File!Nothing => Modern(memory'.form)
    BY <1>3, <1>6 DEF FileInv, FormInv
  <2>3. answered'.vault # 1
    BY <1>1, <1>5
  <2>4. memory'.vault = 1 => answered'.form.ids >= 2
    BY <1>1, <1>3, <1>5, <1>6
  <2> QED
    BY <1>1, <2>1, <2>2, <2>3, <2>4, IdleTyped DEF FormInv
<1> QED
  BY <1>7, <1>8, <1>9, <1>10 DEF FileInv

\* A firm file is found as it was; what else there was is a file still.
LEMMA RemainsTyped ==
  ASSUME File!FileConstants, NEW file \in File!FileRecords
  PROVE  /\ File!Remains(file) \subseteq File!FileRecords
         /\ File!Remains(file) # {}
         /\ Firm(file) => File!Remains(file) = {file}
         /\ \/ \E f : File!Remains(file) = {f}
            \/ file.kind = "whole" /\ {f \in File!Remains(file) : f.kind = "torn"} # {}
                                   /\ {f \in File!Remains(file) : f.kind = "whole"} # {}
<1> DEFINE half == [File!Torn(file.held) EXCEPT !.synced = TRUE]
<1>1. /\ file.kind \in {"none", "whole", "torn"} /\ file.held \in File!Held
  BY DEF File!FileRecords
<1>2. half \in File!FileRecords /\ half.kind = "torn"
  BY <1>1 DEF File!Torn, File!FileRecords
<1>3. /\ File!Whole(file.held, TRUE) \in File!FileRecords /\ File!Whole(file.held, TRUE).kind = "whole"
      /\ File!NoFile \in File!FileRecords /\ File!NoFile.kind = "none"
  BY <1>1, FilesTyped DEF File!Whole, File!NoFile
<1>4. File!Remains(file) = IF file.kind = "none" THEN {File!NoFile}
                      ELSE IF file.synced THEN {file}
                      ELSE {half} \cup (IF file.kind = "whole" THEN {File!Whole(file.held, TRUE)} ELSE {})
  BY DEF File!Remains
<1> HIDE DEF half
<1>5. CASE file.kind = "none"
  BY <1>3, <1>4, <1>5 DEF Firm
<1>6. CASE file.kind # "none" /\ file.synced
  BY <1>3, <1>4, <1>6 DEF Firm
<1>7. CASE file.kind # "none" /\ ~file.synced
  BY <1>1, <1>2, <1>3, <1>4, <1>7 DEF Firm
<1> QED
  BY <1>5, <1>6, <1>7

LEMMA PowerCutKeeps ==
  ASSUME File!FileConstants, FileInv, File!PowerCut
  PROVE  FileInv'
<1> DEFINE Named(old) == [n \in File!Names |-> IF n \in old THEN safe[n] ELSE now[n]]
           Found(file, half) == CHOOSE f \in File!Remains(file) :
                                  \/ f.kind = (IF half THEN "torn" ELSE "whole")
                                  \/ File!Remains(file) = {f}
<1>1. PICK old \in {{}, File!Names, {File!VaultName}, File!Names \ {File!VaultName}}, half \in BOOLEAN :
        now' = [n \in File!Names |-> Found(Named(old)[n], half)]
  BY DEF File!PowerCut
<1>2. /\ safe' = now' /\ memory' = File!Nothing /\ cache' = File!NoSecret /\ job' = File!Idle /\ cut' = TRUE
      /\ UNCHANGED <<made, answered, tried, known, replaced, turns>>
  BY DEF File!PowerCut
<1>3. \A n \in File!Names : Named(old)[n] \in File!FileRecords /\ Named(old)[n] \in {safe[n], now[n]}
  BY DEF FileInv, TypeInv
<1> HIDE DEF Named
<1>4. ASSUME NEW file \in File!FileRecords PROVE Found(file, half) \in File!Remains(file)
  <2>1. \E f \in File!Remains(file) : \/ f.kind = (IF half THEN "torn" ELSE "whole")
                                 \/ File!Remains(file) = {f}
    BY RemainsTyped
  <2> QED
    BY <2>1
<1> HIDE DEF Found
<1>5. now' \in [File!Names -> File!FileRecords]
  BY <1>1, <1>3, <1>4, RemainsTyped
<1>6. now'[File!VaultName] \in {safe[File!VaultName], now[File!VaultName]}
  <2>1. Named(old)[File!VaultName] \in {safe[File!VaultName], now[File!VaultName]}
    BY <1>3, NamesDiffer
  <2>2. Firm(Named(old)[File!VaultName]) /\ Named(old)[File!VaultName] \in File!FileRecords
    BY <1>3, <2>1, NamesDiffer DEF FileInv, DurableInv
  <2>3. Found(Named(old)[File!VaultName], half) = Named(old)[File!VaultName]
    BY <1>4, <2>2, RemainsTyped
  <2>4. now'[File!VaultName] = Found(Named(old)[File!VaultName], half)
    BY <1>1, NamesDiffer
  <2> QED
    BY <2>1, <2>3, <2>4
<1>7. TypeInv'
  BY <1>2, <1>5, IdleTyped, NothingTyped DEF FileInv, TypeInv
<1>8. DurableInv'
  <2>1. Firm(now[File!VaultName])' /\ Firm(safe[File!VaultName])'
    BY <1>2, <1>6 DEF FileInv, DurableInv, Firm
  <2>2. JobInv'
    BY <1>2, IdleTyped DEF JobInv
  <2>3. File!AnsweredIsDurable'
    BY <1>2, <1>6 DEF FileInv, DurableInv, File!AnsweredIsDurable
  <2> QED
    BY <2>1, <2>2, <2>3 DEF DurableInv
<1>9. BackupsInv'
  BY <1>2, IdleTyped DEF BackupsInv
<1>10. FormInv'
  <2>1. SoundFile(now[File!VaultName])' /\ SoundFile(safe[File!VaultName])'
    BY <1>2, <1>6 DEF FileInv, FormInv, SoundFile
  <2> QED
    BY <1>2, <2>1, IdleTyped, NothingTyped DEF FormInv
<1> QED
  BY <1>7, <1>8, <1>9, <1>10 DEF FileInv

-----------------------------------------------------------------------------
(* The invariant, step by step.                                            *)

LEMMA FileInit ==
  ASSUME File!FileConstants, File!Init
  PROVE  FileInv
<1>1. /\ safe = now /\ memory = File!Nothing /\ cache = File!NoSecret /\ job = File!Idle
      /\ tried = {} /\ known = File!Nothing /\ replaced = File!Nothing /\ turns = 0 /\ cut = FALSE /\ made = 1
  BY DEF File!Init
<1>2. \/ now = [n \in File!Names |-> File!NoFile] /\ answered = File!Nothing
      \/ \E f \in OldFormats, s \in Secrets :
           LET held == [vault |-> 1, secret |-> s, form |-> f]
           IN /\ now = [n \in File!Names |-> IF n = File!VaultName THEN File!Whole(held, TRUE) ELSE File!NoFile]
              /\ answered = held
  BY DEF File!Init
<1>3. 1 \in 1..MaxVaults /\ 1 \in 0..MaxVaults
  BY DEF File!FileConstants
<1>4. /\ now \in [File!Names -> File!FileRecords] /\ answered \in File!Held /\ Firm(now[File!VaultName])
      /\ SoundFile(now[File!VaultName])
      /\ answered # File!Nothing => now[File!VaultName] = File!Whole(answered, TRUE)
  <2>1. CASE now = [n \in File!Names |-> File!NoFile] /\ answered = File!Nothing
    BY <2>1, FilesTyped, NothingTyped, NamesDiffer DEF Firm, SoundFile, File!NoFile
  <2>2. CASE \E f \in OldFormats, s \in Secrets :
               LET held == [vault |-> 1, secret |-> s, form |-> f]
               IN /\ now = [n \in File!Names |-> IF n = File!VaultName THEN File!Whole(held, TRUE) ELSE File!NoFile]
                  /\ answered = held
    <3>1. PICK f \in OldFormats, s \in Secrets :
                 LET held == [vault |-> 1, secret |-> s, form |-> f]
                 IN /\ now = [n \in File!Names |-> IF n = File!VaultName THEN File!Whole(held, TRUE) ELSE File!NoFile]
                    /\ answered = held
      BY <2>2
    <3>2. /\ answered \in File!Held /\ answered.vault = 1 /\ WellFormed(answered.form)
      BY <1>3, <3>1, OldFormatsWellFormed DEF File!Held
    <3>3. now = [n \in File!Names |-> IF n = File!VaultName THEN File!Whole(answered, TRUE) ELSE File!NoFile]
      BY <3>1
    <3>4. File!Whole(answered, TRUE) \in File!FileRecords
      BY <3>2, FilesTyped
    <3>5. now \in [File!Names -> File!FileRecords] /\ now[File!VaultName] = File!Whole(answered, TRUE)
      BY <3>3, <3>4, FilesTyped, NamesDiffer
    <3> QED
      BY <3>2, <3>5 DEF Firm, SoundFile, File!Whole
  <2> QED
    BY <1>2, <2>1, <2>2
<1>5. TypeInv
  BY <1>1, <1>3, <1>4, IdleTyped, NothingTyped DEF TypeInv
<1>6. DurableInv
  BY <1>1, <1>4, IdleTyped DEF DurableInv, JobInv, File!AnsweredIsDurable, File!Whole
<1>7. BackupsInv
  BY <1>1, IdleTyped DEF BackupsInv
<1>8. FormInv
  BY <1>1, <1>4, IdleTyped, NothingTyped DEF FormInv
<1> QED
  BY <1>5, <1>6, <1>7, <1>8 DEF FileInv

LEMMA FileStep ==
  ASSUME File!FileConstants, FileInv, File!Next
  PROVE  FileInv'
<1>1. CASE File!Asked
  BY <1>1, CreateKeeps, DownloadKeeps, RestoreKeeps, UnlockKeeps, LockKeeps, ExpireKeeps,
     EditKeeps
     DEF File!Asked
<1>2. CASE File!Steps
  BY <1>2, RemoveOldestKeeps, ShiftKeeps, CopyBeginsKeeps, CopyEndsKeeps, CreateTempKeeps,
     WriteTempKeeps, RenameKeeps, SyncKeeps, AnswerKeeps DEF File!Steps
<1>3. CASE File!Fail \/ File!Kill \/ File!PowerCut
  BY <1>3, FailKeeps, KillKeeps, PowerCutKeeps
<1> QED
  BY <1>1, <1>2, <1>3 DEF File!Next

LEMMA FileTruth ==
  ASSUME File!FileConstants, FileInv
  PROVE  /\ File!TypeOK /\ File!AnsweredIsDurable /\ File!ReplacedIsKept
         /\ File!OldVaultsOpen
<1>1. FileInv => File!TypeOK
  <2>1. SUFFICES ASSUME FileInv PROVE File!TypeOK
    OBVIOUS
  <2>2. /\ \A n \in File!Names : now[n] \in File!FileRecords /\ safe[n] \in File!FileRecords
        /\ {memory, answered, known, replaced} \cup tried \subseteq File!Held
        /\ cache \in Secrets \cup {File!NoSecret}
    BY <2>1 DEF FileInv, TypeInv
  <2>3. job.held \in File!Held /\ job.at \in 0..MaxBackups
    BY <2>1 DEF FileInv, TypeInv, Jobs
  <2>4. made \in 0..MaxVaults /\ turns \in Nat /\ cut \in BOOLEAN
    BY <2>1 DEF FileInv, TypeInv, File!FileConstants
  <2> QED
    BY <2>2, <2>3, <2>4 DEF File!TypeOK
<1>2. FileInv => File!AnsweredIsDurable
  BY DEF FileInv, DurableInv
<1>3. FileInv => File!ReplacedIsKept
  BY DEF FileInv, BackupsInv, File!ReplacedIsKept, Keeps
<1>4. FileInv => File!OldVaultsOpen
  <2>1. SUFFICES ASSUME FileInv, memory # File!Nothing PROVE
          /\ memory.form.version = File!Current /\ memory.form.auth = "entry" /\ memory.form.ids # 0
          /\ memory.form.path # "absent" /\ memory.form.trust # "absent"
          /\ \A f \in OldFormats : memory.vault = 1 /\ f = answered.form =>
               KeepsChoices(memory.form, f)
    BY DEF File!OldVaultsOpen, KeepsChoices
  <2>2. WellFormed(memory.form) /\ memory.form.version = 7 /\ memory.form \in File!Formats
    BY <2>1 DEF FileInv, FormInv, TypeInv, Modern, File!Held, File!Current
  <2>3. /\ memory.form.auth = "entry" /\ memory.form.ids # 0
        /\ memory.form.path # "absent" /\ memory.form.trust # "absent"
    BY <2>2 DEF WellFormed, File!Formats
  <2>4. ASSUME NEW f \in OldFormats, memory.vault = 1, f = answered.form
        PROVE  KeepsChoices(memory.form, f)
    <3>1. answered.form.ids < 2 /\ answered.form \in File!Formats
      BY <2>4, OldFormatsWellFormed
    <3>2. answered.vault = 1
      BY <2>1, <2>4, <3>1 DEF FileInv, FormInv, File!Formats
    <3> QED
      BY <2>1, <2>4, <3>2 DEF FileInv, FormInv
  <2> QED
    BY <2>2, <2>3, <2>4 DEF File!Current
<1> QED
  BY <1>1, <1>2, <1>3, <1>4

LEMMA FileStays ==
  ASSUME File!FileConstants, FileInv, UNCHANGED File!fileVars
  PROVE  FileInv'
<1>1. UNCHANGED <<now, safe, memory, cache, job, made, answered, tried, known, replaced, turns, cut>>
  BY DEF File!fileVars
<1>2. made' \in 1..MaxVaults /\ cache' \in Secrets \cup {File!NoSecret}
  BY <1>1 DEF FileInv, TypeInv
<1> QED
  BY <1>1, <1>2, Reopens

LEMMA FileInvariant ==
  ASSUME File!FileConstants
  PROVE  File!Spec => []FileInv
<1>1. File!Init => FileInv
  BY FileInit
<1>2. FileInv /\ [File!Next]_(File!fileVars) => FileInv'
  BY FileStep, FileStays
<1> QED
  BY <1>1, <1>2, PTL DEF File!Spec

\* The variables keep their types (state.rs and persist.rs).
THEOREM FileTypes ==
  ASSUME File!FileConstants
  PROVE  File!Spec => []File!TypeOK
<1>1. FileInv => File!TypeOK
  BY FileTruth
<1> QED
  BY <1>1, FileInvariant, PTL

\* Whatever fails, dies or loses power and whenever, a change that was answered is in the
\* file, whole, or one that was tried after it is (write_atomic and save_vault).
THEOREM AnswersLast ==
  ASSUME File!FileConstants
  PROVE  File!Spec => []File!AnsweredIsDurable
<1>1. FileInv => File!AnsweredIsDurable
  BY FileTruth
<1> QED
  BY <1>1, FileInvariant, PTL

\* With any number of backups, a restore keeps what it replaced until it has been turned
\* over, wherever rotations break off in between (rotate_backups).
THEOREM ReplacedVaultStays ==
  ASSUME File!FileConstants
  PROVE  File!Spec => []File!ReplacedIsKept
<1>1. FileInv => File!ReplacedIsKept
  BY FileTruth
<1> QED
  BY <1>1, FileInvariant, PTL

\* A vault of any form a program has ever written opens in the current one with what its
\* owner chose (migrate_json_v1_to_v2 and the others).
THEOREM AllFormsOpen ==
  ASSUME File!FileConstants
  PROVE  File!Spec => []File!OldVaultsOpen
<1>1. FileInv => File!OldVaultsOpen
  BY FileTruth
<1> QED
  BY <1>1, FileInvariant, PTL

-----------------------------------------------------------------------------
(* The notes of a host.                                                    *)

Requested ==
  [pc : {"idle", "checked", "auditing", "audited", "refused", "done", "failed", "lost"},
   ask : Asks \cup {Notes!Nothing}]

NotesTypes ==
  /\ vault = [open |-> vault.open, host |-> vault.host, notes |-> vault.notes]
  /\ vault.open \in BOOLEAN /\ vault.host \in BOOLEAN
  /\ disk = [host |-> disk.host, notes |-> disk.notes, applied |-> disk.applied]
  /\ disk.host \in BOOLEAN /\ disk.applied \subseteq Requests
  /\ audit \in [lines : Seq(Seq(Requests)), ended : BOOLEAN]
  /\ requests \in [Requests -> Requested]
  /\ drafts \subseteq Requests

Recorded(r) ==
  \E i \in DOMAIN audit.lines : \E j \in DOMAIN audit.lines[i] : audit.lines[i][j] = r

\* A request has its entry from the time the entry is begun, and a line that is not ended is
\* there to be ended.
NotesInv ==
  /\ NotesTypes
  /\ ~audit.ended => audit.lines # <<>>
  /\ \A r \in Requests :
       r \in disk.applied \cup drafts \/ requests[r].pc \in {"auditing", "audited"} => Recorded(r)

LEMMA NotesInit == Notes!Init => NotesInv
<1> SUFFICES ASSUME Notes!Init PROVE NotesInv
  OBVIOUS
<1>1. NotesTypes
  BY DEF NotesTypes, Requested, Notes!Init
<1>2. QED
  BY <1>1 DEF NotesInv, Notes!Init

\* An entry stays, whatever is written after it.
LEMMA NotesKept ==
  ASSUME NotesInv, UNCHANGED audit, NotesTypes',
         \A r \in Requests :
           \/ r \in disk'.applied \/ r \in drafts' \/ requests'[r].pc \in {"auditing", "audited"}
           => \/ r \in disk.applied \/ r \in drafts
              \/ requests[r].pc \in {"auditing", "audited"}
  PROVE  NotesInv'
  BY DEF NotesInv, Recorded

\* What a request's step makes of the requests.
LEMMA NotesMoved ==
  ASSUME NotesTypes, NEW r \in Requests, NEW pc, Notes!Moved(r, pc),
         pc \in {"auditing", "audited", "done", "failed"}
  PROVE  /\ requests' \in [Requests -> Requested]
         /\ requests'[r].pc = pc
         /\ \A q \in Requests \ {r} : requests'[q] = requests[q]
  BY DEF NotesTypes, Requested, Notes!Moved

LEMMA NotesCheck ==
  ASSUME NotesInv, NEW r \in Requests, NEW ask \in Asks, Notes!Check(r, ask)
  PROVE  NotesInv'
<1> DEFINE fits == IF ask.kind = "notes" THEN vault.open /\ vault.host
                   ELSE vault.open /\ Notes!ValidDraft(ask)
           x == [pc |-> IF fits THEN "checked" ELSE "refused", ask |-> ask]
<1>1. NotesTypes /\ UNCHANGED <<vault, disk, audit, drafts>>
      /\ requests' = [requests EXCEPT ![r] = x]
  BY DEF NotesInv, Notes!Check
<1>2. x.pc \in {"checked", "refused"} /\ x \in [pc : {"checked", "refused"}, ask : Asks]
  OBVIOUS
<1> HIDE DEF x
<1>3. NotesTypes'
  <2>1. requests' \in [Requests -> Requested]
    BY <1>1, <1>2 DEF NotesTypes, Requested
  <2>2. QED
    BY <1>1, <2>1 DEF NotesTypes
<1>4. ASSUME NEW q \in Requests, requests'[q].pc \in {"auditing", "audited"}
      PROVE  requests[q].pc \in {"auditing", "audited"}
  BY <1>1, <1>2, <1>4 DEF NotesTypes
<1>5. QED
  BY <1>1, <1>3, <1>4, NotesKept

\* An entry is begun: on a line of its own, or on the line a crash left.
LEMMA NotesAuditBegins ==
  ASSUME NotesInv, NEW r \in Requests, Notes!AuditBegins(r)
  PROVE  NotesInv'
<1> DEFINE n == Len(audit.lines)
           lines == IF audit.ended THEN Append(audit.lines, <<r>>)
                    ELSE [audit.lines EXCEPT ![n] = Append(@, r)]
<1>1. NotesTypes /\ UNCHANGED <<vault, disk, drafts>> /\ Notes!Moved(r, "auditing")
      /\ audit' = [lines |-> lines, ended |-> FALSE]
  BY DEF NotesInv, Notes!AuditBegins
<1>2. audit.lines \in Seq(Seq(Requests)) /\ (audit.ended \/ n > 0) /\ n \in Nat
  BY <1>1 DEF NotesInv, NotesTypes
<1>3. /\ lines \in Seq(Seq(Requests)) /\ lines # <<>>
      /\ \E i \in DOMAIN lines : \E j \in DOMAIN lines[i] : lines[i][j] = r
      /\ \A i \in DOMAIN audit.lines : i \in DOMAIN lines
      /\ \A i \in DOMAIN audit.lines : \A j \in DOMAIN audit.lines[i] :
           j \in DOMAIN lines[i] /\ lines[i][j] = audit.lines[i][j]
  <2>1. CASE audit.ended
    <3>1. lines = Append(audit.lines, <<r>>) /\ <<r>> \in Seq(Requests)
      BY <2>1
    <3>2. /\ lines \in Seq(Seq(Requests)) /\ Len(lines) = n + 1 /\ lines[n + 1] = <<r>>
          /\ \A i \in DOMAIN audit.lines : i \in DOMAIN lines /\ lines[i] = audit.lines[i]
      BY <1>2, <3>1
    <3> HIDE DEF lines
    <3>3. n + 1 \in DOMAIN lines /\ 1 \in DOMAIN lines[n + 1] /\ lines[n + 1][1] = r
      BY <1>2, <3>2
    <3>4. lines # <<>>
      BY <1>2, <3>2
    <3>5. QED
      BY <3>2, <3>3, <3>4
  <2>2. CASE ~audit.ended
    <3> DEFINE old == audit.lines[n]
    <3>1. n \in DOMAIN audit.lines /\ old \in Seq(Requests) /\ n > 0
      BY <1>2, <2>2
    <3>2. lines = [audit.lines EXCEPT ![n] = Append(old, r)]
      BY <2>2
    <3>3. /\ Append(old, r) \in Seq(Requests) /\ Len(old) + 1 \in DOMAIN Append(old, r)
          /\ Append(old, r)[Len(old) + 1] = r
          /\ \A j \in DOMAIN old : j \in DOMAIN Append(old, r) /\ Append(old, r)[j] = old[j]
      BY <3>1
    <3> DEFINE new == Append(old, r)
    <3> HIDE DEF lines, new
    <3>4. /\ lines \in Seq(Seq(Requests)) /\ DOMAIN lines = DOMAIN audit.lines /\ lines[n] = new
          /\ \A i \in DOMAIN audit.lines : i # n => lines[i] = audit.lines[i]
      BY <1>2, <3>1, <3>2, <3>3 DEF new
    <3>5. lines # <<>>
      BY <3>1, <3>4
    <3>6. \A i \in DOMAIN audit.lines : \A j \in DOMAIN audit.lines[i] :
           j \in DOMAIN lines[i] /\ lines[i][j] = audit.lines[i][j]
      BY <3>3, <3>4 DEF new
    <3>7. QED
      BY <3>1, <3>3, <3>4, <3>5, <3>6 DEF new
  <2>3. QED
    BY <2>1, <2>2
<1> HIDE DEF lines
<1>4. Recorded(r)' /\ \A q \in Requests : Recorded(q) => Recorded(q)'
  BY <1>1, <1>3 DEF Recorded
<1>5. NotesTypes'
  BY <1>1, <1>3, NotesMoved DEF NotesTypes
<1>6. \A q \in Requests \ {r} : requests'[q] = requests[q]
  BY <1>1, NotesMoved
<1>7. QED
  BY <1>1, <1>3, <1>4, <1>5, <1>6 DEF NotesInv

LEMMA NotesAuditEnds ==
  ASSUME NotesInv, NEW r \in Requests, Notes!AuditEnds(r)
  PROVE  NotesInv'
<1>1. /\ NotesTypes /\ UNCHANGED <<vault, disk, drafts>> /\ Notes!Moved(r, "audited")
      /\ audit' = [audit EXCEPT !.ended = TRUE] /\ requests[r].pc = "auditing"
  BY DEF NotesInv, Notes!AuditEnds, Notes!At
<1>2. audit'.lines = audit.lines /\ audit'.ended = TRUE
      /\ audit' \in [lines : Seq(Seq(Requests)), ended : BOOLEAN]
  BY <1>1 DEF NotesTypes
<1>3. NotesTypes'
  BY <1>1, <1>2, NotesMoved DEF NotesTypes
<1>4. \A q \in Requests \ {r} : requests'[q] = requests[q]
  BY <1>1, NotesMoved
<1>5. \A q \in Requests : Recorded(q) => Recorded(q)'
  BY <1>2 DEF Recorded
<1>6. QED
  BY <1>1, <1>2, <1>3, <1>4, <1>5 DEF NotesInv

\* What is applied or announced was audited.
LEMMA NotesApply ==
  ASSUME NotesInv, NEW r \in Requests, Notes!Apply(r)
  PROVE  NotesInv'
<1>1. /\ NotesTypes /\ UNCHANGED <<audit, drafts>> /\ requests[r].pc = "audited"
      /\ \E pc \in {"done", "failed"} : Notes!Moved(r, pc)
      /\ \E notes : vault' = [vault EXCEPT !.notes = notes]
      /\ \/ disk' = disk
         \/ \E notes : disk' = [host |-> TRUE, notes |-> notes, applied |-> disk.applied \cup {r}]
  BY DEF NotesInv, Notes!Apply, Notes!Ready, Notes!At
<1>2. NotesTypes'
  <2>1. /\ vault' = [open |-> vault'.open, host |-> vault'.host, notes |-> vault'.notes]
        /\ vault'.open \in BOOLEAN /\ vault'.host \in BOOLEAN
    BY <1>1 DEF NotesTypes
  <2>2. /\ disk' = [host |-> disk'.host, notes |-> disk'.notes, applied |-> disk'.applied]
        /\ disk'.host \in BOOLEAN /\ disk'.applied \subseteq Requests
    <3>1. CASE disk' = disk
      BY <1>1, <3>1 DEF NotesTypes
    <3>2. ASSUME NEW n, disk' = [host |-> TRUE, notes |-> n, applied |-> disk.applied \cup {r}]
          PROVE  /\ disk' = [host |-> disk'.host, notes |-> disk'.notes, applied |-> disk'.applied]
                 /\ disk'.host \in BOOLEAN /\ disk'.applied \subseteq Requests
      BY <1>1, <3>2 DEF NotesTypes
    <3>3. QED
      BY <1>1, <3>1, <3>2
  <2>3. QED
    BY <1>1, <2>1, <2>2, NotesMoved DEF NotesTypes
<1>3. disk'.applied \subseteq disk.applied \cup {r}
  BY <1>1
<1>4. \A q \in Requests \ {r} : requests'[q] = requests[q]
  BY <1>1, NotesMoved
<1>5. QED
  BY <1>1, <1>2, <1>3, <1>4, NotesKept

LEMMA NotesApplyFails ==
  ASSUME NotesInv, NEW r \in Requests, Notes!ApplyFails(r)
  PROVE  NotesInv'
<1>1. NotesTypes /\ UNCHANGED <<vault, disk, audit, drafts>> /\ Notes!Moved(r, "failed")
      /\ requests[r].pc = "audited"
  BY DEF NotesInv, Notes!ApplyFails, Notes!Ready, Notes!At
<1>2. NotesTypes' /\ \A q \in Requests \ {r} : requests'[q] = requests[q]
  BY <1>1, NotesMoved DEF NotesTypes
<1>3. QED
  BY <1>1, <1>2, NotesKept

LEMMA NotesAnnounce ==
  ASSUME NotesInv, NEW r \in Requests, Notes!Announce(r)
  PROVE  NotesInv'
<1>1. /\ NotesTypes /\ UNCHANGED <<vault, disk, audit>> /\ Notes!Moved(r, "done")
      /\ requests[r].pc = "audited" /\ drafts' = drafts \cup {r}
  BY DEF NotesInv, Notes!Announce, Notes!Ready, Notes!At
<1>2. NotesTypes' /\ \A q \in Requests \ {r} : requests'[q] = requests[q]
  BY <1>1, NotesMoved DEF NotesTypes
<1>3. QED
  BY <1>1, <1>2, NotesKept

\* The owner, and a crash: no request gets further, and the file stays as it is.
LEMMA NotesOwner ==
  ASSUME NotesInv, Notes!DeleteHost \/ Notes!Lock \/ Notes!Unlock
  PROVE  NotesInv'
<1>1. /\ NotesTypes /\ UNCHANGED <<audit, requests, drafts>>
      /\ \/ /\ vault' = [vault EXCEPT !.host = FALSE, !.notes = <<>>]
            /\ disk' = [disk EXCEPT !.host = FALSE, !.notes = <<>>]
         \/ disk' = disk /\ vault' = [open |-> FALSE, host |-> FALSE, notes |-> <<>>]
         \/ disk' = disk /\ vault' = [open |-> TRUE, host |-> disk.host, notes |-> disk.notes]
  BY DEF NotesInv, Notes!DeleteHost, Notes!Lock, Notes!Unlock
<1>2. /\ vault' = [open |-> vault'.open, host |-> vault'.host, notes |-> vault'.notes]
      /\ vault'.open \in BOOLEAN /\ vault'.host \in BOOLEAN
  <2>1. \E o, h \in BOOLEAN : \E n : vault' = [open |-> o, host |-> h, notes |-> n]
    <3>1. CASE vault' = [vault EXCEPT !.host = FALSE, !.notes = <<>>]
      <4>1. vault' = [open |-> vault.open, host |-> FALSE, notes |-> <<>>]
        BY <1>1, <3>1 DEF NotesTypes
      <4>2. vault.open \in BOOLEAN /\ FALSE \in BOOLEAN
        BY <1>1 DEF NotesTypes
      <4>3. QED
        BY <4>1, <4>2
    <3>2. CASE vault' = [open |-> FALSE, host |-> FALSE, notes |-> <<>>]
      BY <3>2
    <3>3. CASE vault' = [open |-> TRUE, host |-> disk.host, notes |-> disk.notes]
      BY <1>1, <3>3, disk.host \in BOOLEAN DEF NotesTypes
    <3>4. QED
      BY <1>1, <3>1, <3>2, <3>3
  <2>2. QED
    BY <2>1
<1>3. /\ disk' = [host |-> disk'.host, notes |-> disk'.notes, applied |-> disk'.applied]
      /\ disk'.host \in BOOLEAN /\ disk'.applied = disk.applied
  BY <1>1 DEF NotesTypes
<1>4. NotesTypes'
  BY <1>1, <1>2, <1>3 DEF NotesTypes
<1>5. QED
  BY <1>1, <1>3, <1>4, NotesKept

LEMMA NotesCrash ==
  ASSUME NotesInv, Notes!Crash
  PROVE  NotesInv'
<1>1. /\ NotesTypes /\ UNCHANGED <<disk, audit, drafts>>
      /\ vault' = [open |-> FALSE, host |-> FALSE, notes |-> <<>>]
      /\ requests' = [r \in Requests |->
           IF requests[r].pc \in {"checked", "auditing", "audited"}
           THEN [requests[r] EXCEPT !.pc = "lost"] ELSE requests[r]]
  BY DEF NotesInv, Notes!Crash
<1>2. NotesTypes'
  BY <1>1 DEF NotesTypes, Requested
<1>3. \A r \in Requests : requests'[r].pc \notin {"auditing", "audited"}
  BY <1>1 DEF NotesTypes, Requested
<1>4. QED
  BY <1>1, <1>2, <1>3, NotesKept

LEMMA NotesStep == NotesInv /\ Notes!Next => NotesInv'
  BY NotesCheck, NotesAuditBegins, NotesAuditEnds, NotesApply, NotesApplyFails, NotesAnnounce,
     NotesOwner, NotesCrash DEF Notes!Next

LEMMA NotesTruth == NotesInv => Notes!ChangesAreAudited
  BY DEF NotesInv, NotesTypes, Recorded, Notes!ChangesAreAudited

LEMMA NotesStays ==
  ASSUME NotesInv, UNCHANGED Notes!vars
  PROVE  NotesInv'
BY DEF NotesInv, NotesTypes, Recorded, Notes!vars

LEMMA NotesInvariant == Notes!Spec => []NotesInv
<1>1. Notes!Init => NotesInv
  BY NotesInit
<1>2. NotesInv /\ [Notes!Next]_(Notes!vars) => NotesInv'
  BY NotesStep, NotesStays
<1> QED
  BY <1>1, <1>2, PTL DEF Notes!Spec

\* The variables keep their types (handler.rs and notes.rs).
THEOREM NotesTypeCorrect == Notes!Spec => []Notes!TypeOK
<1>1. NotesInv => Notes!TypeOK
  BY DEF NotesInv, NotesTypes, Requested, Notes!TypeOK
<1> QED
  BY <1>1, NotesInvariant, PTL

\* What an agent changed in the notes or announced is in the audit file, whatever crashes
\* or fails, for any requests, sections and documents.
THEOREM ChangesStayAudited == Notes!Spec => []Notes!ChangesAreAudited
<1>1. NotesInv => Notes!ChangesAreAudited
  BY NotesTruth
<1> QED
  BY <1>1, NotesInvariant, PTL

-----------------------------------------------------------------------------
(* vidactl.                                                                *)

Processes ==
  [pc : {"idle", "listing", "picking", "asking", "answered", "ended"},
   kind : {c.kind : c \in Commands \cup {Ctl!Idle}},
   sel : {c.sel : c \in Commands \cup {Ctl!Idle}},
   target : Ids \cup {Ctl!NoHost}, listed : SUBSET (Ids \X (Names \cup {""})),
   answer : {Ctl!Idle.answer, "ok", "error", "sent", "rejected", "needs_approval"},
   did : BOOLEAN, unsaved : BOOLEAN, cut : BOOLEAN,
   code : {-1, Ctl!OK, Ctl!Connection, Ctl!Daemon, Ctl!NotFound, Ctl!Ambiguous,
           Ctl!NeedsApproval, Ctl!Rejected}]

CtlTypes ==
  /\ names \in [Ids -> Names \cup {""}]
  /\ trust \in [Ids -> {"readonly", "ask", "trusted"}]
  /\ gate \in [sent : SUBSET Runs, waits : SUBSET Runs]
  /\ runs \in [Runs -> Processes]

Held(r) == r \in gate.sent \cup gate.waits

\* What is so of a process at each point: nothing is done before it asks; the answer
\* tells what was done, and the code the answer.
Truthful(r) ==
  LET x == runs[r]
  IN /\ x.pc \in {"idle", "listing", "picking", "asking"} =>
          ~x.did /\ ~x.unsaved /\ ~x.cut /\ ~Held(r)
     /\ x.pc = "answered" =>
          /\ ~x.cut /\ x.answer # Ctl!Idle.answer
          /\ x.answer \in {"ok", "sent"} => x.did
          /\ x.did => x.answer \in {"ok", "sent"} \/ x.unsaved
          /\ Held(r) => x.answer \in {"sent", "needs_approval"}
     /\ x.pc = "ended" =>
          /\ x.code = Ctl!OK => x.did \/ x.kind = "show"
          /\ x.code # Ctl!OK => ~x.did \/ x.cut \/ x.unsaved
          /\ Held(r) /\ ~x.cut => x.code \in {Ctl!OK, Ctl!NeedsApproval}

\* The host of a process is the one its argument picks from the list it got.
Chosen(r) ==
  LET x == runs[r]
      named == {p \in x.listed : p[2] = x.sel}
      withId == {p \in x.listed : p[1] = x.sel}
  IN /\ x.pc \in {"idle", "listing", "picking"} => x.target = Ctl!NoHost
     /\ x.target # Ctl!NoHost =>
          \/ x.target = x.sel /\ withId # {}
          \/ withId = {} /\ {p[1] : p \in named} = {x.target}

CtlInv == CtlTypes /\ \A r \in Runs : Truthful(r) /\ Chosen(r)

\* The instance means by a finite set, and by its size, what FiniteSets does.
LEMMA CtlFinite ==
  ASSUME NEW S
  PROVE  (Ctl!IsFiniteSet(S) <=> IsFiniteSet(S)) /\ Ctl!Cardinality(S) = Cardinality(S)
<1>1. Ctl!IsFiniteSet(S) <=> IsFiniteSet(S)
  BY DEF Ctl!IsFiniteSet, IsFiniteSet
<1>2. Ctl!Cardinality(S) = Cardinality(S)
  BY DEF Ctl!Cardinality, Cardinality
<1>3. QED
  BY <1>1, <1>2

LEMMA CtlInit == Ctl!Init => CtlInv
<1> SUFFICES ASSUME Ctl!Init PROVE CtlInv
  OBVIOUS
<1>1. /\ Ctl!Idle \in Processes /\ Ctl!Idle.pc = "idle" /\ Ctl!Idle.target = Ctl!NoHost
      /\ ~Ctl!Idle.did /\ ~Ctl!Idle.unsaved /\ ~Ctl!Idle.cut
  BY DEF Processes, Ctl!Idle
<1>2. \A r \in Runs : runs[r] = Ctl!Idle /\ ~Held(r)
  BY DEF Ctl!Init, Held
<1>3. CtlTypes
  BY <1>1 DEF Ctl!Init, CtlTypes
<1>4. ASSUME NEW r \in Runs PROVE Truthful(r) /\ Chosen(r)
  BY <1>1, <1>2 DEF Truthful, Chosen
<1>5. QED
  BY <1>3, <1>4 DEF CtlInv

\* A step of one process leaves the others as they are.
LEMMA CtlFrame ==
  ASSUME CtlInv, NEW r \in Runs, NEW x \in Processes, runs' = [runs EXCEPT ![r] = x],
         names' \in [Ids -> Names \cup {""}], trust' \in [Ids -> {"readonly", "ask", "trusted"}],
         gate' \in [sent : SUBSET Runs, waits : SUBSET Runs],
         \A q \in Runs \ {r} : Held(q)' => Held(q), Truthful(r)', Chosen(r)'
  PROVE  CtlInv'
<1>1. CtlTypes'
  BY DEF CtlInv, CtlTypes
<1>2. ASSUME NEW q \in Runs \ {r} PROVE Truthful(q)' /\ Chosen(q)'
  <2>1. runs'[q] = runs[q] /\ Truthful(q) /\ Chosen(q) /\ (Held(q)' => Held(q))
    BY DEF CtlInv, CtlTypes
  <2>2. Truthful(q)'
    BY <2>1 DEF Truthful
  <2>3. Chosen(q)'
    BY <2>1 DEF Chosen
  <2>4. QED
    BY <2>2, <2>3
<1>3. QED
  BY <1>1, <1>2 DEF CtlInv

LEMMA CtlStarts ==
  ASSUME CtlInv, NEW r \in Runs, NEW c \in Commands, Ctl!Start(r, c)
  PROVE  CtlInv'
<1> DEFINE x == [Ctl!Idle EXCEPT !.pc = IF c.kind \in Ctl!AboutHost THEN "listing" ELSE "asking",
                                 !.kind = c.kind, !.sel = c.sel]
<1>1. /\ runs' = [runs EXCEPT ![r] = x] /\ runs[r].pc = "idle"
      /\ UNCHANGED <<names, trust, gate>>
  BY DEF Ctl!Start
<1>2. /\ x \in Processes /\ x.target = Ctl!NoHost /\ ~x.did /\ ~x.unsaved /\ ~x.cut
      /\ x.pc \in {"listing", "asking"}
  BY DEF Processes, Ctl!Idle
<1> HIDE DEF x
<1>3. ~Held(r) /\ CtlTypes
  BY <1>1 DEF CtlInv, Truthful
<1>4. runs'[r] = x /\ \A q \in Runs : Held(q)' <=> Held(q)
  BY <1>1, <1>3 DEF CtlTypes, Held
<1>5. Truthful(r)'
  BY <1>2, <1>3, <1>4 DEF Truthful
<1>6. Chosen(r)'
  BY <1>2, <1>4 DEF Chosen
<1>7. QED
  BY <1>1, <1>2, <1>3, <1>4, <1>5, <1>6, CtlFrame DEF CtlTypes

\* A process ends with a code while it is still asking, or its answer becomes the code.
LEMMA CtlEnds ==
  ASSUME CtlInv, NEW r \in Runs, NEW code, Ctl!Ended(r, code), UNCHANGED <<names, trust, gate>>,
         code \in {Ctl!OK, Ctl!Connection, Ctl!Daemon, Ctl!NotFound, Ctl!Ambiguous,
                   Ctl!NeedsApproval, Ctl!Rejected},
         \/ runs[r].pc \in {"listing", "picking", "asking"} /\ code # Ctl!OK
         \/ runs[r].pc = "answered" /\ code = Ctl!CodeOf(runs[r].answer)
  PROVE  CtlInv'
<1> DEFINE x == [runs[r] EXCEPT !.pc = "ended", !.code = code]
<1>1. CtlTypes /\ Truthful(r) /\ Chosen(r) /\ runs[r] \in Processes
  BY DEF CtlInv, CtlTypes
<1>2. runs' = [runs EXCEPT ![r] = x]
  BY <1>1 DEF Ctl!Ended, CtlTypes
<1>3. /\ x \in Processes /\ x.pc = "ended" /\ x.code = code
      /\ x.did = runs[r].did /\ x.unsaved = runs[r].unsaved /\ x.cut = runs[r].cut
      /\ x.target = runs[r].target /\ x.listed = runs[r].listed /\ x.sel = runs[r].sel
  BY <1>1 DEF Processes
<1> HIDE DEF x
<1>4. runs'[r] = x /\ \A q \in Runs : Held(q)' <=> Held(q)
  BY <1>1, <1>2 DEF CtlTypes, Held
<1>5. Truthful(r)'
  <2>1. CASE runs[r].pc # "answered"
    <3>1. ~runs[r].did /\ ~Held(r) /\ code # Ctl!OK
      BY <1>1, <2>1 DEF Truthful
    <3>2. QED
      BY <1>3, <1>4, <3>1 DEF Truthful
  <2>2. CASE runs[r].pc = "answered"
    <3>1. code = Ctl!CodeOf(runs[r].answer)
      BY <2>2
    <3>2. /\ code = Ctl!OK => runs[r].did
          /\ code # Ctl!OK => ~runs[r].did \/ runs[r].unsaved
          /\ Held(r) => code \in {Ctl!OK, Ctl!NeedsApproval}
      <4> DEFINE a == runs[r].answer
      <4>1. code = IF a = "needs_approval" THEN 20 ELSE IF a = "rejected" THEN 21
                   ELSE IF a = "error" THEN 11 ELSE 0
        BY <3>1 DEF Ctl!CodeOf, Ctl!OK, Ctl!NeedsApproval, Ctl!Rejected, Ctl!Daemon
      <4>2. a \in {Ctl!Idle.answer, "ok", "error", "sent", "rejected", "needs_approval"}
        BY <1>1 DEF Processes
      <4>3. /\ a # Ctl!Idle.answer
            /\ a \in {"ok", "sent"} => runs[r].did
            /\ runs[r].did => a \in {"ok", "sent"} \/ runs[r].unsaved
            /\ Held(r) => a \in {"sent", "needs_approval"}
        BY <1>1, <2>2 DEF Truthful
      <4> HIDE DEF a
      <4>4. QED
        BY <4>1, <4>2, <4>3 DEF Ctl!OK, Ctl!NeedsApproval
    <3>3. QED
      BY <1>3, <1>4, <3>2 DEF Truthful
  <2>3. QED
    BY <2>1, <2>2
<1>6. Chosen(r)'
  BY <1>1, <1>3, <1>4 DEF Chosen
<1>7. QED
  BY <1>1, <1>2, <1>3, <1>4, <1>5, <1>6, CtlFrame DEF CtlTypes

\* The host picked is the only one that was found.
LEMMA CtlPicks ==
  ASSUME Ctl!CtlConstants, CtlInv, NEW r \in Runs, Ctl!Pick(r)
  PROVE  CtlInv'
<1> DEFINE found == Ctl!Matching(r)
           h == CHOOSE h \in found : TRUE
           x == [runs[r] EXCEPT !.target = h,
                   !.pc = IF runs[r].kind = "show" THEN "ended" ELSE "asking",
                   !.code = IF runs[r].kind = "show" THEN Ctl!OK ELSE @]
           named == {p \in runs[r].listed : p[2] = runs[r].sel}
           withId == {p \in runs[r].listed : p[1] = runs[r].sel}
<1>1. CtlTypes /\ Truthful(r) /\ Chosen(r) /\ runs[r] \in Processes /\ runs[r].pc = "picking"
  BY DEF CtlInv, CtlTypes, Ctl!Pick
<1>2. /\ UNCHANGED <<names, trust, gate>>
      /\ IF Cardinality(found) # 1
         THEN Ctl!Ended(r, IF found = {} THEN Ctl!NotFound ELSE Ctl!Ambiguous)
         ELSE runs' = [runs EXCEPT ![r].target = h,
                         ![r].pc = IF runs[r].kind = "show" THEN "ended" ELSE "asking",
                         ![r].code = IF runs[r].kind = "show" THEN Ctl!OK ELSE @]
  <2>1. UNCHANGED <<names, trust, gate>>
    BY DEF Ctl!Pick
  <2>2. IF Ctl!Cardinality(found) # 1
        THEN Ctl!Ended(r, IF found = {} THEN Ctl!NotFound ELSE Ctl!Ambiguous)
        ELSE runs' = [runs EXCEPT ![r].target = h,
                         ![r].pc = IF runs[r].kind = "show" THEN "ended" ELSE "asking",
                         ![r].code = IF runs[r].kind = "show" THEN Ctl!OK ELSE @]
    BY Zenon DEF Ctl!Pick
  <2>3. Ctl!Cardinality(found) = Cardinality(found)
    BY CtlFinite
  <2> HIDE DEF found, h
  <2>4. QED
    BY <2>1, <2>2, <2>3, Zenon
<1>3. CASE Cardinality(found) # 1
  BY <1>1, <1>2, <1>3, CtlEnds DEF Ctl!NotFound, Ctl!Ambiguous, Ctl!OK
<1>4. CASE Cardinality(found) = 1
  <2>1. /\ \A y : y \in found <=>
             \E p \in runs[r].listed :
               y = p[1] /\ (IF Ctl!ById(r) # {} THEN p[1] = runs[r].sel ELSE p[2] = runs[r].sel)
        /\ Ctl!ById(r) # {} <=> withId # {}
    BY DEF Ctl!Matching, Ctl!ById, Ctl!ByName
  <2>2. found \subseteq Ids
    <3>1. runs[r].listed \subseteq Ids \X (Names \cup {""})
      BY <1>1 DEF Processes
    <3>2. \A y \in found : \E p \in runs[r].listed : y = p[1]
      BY <2>1
    <3> HIDE DEF found
    <3>3. QED
      BY <3>1, <3>2
  <2>3. PICK y : found = {y}
    <3> HIDE DEF found
    <3>1. IsFiniteSet(found)
      BY <2>2, CtlFinite, FS_Subset DEF Ctl!CtlConstants
    <3>2. QED
      BY <1>4, <3>1, FS_Singleton
  <2>4. h = y /\ h \in Ids
    BY <2>2, <2>3
  <2>5. \/ h = runs[r].sel /\ withId # {}
        \/ withId = {} /\ {p[1] : p \in named} = {h}
    <3>1. CASE withId # {}
      BY <2>1, <2>3, <2>4, <3>1
    <3>2. CASE withId = {}
      <4>1. {p[1] : p \in named} = found
        BY <2>1, <3>2
      <4>2. QED
        BY <3>2, <4>1, <2>3, <2>4
    <3>3. QED
      BY <3>1, <3>2
  <2>6. runs' = [runs EXCEPT ![r] = x]
    BY <1>1, <1>2, <1>4 DEF CtlTypes
  <2>7. /\ x \in Processes /\ x.target = h /\ x.listed = runs[r].listed /\ x.sel = runs[r].sel
        /\ x.did = runs[r].did /\ x.unsaved = runs[r].unsaved /\ x.cut = runs[r].cut
        /\ x.kind = runs[r].kind
        /\ \/ x.pc = "ended" /\ x.kind = "show" /\ x.code = Ctl!OK
           \/ x.pc = "asking"
    BY <1>1, <2>4 DEF Processes
  <2> HIDE DEF x, h, found
  <2>8. runs'[r] = x /\ \A q \in Runs : Held(q)' <=> Held(q)
    BY <1>1, <1>2, <2>6 DEF CtlTypes, Held
  <2>9. ~runs[r].did /\ ~runs[r].unsaved /\ ~runs[r].cut /\ ~Held(r)
    BY <1>1 DEF Truthful
  <2>10. Truthful(r)'
    BY <2>7, <2>8, <2>9 DEF Truthful
  <2>11. Chosen(r)'
    BY <2>5, <2>7, <2>8 DEF Chosen
  <2>12. QED
    BY <1>1, <1>2, <2>6, <2>7, <2>8, <2>10, <2>11, CtlFrame DEF CtlTypes
<1>5. QED
  BY <1>3, <1>4

\* An answer that says what was done.
LEMMA CtlAnswers ==
  ASSUME CtlInv, NEW r \in Runs, runs[r].pc = "asking",
         NEW answer \in {"ok", "error", "sent", "rejected", "needs_approval"},
         NEW done \in BOOLEAN, NEW unsaved \in BOOLEAN, NEW x,
         x = [runs[r] EXCEPT !.pc = "answered", !.did = done, !.answer = answer,
                             !.unsaved = unsaved],
         runs' = [runs EXCEPT ![r] = x], names' = names,
         trust' \in [Ids -> {"readonly", "ask", "trusted"}],
         gate' \in [sent : SUBSET Runs, waits : SUBSET Runs],
         \A q \in Runs \ {r} : Held(q)' => Held(q),
         Held(r)' => answer \in {"sent", "needs_approval"},
         answer \in {"ok", "sent"} => done,
         done => answer \in {"ok", "sent"} \/ unsaved,
         answer # Ctl!Idle.answer
  PROVE  CtlInv'
<1>1. CtlTypes /\ Truthful(r) /\ Chosen(r) /\ runs[r] \in Processes
  BY DEF CtlInv, CtlTypes
<1>2. /\ x \in Processes /\ x.pc = "answered" /\ x.did = done /\ x.unsaved = unsaved
      /\ x.answer = answer /\ x.cut = runs[r].cut
      /\ x.target = runs[r].target /\ x.listed = runs[r].listed /\ x.sel = runs[r].sel
  BY <1>1 DEF Processes
<1>3. runs'[r] = x
  BY <1>1 DEF CtlTypes
<1>4. ~runs[r].cut
  BY <1>1 DEF Truthful
<1>5. Truthful(r)'
  BY <1>2, <1>3, <1>4 DEF Truthful
<1>6. Chosen(r)'
  BY <1>1, <1>2, <1>3 DEF Chosen
<1>7. names' \in [Ids -> Names \cup {""}]
  BY <1>1 DEF CtlTypes
<1>8. QED
  BY <1>2, <1>5, <1>6, <1>7, CtlFrame

\* An answer of the gate.
LEMMA CtlGateAnswers ==
  ASSUME CtlInv, NEW r \in Runs, runs[r].pc = "asking",
         NEW answer \in {"ok", "error", "sent", "rejected", "needs_approval"},
         NEW done \in BOOLEAN, Ctl!Answered(r, answer, done), UNCHANGED <<names, trust>>,
         gate' \in [sent : SUBSET Runs, waits : SUBSET Runs],
         \A q \in Runs \ {r} : Held(q)' => Held(q),
         Held(r)' => answer \in {"sent", "needs_approval"},
         done <=> answer \in {"ok", "sent"}
  PROVE  CtlInv'
<1> DEFINE x == [runs[r] EXCEPT !.pc = "answered", !.did = done, !.answer = answer,
                                !.unsaved = FALSE]
<1>1. CtlTypes /\ Truthful(r) /\ runs[r] \in Processes
  BY DEF CtlInv, CtlTypes
<1>2. runs[r].unsaved = FALSE
  BY <1>1 DEF Truthful, Processes
<1>3. x = [runs[r] EXCEPT !.pc = "answered", !.answer = answer, !.did = done]
  BY <1>1, <1>2 DEF Processes
<1>4. runs' = [runs EXCEPT ![r] = x]
  BY <1>1, <1>3 DEF Ctl!Answered, CtlTypes
<1>5. trust' \in [Ids -> {"readonly", "ask", "trusted"}]
  BY <1>1 DEF CtlTypes
<1>6. answer # Ctl!Idle.answer
  BY DEF Ctl!Idle
<1> HIDE DEF x
<1>7. x = [runs[r] EXCEPT !.pc = "answered", !.did = done, !.answer = answer,
                          !.unsaved = FALSE]
  BY DEF x
<1>8. QED
  BY <1>4, <1>5, <1>6, <1>7, CtlAnswers

LEMMA CtlActs ==
  ASSUME CtlInv, NEW r \in Runs, Ctl!Act(r)
  PROVE  CtlInv'
<1>1. CtlTypes /\ Truthful(r) /\ Chosen(r) /\ runs[r] \in Processes /\ runs[r].pc = "asking"
  BY DEF CtlInv, CtlTypes, Ctl!Act
<1>2. PICK saved \in BOOLEAN :
        LET done == ~locked /\ runs[r].target \in Ctl!Hosts
        IN /\ runs' = [runs EXCEPT ![r].pc = "answered", ![r].did = done,
                         ![r].answer = IF done /\ saved THEN "ok" ELSE "error",
                         ![r].unsaved = done /\ ~saved]
           /\ trust' = IF done /\ runs[r].kind = "trust"
                       THEN [trust EXCEPT ![runs[r].target] = "readonly"] ELSE trust
  BY Zenon DEF Ctl!Act
<1> DEFINE done == ~locked /\ runs[r].target \in Ctl!Hosts
           answer == IF done /\ saved THEN "ok" ELSE "error"
           x == [runs[r] EXCEPT !.pc = "answered", !.did = done, !.answer = answer,
                                !.unsaved = done /\ ~saved]
<1>3. UNCHANGED <<names, gate>>
  BY DEF Ctl!Act
<1>4. runs' = [runs EXCEPT ![r] = x]
  BY <1>1, <1>2 DEF CtlTypes
<1>5. trust' \in [Ids -> {"readonly", "ask", "trusted"}]
  <2>1. CASE done /\ runs[r].kind = "trust"
    BY <1>1, <1>2, <2>1 DEF CtlTypes
  <2>2. CASE ~(done /\ runs[r].kind = "trust")
    BY <1>1, <1>2, <2>2 DEF CtlTypes
  <2>3. QED
    BY <2>1, <2>2
<1>5a. done \in BOOLEAN
  OBVIOUS
<1>6. /\ done \in BOOLEAN /\ (done /\ ~saved) \in BOOLEAN /\ answer \in {"ok", "error"}
      /\ answer \in {"ok", "sent"} => done
      /\ done => answer \in {"ok", "sent"} \/ (done /\ ~saved)
  <2> HIDE DEF done
  <2>1. CASE done
    <3>1. done = TRUE
      BY <2>1
    <3>2. saved = TRUE \/ saved = FALSE
      BY <1>2
    <3>3. QED
      BY <3>1, <3>2
  <2>2. CASE ~done
    <3>1. answer = "error"
      BY <2>2
    <3>2. (done /\ ~saved) = FALSE
      BY <2>2
    <3>3. done \in BOOLEAN
      BY <1>5a
    <3>4. QED
      BY <3>1, <3>2, <3>3, <2>2
  <2>3. QED
    BY <2>1, <2>2
<1>7. answer # Ctl!Idle.answer
  BY DEF Ctl!Idle
<1>8. ~Held(r) /\ \A q \in Runs : Held(q)' => Held(q)
  BY <1>1, <1>3 DEF Truthful, Held
<1>9. gate' \in [sent : SUBSET Runs, waits : SUBSET Runs]
  BY <1>1, <1>3 DEF CtlTypes
<1>10. x = [runs[r] EXCEPT !.pc = "answered", !.did = done, !.answer = answer,
                           !.unsaved = done /\ ~saved]
  OBVIOUS
<1> HIDE DEF x, answer, done
<1>11. QED
  BY <1>1, <1>3, <1>4, <1>5, <1>6, <1>7, <1>8, <1>9, <1>10, CtlAnswers

LEMMA CtlExecs ==
  ASSUME CtlInv, NEW r \in Runs, Ctl!Exec(r)
  PROVE  CtlInv'
<1>1. CtlTypes /\ ~Held(r) /\ runs[r].pc = "asking" /\ UNCHANGED <<names, trust>>
  BY DEF CtlInv, Truthful, Ctl!Exec
<1>2. \/ Ctl!Answered(r, "error", FALSE) /\ UNCHANGED gate
      \/ Ctl!Answered(r, "rejected", FALSE) /\ UNCHANGED gate
      \/ /\ Ctl!Answered(r, "needs_approval", FALSE)
         /\ gate' = [gate EXCEPT !.waits = @ \cup {r}]
      \/ Ctl!Answered(r, "sent", TRUE) /\ gate' = [gate EXCEPT !.sent = @ \cup {r}]
  BY DEF Ctl!Exec
<1>3. ASSUME UNCHANGED gate
      PROVE  /\ gate' \in [sent : SUBSET Runs, waits : SUBSET Runs]
             /\ ~Held(r)' /\ \A q \in Runs : Held(q)' => Held(q)
  BY <1>1, <1>3 DEF CtlTypes, Held
<1>4. ASSUME \/ gate' = [gate EXCEPT !.waits = @ \cup {r}]
             \/ gate' = [gate EXCEPT !.sent = @ \cup {r}]
      PROVE  /\ gate' \in [sent : SUBSET Runs, waits : SUBSET Runs]
             /\ \A q \in Runs \ {r} : Held(q)' => Held(q)
  <2>1. gate.sent \subseteq Runs /\ gate.waits \subseteq Runs
    BY <1>1 DEF CtlTypes
  <2>2. CASE gate' = [gate EXCEPT !.waits = @ \cup {r}]
    <3>1. gate' = [sent |-> gate.sent, waits |-> gate.waits \cup {r}]
      BY <1>1, <2>2 DEF CtlTypes
    <3>2. QED
      BY <2>1, <3>1 DEF Held
  <2>3. CASE gate' = [gate EXCEPT !.sent = @ \cup {r}]
    <3>1. gate' = [sent |-> gate.sent \cup {r}, waits |-> gate.waits]
      BY <1>1, <2>3 DEF CtlTypes
    <3>2. QED
      BY <2>1, <3>1 DEF Held
  <2>4. QED
    BY <1>4, <2>2, <2>3
<1>5. CASE Ctl!Answered(r, "error", FALSE) /\ UNCHANGED gate
  BY <1>1, <1>3, <1>5, CtlGateAnswers
<1>6. CASE Ctl!Answered(r, "rejected", FALSE) /\ UNCHANGED gate
  BY <1>1, <1>3, <1>6, CtlGateAnswers
<1>7. CASE /\ Ctl!Answered(r, "needs_approval", FALSE)
           /\ gate' = [gate EXCEPT !.waits = @ \cup {r}]
  BY <1>1, <1>4, <1>7, CtlGateAnswers
<1>8. CASE Ctl!Answered(r, "sent", TRUE) /\ gate' = [gate EXCEPT !.sent = @ \cup {r}]
  BY <1>1, <1>4, <1>8, CtlGateAnswers
<1>9. QED
  BY <1>2, <1>5, <1>6, <1>7, <1>8

LEMMA CtlDecides ==
  ASSUME CtlInv, NEW r \in Runs, Ctl!Decide(r)
  PROVE  CtlInv'
<1>1. CtlTypes /\ ~Held(r) /\ runs[r].pc = "asking" /\ UNCHANGED <<names, trust>>
  BY DEF CtlInv, Truthful, Ctl!Decide
<1>2. CASE gate.waits = {} /\ Ctl!Answered(r, "error", FALSE) /\ UNCHANGED gate
  <2>1. /\ gate' \in [sent : SUBSET Runs, waits : SUBSET Runs]
        /\ ~Held(r)' /\ \A q \in Runs : Held(q)' => Held(q)
    BY <1>1, <1>2 DEF CtlTypes, Held
  <2>2. QED
    BY <1>1, <1>2, <2>1, CtlGateAnswers
<1>3. ASSUME NEW q \in gate.waits, NEW done \in BOOLEAN,
             gate' = [sent  |-> IF done /\ runs[r].kind = "approve"
                                THEN gate.sent \cup {q} ELSE gate.sent,
                      waits |-> gate.waits \ {q}],
             Ctl!Answered(r, IF done THEN "ok" ELSE "error", done)
      PROVE  CtlInv'
  <2>1. gate' \in [sent : SUBSET Runs, waits : SUBSET Runs]
    BY <1>1, <1>3 DEF CtlTypes
  <2>2. ~Held(r)' /\ \A p \in Runs : Held(p)' => Held(p)
    BY <1>1, <1>3 DEF CtlTypes, Held
  <2>3. QED
    BY <1>1, <1>3, <2>1, <2>2, CtlGateAnswers
<1>4. QED
  BY <1>2, <1>3 DEF Ctl!Decide

LEMMA CtlLists ==
  ASSUME CtlInv, NEW r \in Runs, Ctl!List(r)
  PROVE  CtlInv'
<1>1. CtlTypes /\ Truthful(r) /\ Chosen(r) /\ runs[r] \in Processes /\ runs[r].pc = "listing"
  BY DEF CtlInv, CtlTypes, Ctl!List
<1>2. UNCHANGED <<names, trust, gate>>
  BY DEF Ctl!List
<1>3. CASE locked
  BY <1>1, <1>2, <1>3, CtlEnds DEF Ctl!List, Ctl!Daemon, Ctl!OK
<1>4. CASE ~locked
  <2> DEFINE all == {<<h, names[h]>> : h \in Ctl!Hosts}
             x == [runs[r] EXCEPT !.pc = "picking", !.listed = all]
  <2>1. all \subseteq Ids \X (Names \cup {""})
    <3>1. \A h \in Ctl!Hosts : h \in Ids /\ names[h] \in Names \cup {""}
      BY <1>1 DEF CtlTypes, Ctl!Hosts
    <3>2. ASSUME NEW p \in all
          PROVE  p \in Ids \X (Names \cup {""})
      <4>1. PICK h \in Ctl!Hosts : p = <<h, names[h]>>
        OBVIOUS
      <4>2. QED
        BY <3>1, <4>1
    <3>3. QED
      BY <3>2
  <2>2. runs' = [runs EXCEPT ![r] = x]
    BY <1>1, <1>4 DEF Ctl!List, CtlTypes
  <2> HIDE DEF all
  <2>3. /\ x \in Processes /\ x.pc = "picking" /\ x.target = runs[r].target
        /\ x.did = runs[r].did /\ x.unsaved = runs[r].unsaved /\ x.cut = runs[r].cut
    BY <1>1, <2>1 DEF Processes
  <2> HIDE DEF x
  <2>4. runs'[r] = x /\ \A q \in Runs : Held(q)' <=> Held(q)
    BY <1>1, <1>2, <2>2 DEF CtlTypes, Held
  <2>5. Truthful(r)'
    BY <1>1, <2>3, <2>4 DEF Truthful
  <2>6. Chosen(r)'
    BY <1>1, <2>3, <2>4 DEF Chosen
  <2>7. QED
    BY <1>1, <1>2, <2>2, <2>3, <2>4, <2>5, <2>6, CtlFrame DEF CtlTypes
<1>5. QED
  BY <1>3, <1>4

\* A connection that is lost ends a process without saying what was done.
LEMMA CtlCuts ==
  ASSUME CtlInv, NEW r \in Runs, Ctl!Cut(r)
  PROVE  CtlInv'
<1> DEFINE x == [runs[r] EXCEPT !.pc = "ended", !.code = Ctl!Daemon, !.cut = TRUE]
<1>1. CtlTypes /\ Chosen(r) /\ runs[r] \in Processes /\ UNCHANGED <<names, trust, gate>>
  BY DEF CtlInv, CtlTypes, Ctl!Cut
<1>2. runs' = [runs EXCEPT ![r] = x]
  BY <1>1 DEF Ctl!Cut, CtlTypes
<1>3. /\ x \in Processes /\ x.pc = "ended" /\ x.cut /\ x.code = Ctl!Daemon
      /\ x.target = runs[r].target /\ x.listed = runs[r].listed /\ x.sel = runs[r].sel
  BY <1>1 DEF Processes
<1> HIDE DEF x
<1>4. runs'[r] = x /\ \A q \in Runs : Held(q)' <=> Held(q)
  BY <1>1, <1>2 DEF CtlTypes, Held
<1>5. Truthful(r)'
  BY <1>3, <1>4 DEF Truthful, Ctl!Daemon, Ctl!OK
<1>6. Chosen(r)'
  BY <1>1, <1>3, <1>4 DEF Chosen
<1>7. QED
  BY <1>1, <1>2, <1>3, <1>4, <1>5, <1>6, CtlFrame DEF CtlTypes

LEMMA CtlStep == Ctl!CtlConstants /\ CtlInv /\ Ctl!Next => CtlInv'
<1> SUFFICES ASSUME Ctl!CtlConstants, CtlInv, Ctl!Next PROVE CtlInv'
  OBVIOUS
<1>1. ASSUME NEW r \in Runs, Ctl!NotConnected(r) PROVE CtlInv'
  BY <1>1, CtlEnds DEF Ctl!NotConnected, Ctl!Connection, Ctl!OK
<1>2. ASSUME NEW r \in Runs, Ctl!Finish(r) PROVE CtlInv'
  BY <1>2, CtlEnds DEF Ctl!Finish, Ctl!CodeOf
<1>3. ASSUME UNCHANGED <<trust, gate, runs>>, names' \in [Ids -> Names \cup {""}] PROVE CtlInv'
  <2>1. CtlTypes'
    BY <1>3 DEF CtlInv, CtlTypes
  <2>2. ASSUME NEW r \in Runs PROVE Truthful(r)' /\ Chosen(r)'
    <3>1. runs'[r] = runs[r] /\ (Held(r)' <=> Held(r)) /\ Truthful(r) /\ Chosen(r)
      BY <1>3 DEF CtlInv, Held
    <3>2. Truthful(r)'
      BY <3>1 DEF Truthful
    <3>3. Chosen(r)'
      BY <3>1 DEF Chosen
    <3>4. QED
      BY <3>2, <3>3
  <2>3. QED
    BY <2>1, <2>2 DEF CtlInv
<1>4. ASSUME NEW h \in Ids, NEW n \in Names \cup {""}, Ctl!Rename(h, n) PROVE CtlInv'
  BY <1>3, <1>4 DEF Ctl!Rename, CtlInv, CtlTypes
<1>5. ASSUME Ctl!Lock PROVE CtlInv'
  BY <1>3, <1>5 DEF Ctl!Lock, CtlInv, CtlTypes
<1>6. QED
  BY <1>1, <1>2, <1>4, <1>5, CtlStarts, CtlLists, CtlPicks, CtlActs, CtlExecs, CtlDecides,
     CtlCuts DEF Ctl!Next

\* What the invariant says of the ends of the processes.
LEMMA CtlTruth == CtlInv => Ctl!CodesTellTheTruth /\ Ctl!ActsOnTheHostMeant
<1> SUFFICES ASSUME CtlInv PROVE Ctl!CodesTellTheTruth /\ Ctl!ActsOnTheHostMeant
  OBVIOUS
<1>1. Ctl!CodesTellTheTruth
  BY DEF CtlInv, Truthful, Held, Ctl!CodesTellTheTruth
<1>2. Ctl!ActsOnTheHostMeant
  BY DEF CtlInv, Chosen, Ctl!ActsOnTheHostMeant
<1>3. QED
  BY <1>1, <1>2

LEMMA CtlStays ==
  ASSUME CtlInv, UNCHANGED Ctl!vars
  PROVE  CtlInv'
<1>1. UNCHANGED <<names, trust, gate, runs>>
  BY DEF Ctl!vars
<1>2. CtlTypes'
  BY <1>1 DEF CtlInv, CtlTypes
<1>3. ASSUME NEW r \in Runs PROVE Truthful(r)' /\ Chosen(r)'
  <2>1. runs'[r] = runs[r] /\ (Held(r)' <=> Held(r)) /\ Truthful(r) /\ Chosen(r)
    BY <1>1 DEF CtlInv, Held
  <2>2. Truthful(r)'
    BY <2>1 DEF Truthful
  <2>3. Chosen(r)'
    BY <2>1 DEF Chosen
  <2> QED
    BY <2>2, <2>3
<1> QED
  BY <1>2, <1>3 DEF CtlInv

LEMMA CtlInvariant ==
  ASSUME Ctl!CtlConstants
  PROVE  Ctl!Spec => []CtlInv
<1>1. Ctl!Init => CtlInv
  BY CtlInit
<1>2. CtlInv /\ [Ctl!Next]_(Ctl!vars) => CtlInv'
  BY CtlStep, CtlStays
<1> QED
  BY <1>1, <1>2, PTL DEF Ctl!Spec

\* The variables keep their types (commands.rs).
THEOREM CtlTypeCorrect ==
  ASSUME Ctl!CtlConstants
  PROVE  Ctl!Spec => []Ctl!TypeOK
<1>1. CtlInv => Ctl!TypeOK
  BY DEF CtlInv, CtlTypes, Processes, Ctl!TypeOK
<1> QED
  BY <1>1, CtlInvariant, PTL

\* However many commands run at once and whatever is cut off, the exit code says whether it
\* was done (exit_code.rs).
THEOREM CodesStayTrue ==
  ASSUME Ctl!CtlConstants
  PROVE  Ctl!Spec => []Ctl!CodesTellTheTruth
<1>1. CtlInv => Ctl!CodesTellTheTruth
  BY CtlTruth
<1> QED
  BY <1>1, CtlInvariant, PTL

\* A command acts on the host its argument named in the list it got, and never guesses
\* (resolve_host).
THEOREM HostsAreMeant ==
  ASSUME Ctl!CtlConstants
  PROVE  Ctl!Spec => []Ctl!ActsOnTheHostMeant
<1>1. CtlInv => Ctl!ActsOnTheHostMeant
  BY CtlTruth
<1> QED
  BY <1>1, CtlInvariant, PTL

-----------------------------------------------------------------------------
(* Calls of the MCP server.                                                *)

Tokens == {Client!None} \cup Daemons
Ends == {Client!Nobody} \cup Client!Links
Files == [owner : Tokens, agent : Tokens, port : Tokens]
Servers ==
  [pc : {"none", "reads", "tokened", "listening", "leaving", "gone"}, token : Tokens]
Connections ==
  [daemon : Tokens, state : {"none", "open", "broken"}, queue : Seq(Calls),
   step : {"idle", "login", "ok", "error"}]
Called ==
  [pc : {"idle", "start", "port", "dial", "refused", "send", "waits", "done"},
   kind : Client!Kinds, try : Client!Tries, token : Tokens, daemon : Tokens,
   again : BOOLEAN, link : Ends, told : Client!Told]

ClientTypes ==
  /\ files \in Files
  /\ daemons \in [Daemons -> Servers]
  /\ links \in [Client!Links -> Connections]
  /\ shared \in Ends
  /\ calls \in [Calls -> Called]
  /\ did \in [Calls -> Nat]
  /\ rotated \in [Calls -> Nat]
  /\ steady \in [Calls -> BOOLEAN]
  /\ allowed \in Client!Bounds

\* A request of call c waits, on some connection.
Queued(c) == \E k \in Client!Links : \E i \in DOMAIN links[k].queue : links[k].queue[i] = c

\* What is under way on a connection is the request at the head of its queue.
Served == \A k \in Client!Links : links[k].step # "idle" => links[k].queue # <<>>

Unsent(c) ==
  \/ calls[c].pc \notin {"waits", "done"}
  \/ calls[c].told \in {"unreachable", "unauthorised"}

\* A write is sent once, and the daemon does it when it comes to it: then it is at the head
\* of its queue, to be answered, or it is in no queue any more.
Once(c) ==
  /\ calls[c].pc \in {"send", "waits"} => calls[c].link \in Client!Links
  /\ calls[c].pc # "done" => calls[c].told = Client!NoCall.told
  /\ calls[c].pc = "idle" => did[c] = 0 /\ ~Queued(c)
  /\ calls[c].kind # "write" => did[c] = 0
  /\ calls[c].kind = "write" =>
       /\ calls[c].try = 1 /\ did[c] <= 1
       /\ \A k, j \in Client!Links :
            \A i \in DOMAIN links[k].queue, m \in DOMAIN links[j].queue :
              links[k].queue[i] = c /\ links[j].queue[m] = c => k = j /\ i = m
       /\ did[c] = 1 => \A k \in Client!Links : \A i \in DOMAIN links[k].queue :
                          links[k].queue[i] = c => i = 1 /\ links[k].step = "ok"
       /\ Unsent(c) => did[c] = 0 /\ ~Queued(c)

\* While nothing fails or changes, the files lead to a daemon that is up, a connection made
\* stays open, and no request is refused.
Leads == \E d \in Client!Up : files.agent = daemons[d].token /\ files.port = d
Calm(c) ==
  steady[c] =>
    /\ Client!Busy(c) =>
         /\ Leads /\ calls[c].pc # "refused"
         /\ calls[c].pc \in {"port", "dial"} => calls[c].token = files.agent
         /\ calls[c].pc = "dial" => calls[c].daemon = files.port
         /\ calls[c].try = 2 =>
              /\ shared # Client!Nobody => links[shared].state # "broken"
              /\ calls[c].pc \in {"send", "waits"} => links[calls[c].link].state # "broken"
         /\ \A k \in Client!Links :
              links[k].step = "error" => Head(links[k].queue) # c
    /\ calls[c].pc = "done" /\ calls[c].kind = "read" => calls[c].told = "ok"

\* A daemon that has begun to listen has a token.
Tokened ==
  \A d \in Daemons : daemons[d].pc \in {"tokened", "listening", "leaving"} =>
    daemons[d].token # Client!None

ClientInv ==
  /\ ClientTypes /\ Served /\ Tokened
  /\ \A c \in Calls : Once(c) /\ Calm(c)

LEMMA ClientNames ==
  ASSUME Client!ClientConstants
  PROVE  /\ Client!Nobody \notin Client!Links /\ Client!None \notin Daemons
         /\ \A c \in Calls, t \in Client!Tries : <<c, t>> \in Client!Links
         /\ Client!NoLink \in Connections /\ Client!NoDaemon \in Servers
         /\ Client!NoCall \in Called
<1>1. Client!Nobody \notin Client!Links
  BY DEF Client!ClientConstants, Client!Nobody, Client!Links, Client!None, Client!Tries
<1>2. Client!None \notin Daemons
  BY DEF Client!ClientConstants, Client!None
<1>3. \A c \in Calls, t \in Client!Tries : <<c, t>> \in Client!Links
  BY DEF Client!Links
<1>4. Client!NoLink \in Connections /\ Client!NoDaemon \in Servers
  BY DEF Client!NoLink, Client!NoDaemon, Connections, Servers, Tokens
<1>5. Client!NoCall \in Called
  BY DEF Client!NoCall, Called, Ends, Tokens, Client!Kinds, Client!Tries, Client!Told
<1>6. QED
  BY <1>1, <1>2, <1>3, <1>4, <1>5

LEMMA ClientInit == Client!ClientConstants /\ Client!Init => ClientInv
<1> SUFFICES ASSUME Client!ClientConstants, Client!Init PROVE ClientInv
  OBVIOUS
<1>1. ClientTypes
  <2>1. links \in [Client!Links -> Connections] /\ daemons \in [Daemons -> Servers]
    BY ClientNames DEF Client!Init
  <2>2. calls \in [Calls -> Called] /\ shared \in Ends
    BY ClientNames DEF Client!Init, Ends
  <2>3. files \in Files
    BY DEF Client!Init, Files, Tokens
  <2>4. allowed \in Client!Bounds
    BY DEF Client!Init, Client!ClientConstants
  <2>5. QED
    BY <2>1, <2>2, <2>3, <2>4 DEF ClientTypes, Client!Init
<1>2. Served /\ Tokened
  BY DEF Client!Init, Served, Tokened, Client!NoLink, Client!NoDaemon
<1>3. ASSUME NEW c \in Calls PROVE Once(c) /\ Calm(c)
  <2>1. calls[c].pc = "idle" /\ calls[c].kind = "read" /\ did[c] = 0 /\ ~steady[c]
    BY DEF Client!Init, Client!NoCall
  <2>2. ~Queued(c)
    BY DEF Client!Init, Client!NoLink, Queued
  <2>3. calls[c].told = Client!NoCall.told
    BY DEF Client!Init
  <2>4. QED
    BY <2>1, <2>2, <2>3 DEF Once, Calm
<1>4. QED
  BY <1>1, <1>2, <1>3 DEF ClientInv

LEMMA ClientUse ==
  ASSUME allowed \in Client!Bounds, NEW what, Client!Use(what),
         what \in {"calls", "kills", "stops", "overlaps", "breaks", "refusals"}
  PROVE  allowed' \in Client!Bounds /\ (what # "overlaps" => allowed'.overlaps = allowed.overlaps)
  BY DEF Client!Use, Client!Bounds

-----------------------------------------------------------------------------
\* The requests of a call that wait after a step, waited before it: what was before them
\* in a queue may be gone.  One that is being answered is still being answered.
Follows(c) ==
  \A k \in Client!Links : \E s \in {0, 1} :
    /\ \A i \in DOMAIN links'[k].queue : links'[k].queue[i] = c =>
         i + s \in DOMAIN links[k].queue /\ links[k].queue[i + s] = c
    /\ s = 0 /\ links[k].step = "ok" /\ links'[k].queue # <<>> => links'[k].step = "ok"

LEMMA OnceKept ==
  ASSUME ClientTypes, ClientTypes', NEW c \in Calls, Once(c), Follows(c), did'[c] = did[c],
         calls'[c].kind = calls[c].kind,
         calls'[c].kind = "write" => calls'[c].try = 1,
         calls'[c].pc \in {"send", "waits"} => calls'[c].link \in Client!Links,
         calls'[c].pc = "idle" => calls[c].pc = "idle",
         calls'[c].pc # "done" => calls'[c].told = Client!NoCall.told,
         calls[c].kind = "write" /\ Unsent(c)' => Unsent(c)
  PROVE  Once(c)'
<1>1. Queued(c)' => Queued(c)
  BY DEF Follows, Queued
<1>2. ASSUME NEW k \in Client!Links
      PROVE  /\ \A i \in DOMAIN links'[k].queue : i \in Nat /\ i # 0
             /\ \A i \in DOMAIN links[k].queue : i \in Nat /\ i # 0
  <2>1. links'[k].queue \in Seq(Calls) /\ links[k].queue \in Seq(Calls)
    BY DEF ClientTypes, Connections
  <2>2. QED
    BY <2>1
<1>3. ASSUME NEW k \in Client!Links, NEW j \in Client!Links,
             NEW i \in DOMAIN links'[k].queue, NEW m \in DOMAIN links'[j].queue,
             links'[k].queue[i] = c, links'[j].queue[m] = c, calls[c].kind = "write"
      PROVE  k = j /\ i = m
  <2>1. PICK s \in {0, 1} : i + s \in DOMAIN links[k].queue /\ links[k].queue[i + s] = c
                            /\ (k = j => m + s \in DOMAIN links[j].queue /\ links[j].queue[m + s] = c)
    BY <1>3 DEF Follows
  <2>2. PICK t \in {0, 1} : m + t \in DOMAIN links[j].queue /\ links[j].queue[m + t] = c
    BY <1>3 DEF Follows
  <2>3. k = j
    BY <1>3, <2>1, <2>2 DEF Once
  <2>4. i + s = m + s
    BY <1>3, <2>1, <2>3 DEF Once
  <2>5. i \in Nat /\ m \in Nat
    BY <1>2
  <2>6. QED
    BY <2>3, <2>4, <2>5
<1>4. ASSUME NEW k \in Client!Links, NEW i \in DOMAIN links'[k].queue, links'[k].queue[i] = c,
             calls[c].kind = "write", did[c] = 1
      PROVE  i = 1 /\ links'[k].step = "ok"
  <2>1. PICK s \in {0, 1} :
          /\ i + s \in DOMAIN links[k].queue /\ links[k].queue[i + s] = c
          /\ s = 0 /\ links[k].step = "ok" /\ links'[k].queue # <<>> => links'[k].step = "ok"
    BY <1>4 DEF Follows
  <2>2. i + s = 1 /\ links[k].step = "ok"
    BY <1>4, <2>1 DEF Once
  <2>3. i \in Nat /\ i # 0
    BY <1>2
  <2>4. links'[k].queue # <<>>
    OBVIOUS
  <2>5. QED
    BY <2>1, <2>2, <2>3, <2>4
<1>5. QED
  BY <1>1, <1>3, <1>4 DEF Once

\* Connections whose queues stay or go leave every request where it is.
LEMMA FollowsQueues ==
  ASSUME NEW c \in Calls, ClientTypes,
         \A k \in Client!Links :
           \/ links'[k].queue = <<>>
           \/ links'[k].queue = links[k].queue /\ (links[k].step = "ok" => links'[k].step = "ok")
  PROVE  Follows(c)
<1>1. ASSUME NEW k \in Client!Links
      PROVE  /\ \A i \in DOMAIN links'[k].queue : links'[k].queue[i] = c =>
                  i + 0 \in DOMAIN links[k].queue /\ links[k].queue[i + 0] = c
             /\ links[k].step = "ok" /\ links'[k].queue # <<>> => links'[k].step = "ok"
  <2>1. CASE links'[k].queue = <<>>
    BY <2>1
  <2>2. CASE links'[k].queue = links[k].queue /\ (links[k].step = "ok" => links'[k].step = "ok")
    BY <2>2 DEF ClientTypes, Connections
  <2>3. QED
    BY <2>1, <2>2
<1>2. QED
  BY <1>1 DEF Follows

\* Whatever fails or changes makes every call under way unsteady.
LEMMA CalmUnsteady ==
  ASSUME ClientTypes, NEW c \in Calls, Calm(c), Client!Unsteady, UNCHANGED calls
  PROVE  Calm(c)'
  BY DEF Calm, Client!Unsteady, Client!Busy, ClientTypes

\* A step that breaks no connection and refuses nothing leaves a call as calm as it was.
LEMMA CalmKept ==
  ASSUME ClientTypes, NEW c \in Calls, Calm(c), Once(c),
         calls'[c] = calls[c], steady'[c] = steady[c], UNCHANGED <<files, daemons>>,
         \A k \in Client!Links : links'[k].state = "broken" => links[k].state = "broken",
         \A k \in Client!Links : links'[k].step = "error" =>
           links[k].step = "error" /\ Head(links'[k].queue) = Head(links[k].queue),
         \/ shared' \in {shared, Client!Nobody}
         \/ shared' \in Client!Links /\ links'[shared'].state # "broken"
  PROVE  Calm(c)'
<1>1. Leads => Leads'
  BY DEF Leads, Client!Up
<1>2. SUFFICES ASSUME steady[c] PROVE Calm(c)'
  BY DEF Calm
<1>3. calls[c].try = 2 /\ Client!Busy(c) =>
         /\ shared' # Client!Nobody => links'[shared'].state # "broken"
         /\ calls[c].pc \in {"send", "waits"} => links'[calls[c].link].state # "broken"
  BY <1>2 DEF Calm, Once, ClientTypes, Ends
<1>4. QED
  BY <1>1, <1>2, <1>3 DEF Calm, Client!Busy

-----------------------------------------------------------------------------
\* The daemons come and go, a connection breaks, a request is refused: no call moves.
LEMMA ClientShaken ==
  ASSUME ClientInv, ClientTypes', Tokened', Client!Unsteady, UNCHANGED <<shared, calls, did>>,
         \A k \in Client!Links :
           /\ \/ links'[k].queue = <<>>
              \/ links'[k].queue = links[k].queue /\ (links[k].step = "ok" => links'[k].step = "ok")
           /\ links'[k].step # "idle" => links'[k].queue # <<>>
  PROVE  ClientInv'
<1>1. ASSUME NEW c \in Calls PROVE Once(c)' /\ Calm(c)'
  <2>1. Once(c) /\ Calm(c) /\ ClientTypes /\ Follows(c)
    BY FollowsQueues DEF ClientInv
  <2>2. Unsent(c)' => Unsent(c)
    BY DEF Unsent
  <2>3. Once(c)'
    <3>1. /\ calls[c].kind = "write" => calls[c].try = 1
          /\ calls[c].pc \in {"send", "waits"} => calls[c].link \in Client!Links
          /\ calls[c].pc # "done" => calls[c].told = Client!NoCall.told
      BY <2>1 DEF Once
    <3>2. QED
      BY <2>1, <2>2, <3>1, OnceKept
  <2>4. QED
    BY <2>1, <2>3, CalmUnsteady
<1>2. Served'
  BY DEF Served
<1>3. QED
  BY <1>1, <1>2 DEF ClientInv

LEMMA ClientDaemonStep ==
  ASSUME Client!ClientConstants, ClientInv, NEW d \in Daemons, Client!DaemonSteps(d)
  PROVE  ClientInv'
<1>1. ClientTypes /\ UNCHANGED <<shared, calls, did>> /\ Client!Unsteady
  BY DEF ClientInv, Client!DaemonSteps, Client!Start, Client!CreateToken, Client!Listen,
     Client!Cleanup, Client!Gone, Client!callVars
<1>2. daemons' \in [Daemons -> Servers] /\ Tokened'
  <2>1. d \in Tokens /\ daemons[d] \in Servers /\ files.owner \in Tokens /\ d # Client!None
    BY <1>1, ClientNames DEF ClientTypes, Files, Tokens
  <2>2. ASSUME NEW x \in Servers, daemons' = [daemons EXCEPT ![d] = x],
               x.pc \in {"tokened", "listening", "leaving"} => x.token # Client!None
        PROVE  daemons' \in [Daemons -> Servers] /\ Tokened'
    BY <1>1, <2>2 DEF ClientInv, ClientTypes, Tokened
  <2>3. CASE Client!Start(d)
    <3> DEFINE x == [pc |-> "reads", token |-> files.owner]
    <3>1. x \in Servers /\ x.pc = "reads" /\ daemons' = [daemons EXCEPT ![d] = x]
      BY <2>1, <2>3 DEF Client!Start, Servers
    <3> HIDE DEF x
    <3>2. QED
      BY <2>2, <3>1
  <2>4. CASE Client!CreateToken(d)
    <3> DEFINE x == [pc |-> "tokened",
                     token |-> IF daemons[d].token = Client!None THEN d ELSE daemons[d].token]
    <3>1. x \in Servers /\ x.token # Client!None
      BY <2>1 DEF Servers
    <3>2. daemons' = [daemons EXCEPT ![d] = x]
      BY <1>1, <2>4 DEF Client!CreateToken, ClientTypes
    <3> HIDE DEF x
    <3>3. QED
      BY <2>2, <3>1, <3>2
  <2>5. ASSUME NEW pc \in {"listening", "leaving", "gone"},
               daemons' = [daemons EXCEPT ![d].pc = pc],
               pc = "gone" \/ daemons[d].pc \in {"tokened", "listening"}
        PROVE  daemons' \in [Daemons -> Servers] /\ Tokened'
    <3> DEFINE x == [daemons[d] EXCEPT !.pc = pc]
    <3>1. x \in Servers /\ x.pc = pc /\ x.token = daemons[d].token
      BY <2>1, <2>5 DEF Servers
    <3>2. daemons' = [daemons EXCEPT ![d] = x]
      BY <1>1, <2>5 DEF ClientTypes
    <3>3. pc # "gone" => x.token # Client!None
      BY <2>5, <3>1 DEF ClientInv, Tokened
    <3> HIDE DEF x
    <3>4. QED
      BY <2>2, <3>1, <3>2, <3>3
  <2>6. CASE Client!Listen(d)
    BY <2>5, <2>6 DEF Client!Listen
  <2>7. CASE Client!Cleanup(d)
    BY <2>5, <2>7 DEF Client!Cleanup
  <2>8. CASE Client!Gone(d)
    BY <2>5, <2>8 DEF Client!Gone
  <2>9. QED
    BY <2>3, <2>4, <2>6, <2>7, <2>8 DEF Client!DaemonSteps
<1>3. files' \in Files
  <2>1. d \in Tokens /\ files \in Files /\ daemons[d].token \in Tokens /\ Client!None \in Tokens
    BY <1>1 DEF ClientTypes, Servers, Tokens
  <2>2. CASE Client!CreateToken(d)
    <3> DEFINE t == IF daemons[d].token = Client!None THEN d ELSE daemons[d].token
    <3>1. \E o \in {d, files.owner} : files' = [files EXCEPT !.owner = o, !.agent = t]
      BY <2>2 DEF Client!CreateToken, Client!TokensWritten
    <3>2. t \in Tokens
      BY <2>1
    <3> HIDE DEF t
    <3>3. QED
      BY <2>1, <3>1, <3>2 DEF Files
  <2>3. CASE ~Client!CreateToken(d)
    <3>1. \/ files' = files \/ files' = [files EXCEPT !.port = d]
          \/ files' = [owner |-> Client!None, agent |-> Client!None, port |-> Client!None]
      BY <2>3 DEF Client!DaemonSteps, Client!Start, Client!Listen, Client!Cleanup, Client!Gone
    <3>2. QED
      BY <2>1, <3>1 DEF Files
  <2>4. QED
    BY <2>2, <2>3
<1>4. rotated' \in [Calls -> Nat] /\ steady' \in [Calls -> BOOLEAN]
  <2>1. Client!Rotated \/ UNCHANGED rotated
    BY DEF Client!DaemonSteps, Client!Start, Client!CreateToken, Client!Listen,
       Client!Cleanup, Client!Gone
  <2>2. rotated' \in [Calls -> Nat]
    BY <1>1, <2>1 DEF ClientTypes, Client!Rotated
  <2>3. QED
    BY <1>1, <2>2 DEF ClientTypes, Client!Unsteady
<1>5. allowed' \in Client!Bounds
  BY <1>1, ClientUse DEF ClientTypes, Client!DaemonSteps, Client!Start, Client!CreateToken,
     Client!Listen, Client!Cleanup, Client!Gone
<1>6. /\ links' \in [Client!Links -> Connections]
      /\ \A k \in Client!Links :
           links'[k] = links[k] \/ (links'[k].queue = <<>> /\ links'[k].step = "idle")
  <2>1. CASE Client!Gone(d)
    <3>1. links' = [k \in Client!Links |->
                     IF links[k].daemon = d /\ links[k].state # "none"
                     THEN [links[k] EXCEPT !.state = "broken", !.step = "idle", !.queue = <<>>]
                     ELSE links[k]]
      BY <2>1 DEF Client!Gone
    <3>2. ASSUME NEW k \in Client!Links
          PROVE  /\ links'[k] \in Connections
                 /\ links'[k] = links[k] \/ (links'[k].queue = <<>> /\ links'[k].step = "idle")
      <4>1. links[k] \in Connections
        BY <1>1 DEF ClientTypes
      <4> DEFINE x == [links[k] EXCEPT !.state = "broken", !.step = "idle", !.queue = <<>>]
      <4>2. x \in Connections /\ x.queue = <<>> /\ x.step = "idle"
        BY <4>1, <<>> \in Seq(Calls) DEF Connections
      <4>3. links'[k] = x \/ links'[k] = links[k]
        BY <3>1
      <4> HIDE DEF x
      <4>4. QED
        BY <4>1, <4>2, <4>3
    <3>3. QED
      BY <3>1, <3>2
  <2>2. CASE ~Client!Gone(d)
    <3>1. UNCHANGED links
      BY <2>2 DEF Client!DaemonSteps, Client!Start, Client!CreateToken, Client!Listen,
         Client!Cleanup
    <3>2. QED
      BY <1>1, <3>1 DEF ClientTypes
  <2>3. QED
    BY <2>1, <2>2
<1>7. ClientTypes'
  BY <1>1, <1>2, <1>3, <1>4, <1>5, <1>6 DEF ClientTypes
<1>8. \A k \in Client!Links :
           /\ \/ links'[k].queue = <<>>
              \/ links'[k].queue = links[k].queue /\ (links[k].step = "ok" => links'[k].step = "ok")
           /\ links'[k].step # "idle" => links'[k].queue # <<>>
  BY <1>6 DEF ClientInv, Served
<1>9. QED
  BY <1>1, <1>2, <1>7, <1>8, ClientShaken

\* A step of the daemon's side of a connection.
LEMMA ClientLinkTypes ==
  ASSUME ClientTypes, NEW k \in Client!Links, NEW state \in {links[k].state, "broken"},
         NEW step \in {"idle", "login", "ok", "error"},
         links' = [links EXCEPT ![k].state = state, ![k].step = step]
  PROVE  /\ links' \in [Client!Links -> Connections]
         /\ links'[k].step = step /\ links'[k].state = state /\ links'[k].queue = links[k].queue
         /\ \A j \in Client!Links : j # k => links'[j] = links[j]
<1> DEFINE x == [links[k] EXCEPT !.state = state, !.step = step]
<1>1. links[k] \in Connections
  BY DEF ClientTypes
<1>2. links' = [links EXCEPT ![k] = x]
  BY DEF ClientTypes
<1>3. x \in Connections /\ x.step = step /\ x.state = state /\ x.queue = links[k].queue
  BY <1>1 DEF Connections
<1> HIDE DEF x
<1>4. QED
  BY <1>2, <1>3 DEF ClientTypes

\* Break and Refuse.
LEMMA ClientBreaks ==
  ASSUME ClientInv, NEW k \in Client!Links, Client!Break(k) \/ Client!Refuse(k)
  PROVE  ClientInv'
<1>1. /\ ClientTypes /\ Client!Unsteady
      /\ UNCHANGED <<files, daemons, shared, calls, did, rotated>>
      /\ \E what \in {"breaks", "refusals"} : Client!Use(what)
  BY DEF ClientInv, Client!Break, Client!Refuse, Client!callVars
<1>2. PICK state \in {links[k].state, "broken"}, step \in {links[k].step, "error"} :
        /\ links' = [links EXCEPT ![k].state = state, ![k].step = step]
        /\ step # links[k].step => links[k].queue # <<>> /\ links[k].step = "idle"
  <2>1. links[k] = [daemon |-> links[k].daemon, state |-> links[k].state,
                    queue |-> links[k].queue, step |-> links[k].step]
    BY <1>1 DEF ClientTypes, Connections
  <2>2. CASE Client!Break(k)
    <3>1. links' = [links EXCEPT ![k].state = "broken", ![k].step = links[k].step]
      BY <1>1, <2>1, <2>2 DEF Client!Break, ClientTypes
    <3>2. QED
      BY <3>1
  <2>3. CASE Client!Refuse(k)
    <3>1. links' = [links EXCEPT ![k].state = links[k].state, ![k].step = "error"]
      BY <1>1, <2>1, <2>3 DEF Client!Refuse, ClientTypes
    <3>2. QED
      BY <2>3, <3>1 DEF Client!Refuse
  <2>4. QED
    BY <2>2, <2>3
<1>3. step \in {"idle", "login", "ok", "error"}
  BY <1>1 DEF ClientTypes, Connections
<1>4. /\ links' \in [Client!Links -> Connections]
      /\ links'[k].step = step /\ links'[k].state = state /\ links'[k].queue = links[k].queue
      /\ \A j \in Client!Links : j # k => links'[j] = links[j]
  BY <1>1, <1>2, <1>3, ClientLinkTypes
<1>5. ClientTypes'
  BY <1>1, <1>4, ClientUse DEF ClientTypes, Client!Unsteady
<1>6. Tokened'
  BY <1>1 DEF ClientInv, Tokened
<1>7. \A j \in Client!Links :
           /\ \/ links'[j].queue = <<>>
              \/ links'[j].queue = links[j].queue /\ (links[j].step = "ok" => links'[j].step = "ok")
           /\ links'[j].step # "idle" => links'[j].queue # <<>>
  BY <1>2, <1>4 DEF ClientInv, Served
<1>8. QED
  BY <1>1, <1>5, <1>6, <1>7, ClientShaken

\* Execute and Register: a write is done when it is at the head of its queue.
LEMMA ClientServes ==
  ASSUME ClientInv, NEW k \in Client!Links, Client!Execute(k) \/ Client!Register(k)
  PROVE  ClientInv'
<1> DEFINE c == Head(links[k].queue)
           write == Client!Execute(k) /\ calls[c].kind = "write" /\ did' = [did EXCEPT ![c] = @ + 1]
<1>1. /\ ClientTypes /\ Served
      /\ UNCHANGED <<files, daemons, shared, calls, rotated, steady, allowed>>
      /\ links[k].step \in {"idle", "login"}
  BY DEF ClientInv, Client!Execute, Client!Register, Client!serveVars
<1>2. links[k].queue # <<>> /\ c \in Calls
  <2>1. links[k].queue # <<>>
    BY <1>1 DEF Served, Client!Execute, Client!Register
  <2>2. links[k].queue \in Seq(Calls)
    BY <1>1 DEF ClientTypes, Connections
  <2>3. QED
    BY <2>1, <2>2
<1>3. PICK step \in {"login", "ok"} :
        links' = [links EXCEPT ![k].step = step] /\ (step = "ok" \/ UNCHANGED did)
  BY DEF Client!Execute, Client!Register
<1>4. (write /\ step = "ok") \/ UNCHANGED did
  BY <1>3 DEF Client!Execute, Client!Register
<1>5. links' = [links EXCEPT ![k].state = links[k].state, ![k].step = step]
  <2>1. links[k] = [daemon |-> links[k].daemon, state |-> links[k].state,
                    queue |-> links[k].queue, step |-> links[k].step]
    BY <1>1 DEF ClientTypes, Connections
  <2>2. QED
    BY <1>1, <1>3, <2>1 DEF ClientTypes
<1>6. /\ links' \in [Client!Links -> Connections]
      /\ links'[k].step = step /\ links'[k].state = links[k].state
      /\ links'[k].queue = links[k].queue
      /\ \A j \in Client!Links : j # k => links'[j] = links[j]
  BY <1>1, <1>5, ClientLinkTypes
<1> HIDE DEF c
<1>7. did' \in [Calls -> Nat]
  <2>1. CASE UNCHANGED did
    BY <1>1, <2>1 DEF ClientTypes
  <2>2. CASE did' = [did EXCEPT ![c] = did[c] + 1]
    <3>1. did \in [Calls -> Nat] /\ did[c] + 1 \in Nat
      BY <1>1, <1>2 DEF ClientTypes
    <3>2. QED
      BY <2>2, <3>1
  <2>3. QED
    BY <1>4, <2>1, <2>2
<1>8. ClientTypes' /\ Served'
  <2>1. ClientTypes'
    BY <1>1, <1>6, <1>7 DEF ClientTypes
  <2>2. Served'
    BY <1>1, <1>2, <1>6 DEF Served
  <2>3. QED
    BY <2>1, <2>2
<1>9. ASSUME NEW b \in Calls PROVE Once(b)' /\ Calm(b)'
  <2>1. Once(b) /\ Calm(b) /\ Follows(b)
    BY <1>1, <1>6, FollowsQueues DEF ClientInv
  <2>2. Calm(b)'
    BY <1>1, <1>3, <1>6, <2>1, CalmKept
  <2>3. CASE did'[b] = did[b]
    <3>1. /\ calls[b].kind = "write" => calls[b].try = 1
          /\ calls[b].pc \in {"send", "waits"} => calls[b].link \in Client!Links
          /\ calls[b].pc # "done" => calls[b].told = Client!NoCall.told
          /\ Unsent(b)' => Unsent(b)
      BY <1>1, <2>1 DEF Once, Unsent
    <3>2. QED
      BY <1>1, <1>8, <2>1, <2>2, <2>3, <3>1, OnceKept
  <2>4. CASE did'[b] # did[b]
    <3>1. b = c /\ write /\ did'[b] = did[b] + 1 /\ step = "ok"
      BY <1>1, <1>2, <1>4, <2>4 DEF ClientTypes
    <3>2. links[k].queue[1] = b /\ 1 \in DOMAIN links[k].queue
      <4>1. links[k].queue \in Seq(Calls)
        BY <1>1 DEF ClientTypes, Connections
      <4>2. QED
        BY <1>2, <3>1, <4>1 DEF c
    <3>3. Queued(b) /\ calls[b].kind = "write" /\ links[k].step # "ok"
      BY <1>1, <3>1, <3>2 DEF Queued
    <3>4. did[b] = 0 /\ ~Unsent(b) /\ calls[b].pc # "idle"
      <4>1. did[b] \in Nat /\ did[b] <= 1 /\ did[b] # 1
        BY <1>1, <2>1, <3>2, <3>3 DEF Once, ClientTypes
      <4>2. QED
        BY <2>1, <3>3, <4>1 DEF Once
    <3>5. \A j \in Client!Links : links'[j].queue = links[j].queue
      BY <1>6
    <3>6. ~Unsent(b)'
      BY <1>1, <3>4 DEF Unsent
    <3>7. \A j \in Client!Links : \A i \in DOMAIN links'[j].queue :
            links'[j].queue[i] = b => i = 1 /\ links'[j].step = "ok"
      BY <1>6, <2>1, <3>1, <3>2, <3>3, <3>5 DEF Once
    <3>8. Once(b)'
      BY <1>1, <2>1, <3>1, <3>3, <3>4, <3>5, <3>6, <3>7 DEF Once
    <3>9. QED
      BY <2>2, <3>8
  <2>5. QED
    BY <2>3, <2>4
<1>10. Tokened'
  BY <1>1 DEF ClientInv, Tokened
<1>11. QED
  BY <1>8, <1>9, <1>10 DEF ClientInv

-----------------------------------------------------------------------------
\* The steps of a call.
LEMMA ClientBecomes ==
  ASSUME ClientTypes, NEW c \in Calls, NEW x \in Called, Client!Becomes(c, x)
  PROVE  /\ calls' \in [Calls -> Called] /\ calls'[c] = x
         /\ \A b \in Calls : b # c => calls'[b] = calls[b]
  BY DEF ClientTypes, Client!Becomes

\* No connection breaks, no request is refused, and none comes to be waiting, but of c.
Quietly(c) ==
  /\ links' \in [Client!Links -> Connections] /\ Served'
  /\ \A b \in Calls \ {c} : Follows(b)
  /\ \A k \in Client!Links :
       /\ links'[k].state = "broken" => links[k].state = "broken"
       /\ links'[k].step = "error" =>
            links[k].step = "error" /\ Head(links'[k].queue) = Head(links[k].queue)

LEMMA QuietlyKept ==
  ASSUME ClientInv, UNCHANGED links, NEW c \in Calls
  PROVE  Quietly(c) /\ Follows(c)
<1>1. ClientTypes /\ Served /\ Served'
  BY DEF ClientInv, Served
<1>2. \A b \in Calls : Follows(b)
  BY <1>1, FollowsQueues
<1>3. QED
  BY <1>1, <1>2 DEF Quietly, ClientTypes

\* Call c becomes x, and everyone else stays as they were.
LEMMA ClientOthers ==
  ASSUME ClientInv, NEW c \in Calls, NEW x \in Called, Client!Becomes(c, x), Quietly(c),
         UNCHANGED <<files, daemons, did, rotated, allowed>>,
         steady' \in [Calls -> BOOLEAN], \A b \in Calls \ {c} : steady'[b] = steady[b],
         shared' \in Ends,
         \/ shared' \in {shared, Client!Nobody}
         \/ shared' \in Client!Links /\ links'[shared'].state # "broken",
         Once(c)', Calm(c)'
  PROVE  ClientInv'
<1>1. ClientTypes /\ calls' \in [Calls -> Called]
      /\ \A b \in Calls : b # c => calls'[b] = calls[b]
  BY ClientBecomes DEF ClientInv
<1>2. ClientTypes'
  BY <1>1 DEF ClientTypes, Quietly
<1>3. Served' /\ Tokened'
  BY DEF Quietly, ClientInv, Tokened
<1>4. ASSUME NEW b \in Calls, b # c PROVE Once(b)' /\ Calm(b)'
  <2>1. Once(b) /\ Calm(b) /\ Follows(b) /\ calls'[b] = calls[b] /\ UNCHANGED <<did[b], steady[b]>>
    BY <1>1, <1>4 DEF ClientInv, Quietly
  <2>2. Unsent(b)' => Unsent(b)
    BY <2>1 DEF Unsent
  <2>3. /\ calls[b].kind = "write" => calls[b].try = 1
        /\ calls[b].pc \in {"send", "waits"} => calls[b].link \in Client!Links
        /\ calls[b].pc # "done" => calls[b].told = Client!NoCall.told
    BY <2>1 DEF Once
  <2>4. Once(b)'
    BY <1>1, <1>2, <2>1, <2>2, <2>3, OnceKept
  <2>5. Calm(b)'
    BY <1>1, <2>1, CalmKept DEF Quietly
  <2>6. QED
    BY <2>4, <2>5
<1>5. QED
  BY <1>2, <1>3, <1>4 DEF ClientInv

\* What is left to say of the call itself, when it was under way and sends nothing.
LEMMA ClientMoves ==
  ASSUME ClientInv, NEW c \in Calls, NEW x \in Called, Client!Becomes(c, x), Quietly(c),
         Follows(c), UNCHANGED <<files, daemons, did, rotated, steady, allowed>>,
         shared' \in Ends,
         \/ shared' \in {shared, Client!Nobody}
         \/ shared' \in Client!Links /\ links'[shared'].state # "broken",
         calls[c].pc \notin {"idle", "done"}, x.pc # "idle", x.kind = calls[c].kind,
         x.pc \in {"send", "waits"} => x.link \in Client!Links,
         x.pc # "done" => x.told = Client!NoCall.told,
         x.kind = "write" =>
           /\ x.try = 1
           /\ \/ x.pc \in {"waits", "done"} /\ x.told \notin {"unreachable", "unauthorised"}
              \/ calls[c].pc \notin {"waits", "done"},
         steady[c] =>
           /\ x.pc # "refused"
           /\ x.pc \in {"port", "dial"} => x.token = files.agent
           /\ x.pc = "dial" => x.daemon = files.port
           /\ x.try = 2 =>
                /\ shared' # Client!Nobody => links'[shared'].state # "broken"
                /\ x.pc \in {"send", "waits"} => links'[x.link].state # "broken"
           /\ x.pc = "done" /\ x.kind = "read" => x.told = "ok"
  PROVE  ClientInv'
<1>1. ClientTypes /\ calls' \in [Calls -> Called] /\ calls'[c] = x
  BY ClientBecomes DEF ClientInv
<1>2. ClientTypes'
  BY <1>1 DEF ClientTypes, Quietly
<1>3. Once(c)'
  <2>1. Once(c) /\ Follows(c) /\ did'[c] = did[c]
    BY DEF ClientInv
  <2>2. calls[c].kind = "write" /\ Unsent(c)' => Unsent(c)
    BY <1>1 DEF Unsent
  <2>3. QED
    BY <1>1, <1>2, <2>1, <2>2, OnceKept
<1>4. Calm(c)'
  <2>1. SUFFICES ASSUME steady[c] PROVE Calm(c)'
    BY DEF Calm
  <2>2. Leads'
    <3>1. Leads
      BY <2>1 DEF ClientInv, Calm, Client!Busy
    <3>2. QED
      BY <3>1 DEF Leads, Client!Up
  <2>3. \A k \in Client!Links : links'[k].step = "error" => Head(links'[k].queue) # c
    BY <2>1 DEF Quietly, ClientInv, Calm, Client!Busy
  <2>4. QED
    BY <1>1, <2>1, <2>2, <2>3 DEF Calm, Client!Busy
<1>5. steady' \in [Calls -> BOOLEAN]
  BY <1>1 DEF ClientTypes
<1>6. QED
  BY <1>3, <1>4, <1>5, ClientOthers

\* A call ends: with ok, or not steady if it reads; a write that was sent is not told that
\* it was not.
LEMMA ClientEnds ==
  ASSUME ClientInv, Client!ClientConstants, NEW c \in Calls, NEW told \in Client!Told,
         Client!End(c, told), Quietly(c), Follows(c),
         UNCHANGED <<files, daemons, did, rotated, steady, allowed>>,
         shared' \in {shared, Client!Nobody},
         calls[c].pc \notin {"idle", "done"},
         calls[c].pc = "waits" => told \notin {"unreachable", "unauthorised"},
         told = "ok" \/ calls[c].kind # "read" \/ ~steady[c]
  PROVE  ClientInv'
<1> DEFINE x == [Client!NoCall EXCEPT !.pc = "done", !.kind = calls[c].kind, !.told = told]
<1>1. calls[c] \in Called /\ Client!NoCall \in Called /\ shared' \in Ends
  BY ClientNames DEF ClientInv, ClientTypes, Ends
<1>2. x \in Called /\ x.pc = "done" /\ x.kind = calls[c].kind /\ x.told = told /\ x.try = 1
  BY <1>1 DEF Called, Client!NoCall
<1>3. Client!Becomes(c, x)
  BY DEF Client!End
<1> HIDE DEF x
<1>4. QED
  BY <1>1, <1>2, <1>3, ClientMoves

LEMMA ClientFails ==
  ASSUME ClientInv, Client!ClientConstants, NEW c \in Calls, Client!Failed(c), Quietly(c), Follows(c),
         UNCHANGED <<files, daemons, did, rotated, steady, allowed>>,
         calls[c].pc \in {"send", "waits"},
         steady[c] => calls[c].try # 2
  PROVE  ClientInv'
<1>1. calls[c] \in Called /\ Client!NoCall \in Called
  BY ClientNames DEF ClientInv, ClientTypes
<1>2. CASE calls[c].kind \notin Client!Retried
  <2>1. shared' = Client!Nobody /\ Client!End(c, "unconfirmed")
    BY <1>2 DEF Client!Failed, Client!Invalidated
  <2>2. calls[c].kind # "read"
    BY <1>2 DEF Client!Retried
  <2>3. QED
    BY <2>1, <2>2, ClientEnds DEF Client!Told
<1>3. CASE calls[c].kind \in Client!Retried /\ calls[c].try = 2
  <2>1. shared' = shared /\ Client!End(c, "failed")
    BY <1>3 DEF Client!Failed
  <2>2. ~steady[c]
    BY <1>3
  <2>3. QED
    BY <2>1, <2>2, ClientEnds DEF Client!Told
<1>4. CASE calls[c].kind \in Client!Retried /\ calls[c].try # 2
  <2> DEFINE x == [Client!NoCall EXCEPT !.pc = "start", !.kind = calls[c].kind, !.try = 2]
  <2>1. shared' = Client!Nobody /\ Client!Becomes(c, x) /\ calls[c].kind # "write"
    BY <1>4 DEF Client!Failed, Client!Invalidated, Client!Retried
  <2>2. x \in Called /\ x.pc = "start" /\ x.kind = calls[c].kind /\ x.try = 2 /\ x.told = Client!NoCall.told
    <3>1. 2 \in Client!Tries
      BY DEF Client!Tries
    <3>2. QED
      BY <1>1, <3>1 DEF Called, Client!NoCall
  <2>3. Client!Nobody \in Ends
    BY DEF Ends
  <2> HIDE DEF x
  <2>4. QED
    BY <2>1, <2>2, <2>3, ClientMoves
<1>5. QED
  BY <1>2, <1>3, <1>4

\* The steps up to a connection.
LEMMA ClientDials ==
  ASSUME ClientInv, Client!ClientConstants, NEW c \in Calls,
         \/ Client!UseShared(c) \/ Client!ReadToken(c) \/ Client!ReadPort(c)
         \/ Client!Dial(c) \/ Client!Reread(c)
  PROVE  ClientInv'
<1>1. /\ ClientTypes /\ Once(c) /\ Calm(c) /\ calls[c] \in Called
      /\ files.agent \in Tokens /\ files.port \in Tokens /\ shared \in Ends
      /\ calls[c].try \in Client!Tries /\ calls[c].kind \in Client!Kinds
  BY DEF ClientInv, ClientTypes, Files, Called
<1>2. /\ UNCHANGED <<files, daemons, did, rotated, steady, allowed>>
      /\ calls[c].pc \in {"start", "port", "dial", "refused"}
  BY DEF Client!UseShared, Client!ReadToken, Client!ReadPort, Client!Dial, Client!Reread,
     Client!outer
<1>3. calls[c].told = Client!NoCall.told /\ (calls[c].kind = "write" => calls[c].try = 1)
  BY <1>1, <1>2 DEF Once
<1>4. steady[c] =>
        /\ Leads /\ calls[c].pc # "refused"
        /\ calls[c].pc \in {"port", "dial"} => calls[c].token = files.agent
        /\ calls[c].pc = "dial" => calls[c].daemon = files.port
        /\ calls[c].try = 2 /\ shared # Client!Nobody => links[shared].state # "broken"
  BY <1>1, <1>2 DEF Calm, Client!Busy
<1>5. ASSUME Leads
      PROVE  /\ files.agent # Client!None /\ files.port # Client!None
             /\ daemons[files.port].pc = "listening"
             /\ daemons[files.port].token = files.agent
  <2>1. PICK d \in Daemons : daemons[d].pc = "listening" /\ files.agent = daemons[d].token
                             /\ files.port = d
    BY <1>5 DEF Leads, Client!Up
  <2>2. daemons[d].token # Client!None /\ d # Client!None
    BY <2>1, ClientNames DEF ClientInv, Tokened
  <2>3. QED
    BY <2>1, <2>2
\* A call that cannot connect.
<1>6. ASSUME NEW told \in {"unreachable", "unauthorised"}, Client!Unreached(c, told),
             UNCHANGED <<links, shared>>, ~steady[c]
      PROVE  ClientInv'
  <2>1. Quietly(c) /\ Follows(c) /\ told \in Client!Told /\ "failed" \in Client!Told
    BY <1>6, QuietlyKept DEF Client!Told
  <2>2. PICK t \in {told, "failed"} : Client!End(c, t)
    BY <1>6 DEF Client!Unreached
  <2>3. QED
    BY <1>2, <1>6, <2>1, <2>2, ClientEnds
<1>7. CASE Client!UseShared(c)
  <2> DEFINE x == [calls[c] EXCEPT !.pc = "send", !.link = shared]
  <2>1. Client!Becomes(c, x) /\ UNCHANGED <<links, shared>> /\ shared # Client!Nobody
    BY <1>7 DEF Client!UseShared
  <2>2. /\ x \in Called /\ x.pc = "send" /\ x.kind = calls[c].kind /\ x.try = calls[c].try /\ x.told = calls[c].told
        /\ x.link = shared
    BY <1>1 DEF Called
  <2>3. shared \in Client!Links /\ Quietly(c) /\ Follows(c)
    BY <1>1, <2>1, QuietlyKept DEF Ends
  <2> HIDE DEF x
  <2>4. QED
    BY <1>1, <1>2, <1>3, <1>4, <2>1, <2>2, <2>3, ClientMoves
<1>8. CASE Client!ReadToken(c)
  <2>1. UNCHANGED <<links, shared>>
    BY <1>8 DEF Client!ReadToken
  <2>2. CASE files.agent = Client!None
    BY <1>4, <1>5, <1>6, <1>8, <2>1, <2>2 DEF Client!ReadToken
  <2>3. CASE files.agent # Client!None
    <3> DEFINE x == [calls[c] EXCEPT !.pc = "port", !.token = files.agent]
    <3>1. Client!Becomes(c, x)
      BY <1>8, <2>3 DEF Client!ReadToken
    <3>2. /\ x \in Called /\ x.pc = "port" /\ x.kind = calls[c].kind /\ x.try = calls[c].try /\ x.told = calls[c].told
          /\ x.token = files.agent
      BY <1>1 DEF Called
    <3>3. Quietly(c) /\ Follows(c)
      BY <2>1, QuietlyKept
    <3> HIDE DEF x
    <3>4. QED
      BY <1>1, <1>2, <1>3, <1>4, <2>1, <3>1, <3>2, <3>3, ClientMoves
  <2>4. QED
    BY <2>2, <2>3
<1>9. CASE Client!ReadPort(c)
  <2>1. UNCHANGED <<links, shared>> /\ calls[c].pc = "port"
    BY <1>9 DEF Client!ReadPort
  <2>2. CASE files.port = Client!None
    BY <1>4, <1>5, <1>6, <1>9, <2>1, <2>2 DEF Client!ReadPort
  <2>3. CASE files.port # Client!None
    <3> DEFINE x == [calls[c] EXCEPT !.pc = "dial", !.daemon = files.port]
    <3>1. Client!Becomes(c, x)
      BY <1>9, <2>3 DEF Client!ReadPort
    <3>2. /\ x \in Called /\ x.pc = "dial" /\ x.kind = calls[c].kind /\ x.try = calls[c].try /\ x.told = calls[c].told
          /\ x.token = calls[c].token /\ x.daemon = files.port
      BY <1>1 DEF Called
    <3>3. Quietly(c) /\ Follows(c)
      BY <2>1, QuietlyKept
    <3> HIDE DEF x
    <3>4. QED
      BY <1>1, <1>2, <1>3, <1>4, <2>1, <3>1, <3>2, <3>3, ClientMoves
  <2>4. QED
    BY <2>2, <2>3
<1>10. CASE Client!Reread(c)
  <2>1. UNCHANGED <<links, shared>> /\ calls[c].pc = "refused" /\ ~steady[c]
    BY <1>4, <1>10 DEF Client!Reread
  <2>2. CASE ~Client!Rereads(c)
    BY <1>6, <1>10, <2>1, <2>2 DEF Client!Reread
  <2>3. CASE Client!Rereads(c)
    <3> DEFINE x == [calls[c] EXCEPT !.pc = "port", !.token = files.agent,
                                     !.daemon = Client!None, !.again = TRUE]
    <3>1. Client!Becomes(c, x)
      BY <1>10, <2>3 DEF Client!Reread
    <3>2. x \in Called /\ x.pc = "port" /\ x.kind = calls[c].kind /\ x.try = calls[c].try /\ x.told = calls[c].told
      BY <1>1 DEF Called, Tokens
    <3>3. Quietly(c) /\ Follows(c)
      BY <2>1, QuietlyKept
    <3> HIDE DEF x
    <3>4. QED
      BY <1>1, <1>2, <1>3, <2>1, <3>1, <3>2, <3>3, ClientMoves
  <2>4. QED
    BY <2>2, <2>3
<1>11. CASE Client!Dial(c)
  <2> DEFINE d == calls[c].daemon
             k == <<c, calls[c].try>>
  <2>1. calls[c].pc = "dial" /\ k \in Client!Links /\ d \in Tokens
    BY <1>1, <1>11, ClientNames DEF Client!Dial, Called
  <2>2. CASE daemons[d].pc \notin {"listening", "leaving"}
    <3>1. Client!Unreached(c, "unreachable") /\ UNCHANGED <<links, shared>>
      BY <1>11, <2>2 DEF Client!Dial
    <3>2. ~steady[c]
      BY <1>4, <1>5, <2>1, <2>2
    <3>3. QED
      BY <1>6, <3>1, <3>2
  <2>3. CASE daemons[d].pc \in {"listening", "leaving"} /\ daemons[d].token # calls[c].token
    <3> DEFINE x == [calls[c] EXCEPT !.pc = "refused"]
    <3>1. Client!Becomes(c, x) /\ UNCHANGED <<links, shared>>
      BY <1>11, <2>3 DEF Client!Dial
    <3>2. x \in Called /\ x.pc = "refused" /\ x.kind = calls[c].kind /\ x.try = calls[c].try /\ x.told = calls[c].told
      BY <1>1 DEF Called
    <3>3. ~steady[c]
      BY <1>4, <1>5, <2>1, <2>3
    <3>4. Quietly(c) /\ Follows(c)
      BY <3>1, QuietlyKept
    <3> HIDE DEF x
    <3>5. QED
      BY <1>1, <1>2, <1>3, <3>1, <3>2, <3>3, <3>4, ClientMoves
  <2>4. CASE daemons[d].pc \in {"listening", "leaving"} /\ daemons[d].token = calls[c].token
    <3> DEFINE x == [calls[c] EXCEPT !.pc = "send", !.token = Client!None,
                       !.daemon = Client!None, !.again = FALSE, !.link = k]
               l == [Client!NoLink EXCEPT !.daemon = d, !.state = "open"]
    <3>1. Client!Becomes(c, x) /\ links' = [links EXCEPT ![k] = l] /\ shared' = k
      BY <1>11, <2>4 DEF Client!Dial
    <3>2. /\ x \in Called /\ x.pc = "send" /\ x.kind = calls[c].kind /\ x.try = calls[c].try /\ x.told = calls[c].told
          /\ x.link = k
      BY <1>1, <2>1 DEF Called, Tokens, Ends
    <3>3. l \in Connections /\ l.queue = <<>> /\ l.step = "idle" /\ l.state = "open"
      BY <2>1, ClientNames DEF Client!NoLink, Connections
    <3> HIDE DEF l, x, k
    <3>4. /\ links' \in [Client!Links -> Connections] /\ links'[k] = l
          /\ \A j \in Client!Links : j # k => links'[j] = links[j]
      BY <1>1, <2>1, <3>1, <3>3 DEF ClientTypes
    <3>5. \A b \in Calls : Follows(b)
      BY <1>1, <3>3, <3>4, FollowsQueues
    <3>6. Served'
      BY <3>3, <3>4 DEF ClientInv, Served
    <3>7. Quietly(c) /\ Follows(c)
      BY <3>3, <3>4, <3>5, <3>6 DEF Quietly
    <3>8. shared' \in Ends /\ links'[shared'].state # "broken"
      BY <2>1, <3>1, <3>3, <3>4 DEF Ends
    <3>9. QED
      BY <1>1, <1>2, <1>3, <2>1, <3>1, <3>2, <3>3, <3>4, <3>7, <3>8, ClientMoves
  <2>5. QED
    BY <2>2, <2>3, <2>4
<1>12. QED
  BY <1>7, <1>8, <1>9, <1>10, <1>11

\* Send, where the connection is there: the request goes to the end of the queue.
LEMMA ClientSends ==
  ASSUME ClientInv, Client!ClientConstants, NEW c \in Calls, Client!Send(c)
  PROVE  ClientInv'
<1> DEFINE k == calls[c].link
<1>1. /\ ClientTypes /\ Served /\ Once(c) /\ Calm(c) /\ calls[c] \in Called
      /\ k \in Client!Links /\ links[k] \in Connections /\ calls[c].pc = "send"
      /\ UNCHANGED <<files, daemons, did, rotated, steady, allowed>>
  BY DEF ClientInv, ClientTypes, Once, Client!Send, Client!outer
<1>2. CASE links[k].state = "broken"
  <2>1. Client!Failed(c) /\ UNCHANGED links
    BY <1>2 DEF Client!Send
  <2>2. steady[c] => calls[c].try # 2
    BY <1>1, <1>2 DEF Calm, Client!Busy
  <2>3. QED
    BY <1>1, <2>1, <2>2, QuietlyKept, ClientFails
<1>3. CASE links[k].state # "broken"
  <2> DEFINE x == [calls[c] EXCEPT !.pc = "waits"]
             q == links[k].queue
             l == [links[k] EXCEPT !.queue = Append(q, c)]
  <2>1. Client!Becomes(c, x) /\ UNCHANGED shared /\ links' = [links EXCEPT ![k] = l]
    BY <1>1, <1>3 DEF Client!Send, ClientTypes
  <2>2. /\ x \in Called /\ x.pc = "waits" /\ x.kind = calls[c].kind /\ x.try = calls[c].try
        /\ x.link = k /\ x.told = Client!NoCall.told
    BY <1>1 DEF Called, Once
  <2>3. q \in Seq(Calls) /\ Append(q, c) \in Seq(Calls) /\ links[k].queue = q
    BY <1>1 DEF Connections
  <2>4. /\ l \in Connections /\ l.queue = Append(q, c) /\ l.step = links[k].step
        /\ l.state = links[k].state
    BY <1>1, <2>3 DEF Connections
  <2> HIDE DEF l, x, k, q
  <2>5. /\ links' \in [Client!Links -> Connections] /\ links'[k] = l
        /\ \A j \in Client!Links : j # k => links'[j] = links[j]
    BY <1>1, <2>1, <2>4 DEF ClientTypes
  <2>6. calls'[c] = x
    BY <1>1, <2>1, <2>2, ClientBecomes
  <2>7. /\ Len(q) \in Nat /\ DOMAIN q = 1 .. Len(q) /\ DOMAIN Append(q, c) = 1 .. Len(q) + 1
        /\ Append(q, c)[Len(q) + 1] = c /\ \A i \in DOMAIN q : Append(q, c)[i] = q[i]
        /\ Append(q, c) # <<>> /\ (q # <<>> => Head(Append(q, c)) = Head(q))
    <3>1. /\ Len(q) \in Nat /\ DOMAIN q = 1 .. Len(q) /\ DOMAIN Append(q, c) = 1 .. Len(q) + 1
          /\ Append(q, c)[Len(q) + 1] = c
      BY <2>3
    <3>2. ASSUME NEW i \in DOMAIN q PROVE Append(q, c)[i] = q[i]
      BY <2>3
    <3>3. Append(q, c) # <<>>
      <4>1. Len(Append(q, c)) = Len(q) + 1 /\ Len(q) \in Nat /\ Len(<<>>) = 0
        BY <2>3
      <4>2. QED
        BY <4>1
    <3>4. q # <<>> => Head(Append(q, c)) = Head(q)
      <4>1. q # <<>> => 1 \in DOMAIN q
        BY <2>3
      <4>2. Head(Append(q, c)) = Append(q, c)[1] /\ Head(q) = q[1]
        BY <2>3
      <4>3. QED
        BY <3>2, <4>1, <4>2
    <3>5. QED
      BY <3>1, <3>2, <3>3, <3>4
  <2>8. ASSUME NEW b \in Calls \ {c} PROVE Follows(b)
    <3>1. ASSUME NEW j \in Client!Links
          PROVE  /\ \A i \in DOMAIN links'[j].queue : links'[j].queue[i] = b =>
                      i + 0 \in DOMAIN links[j].queue /\ links[j].queue[i + 0] = b
                 /\ links[j].step = "ok" /\ links'[j].queue # <<>> => links'[j].step = "ok"
      <4>1. CASE j = k
        BY <2>3, <2>4, <2>5, <2>7, <4>1
      <4>2. CASE j # k
        <5>1. links[j].queue \in Seq(Calls) /\ links'[j] = links[j]
          BY <1>1, <2>5, <4>2 DEF ClientTypes, Connections
        <5>2. QED
          BY <5>1
      <4>3. QED
        BY <4>1, <4>2
    <3>2. QED
      BY <3>1 DEF Follows
  <2>9. Served'
    BY <1>1, <2>3, <2>4, <2>5, <2>7 DEF Served
  <2>10. \A j \in Client!Links :
           /\ links'[j].state = links[j].state
           /\ links'[j].step = "error" =>
                links[j].step = "error" /\ Head(links'[j].queue) = Head(links[j].queue)
    BY <1>1, <2>3, <2>4, <2>5, <2>7 DEF Served
  <2>11. Quietly(c)
    BY <2>5, <2>8, <2>9, <2>10 DEF Quietly
  <2>12. Once(c)'
    <3>1. CASE calls[c].kind # "write"
      BY <1>1, <2>2, <2>6, <3>1 DEF Once
    <3>2. CASE calls[c].kind = "write"
      <4>1. did[c] = 0 /\ ~Queued(c) /\ calls[c].try = 1
        BY <1>1, <3>2 DEF Once, Unsent
      <4>2. \A j \in Client!Links : \A i \in DOMAIN links'[j].queue :
              links'[j].queue[i] = c => j = k /\ i = Len(q) + 1
        BY <2>3, <2>4, <2>5, <2>7, <4>1 DEF Queued
      <4>3. ~Unsent(c)'
        BY <2>2, <2>6 DEF Unsent, Client!NoCall
      <4>4. QED
        BY <1>1, <2>2, <2>6, <3>2, <4>1, <4>2, <4>3 DEF Once
    <3>3. QED
      BY <3>1, <3>2
  <2>13. Calm(c)'
    <3>1. SUFFICES ASSUME steady[c] PROVE Calm(c)'
      BY <1>1 DEF Calm
    <3>2. Leads'
      <4>1. Leads
        BY <1>1, <3>1 DEF Calm, Client!Busy
      <4>2. QED
        BY <1>1, <4>1 DEF Leads, Client!Up
    <3>3. \A j \in Client!Links : links'[j].step = "error" => Head(links'[j].queue) # c
      BY <1>1, <2>10, <3>1 DEF Calm, Client!Busy
    <3>4. x.try = 2 => /\ shared' # Client!Nobody => links'[shared'].state # "broken"
                       /\ links'[x.link].state # "broken"
      <4>1. shared' # Client!Nobody => shared' \in Client!Links
        BY <1>1, <2>1 DEF ClientTypes, Ends
      <4>2. QED
        BY <1>1, <1>3, <2>1, <2>2, <2>10, <3>1, <4>1 DEF Calm, Client!Busy, k
    <3>5. QED
      BY <2>2, <2>6, <3>1, <3>2, <3>3, <3>4 DEF Calm, Client!Busy
  <2>14. shared' \in Ends /\ steady' \in [Calls -> BOOLEAN]
    BY <1>1, <2>1 DEF ClientTypes
  <2>15. QED
    BY <1>1, <2>1, <2>2, <2>11, <2>12, <2>13, <2>14, ClientOthers
<1>4. QED
  BY <1>2, <1>3

LEMMA ClientLost ==
  ASSUME ClientInv, Client!ClientConstants, NEW c \in Calls, Client!Lost(c)
  PROVE  ClientInv'
<1>1. /\ Client!Failed(c) /\ calls[c].pc = "waits" /\ UNCHANGED links
      /\ links[calls[c].link].state = "broken"
      /\ UNCHANGED <<files, daemons, did, rotated, steady, allowed>>
  BY DEF Client!Lost, Client!outer, Client!Dropped
<1>2. steady[c] => calls[c].try # 2
  BY <1>1 DEF ClientInv, Calm, Client!Busy
<1>3. QED
  BY <1>1, <1>2, QuietlyKept, ClientFails

\* An answer leaves the queue, heard or not.
LEMMA ClientAnswers ==
  ASSUME ClientInv, Client!ClientConstants, NEW k \in Client!Links, Client!Answer(k)
  PROVE  ClientInv'
<1> DEFINE c == Head(links[k].queue)
           q == Tail(links[k].queue)
           l == [links[k] EXCEPT !.step = "idle", !.queue = q]
           heard == links[k].state = "open" /\ calls[c].pc = "waits" /\ calls[c].link = k
<1>1. /\ ClientTypes /\ Served /\ links[k] \in Connections /\ links[k].step \in {"ok", "error"}
      /\ UNCHANGED <<files, daemons, did, rotated, steady, allowed>>
  BY DEF ClientInv, ClientTypes, Client!Answer, Client!outer
<1>2. links[k].queue \in Seq(Calls) /\ links[k].queue # <<>>
  BY <1>1 DEF Served, Connections
<1>3. /\ c \in Calls /\ q \in Seq(Calls)
      /\ \A i \in DOMAIN q : i + 1 \in DOMAIN links[k].queue /\ q[i] = links[k].queue[i + 1]
  <2>1. c \in Calls /\ q \in Seq(Calls)
    BY <1>2
  <2>2. ASSUME NEW i \in DOMAIN q
        PROVE  i + 1 \in DOMAIN links[k].queue /\ q[i] = links[k].queue[i + 1]
    BY <1>2
  <2>3. QED
    BY <2>1, <2>2
<1>4. links' = [links EXCEPT ![k] = l]
  BY <1>1 DEF Client!Answer, ClientTypes
<1>5. /\ ~heard => UNCHANGED <<calls, shared>>
      /\ heard /\ links[k].step = "ok" => Client!End(c, "ok") /\ UNCHANGED shared
      /\ heard /\ links[k].step # "ok" => Client!Failed(c)
  BY DEF Client!Answer
<1> HIDE DEF q
<1>6. l \in Connections /\ l.queue = q /\ l.step = "idle" /\ l.state = links[k].state
  BY <1>1, <1>3 DEF Connections
<1> HIDE DEF l
<1>7. /\ links' \in [Client!Links -> Connections] /\ links'[k] = l
      /\ \A j \in Client!Links : j # k => links'[j] = links[j]
  BY <1>1, <1>4, <1>6 DEF ClientTypes
<1>8. ASSUME NEW b \in Calls PROVE Follows(b)
  <2>1. ASSUME NEW j \in Client!Links
        PROVE  \E s \in {0, 1} :
                 /\ \A i \in DOMAIN links'[j].queue : links'[j].queue[i] = b =>
                      i + s \in DOMAIN links[j].queue /\ links[j].queue[i + s] = b
                 /\ s = 0 /\ links[j].step = "ok" /\ links'[j].queue # <<>> => links'[j].step = "ok"
    <3>1. CASE j = k
      <4>1. \A i \in DOMAIN links'[j].queue : links'[j].queue[i] = b =>
              i + 1 \in DOMAIN links[j].queue /\ links[j].queue[i + 1] = b
        BY <1>3, <1>6, <1>7, <3>1
      <4>2. QED
        BY <4>1
    <3>2. CASE j # k
      <4>1. links'[j] = links[j] /\ links[j].queue \in Seq(Calls)
        BY <1>1, <1>7, <3>2 DEF ClientTypes, Connections
      <4>2. \A i \in DOMAIN links'[j].queue : i + 0 = i
        BY <4>1
      <4>3. QED
        BY <4>1, <4>2
    <3>3. QED
      BY <3>1, <3>2
  <2>2. QED
    BY <2>1 DEF Follows
<1>9. Served'
  BY <1>1, <1>6, <1>7 DEF Served
<1>10. Quietly(c) /\ Follows(c)
  BY <1>3, <1>6, <1>7, <1>8, <1>9 DEF Quietly
<1> HIDE DEF c
<1>11. CASE ~heard
  <2>1. UNCHANGED <<calls, shared>>
    BY <1>5, <1>11
  <2>2. ClientTypes' /\ Tokened'
    BY <1>1, <1>7, <2>1 DEF ClientInv, ClientTypes, Tokened
  <2>3. ASSUME NEW b \in Calls PROVE Once(b)' /\ Calm(b)'
    <3>1. Once(b) /\ Calm(b) /\ Follows(b) /\ UNCHANGED <<calls[b], did[b], steady[b]>>
      BY <1>1, <1>8, <2>1 DEF ClientInv
    <3>2. /\ calls[b].kind = "write" => calls[b].try = 1
          /\ calls[b].pc \in {"send", "waits"} => calls[b].link \in Client!Links
          /\ calls[b].pc # "done" => calls[b].told = Client!NoCall.told
          /\ Unsent(b)' => Unsent(b)
      BY <3>1 DEF Once, Unsent
    <3>3. Once(b)'
      BY <1>1, <2>2, <3>1, <3>2, OnceKept
    <3>4. Calm(b)'
      BY <1>1, <1>10, <2>1, <3>1, CalmKept DEF Quietly
    <3>5. QED
      BY <3>3, <3>4
  <2>4. QED
    BY <1>9, <2>2, <2>3 DEF ClientInv
<1>12. CASE heard /\ links[k].step = "ok"
  <2>1. Client!End(c, "ok") /\ UNCHANGED shared /\ "ok" \in Client!Told
    BY <1>5, <1>12 DEF Client!Told
  <2>2. QED
    BY <1>1, <1>3, <1>10, <1>12, <2>1, ClientEnds
<1>13. CASE heard /\ links[k].step = "error"
  <2>1. Client!Failed(c)
    BY <1>5, <1>13
  <2>2. ~steady[c]
    BY <1>3, <1>13 DEF ClientInv, Calm, Client!Busy, c
  <2>3. QED
    BY <1>1, <1>3, <1>10, <1>13, <2>1, <2>2, ClientFails
<1>14. QED
  BY <1>1, <1>11, <1>12, <1>13

LEMMA ClientArrives ==
  ASSUME ClientInv, Client!ClientConstants, NEW c \in Calls, NEW kind \in Client!Kinds,
         Client!Arrive(c, kind)
  PROVE  ClientInv'
<1> DEFINE x == [Client!NoCall EXCEPT !.pc = "start", !.kind = kind]
           up == \E d \in Client!Up :
                   files = [owner |-> files.owner, agent |-> daemons[d].token, port |-> d]
<1>1. /\ ClientTypes /\ Served /\ Once(c) /\ calls[c].pc = "idle" /\ Client!Becomes(c, x)
      /\ UNCHANGED <<files, daemons, did, rotated, links, shared>> /\ Client!Use("calls")
      /\ steady' = [steady EXCEPT ![c] = up]
  BY DEF ClientInv, Client!Arrive
<1>2. /\ x \in Called /\ x.pc = "start" /\ x.kind = kind /\ x.try = 1
      /\ x.told = Client!NoCall.told
  BY ClientNames DEF Called, Client!NoCall
<1>3. up => Leads
  BY DEF Leads
<1>4. up \in BOOLEAN
  OBVIOUS
<1> HIDE DEF x, up
<1>5. /\ calls' \in [Calls -> Called] /\ calls'[c] = x
      /\ \A b \in Calls : b # c => calls'[b] = calls[b]
  BY <1>1, <1>2, ClientBecomes
<1>6. /\ steady' \in [Calls -> BOOLEAN] /\ steady'[c] = up
      /\ \A b \in Calls : b # c => steady'[b] = steady[b]
  BY <1>1, <1>4 DEF ClientTypes
<1>7. ClientTypes'
  BY <1>1, <1>5, <1>6, ClientUse DEF ClientTypes
<1>8. Quietly(c) /\ Follows(c)
  BY <1>1, QuietlyKept
<1>9. did[c] = 0 /\ ~Queued(c)
  BY <1>1 DEF Once
<1>10. Once(c)'
  BY <1>1, <1>2, <1>5, <1>9 DEF Once, Queued
<1>11. Calm(c)'
  <2>1. ASSUME NEW j \in Client!Links, links[j].step = "error" PROVE Head(links[j].queue) # c
    <3>1. links[j].queue \in Seq(Calls) /\ links[j].queue # <<>>
      BY <1>1, <2>1 DEF Served, ClientTypes, Connections
    <3>2. Head(links[j].queue) = links[j].queue[1] /\ 1 \in DOMAIN links[j].queue
      BY <3>1
    <3>3. QED
      BY <1>9, <3>2 DEF Queued
  <2>2. up => Leads'
    BY <1>1, <1>3 DEF Leads, Client!Up
  <2>3. QED
    BY <1>1, <1>2, <1>5, <1>6, <2>1, <2>2 DEF Calm, Client!Busy
<1>12. ASSUME NEW b \in Calls, b # c PROVE Once(b)' /\ Calm(b)'
  <2>1. Once(b) /\ Calm(b) /\ Follows(b) /\ calls'[b] = calls[b] /\ UNCHANGED <<did[b], steady[b]>>
    BY <1>1, <1>5, <1>6, <1>8, <1>12 DEF ClientInv, Quietly
  <2>2. /\ calls[b].kind = "write" => calls[b].try = 1
        /\ calls[b].pc \in {"send", "waits"} => calls[b].link \in Client!Links
        /\ calls[b].pc # "done" => calls[b].told = Client!NoCall.told
        /\ Unsent(b)' => Unsent(b)
    BY <2>1 DEF Once, Unsent
  <2>3. Once(b)'
    BY <1>1, <1>7, <2>1, <2>2, OnceKept
  <2>4. Calm(b)'
    BY <1>1, <1>8, <2>1, CalmKept DEF Quietly
  <2>5. QED
    BY <2>3, <2>4
<1>13. Served' /\ Tokened'
  BY <1>1 DEF ClientInv, Served, Tokened
<1>14. QED
  BY <1>7, <1>10, <1>11, <1>12, <1>13 DEF ClientInv

LEMMA ClientStep == Client!ClientConstants /\ ClientInv /\ Client!Next => ClientInv'
  BY ClientDaemonStep, ClientBreaks, ClientServes, ClientAnswers, ClientDials, ClientSends,
     ClientLost, ClientArrives DEF Client!Next, Client!ServeSteps, Client!CallSteps

\* What the invariant says of the calls that have ended.
LEMMA ClientTruth == ClientInv => Client!WrittenOnce /\ Client!SteadyCallsSucceed
<1> SUFFICES ASSUME ClientInv PROVE Client!WrittenOnce /\ Client!SteadyCallsSucceed
  OBVIOUS
<1>1. Client!WrittenOnce
  <2>1. ASSUME NEW c \in Calls
        PROVE  did[c] <= 1 /\ (calls[c].told \in {"unreachable", "unauthorised"} => did[c] = 0)
    BY DEF ClientInv, Once, Unsent
  <2>2. QED
    BY <2>1 DEF Client!WrittenOnce
<1>2. Client!SteadyCallsSucceed
  BY DEF ClientInv, Calm, Client!SteadyCallsSucceed
<1>3. QED
  BY <1>1, <1>2

\* Where daemons follow one another: the files say what the one there is has, and tokens
\* that are taken away never come back, since each is the name of a daemon that made it.
Made(t) == t # Client!None => daemons[t].pc \notin {"none", "reads"}
OneByOne ==
  /\ allowed.overlaps = 0
  /\ \A d, e \in Client!Alive : d = e
  /\ files.owner = files.agent /\ Made(files.agent)
  /\ \A d \in Daemons :
       /\ daemons[d].pc \in {"tokened", "listening"} => daemons[d].token = files.agent
       /\ daemons[d].pc = "reads" => daemons[d].token = files.agent
       /\ daemons[d].pc = "leaving" => files.agent = Client!None

\* How often the agents' token has changed, at least, since the call read it.
Turned(c) ==
  LET t == calls[c].token
      r == rotated[c]
  IN /\ calls[c].pc = "start" => ~calls[c].again
     /\ calls[c].pc = "dial" => calls[c].daemon # Client!None
     /\ calls[c].pc \in {"port", "dial", "refused"} => t # Client!None /\ Made(t)
     /\ calls[c].pc \in {"port", "dial"} =>
          /\ calls[c].again => r >= 2 /\ (files.agent # t => r >= 3)
          /\ ~calls[c].again =>
               /\ files.agent = Client!None => r >= 1
               /\ files.agent \notin {Client!None, t} => r >= 2
               /\ \A d \in Daemons : daemons[d].pc = "leaving" /\ daemons[d].token # t => r >= 3
     /\ calls[c].pc = "refused" =>
          /\ r >= 2
          /\ calls[c].again \/ files.agent \in {Client!None, t} => r >= 3
     /\ calls[c].told = "unauthorised" => r >= 3

RotationInv == OneByOne /\ \A c \in Calls : Turned(c)

LEMMA RotationInit ==
  ASSUME \A p \in CallPlans : p.overlaps = 0, Client!ClientConstants, Client!Init
  PROVE  RotationInv
<1>1. OneByOne
  BY DEF OneByOne, Made, Client!Init, Client!Alive, Client!NoDaemon
<1>2. ASSUME NEW c \in Calls PROVE Turned(c)
  BY DEF Turned, Client!Init, Client!NoCall
<1>3. QED
  BY <1>1, <1>2 DEF RotationInv

\* Nothing is said of a call that does not hold a token, and what was said stays true while
\* the token file does.
LEMMA TurnedKept ==
  ASSUME NEW c \in Calls, Turned(c), files'.agent = files.agent, rotated'[c] = rotated[c],
         \A t \in Tokens : Made(t) => Made(t)',
         \A d \in Daemons : daemons'[d].pc = "leaving" =>
           daemons[d].pc = "leaving" /\ daemons'[d].token = daemons[d].token,
         calls[c].token \in Tokens,
         \/ calls'[c] = calls[c]
         \/ /\ calls'[c].pc \notin {"port", "dial", "refused"}
            /\ calls'[c].pc = "start" => ~calls'[c].again
            /\ calls'[c].told = "unauthorised" => calls[c].told = "unauthorised"
  PROVE  Turned(c)'
  BY DEF Turned

LEMMA RotationQuiet ==
  ASSUME ClientInv, RotationInv, UNCHANGED <<files, daemons, rotated>>, allowed'.overlaps = 0,
         \A c \in Calls :
           \/ calls'[c] = calls[c]
           \/ /\ calls'[c].pc \notin {"port", "dial", "refused"}
              /\ calls'[c].pc = "start" => ~calls'[c].again
              /\ calls'[c].told = "unauthorised" => calls[c].told = "unauthorised"
  PROVE  RotationInv'
<1>1. OneByOne'
  BY DEF RotationInv, OneByOne, Made, Client!Alive
<1>2. ASSUME NEW c \in Calls PROVE Turned(c)'
  <2>1. Turned(c) /\ calls[c].token \in Tokens
    BY DEF RotationInv, ClientInv, ClientTypes, Called
  <2>2. \A t \in Tokens : Made(t) => Made(t)'
    BY DEF Made
  <2>3. CASE calls'[c] = calls[c]
    BY <2>1, <2>2, <2>3, TurnedKept
  <2>4. CASE calls'[c] # calls[c]
    <3>1. /\ calls'[c].pc \notin {"port", "dial", "refused"}
          /\ calls'[c].pc = "start" => ~calls'[c].again
          /\ calls'[c].told = "unauthorised" => calls[c].told = "unauthorised"
      BY <2>4
    <3>2. QED
      BY <2>1, <2>2, <3>1, TurnedKept
  <2>5. QED
    BY <2>3, <2>4
<1>3. QED
  BY <1>1, <1>2 DEF RotationInv

\* The daemon's steps, one daemon at a time.
LEMMA RotationDaemonStep ==
  ASSUME ClientInv, RotationInv, Client!ClientConstants, NEW d \in Daemons, Client!DaemonSteps(d)
  PROVE  RotationInv'
<1>1. /\ ClientTypes /\ Tokened /\ OneByOne /\ daemons[d] \in Servers /\ files \in Files
      /\ allowed \in Client!Bounds /\ d # Client!None
  BY ClientNames DEF ClientInv, ClientTypes, RotationInv
<1>2. UNCHANGED calls
  BY DEF Client!DaemonSteps, Client!Start, Client!CreateToken, Client!Listen,
     Client!Cleanup, Client!Gone, Client!callVars
<1>3. \A c \in Calls : Turned(c) /\ calls[c].token \in Tokens /\ rotated[c] \in Nat
  BY <1>1 DEF RotationInv, ClientTypes, Called
\* Where the token file stays as it is.
<1>4. ASSUME NEW x \in Servers, daemons' = [daemons EXCEPT ![d] = x],
             files'.agent = files.agent, UNCHANGED rotated,
             x.pc \in {"none", "reads"} => daemons[d].pc \in {"none", "reads"},
             x.pc # "leaving"
      PROVE  \A c \in Calls : Turned(c)'
  <2>1. \A t \in Tokens : Made(t) => Made(t)'
    BY <1>1, <1>4 DEF Made, Tokens, ClientTypes
  <2>2. \A e \in Daemons : daemons'[e].pc = "leaving" =>
           daemons[e].pc = "leaving" /\ daemons'[e].token = daemons[e].token
    BY <1>1, <1>4 DEF ClientTypes
  <2>3. QED
    BY <1>2, <1>3, <1>4, <2>1, <2>2, TurnedKept
<1>5. CASE Client!Start(d)
  <2> DEFINE x == [pc |-> "reads", token |-> files.owner]
  <2>1. /\ daemons' = [daemons EXCEPT ![d] = x] /\ UNCHANGED <<files, rotated>>
        /\ daemons[d].pc = "none"
    BY <1>5 DEF Client!Start
  <2>2. Client!Alive = {} /\ UNCHANGED allowed
    BY <1>1, <1>5 DEF Client!Start, Client!Use, OneByOne
  <2>3. x \in Servers /\ x.pc = "reads" /\ x.token = files.owner
    BY <1>1 DEF Files, Servers
  <2> HIDE DEF x
  <2>4. \A c \in Calls : Turned(c)'
    BY <1>4, <2>1, <2>3
  <2>5. daemons'[d] = x /\ \A e \in Daemons : e # d => daemons'[e] = daemons[e]
    BY <1>1, <2>1 DEF ClientTypes
  <2>6. \A e \in Daemons : e # d => daemons'[e].pc \notin {"reads", "tokened", "listening", "leaving"}
    BY <2>2, <2>5 DEF Client!Alive
  <2>7. Made(files.agent)'
    BY <1>1, <2>1, <2>5 DEF OneByOne, Made, Files, Tokens
  <2>8. OneByOne'
    BY <1>1, <2>1, <2>2, <2>3, <2>5, <2>6, <2>7 DEF OneByOne, Client!Alive
  <2>9. QED
    BY <2>4, <2>8 DEF RotationInv
<1>6. CASE Client!CreateToken(d)
  <2> DEFINE t == IF daemons[d].token = Client!None THEN d ELSE daemons[d].token
             x == [pc |-> "tokened", token |-> t]
  <2>1. daemons[d].pc = "reads" /\ UNCHANGED allowed /\ Client!Rotated
    BY <1>6 DEF Client!CreateToken
  <2>2. daemons' = [daemons EXCEPT ![d] = x]
    BY <1>1, <1>6 DEF Client!CreateToken, ClientTypes
  <2>3. files'.agent = t /\ files'.owner = IF daemons[d].token = Client!None THEN d ELSE files.owner
    BY <1>1, <1>6 DEF Client!CreateToken, Client!TokensWritten, Files
  <2>4. daemons[d].token = files.agent /\ files.owner = files.agent
    BY <1>1, <2>1 DEF OneByOne
  <2>5. /\ files'.owner = t /\ t # Client!None
        /\ files.agent # Client!None => t = files.agent
        /\ files.agent = Client!None => t = d
    BY <1>1, <2>3, <2>4
  <2>6. x \in Servers /\ x.pc = "tokened" /\ x.token = t /\ t \in Tokens
    BY <1>1 DEF Servers, Tokens
  <2> HIDE DEF t, x
  <2>7. daemons'[d] = x /\ \A e \in Daemons : e # d => daemons'[e] = daemons[e]
    BY <1>1, <2>2, <2>6 DEF ClientTypes
  <2>8. \A e \in Daemons : e # d => daemons[e].pc \notin {"reads", "tokened", "listening", "leaving"}
    BY <1>1, <2>1 DEF OneByOne, Client!Alive
  <2>9. \A u \in Tokens : Made(u) => Made(u)' /\ u # d
    BY <1>1, <2>1, <2>6, <2>7 DEF Made, Tokens
  <2>10. Made(files.agent)'
    BY <1>1, <2>3, <2>5, <2>6, <2>7, <2>9 DEF OneByOne, Made, Files
  <2>11. OneByOne'
    BY <1>1, <2>1, <2>3, <2>5, <2>6, <2>7, <2>8, <2>10 DEF OneByOne, Client!Alive
  <2>12. ASSUME NEW c \in Calls PROVE Turned(c)'
    <3>1. CASE files.agent # Client!None
      <4>1. files'.agent = files.agent /\ UNCHANGED rotated
        BY <1>1, <2>1, <2>3, <2>5, <3>1 DEF Client!Rotated, ClientTypes
      <4>2. QED
        BY <1>4, <2>2, <2>6, <4>1
    <3>2. CASE files.agent = Client!None
      <4>1. files'.agent = d
        BY <2>3, <2>5, <3>2
      <4>2. /\ rotated'[c] >= rotated[c]
            /\ Client!Busy(c) => rotated'[c] >= 3 \/ rotated'[c] >= rotated[c] + 1
        BY <1>1, <1>3, <2>1, <3>2, <4>1 DEF Client!Rotated
      <4>3. calls[c].pc \in {"port", "dial", "refused"} => Client!Busy(c)
        BY DEF Client!Busy
      <4>4. rotated'[c] \in Nat
        BY <1>3, <2>1 DEF Client!Rotated
      <4>5. \A e \in Daemons : daemons'[e].pc # "leaving"
        BY <2>6, <2>7, <2>8
      <4>6. QED
        BY <1>1, <1>2, <1>3, <2>9, <3>2, <4>1, <4>2, <4>3, <4>4, <4>5 DEF Turned
    <3>3. QED
      BY <3>1, <3>2
  <2>13. QED
    BY <2>11, <2>12 DEF RotationInv
<1>7. ASSUME NEW pc \in {"listening", "gone"}, daemons' = [daemons EXCEPT ![d].pc = pc],
             files' = files \/ files' = [files EXCEPT !.port = d], UNCHANGED rotated,
             pc = "listening" => daemons[d].pc = "tokened", allowed'.overlaps = 0
      PROVE  RotationInv'
  <2> DEFINE x == [daemons[d] EXCEPT !.pc = pc]
  <2>1. x \in Servers /\ x.pc = pc /\ x.token = daemons[d].token
    BY <1>1 DEF Servers
  <2>2. daemons' = [daemons EXCEPT ![d] = x]
    BY <1>1, <1>7 DEF ClientTypes
  <2>3. files'.agent = files.agent /\ files'.owner = files.owner
    BY <1>1, <1>7 DEF Files
  <2> HIDE DEF x
  <2>4. \A c \in Calls : Turned(c)'
    BY <1>4, <1>7, <2>1, <2>2, <2>3
  <2>5. daemons'[d] = x /\ \A e \in Daemons : e # d => daemons'[e] = daemons[e]
    BY <1>1, <2>1, <2>2 DEF ClientTypes
  <2>6. Made(files.agent)'
    BY <1>1, <2>1, <2>3, <2>5 DEF OneByOne, Made, Files, Tokens
  <2>7. OneByOne'
    BY <1>1, <1>7, <2>1, <2>3, <2>5, <2>6 DEF OneByOne, Client!Alive
  <2>8. QED
    BY <2>4, <2>7 DEF RotationInv
<1>8. CASE Client!Listen(d)
  BY <1>1, <1>7, <1>8 DEF Client!Listen, OneByOne
<1>9. CASE Client!Gone(d)
  <2>1. allowed'.overlaps = 0
    <3>1. UNCHANGED allowed \/ Client!Use("kills")
      BY <1>9 DEF Client!Gone
    <3>2. allowed.overlaps = 0
      BY <1>1 DEF OneByOne
    <3>3. CASE Client!Use("kills")
      BY <1>1, <3>2, <3>3, ClientUse
    <3>4. QED
      BY <3>1, <3>2, <3>3
  <2>2. QED
    BY <1>7, <1>9, <2>1 DEF Client!Gone
<1>10. CASE Client!Cleanup(d)
  <2> DEFINE x == [daemons[d] EXCEPT !.pc = "leaving"]
  <2>1. /\ daemons[d].pc = "listening" /\ Client!Rotated /\ Client!Use("stops")
        /\ files'.agent = Client!None /\ files'.owner = Client!None
    BY <1>10 DEF Client!Cleanup
  <2>2. daemons' = [daemons EXCEPT ![d] = x]
    BY <1>1, <1>10 DEF Client!Cleanup, ClientTypes
  <2>3. x \in Servers /\ x.pc = "leaving" /\ x.token = daemons[d].token
    BY <1>1 DEF Servers
  <2>4. daemons[d].token = files.agent /\ files.agent # Client!None /\ files.agent \in Tokens
    BY <1>1, <2>1 DEF OneByOne, Tokened, Files
  <2> HIDE DEF x
  <2>5. daemons'[d] = x /\ \A e \in Daemons : e # d => daemons'[e] = daemons[e]
    BY <1>1, <2>2, <2>3 DEF ClientTypes
  <2>6. \A e \in Daemons : e # d => daemons[e].pc \notin {"reads", "tokened", "listening", "leaving"}
    BY <1>1, <2>1 DEF OneByOne, Client!Alive
  <2>7. \A u \in Tokens : Made(u) => Made(u)'
    BY <1>1, <2>3, <2>5 DEF Made, Tokens
  <2>8. allowed'.overlaps = 0
    BY <1>1, <2>1, ClientUse DEF OneByOne
  <2>9. OneByOne'
    BY <1>1, <2>1, <2>3, <2>5, <2>6, <2>8 DEF OneByOne, Client!Alive, Made
  <2>10. ASSUME NEW c \in Calls PROVE Turned(c)'
    <3>1. /\ rotated'[c] >= rotated[c]
          /\ Client!Busy(c) => rotated'[c] >= 3 \/ rotated'[c] >= rotated[c] + 1
      BY <1>1, <1>3, <2>1, <2>4 DEF Client!Rotated
    <3>2. calls[c].pc \in {"port", "dial", "refused"} => Client!Busy(c)
      BY DEF Client!Busy
    <3>3. rotated'[c] \in Nat
      BY <1>3, <2>1 DEF Client!Rotated
    <3>4. \A e \in Daemons : daemons'[e].pc = "leaving" => daemons'[e].token = files.agent
      BY <2>3, <2>4, <2>5, <2>6
    <3>5. QED
      BY <1>2, <1>3, <2>1, <2>4, <2>7, <3>1, <3>2, <3>3, <3>4 DEF Turned
  <2>11. QED
    BY <2>9, <2>10 DEF RotationInv
<1>11. QED
  BY <1>5, <1>6, <1>8, <1>9, <1>10 DEF Client!DaemonSteps

\* The steps of a call before it is connected.
LEMMA RotationDials ==
  ASSUME ClientInv, RotationInv, Client!ClientConstants, NEW c \in Calls,
         \/ Client!ReadToken(c) \/ Client!ReadPort(c) \/ Client!Dial(c) \/ Client!Reread(c)
  PROVE  RotationInv'
<1>1. /\ ClientTypes /\ Tokened /\ OneByOne /\ Turned(c) /\ calls[c] \in Called /\ files \in Files
      /\ UNCHANGED <<files, daemons, rotated, allowed>>
  BY DEF ClientInv, ClientTypes, RotationInv, Client!ReadToken, Client!ReadPort,
     Client!Dial, Client!Reread, Client!outer
<1>2. OneByOne'
  BY <1>1 DEF OneByOne, Made, Client!Alive
<1>3. ASSUME NEW x \in Called, Client!Becomes(c, x),
             calls'[c] = x => Turned(c)'
      PROVE  RotationInv'
  <2>1. calls'[c] = x /\ \A b \in Calls : b # c => calls'[b] = calls[b]
    BY <1>1, <1>3, ClientBecomes
  <2>2. ASSUME NEW b \in Calls, b # c PROVE Turned(b)'
    <3>1. calls'[b] = calls[b] /\ Turned(b)
      BY <2>1, <2>2 DEF RotationInv
    <3>2. QED
      BY <1>1, <3>1 DEF Turned, Made
  <2>3. QED
    BY <1>2, <1>3, <2>1, <2>2 DEF RotationInv
\* A call that cannot connect.
<1>4. ASSUME NEW told \in {"unreachable", "unauthorised"}, Client!Unreached(c, told),
             told = "unauthorised" => rotated[c] >= 3
      PROVE  RotationInv'
  <2>1. PICK t \in {told, "failed"} : Client!End(c, t)
    BY <1>4 DEF Client!Unreached
  <2> DEFINE x == [Client!NoCall EXCEPT !.pc = "done", !.kind = calls[c].kind, !.told = t]
  <2>2. Client!NoCall \in Called /\ t \in Client!Told
    BY ClientNames DEF Client!Told
  <2>3. x \in Called /\ x.pc = "done" /\ x.told = t
    BY <1>1, <2>2 DEF Called
  <2>4. Client!Becomes(c, x)
    BY <2>1 DEF Client!End
  <2> HIDE DEF x
  <2>5. calls'[c] = x => Turned(c)'
    BY <1>1, <1>4, <2>3 DEF Turned
  <2>6. QED
    BY <1>3, <2>3, <2>4, <2>5
<1>5. CASE Client!ReadToken(c)
  <2>1. CASE files.agent = Client!None
    BY <1>4, <1>5, <2>1 DEF Client!ReadToken
  <2>2. CASE files.agent # Client!None
    <3> DEFINE x == [calls[c] EXCEPT !.pc = "port", !.token = files.agent]
    <3>1. Client!Becomes(c, x)
      BY <1>5, <2>2 DEF Client!ReadToken
    <3>2. /\ x \in Called /\ x.pc = "port" /\ x.token = files.agent /\ x.told = calls[c].told
          /\ x.again = calls[c].again
      BY <1>1 DEF Called, Files
    <3> HIDE DEF x
    <3>3. \A d \in Daemons : daemons[d].pc # "leaving"
      BY <1>1, <2>2 DEF OneByOne
    <3>4. Made(files.agent)
      BY <1>1 DEF OneByOne
    <3>5. ~calls[c].again
      BY <1>1, <1>5 DEF Turned, Client!ReadToken
    <3>6. calls'[c] = x => Turned(c)'
      BY <1>1, <2>2, <3>2, <3>3, <3>4, <3>5 DEF Turned, Made
    <3>7. QED
      BY <1>3, <3>1, <3>2, <3>6
  <2>3. QED
    BY <2>1, <2>2
<1>6. CASE Client!ReadPort(c)
  <2>1. CASE files.port = Client!None
    BY <1>4, <1>6, <2>1 DEF Client!ReadPort
  <2>2. CASE files.port # Client!None
    <3> DEFINE x == [calls[c] EXCEPT !.pc = "dial", !.daemon = files.port]
    <3>1. Client!Becomes(c, x) /\ calls[c].pc = "port"
      BY <1>6, <2>2 DEF Client!ReadPort
    <3>2. /\ x \in Called /\ x.pc = "dial" /\ x.token = calls[c].token /\ x.told = calls[c].told
          /\ x.again = calls[c].again /\ x.daemon = files.port
      BY <1>1 DEF Called, Files
    <3> HIDE DEF x
    <3>3. calls'[c] = x => Turned(c)'
      BY <1>1, <2>2, <3>1, <3>2 DEF Turned, Made
    <3>4. QED
      BY <1>3, <3>1, <3>2, <3>3
  <2>3. QED
    BY <2>1, <2>2
<1>7. CASE Client!Dial(c)
  <2> DEFINE d == calls[c].daemon
             t == calls[c].token
  <2>1. calls[c].pc = "dial"
    BY <1>7 DEF Client!Dial
  <2>2. CASE daemons[d].pc \notin {"listening", "leaving"}
    BY <1>4, <1>7, <2>2 DEF Client!Dial
  <2>3. CASE daemons[d].pc \in {"listening", "leaving"} /\ daemons[d].token # t
    <3> DEFINE x == [calls[c] EXCEPT !.pc = "refused"]
    <3>1. Client!Becomes(c, x)
      BY <1>7, <2>3 DEF Client!Dial
    <3>2. /\ x \in Called /\ x.pc = "refused" /\ x.token = t /\ x.told = calls[c].told
          /\ x.again = calls[c].again
      BY <1>1 DEF Called
    <3>3. d \in Daemons /\ rotated[c] \in Nat
      BY <1>1, <2>1 DEF Turned, Called, Tokens, ClientTypes
    <3>4. /\ rotated[c] >= 2
          /\ calls[c].again \/ files.agent \in {Client!None, t} => rotated[c] >= 3
      <4>1. CASE daemons[d].pc = "listening"
        <5>1. daemons[d].token = files.agent /\ files.agent # Client!None
          BY <1>1, <3>3, <4>1 DEF OneByOne, Tokened
        <5>2. QED
          BY <1>1, <2>1, <2>3, <3>3, <5>1 DEF Turned
      <4>2. CASE daemons[d].pc = "leaving"
        <5>1. files.agent = Client!None
          BY <1>1, <3>3, <4>2 DEF OneByOne
        <5>2. QED
          BY <1>1, <2>1, <2>3, <3>3, <4>2, <5>1 DEF Turned
      <4>3. QED
        BY <2>3, <4>1, <4>2
    <3>5. t # Client!None /\ Made(t) /\ (calls[c].told = "unauthorised" => rotated[c] >= 3)
      BY <1>1, <2>1 DEF Turned
    <3> HIDE DEF x
    <3>6. calls'[c] = x => Turned(c)'
      BY <1>1, <3>2, <3>4, <3>5 DEF Turned, Made
    <3>7. QED
      BY <1>3, <3>1, <3>2, <3>6
  <2>4. CASE daemons[d].pc \in {"listening", "leaving"} /\ daemons[d].token = t
    <3> DEFINE k == <<c, calls[c].try>>
               x == [calls[c] EXCEPT !.pc = "send", !.token = Client!None,
                       !.daemon = Client!None, !.again = FALSE, !.link = k]
    <3>1. Client!Becomes(c, x)
      BY <1>7, <2>4 DEF Client!Dial
    <3>2. k \in Client!Links
      BY <1>1 DEF Called, Client!Links
    <3>3. x \in Called /\ x.pc = "send" /\ x.told = calls[c].told
      BY <1>1, <3>2 DEF Called, Tokens, Ends
    <3> HIDE DEF x
    <3>4. calls'[c] = x => Turned(c)'
      BY <1>1, <3>3 DEF Turned
    <3>5. QED
      BY <1>3, <3>1, <3>3, <3>4
  <2>5. QED
    BY <2>2, <2>3, <2>4
<1>8. CASE Client!Reread(c)
  <2>1. calls[c].pc = "refused" /\ rotated[c] \in Nat
    BY <1>1, <1>8 DEF Client!Reread, ClientTypes
  <2>2. CASE ~Client!Rereads(c)
    <3>1. rotated[c] >= 3
      BY <1>1, <2>1, <2>2 DEF Turned, Client!Rereads
    <3>2. QED
      BY <1>4, <1>8, <2>2, <3>1 DEF Client!Reread
  <2>3. CASE Client!Rereads(c)
    <3> DEFINE x == [calls[c] EXCEPT !.pc = "port", !.token = files.agent,
                                     !.daemon = Client!None, !.again = TRUE]
    <3>1. Client!Becomes(c, x) /\ files.agent # Client!None
      BY <1>8, <2>3 DEF Client!Reread, Client!Rereads
    <3>2. /\ x \in Called /\ x.pc = "port" /\ x.token = files.agent /\ x.told = calls[c].told
          /\ x.again
      BY <1>1 DEF Called, Tokens, Files
    <3>3. rotated[c] >= 2 /\ (calls[c].told = "unauthorised" => rotated[c] >= 3)
      BY <1>1, <2>1 DEF Turned
    <3>4. Made(files.agent)
      BY <1>1 DEF OneByOne
    <3> HIDE DEF x
    <3>5. calls'[c] = x => Turned(c)'
      BY <1>1, <3>1, <3>2, <3>3, <3>4 DEF Turned, Made
    <3>6. QED
      BY <1>3, <3>1, <3>2, <3>5
  <2>4. QED
    BY <2>2, <2>3
<1>9. QED
  BY <1>5, <1>6, <1>7, <1>8

\* The other steps: no call gets a token by them.
LEMMA RotationServes ==
  ASSUME ClientInv, RotationInv, NEW k \in Client!Links,
         \/ Client!Execute(k) \/ Client!Register(k) \/ Client!Refuse(k) \/ Client!Break(k)
  PROVE  RotationInv'
<1>1. /\ UNCHANGED <<files, daemons, rotated, calls>>
      /\ UNCHANGED allowed \/ Client!Use("refusals") \/ Client!Use("breaks")
  BY DEF Client!Execute, Client!Register, Client!Refuse, Client!Break, Client!serveVars,
     Client!callVars
<1>2. allowed.overlaps = 0 /\ allowed \in Client!Bounds
  BY DEF RotationInv, OneByOne, ClientInv, ClientTypes
<1>3. allowed'.overlaps = 0
  <2>1. CASE Client!Use("refusals")
    BY <1>2, <2>1, ClientUse
  <2>2. CASE Client!Use("breaks")
    BY <1>2, <2>2, ClientUse
  <2>3. QED
    BY <1>1, <1>2, <2>1, <2>2
<1>4. QED
  BY <1>1, <1>3, RotationQuiet

\* What a call becomes when it ends or is made again.
LEMMA RotationRest ==
  ASSUME ClientInv, RotationInv, NEW c \in Calls, NEW x \in Called, Client!Becomes(c, x),
         x.pc \notin {"port", "dial", "refused"}, x.pc = "start" => ~x.again,
         x.told = "unauthorised" => calls[c].told = "unauthorised",
         UNCHANGED <<files, daemons, rotated>>, allowed'.overlaps = 0
  PROVE  RotationInv'
<1>1. calls'[c] = x /\ \A b \in Calls : b # c => calls'[b] = calls[b]
  BY ClientBecomes DEF ClientInv
<1>2. QED
  BY <1>1, RotationQuiet

LEMMA RotationSteps ==
  ASSUME ClientInv, RotationInv, Client!ClientConstants, NEW c \in Calls,
         \/ Client!UseShared(c)
         \/ Client!Send(c)
         \/ Client!Lost(c)
         \/ \E kind \in Client!Kinds : Client!Arrive(c, kind)
         \/ \E k \in Client!Links : Client!Answer(k) /\ c = Head(links[k].queue)
  PROVE  RotationInv'
<1>1. /\ ClientTypes /\ calls[c] \in Called /\ Client!NoCall \in Called /\ shared \in Ends
      /\ allowed \in Client!Bounds /\ allowed.overlaps = 0 /\ Client!NoCall.told # "unauthorised"
      /\ ~Client!NoCall.again
  <2>1. Client!NoCall.told # "unauthorised" /\ ~Client!NoCall.again
    BY DEF Client!NoCall
  <2>2. QED
    BY <2>1, ClientNames DEF ClientInv, ClientTypes, RotationInv, OneByOne
<1>2. /\ UNCHANGED <<files, daemons, rotated>>
      /\ UNCHANGED allowed \/ Client!Use("calls")
  BY DEF Client!UseShared, Client!Send, Client!Lost, Client!Arrive, Client!Answer, Client!outer
<1>3. allowed'.overlaps = 0
  BY <1>1, <1>2, ClientUse
<1>4. ASSUME NEW told \in {"ok", "failed", "unconfirmed"}, Client!End(c, told) PROVE RotationInv'
  <2> DEFINE x == [Client!NoCall EXCEPT !.pc = "done", !.kind = calls[c].kind, !.told = told]
  <2>1. told \in Client!Told
    BY DEF Client!Told
  <2>2. x \in Called /\ x.pc = "done" /\ x.told = told
    BY <1>1, <2>1 DEF Called
  <2>3. Client!Becomes(c, x)
    BY <1>4 DEF Client!End
  <2> HIDE DEF x
  <2>4. QED
    BY <1>2, <1>3, <2>2, <2>3, RotationRest
<1>5. ASSUME Client!Failed(c) PROVE RotationInv'
  <2> DEFINE x == [Client!NoCall EXCEPT !.pc = "start", !.kind = calls[c].kind, !.try = 2]
  <2>1. CASE Client!Becomes(c, x)
    <3>1. 2 \in Client!Tries
      BY DEF Client!Tries
    <3>2. /\ x \in Called /\ x.pc = "start" /\ x.told = Client!NoCall.told
          /\ x.again = Client!NoCall.again
      BY <1>1, <3>1 DEF Called
    <3> HIDE DEF x
    <3>3. QED
      BY <1>1, <1>2, <1>3, <2>1, <3>2, RotationRest
  <2>2. CASE Client!End(c, "unconfirmed") \/ Client!End(c, "failed")
    BY <1>4, <2>2
  <2>3. QED
    BY <1>5, <2>1, <2>2 DEF Client!Failed
<1>6. ASSUME NEW pc \in {"send", "waits"}, NEW link \in Ends,
             Client!Becomes(c, [calls[c] EXCEPT !.pc = pc, !.link = link])
      PROVE  RotationInv'
  <2> DEFINE x == [calls[c] EXCEPT !.pc = pc, !.link = link]
  <2>1. x \in Called /\ x.pc = pc /\ x.told = calls[c].told
    BY <1>1 DEF Called
  <2>2. Client!Becomes(c, x)
    BY <1>6
  <2> HIDE DEF x
  <2>3. QED
    BY <1>2, <1>3, <2>1, <2>2, RotationRest
<1>7. CASE Client!UseShared(c)
  BY <1>1, <1>6, <1>7 DEF Client!UseShared
<1>8. CASE Client!Send(c)
  <2>1. CASE Client!Failed(c)
    BY <1>5, <2>1
  <2>2. CASE Client!Becomes(c, [calls[c] EXCEPT !.pc = "waits"])
    <3>1. calls[c].link \in Ends
      BY <1>1 DEF Called
    <3>2. [calls[c] EXCEPT !.pc = "waits"] = [calls[c] EXCEPT !.pc = "waits", !.link = calls[c].link]
      BY <1>1 DEF Called
    <3>3. QED
      BY <1>6, <2>2, <3>1, <3>2
  <2>3. QED
    BY <1>8, <2>1, <2>2 DEF Client!Send
<1>9. CASE Client!Lost(c)
  BY <1>5, <1>9 DEF Client!Lost
<1>10. ASSUME NEW kind \in Client!Kinds, Client!Arrive(c, kind) PROVE RotationInv'
  <2> DEFINE x == [Client!NoCall EXCEPT !.pc = "start", !.kind = kind]
  <2>1. Client!Becomes(c, x)
    BY <1>10 DEF Client!Arrive
  <2>2. /\ x \in Called /\ x.pc = "start" /\ x.told = Client!NoCall.told
        /\ x.again = Client!NoCall.again
    BY <1>1 DEF Called
  <2> HIDE DEF x
  <2>3. QED
    BY <1>1, <1>2, <1>3, <2>1, <2>2, RotationRest
<1>11. ASSUME NEW k \in Client!Links, Client!Answer(k), c = Head(links[k].queue) PROVE RotationInv'
  <2>1. UNCHANGED calls \/ Client!End(c, "ok") \/ Client!Failed(c)
    BY <1>11 DEF Client!Answer
  <2>2. CASE UNCHANGED calls
    BY <1>2, <1>3, <2>2, RotationQuiet
  <2>3. QED
    BY <1>4, <1>5, <2>1, <2>2
<1>12. QED
  BY <1>7, <1>8, <1>9, <1>10, <1>11

LEMMA RotationStep == Client!ClientConstants /\ ClientInv /\ RotationInv /\ Client!Next => RotationInv'
<1>1. ASSUME ClientInv, NEW k \in Client!Links, Client!Answer(k) PROVE Head(links[k].queue) \in Calls
  <2>1. links[k].queue \in Seq(Calls) /\ links[k].queue # <<>>
    BY <1>1 DEF ClientInv, ClientTypes, Served, Connections, Client!Answer
  <2>2. QED
    BY <2>1
<1>2. QED
  BY <1>1, RotationDaemonStep, RotationServes, RotationDials, RotationSteps
     DEF Client!Next, Client!ServeSteps, Client!CallSteps

LEMMA RotationTruth == RotationInv => Client!OneRotationSurvived
  BY DEF RotationInv, Turned, Client!OneRotationSurvived

-----------------------------------------------------------------------------
(* What follows for the calls.                                             *)

LEMMA ClientStays ==
  ASSUME ClientInv, UNCHANGED Client!linkVars
  PROVE  ClientInv' /\ (RotationInv => RotationInv')
<1>0. UNCHANGED <<files, daemons, links, shared, calls, did, rotated, steady, allowed>>
  BY DEF Client!linkVars
<1>1. ClientTypes' /\ Served' /\ Tokened'
  BY <1>0 DEF ClientInv, ClientTypes, Served, Tokened
<1>2. ASSUME NEW c \in Calls PROVE Once(c)'
  BY <1>0, <1>2 DEF ClientInv, Once, Queued, Unsent
<1>3. ASSUME NEW c \in Calls PROVE Calm(c)'
  <2>1. Client!Up' = Client!Up /\ Leads' = Leads /\ Client!Busy(c)' = Client!Busy(c)
    BY <1>0 DEF Client!Up, Leads, Client!Busy
  <2> QED
    BY <1>0, <1>3, <2>1 DEF ClientInv, Calm
<1>4. ASSUME RotationInv PROVE OneByOne'
  <2>1. Client!Alive' = Client!Alive
    BY <1>0 DEF Client!Alive
  <2> QED
    BY <1>0, <1>4, <2>1 DEF RotationInv, OneByOne, Made
<1>5. ASSUME RotationInv, NEW c \in Calls PROVE Turned(c)'
  BY <1>0, <1>5 DEF RotationInv, Turned, Made
<1> QED
  BY <1>1, <1>2, <1>3, <1>4, <1>5 DEF ClientInv, RotationInv

LEMMA ClientInvariant ==
  ASSUME Client!ClientConstants
  PROVE  Client!Spec => []ClientInv
<1>1. Client!Init => ClientInv
  BY ClientInit
<1>2. ClientInv /\ [Client!Next]_(Client!linkVars) => ClientInv'
  BY ClientStep, ClientStays
<1> QED
  BY <1>1, <1>2, PTL DEF Client!Spec

\* Logins to the host are counted, and the session is bound or not.
ClientCounts == logins \in Nat /\ bound \in BOOLEAN

LEMMA ClientCounted == Client!Spec => []ClientCounts
<1>1. Client!Init => ClientCounts
  <2>1. Client!Init => logins = 0 /\ bound = FALSE
    BY DEF Client!Init
  <2>2. 0 \in Nat /\ FALSE \in BOOLEAN
    OBVIOUS
  <2> QED
    BY <2>1, <2>2 DEF ClientCounts
<1>2. ClientCounts /\ [Client!Next]_(Client!linkVars) => ClientCounts'
  <2> SUFFICES ASSUME ClientCounts, [Client!Next]_(Client!linkVars) PROVE ClientCounts'
    OBVIOUS
  <2>1. CASE UNCHANGED <<logins, bound>>
    BY <2>1 DEF ClientCounts
  <2>2. ASSUME NEW k \in Client!Links, Client!ServeSteps(k) PROVE ClientCounts'
    <3>1. CASE Client!Execute(k)
      <4>1. logins' \in {logins, logins + 1} /\ bound' = bound
        BY <3>1 DEF Client!Execute
      <4> QED
        BY <4>1 DEF ClientCounts
    <3>2. CASE Client!Register(k)
      <4>1. logins' = logins /\ bound' = TRUE
        BY <3>2 DEF Client!Register
      <4> QED
        BY <4>1 DEF ClientCounts
    <3>3. CASE Client!Answer(k)
      BY <2>1, <3>3 DEF Client!Answer, Client!outer
    <3> QED
      BY <2>2, <3>1, <3>2, <3>3 DEF Client!ServeSteps
  <2>3. ASSUME NEW k \in Client!Links, Client!Refuse(k) \/ Client!Break(k)
        PROVE  UNCHANGED <<logins, bound>>
    BY <2>3 DEF Client!Refuse, Client!Break, Client!callVars
  <2>4. ASSUME NEW d \in Daemons, Client!DaemonSteps(d) PROVE UNCHANGED <<logins, bound>>
    <3>1. CASE Client!Start(d)
      BY <3>1 DEF Client!Start, Client!callVars
    <3>2. CASE Client!CreateToken(d)
      BY <3>2 DEF Client!CreateToken, Client!callVars
    <3>3. CASE Client!Listen(d)
      BY <3>3 DEF Client!Listen, Client!callVars
    <3>4. CASE Client!Cleanup(d)
      BY <3>4 DEF Client!Cleanup, Client!callVars
    <3>5. CASE Client!Gone(d)
      <4>1. UNCHANGED Client!callVars
        BY <3>5, Zenon DEF Client!Gone
      <4> QED
        BY <4>1 DEF Client!callVars
    <3> QED
      BY <2>4, <3>1, <3>2, <3>3, <3>4, <3>5 DEF Client!DaemonSteps
  <2>5. ASSUME NEW c \in Calls, Client!CallSteps(c) PROVE UNCHANGED <<logins, bound>>
    <3>1. CASE Client!UseShared(c)
      BY <3>1 DEF Client!UseShared, Client!outer
    <3>2. CASE Client!ReadToken(c)
      BY <3>2 DEF Client!ReadToken, Client!outer
    <3>3. CASE Client!ReadPort(c)
      BY <3>3 DEF Client!ReadPort, Client!outer
    <3>4. CASE Client!Dial(c)
      BY <3>4 DEF Client!Dial, Client!outer
    <3>5. CASE Client!Reread(c)
      BY <3>5 DEF Client!Reread, Client!outer
    <3>6. CASE Client!Send(c)
      BY <3>6 DEF Client!Send, Client!outer
    <3>7. CASE Client!Lost(c)
      BY <3>7 DEF Client!Lost, Client!outer
    <3> QED
      BY <2>5, <3>1, <3>2, <3>3, <3>4, <3>5, <3>6, <3>7 DEF Client!CallSteps
  <2>6. ASSUME NEW c \in Calls, NEW kind \in Client!Kinds, Client!Arrive(c, kind)
        PROVE  UNCHANGED <<logins, bound>>
    BY <2>6 DEF Client!Arrive
  <2>7. CASE UNCHANGED Client!linkVars
    BY <2>7, <2>1 DEF Client!linkVars
  <2> QED
    BY <2>1, <2>2, <2>3, <2>4, <2>5, <2>6, <2>7 DEF Client!Next
<1> QED
  BY <1>1, <1>2, PTL DEF Client!Spec

\* The variables keep their types (client.rs and main.rs).
THEOREM ClientTypeCorrect ==
  ASSUME Client!ClientConstants
  PROVE  Client!Spec => []Client!TypeOK
<1>1. ClientInv /\ ClientCounts => Client!TypeOK
  BY DEF ClientInv, ClientTypes, ClientCounts, Files, Servers, Connections, Called, Tokens, Ends,
     Client!TypeOK
<1> QED
  BY <1>1, ClientInvariant, ClientCounted, PTL

\* A write is done at most once, whatever breaks under it and however often it is tried
\* again, for any calls and daemons (call of main.rs and request of client.rs).
THEOREM WritesHappenOnce ==
  ASSUME Client!ClientConstants
  PROVE  Client!Spec => []Client!WrittenOnce
<1>1. ClientInv => Client!WrittenOnce
  BY ClientTruth
<1> QED
  BY <1>1, ClientInvariant, PTL

\* A call during which nothing fails or changes succeeds, whatever failed before it.
THEOREM SteadyCallsGoThrough ==
  ASSUME Client!ClientConstants
  PROVE  Client!Spec => []Client!SteadyCallsSucceed
<1>1. ClientInv => Client!SteadyCallsSucceed
  BY ClientTruth
<1> QED
  BY <1>1, ClientInvariant, PTL

\* Where no daemon starts beside another, a call is refused for its token only after the
\* token has changed three times during it: one restart of the daemon is survived
\* (dial of main.rs).
THEOREM RestartsAreSurvived ==
  ASSUME Client!ClientConstants, \A p \in CallPlans : p.overlaps = 0
  PROVE  Client!Spec => []Client!OneRotationSurvived
<1>1. Client!Init => RotationInv
  BY RotationInit
<1>2. ClientInv /\ RotationInv /\ [Client!Next]_(Client!linkVars) => RotationInv'
  BY RotationStep, ClientStays
<1>3. RotationInv => Client!OneRotationSurvived
  BY RotationTruth
<1> QED
  BY <1>1, <1>2, <1>3, ClientInvariant, PTL DEF Client!Spec

-----------------------------------------------------------------------------
(* Terminals and transfers.                                                *)

Using ==
  [pc : {"idle", "keyed", "ready", "running", "stopping", "joined", "ended", "dead"},
   kind : {Login!Idle.kind, "terminal", "transfer"}, inline : BOOLEAN, secret : BOOLEAN]
Brokers == [pc : {"none", "listening", "reading", "gone"}, stop : BOOLEAN, late : BOOLEAN]
Helpers ==
  [pc : {"none", "started", "connected", "sent", "answered", "refused", "gone"}, asks : Nat]

LoginTypes ==
  /\ use \in [Uses -> Using]
  /\ keys \subseteq Uses /\ torn \subseteq keys
  /\ broker \in [Uses -> Brokers]
  /\ helper \in [Uses -> Helpers]
  /\ plan.uses \subseteq Uses
  /\ plan.logins \subseteq Login!Logins

\* What is so of a use at each point of its life: before it begins it has nothing; a broker is
\* stopped, and waited for, before the key file goes; a broker that is gone was stopped, was
\* late, or died with its process.
Stage(u) ==
  LET pc == use[u].pc
      quiet == broker[u].pc \in {"none", "gone"}
      excused == broker[u].late \/ broker[u].stop \/ pc \in {"ended", "dead"}
  IN /\ pc \in {"idle", "keyed"} => broker[u].pc = "none"
     /\ pc \in {"idle", "keyed", "ready"} => helper[u].pc = "none"
     /\ pc = "idle" => u \notin keys
     /\ u \in torn => pc = "ended"
     /\ pc \in {"ready", "running"} /\ use[u].secret => broker[u].pc # "none"
     /\ pc \in {"stopping", "joined"} => broker[u].stop
     /\ pc \in {"joined", "ended"} => quiet
     /\ pc = "ended" /\ u \in keys => u \in torn
     /\ broker[u].pc = "gone" => excused
     /\ helper[u].pc # "none" => use[u].secret
     /\ helper[u].pc = "refused" => excused \/ Inherits

LoginInv == LoginTypes /\ \A u \in Uses : Stage(u)

Same(u) ==
  /\ use'[u] = use[u] /\ broker'[u] = broker[u] /\ helper'[u] = helper[u]
  /\ (u \in keys') <=> (u \in keys)
  /\ (u \in torn') <=> (u \in torn)

\* A step of one use leaves the others as they are.
LEMMA LoginFrame ==
  ASSUME LoginInv, LoginTypes', NEW u \in Uses, Stage(u)', \A v \in Uses \ {u} : Same(v)
  PROVE  LoginInv'
<1>1. ASSUME NEW v \in Uses \ {u} PROVE Stage(v)'
  BY <1>1 DEF LoginInv, Stage, Same
<1>2. QED
  BY <1>1 DEF LoginInv

LEMMA LoginInit == Login!LoginConstants /\ Login!Init => LoginInv
<1> SUFFICES ASSUME Login!LoginConstants, Login!Init PROVE LoginInv
  OBVIOUS
<1>1. use \in [Uses -> Using]
  BY DEF Login!Init, Login!Idle, Using
<1>2. broker \in [Uses -> Brokers] /\ helper \in [Uses -> Helpers]
  BY DEF Login!Init, Login!NoBroker, Login!NoHelper, Brokers, Helpers
<1>3. LoginTypes
  BY <1>1, <1>2 DEF Login!Init, LoginTypes, Login!LoginConstants
<1>4. ASSUME NEW u \in Uses PROVE Stage(u)
  BY DEF Login!Init, Stage, Login!Idle, Login!NoBroker, Login!NoHelper
<1>5. QED
  BY <1>3, <1>4 DEF LoginInv

\* A key file is written for a use that had none.
LEMMA LoginPrepare ==
  ASSUME LoginInv, NEW u \in plan.uses, NEW login \in plan.logins, Login!Prepare(u, login)
  PROVE  LoginInv'
<1>1. LoginTypes /\ u \in Uses /\ Stage(u)
  BY DEF LoginInv, LoginTypes
<1>2. LoginTypes'
  <2>1. use' \in [Uses -> Using]
    BY <1>1 DEF LoginTypes, Login!Prepare, Login!At, Login!Logins, Login!Idle, Using
  <2>2. broker' \in [Uses -> Brokers]
    BY <1>1 DEF LoginTypes, Login!Prepare, Login!At, Brokers
  <2>3. helper' \in [Uses -> Helpers]
    BY <1>1 DEF LoginTypes, Login!Prepare, Login!At, Helpers
  <2>4. keys' \subseteq Uses /\ torn' \subseteq keys' /\ plan' = plan
    BY <1>1 DEF LoginTypes, Login!Prepare, Login!At, Stage
  <2>5. QED
    BY <1>1, <2>1, <2>2, <2>3, <2>4 DEF LoginTypes
<1>3. \A v \in Uses \ {u} : Same(v)
  BY <1>1 DEF LoginTypes, Login!Prepare, Login!At, Same
<1>4. Stage(u)'
  BY <1>1 DEF LoginTypes, Login!Prepare, Login!At, Stage, Login!Logins, Login!Idle, Using,
     Brokers, Helpers
<1>5. QED
  BY <1>1, <1>2, <1>3, <1>4, LoginFrame

LEMMA LoginPrepareFails ==
  ASSUME LoginInv, NEW u \in plan.uses, NEW login \in plan.logins, Login!PrepareFails(u, login)
  PROVE  LoginInv'
<1>1. LoginTypes /\ u \in Uses /\ Stage(u)
  BY DEF LoginInv, LoginTypes
<1>2. LoginTypes'
  <2>1. use' \in [Uses -> Using]
    BY <1>1 DEF LoginTypes, Login!PrepareFails, Login!At, Login!Logins, Login!Idle, Using
  <2>2. broker' \in [Uses -> Brokers]
    BY <1>1 DEF LoginTypes, Login!PrepareFails, Login!At, Brokers
  <2>3. helper' \in [Uses -> Helpers]
    BY <1>1 DEF LoginTypes, Login!PrepareFails, Login!At, Helpers
  <2>4. keys' \subseteq Uses /\ torn' \subseteq keys' /\ plan' = plan
    BY <1>1 DEF LoginTypes, Login!PrepareFails, Login!At, Stage
  <2>5. QED
    BY <1>1, <2>1, <2>2, <2>3, <2>4 DEF LoginTypes
<1>3. \A v \in Uses \ {u} : Same(v)
  BY <1>1 DEF LoginTypes, Login!PrepareFails, Login!At, Same
<1>4. Stage(u)'
  BY <1>1 DEF LoginTypes, Login!PrepareFails, Login!At, Stage, Login!Logins, Login!Idle, Using,
     Brokers, Helpers
<1>5. QED
  BY <1>1, <1>2, <1>3, <1>4, LoginFrame

\* The broker listens where there is a secret, and nowhere else.
LEMMA LoginStartBroker ==
  ASSUME LoginInv, NEW u \in Uses, Login!StartBroker(u)
  PROVE  LoginInv'
<1>1. LoginTypes /\ u \in Uses /\ Stage(u)
  BY DEF LoginInv, LoginTypes
<1>2. LoginTypes'
  <2>1. use' \in [Uses -> Using]
    BY <1>1 DEF LoginTypes, Login!StartBroker, Login!At, Login!Goes, Using
  <2>2. broker' \in [Uses -> Brokers]
    BY <1>1 DEF LoginTypes, Login!StartBroker, Login!At, Login!Goes, Brokers
  <2>3. helper' \in [Uses -> Helpers]
    BY <1>1 DEF LoginTypes, Login!StartBroker, Login!At, Login!Goes, Helpers
  <2>4. keys' \subseteq Uses /\ torn' \subseteq keys' /\ plan' = plan
    BY <1>1 DEF LoginTypes, Login!StartBroker, Login!At, Login!Goes, Stage
  <2>5. QED
    BY <1>1, <2>1, <2>2, <2>3, <2>4 DEF LoginTypes
<1>3. \A v \in Uses \ {u} : Same(v)
  BY <1>1 DEF LoginTypes, Login!StartBroker, Login!At, Login!Goes, Same
<1>4. Stage(u)'
  BY <1>1 DEF LoginTypes, Login!StartBroker, Login!At, Login!Goes, Stage, Using, Brokers, Helpers
<1>5. QED
  BY <1>1, <1>2, <1>3, <1>4, LoginFrame

LEMMA LoginSpawn ==
  ASSUME LoginInv, NEW u \in Uses, Login!Spawn(u)
  PROVE  LoginInv'
<1>1. LoginTypes /\ u \in Uses /\ Stage(u)
  BY DEF LoginInv, LoginTypes
<1>2. LoginTypes'
  <2>1. use' \in [Uses -> Using]
    BY <1>1 DEF LoginTypes, Login!Spawn, Login!At, Login!Goes, Using
  <2>2. broker' \in [Uses -> Brokers]
    BY <1>1 DEF LoginTypes, Login!Spawn, Login!At, Login!Goes, Brokers
  <2>3. helper' \in [Uses -> Helpers]
    BY <1>1 DEF LoginTypes, Login!Spawn, Login!At, Login!Goes, Helpers
  <2>4. keys' \subseteq Uses /\ torn' \subseteq keys' /\ plan' = plan
    BY <1>1 DEF LoginTypes, Login!Spawn, Login!At, Login!Goes, Stage
  <2>5. QED
    BY <1>1, <2>1, <2>2, <2>3, <2>4 DEF LoginTypes
<1>3. \A v \in Uses \ {u} : Same(v)
  BY <1>1 DEF LoginTypes, Login!Spawn, Login!At, Login!Goes, Same
<1>4. Stage(u)'
  BY <1>1 DEF LoginTypes, Login!Spawn, Login!At, Login!Goes, Stage, Using, Brokers, Helpers
<1>5. QED
  BY <1>1, <1>2, <1>3, <1>4, LoginFrame

LEMMA LoginStartFails ==
  ASSUME LoginInv, NEW u \in Uses, Login!StartFails(u)
  PROVE  LoginInv'
<1>1. LoginTypes /\ u \in Uses /\ Stage(u)
  BY DEF LoginInv, LoginTypes
<1>2. LoginTypes'
  <2>1. use' \in [Uses -> Using]
    BY <1>1 DEF LoginTypes, Login!StartFails, Login!Goes, Login!CleanUp, Using
  <2>2. broker' \in [Uses -> Brokers]
    BY <1>1 DEF LoginTypes, Login!StartFails, Login!Goes, Login!CleanUp, Brokers
  <2>3. helper' \in [Uses -> Helpers]
    BY <1>1 DEF LoginTypes, Login!StartFails, Login!Goes, Login!CleanUp, Helpers
  <2>4. keys' \subseteq Uses /\ torn' \subseteq keys' /\ plan' = plan
    BY <1>1 DEF LoginTypes, Login!StartFails, Login!Goes, Login!CleanUp, Stage
  <2>5. QED
    BY <1>1, <2>1, <2>2, <2>3, <2>4 DEF LoginTypes
<1>3. \A v \in Uses \ {u} : Same(v)
  BY <1>1 DEF LoginTypes, Login!StartFails, Login!Goes, Login!CleanUp, Same
<1>4. Stage(u)'
  <2>1. UNCHANGED <<keys, torn, helper>> /\ use[u].pc \in {"keyed", "ready"}
    BY DEF Login!StartFails
  <2>2. use'[u] = [use[u] EXCEPT !.pc = "stopping"]
    BY <1>1 DEF Login!StartFails, Login!CleanUp, Login!Goes, LoginTypes
  <2>3. use'[u].pc = "stopping" /\ use'[u].secret = use[u].secret
    BY <1>1, <2>2 DEF LoginTypes, Using
  <2>4. broker'[u] = [broker[u] EXCEPT !.stop = TRUE]
    BY <1>1 DEF Login!StartFails, Login!CleanUp, LoginTypes
  <2>5. broker'[u].stop /\ broker'[u].pc = broker[u].pc
    BY <1>1, <2>4 DEF LoginTypes, Brokers
  <2>6. QED
    BY <1>1, <2>1, <2>3, <2>5 DEF Stage
<1>5. QED
  BY <1>1, <1>2, <1>3, <1>4, LoginFrame

LEMMA LoginOver ==
  ASSUME LoginInv, NEW u \in Uses, Login!Over(u)
  PROVE  LoginInv'
<1>1. LoginTypes /\ u \in Uses /\ Stage(u)
  BY DEF LoginInv, LoginTypes
<1>2. LoginTypes'
  <2>1. use' \in [Uses -> Using]
    BY <1>1 DEF LoginTypes, Login!Over, Login!At, Login!Goes, Login!CleanUp, Using
  <2>2. broker' \in [Uses -> Brokers]
    BY <1>1 DEF LoginTypes, Login!Over, Login!At, Login!Goes, Login!CleanUp, Brokers
  <2>3. helper' \in [Uses -> Helpers]
    BY <1>1 DEF LoginTypes, Login!Over, Login!At, Login!Goes, Login!CleanUp, Helpers
  <2>4. keys' \subseteq Uses /\ torn' \subseteq keys' /\ plan' = plan
    BY <1>1 DEF LoginTypes, Login!Over, Login!At, Login!Goes, Login!CleanUp, Stage
  <2>5. QED
    BY <1>1, <2>1, <2>2, <2>3, <2>4 DEF LoginTypes
<1>3. \A v \in Uses \ {u} : Same(v)
  BY <1>1 DEF LoginTypes, Login!Over, Login!At, Login!Goes, Login!CleanUp, Same
<1>4. Stage(u)'
  BY <1>1 DEF LoginTypes, Login!Over, Login!At, Login!Goes, Login!CleanUp, Stage, Using,
     Brokers, Helpers
<1>5. QED
  BY <1>1, <1>2, <1>3, <1>4, LoginFrame

\* The broker is waited for before the key goes.
LEMMA LoginJoin ==
  ASSUME LoginInv, NEW u \in Uses, Login!Join(u)
  PROVE  LoginInv'
<1>1. LoginTypes /\ u \in Uses /\ Stage(u)
  BY DEF LoginInv, LoginTypes
<1>2. LoginTypes'
  <2>1. use' \in [Uses -> Using]
    BY <1>1 DEF LoginTypes, Login!Join, Login!At, Login!Goes, Using
  <2>2. broker' \in [Uses -> Brokers]
    BY <1>1 DEF LoginTypes, Login!Join, Login!At, Login!Goes, Brokers
  <2>3. helper' \in [Uses -> Helpers]
    BY <1>1 DEF LoginTypes, Login!Join, Login!At, Login!Goes, Helpers
  <2>4. keys' \subseteq Uses /\ torn' \subseteq keys' /\ plan' = plan
    BY <1>1 DEF LoginTypes, Login!Join, Login!At, Login!Goes, Stage
  <2>5. QED
    BY <1>1, <2>1, <2>2, <2>3, <2>4 DEF LoginTypes
<1>3. \A v \in Uses \ {u} : Same(v)
  BY <1>1 DEF LoginTypes, Login!Join, Login!At, Login!Goes, Same
<1>4. Stage(u)'
  BY <1>1 DEF LoginTypes, Login!Join, Login!At, Login!Goes, Stage, Using, Brokers, Helpers
<1>5. QED
  BY <1>1, <1>2, <1>3, <1>4, LoginFrame

LEMMA LoginRemoveKey ==
  ASSUME LoginInv, NEW u \in Uses, Login!RemoveKey(u)
  PROVE  LoginInv'
<1>1. LoginTypes /\ u \in Uses /\ Stage(u)
  BY DEF LoginInv, LoginTypes
<1>2. LoginTypes'
  <2>1. use' \in [Uses -> Using]
    BY <1>1 DEF LoginTypes, Login!RemoveKey, Login!At, Login!Goes, Using
  <2>2. broker' \in [Uses -> Brokers]
    BY <1>1 DEF LoginTypes, Login!RemoveKey, Login!At, Login!Goes, Brokers
  <2>3. helper' \in [Uses -> Helpers]
    BY <1>1 DEF LoginTypes, Login!RemoveKey, Login!At, Login!Goes, Helpers
  <2>4. keys' \subseteq Uses /\ torn' \subseteq keys' /\ plan' = plan
    BY <1>1 DEF LoginTypes, Login!RemoveKey, Login!At, Login!Goes, Stage
  <2>5. QED
    BY <1>1, <2>1, <2>2, <2>3, <2>4 DEF LoginTypes
<1>3. \A v \in Uses \ {u} : Same(v)
  BY <1>1 DEF LoginTypes, Login!RemoveKey, Login!At, Login!Goes, Same
<1>4. Stage(u)'
  BY <1>1 DEF LoginTypes, Login!RemoveKey, Login!At, Login!Goes, Stage, Using, Brokers, Helpers
<1>5. QED
  BY <1>1, <1>2, <1>3, <1>4, LoginFrame

\* The broker's thread.
LEMMA LoginAccept ==
  ASSUME LoginInv, NEW u \in Uses, Login!Accept(u)
  PROVE  LoginInv'
<1>1. LoginTypes /\ u \in Uses /\ Stage(u)
  BY DEF LoginInv, LoginTypes
<1>2. LoginTypes'
  <2>1. use' \in [Uses -> Using]
    BY <1>1 DEF LoginTypes, Login!Accept, Using
  <2>2. broker' \in [Uses -> Brokers]
    BY <1>1 DEF LoginTypes, Login!Accept, Brokers
  <2>3. helper' \in [Uses -> Helpers]
    BY <1>1 DEF LoginTypes, Login!Accept, Helpers
  <2>4. keys' \subseteq Uses /\ torn' \subseteq keys' /\ plan' = plan
    BY <1>1 DEF LoginTypes, Login!Accept, Stage
  <2>5. QED
    BY <1>1, <2>1, <2>2, <2>3, <2>4 DEF LoginTypes
<1>3. \A v \in Uses \ {u} : Same(v)
  BY <1>1 DEF LoginTypes, Login!Accept, Same
<1>4. Stage(u)'
  BY <1>1 DEF LoginTypes, Login!Accept, Stage, Using, Brokers, Helpers
<1>5. QED
  BY <1>1, <1>2, <1>3, <1>4, LoginFrame

LEMMA LoginRead ==
  ASSUME LoginInv, NEW u \in Uses, Login!Read(u)
  PROVE  LoginInv'
<1>1. LoginTypes /\ u \in Uses /\ Stage(u)
  BY DEF LoginInv, LoginTypes
<1>2. LoginTypes'
  <2>1. use' \in [Uses -> Using]
    BY <1>1 DEF LoginTypes, Login!Read, Using
  <2>2. broker' \in [Uses -> Brokers]
    BY <1>1 DEF LoginTypes, Login!Read, Brokers
  <2>3. helper' \in [Uses -> Helpers]
    BY <1>1 DEF LoginTypes, Login!Read, Helpers
  <2>4. keys' \subseteq Uses /\ torn' \subseteq keys' /\ plan' = plan
    BY <1>1 DEF LoginTypes, Login!Read, Stage
  <2>5. QED
    BY <1>1, <2>1, <2>2, <2>3, <2>4 DEF LoginTypes
<1>3. \A v \in Uses \ {u} : Same(v)
  BY <1>1 DEF LoginTypes, Login!Read, Same
<1>4. Stage(u)'
  <2>1. UNCHANGED <<use, keys, torn>> /\ broker' = [broker EXCEPT ![u].pc = "listening"]
        /\ broker[u].pc = "reading"
    BY DEF Login!Read
  <2>2. broker'[u] = [broker[u] EXCEPT !.pc = "listening"]
    BY <1>1, <2>1 DEF LoginTypes
  <2>3. /\ broker'[u].pc = "listening" /\ broker'[u].late = broker[u].late
        /\ broker'[u].stop = broker[u].stop
    BY <1>1, <2>2 DEF LoginTypes, Brokers
  <2>4. \/ helper'[u].pc = "answered" /\ helper[u].pc = "sent"
        \/ Inherits /\ helper'[u].pc = "refused" /\ helper[u].pc = "connected"
        \/ helper' = helper
    BY <1>1 DEF Login!Read, LoginTypes, Helpers
  <2>5. QED
    BY <1>1, <2>1, <2>3, <2>4 DEF Stage
<1>5. QED
  BY <1>1, <1>2, <1>3, <1>4, LoginFrame

LEMMA LoginDeadline ==
  ASSUME LoginInv, NEW u \in Uses, Login!Deadline(u)
  PROVE  LoginInv'
<1>1. LoginTypes /\ u \in Uses /\ Stage(u)
  BY DEF LoginInv, LoginTypes
<1>2. LoginTypes'
  <2>1. use' \in [Uses -> Using]
    BY <1>1 DEF LoginTypes, Login!Deadline, Using
  <2>2. broker' \in [Uses -> Brokers]
    BY <1>1 DEF LoginTypes, Login!Deadline, Brokers
  <2>3. helper' \in [Uses -> Helpers]
    BY <1>1 DEF LoginTypes, Login!Deadline, Helpers
  <2>4. keys' \subseteq Uses /\ torn' \subseteq keys' /\ plan' = plan
    BY <1>1 DEF LoginTypes, Login!Deadline, Stage
  <2>5. QED
    BY <1>1, <2>1, <2>2, <2>3, <2>4 DEF LoginTypes
<1>3. \A v \in Uses \ {u} : Same(v)
  BY <1>1 DEF LoginTypes, Login!Deadline, Same
<1>4. Stage(u)'
  BY <1>1 DEF LoginTypes, Login!Deadline, Stage, Using, Brokers, Helpers
<1>5. QED
  BY <1>1, <1>2, <1>3, <1>4, LoginFrame

LEMMA LoginBrokerEnds ==
  ASSUME LoginInv, NEW u \in Uses, Login!BrokerEnds(u)
  PROVE  LoginInv'
<1>1. LoginTypes /\ u \in Uses /\ Stage(u)
  BY DEF LoginInv, LoginTypes
<1>2. LoginTypes'
  <2>1. use' \in [Uses -> Using]
    BY <1>1 DEF LoginTypes, Login!BrokerEnds, Using
  <2>2. broker' \in [Uses -> Brokers]
    BY <1>1 DEF LoginTypes, Login!BrokerEnds, Brokers
  <2>3. helper' \in [Uses -> Helpers]
    BY <1>1 DEF LoginTypes, Login!BrokerEnds, Helpers
  <2>4. keys' \subseteq Uses /\ torn' \subseteq keys' /\ plan' = plan
    BY <1>1 DEF LoginTypes, Login!BrokerEnds, Stage
  <2>5. QED
    BY <1>1, <2>1, <2>2, <2>3, <2>4 DEF LoginTypes
<1>3. \A v \in Uses \ {u} : Same(v)
  BY <1>1 DEF LoginTypes, Login!BrokerEnds, Same
<1>4. Stage(u)'
  BY <1>1 DEF LoginTypes, Login!BrokerEnds, Stage, Using, Brokers, Helpers
<1>5. QED
  BY <1>1, <1>2, <1>3, <1>4, LoginFrame

\* The helper asks where there is a secret, and is refused by a broker that is gone only.
LEMMA LoginAsk ==
  ASSUME LoginInv, NEW u \in Uses, Login!Ask(u)
  PROVE  LoginInv'
<1>1. LoginTypes /\ u \in Uses /\ Stage(u)
  BY DEF LoginInv, LoginTypes
<1>2. LoginTypes'
  <2>1. use' \in [Uses -> Using]
    BY <1>1 DEF LoginTypes, Login!Ask, Login!At, Using
  <2>2. broker' \in [Uses -> Brokers]
    BY <1>1 DEF LoginTypes, Login!Ask, Login!At, Brokers
  <2>3. helper' \in [Uses -> Helpers]
    BY <1>1 DEF LoginTypes, Login!Ask, Login!At, Helpers
  <2>4. keys' \subseteq Uses /\ torn' \subseteq keys' /\ plan' = plan
    BY <1>1 DEF LoginTypes, Login!Ask, Login!At, Stage
  <2>5. QED
    BY <1>1, <2>1, <2>2, <2>3, <2>4 DEF LoginTypes
<1>3. \A v \in Uses \ {u} : Same(v)
  BY <1>1 DEF LoginTypes, Login!Ask, Login!At, Same
<1>4. Stage(u)'
  BY <1>1 DEF LoginTypes, Login!Ask, Login!At, Stage, Using, Brokers, Helpers
<1>5. QED
  BY <1>1, <1>2, <1>3, <1>4, LoginFrame

LEMMA LoginHelperConnects ==
  ASSUME LoginInv, NEW u \in Uses, Login!HelperConnects(u)
  PROVE  LoginInv'
<1>1. LoginTypes /\ u \in Uses /\ Stage(u)
  BY DEF LoginInv, LoginTypes
<1>2. LoginTypes'
  <2>1. use' \in [Uses -> Using]
    BY <1>1 DEF LoginTypes, Login!HelperConnects, Using
  <2>2. broker' \in [Uses -> Brokers]
    BY <1>1 DEF LoginTypes, Login!HelperConnects, Brokers
  <2>3. helper' \in [Uses -> Helpers]
    BY <1>1 DEF LoginTypes, Login!HelperConnects, Helpers
  <2>4. keys' \subseteq Uses /\ torn' \subseteq keys' /\ plan' = plan
    BY <1>1 DEF LoginTypes, Login!HelperConnects, Stage
  <2>5. QED
    BY <1>1, <2>1, <2>2, <2>3, <2>4 DEF LoginTypes
<1>3. \A v \in Uses \ {u} : Same(v)
  BY <1>1 DEF LoginTypes, Login!HelperConnects, Same
<1>4. Stage(u)'
  BY <1>1 DEF LoginTypes, Login!HelperConnects, Stage, Using, Brokers, Helpers
<1>5. QED
  BY <1>1, <1>2, <1>3, <1>4, LoginFrame

LEMMA LoginHelperSends ==
  ASSUME LoginInv, NEW u \in Uses, Login!HelperSends(u)
  PROVE  LoginInv'
<1>1. LoginTypes /\ u \in Uses /\ Stage(u)
  BY DEF LoginInv, LoginTypes
<1>2. LoginTypes'
  <2>1. use' \in [Uses -> Using]
    BY <1>1 DEF LoginTypes, Login!HelperSends, Using
  <2>2. broker' \in [Uses -> Brokers]
    BY <1>1 DEF LoginTypes, Login!HelperSends, Brokers
  <2>3. helper' \in [Uses -> Helpers]
    BY <1>1 DEF LoginTypes, Login!HelperSends, Helpers
  <2>4. keys' \subseteq Uses /\ torn' \subseteq keys' /\ plan' = plan
    BY <1>1 DEF LoginTypes, Login!HelperSends, Stage
  <2>5. QED
    BY <1>1, <2>1, <2>2, <2>3, <2>4 DEF LoginTypes
<1>3. \A v \in Uses \ {u} : Same(v)
  BY <1>1 DEF LoginTypes, Login!HelperSends, Same
<1>4. Stage(u)'
  BY <1>1 DEF LoginTypes, Login!HelperSends, Stage, Using, Brokers, Helpers
<1>5. QED
  BY <1>1, <1>2, <1>3, <1>4, LoginFrame

LEMMA LoginHelperFails ==
  ASSUME LoginInv, NEW u \in Uses, Login!HelperFails(u)
  PROVE  LoginInv'
<1>1. LoginTypes /\ u \in Uses /\ Stage(u)
  BY DEF LoginInv, LoginTypes
<1>2. LoginTypes'
  <2>1. use' \in [Uses -> Using]
    BY <1>1 DEF LoginTypes, Login!HelperFails, Using
  <2>2. broker' \in [Uses -> Brokers]
    BY <1>1 DEF LoginTypes, Login!HelperFails, Brokers
  <2>3. helper' \in [Uses -> Helpers]
    BY <1>1 DEF LoginTypes, Login!HelperFails, Helpers
  <2>4. keys' \subseteq Uses /\ torn' \subseteq keys' /\ plan' = plan
    BY <1>1 DEF LoginTypes, Login!HelperFails, Stage
  <2>5. QED
    BY <1>1, <2>1, <2>2, <2>3, <2>4 DEF LoginTypes
<1>3. \A v \in Uses \ {u} : Same(v)
  BY <1>1 DEF LoginTypes, Login!HelperFails, Same
<1>4. Stage(u)'
  BY <1>1 DEF LoginTypes, Login!HelperFails, Stage, Using, Brokers, Helpers
<1>5. QED
  BY <1>1, <1>2, <1>3, <1>4, LoginFrame

LEMMA LoginHelperDies ==
  ASSUME LoginInv, NEW u \in Uses, Login!HelperDies(u)
  PROVE  LoginInv'
<1>1. LoginTypes /\ u \in Uses /\ Stage(u)
  BY DEF LoginInv, LoginTypes
<1>2. LoginTypes'
  <2>1. use' \in [Uses -> Using]
    BY <1>1 DEF LoginTypes, Login!HelperDies, Login!At, Using
  <2>2. broker' \in [Uses -> Brokers]
    BY <1>1 DEF LoginTypes, Login!HelperDies, Login!At, Brokers
  <2>3. helper' \in [Uses -> Helpers]
    BY <1>1 DEF LoginTypes, Login!HelperDies, Login!At, Helpers
  <2>4. keys' \subseteq Uses /\ torn' \subseteq keys' /\ plan' = plan
    BY <1>1 DEF LoginTypes, Login!HelperDies, Login!At, Stage
  <2>5. QED
    BY <1>1, <2>1, <2>2, <2>3, <2>4 DEF LoginTypes
<1>3. \A v \in Uses \ {u} : Same(v)
  BY <1>1 DEF LoginTypes, Login!HelperDies, Login!At, Same
<1>4. Stage(u)'
  BY <1>1 DEF LoginTypes, Login!HelperDies, Login!At, Stage, Using, Brokers, Helpers
<1>5. QED
  BY <1>1, <1>2, <1>3, <1>4, LoginFrame

\* A process dies with all its uses.
LEMMA LoginDie ==
  ASSUME LoginInv, NEW kind, Login!Die(kind)
  PROVE  LoginInv'
<1> DEFINE gone == {u \in Uses : Login!Busy(u) /\ use[u].kind = kind}
<1>1. LoginTypes /\ UNCHANGED <<keys, torn, helper, plan>>
  BY DEF LoginInv, Login!Die
<1>2. use' = [u \in Uses |-> IF u \in gone THEN [use[u] EXCEPT !.pc = "dead"] ELSE use[u]]
  BY DEF Login!Die
<1>3. broker' = [u \in Uses |-> IF u \in gone /\ broker[u].pc # "none"
                               THEN [broker[u] EXCEPT !.pc = "gone"] ELSE broker[u]]
  BY DEF Login!Die
<1>4. ASSUME NEW u \in gone PROVE u \in Uses /\ Login!Busy(u)
  OBVIOUS
<1> HIDE DEF gone
<1>5. use' \in [Uses -> Using]
  <2>1. ASSUME NEW u \in Uses PROVE use'[u] \in Using
    BY <1>1, <1>2, <2>1 DEF LoginTypes, Using
  <2>2. QED
    BY <1>2, <2>1
<1>6. broker' \in [Uses -> Brokers]
  <2>1. ASSUME NEW u \in Uses PROVE broker'[u] \in Brokers
    BY <1>1, <1>3, <2>1 DEF LoginTypes, Brokers
  <2>2. QED
    BY <1>3, <2>1
<1>7. LoginTypes'
  BY <1>1, <1>5, <1>6 DEF LoginTypes
<1>8. ASSUME NEW u \in Uses PROVE Stage(u)'
  <2>1. Stage(u) /\ use[u] \in Using /\ broker[u] \in Brokers
    BY <1>1 DEF LoginInv, LoginTypes
  <2>2. CASE u \in gone
    <3>1. use'[u].pc = "dead" /\ use'[u].secret = use[u].secret
      BY <1>2, <2>1, <2>2 DEF Using
    <3>2. u \notin torn
      BY <1>4, <2>1, <2>2 DEF Login!Busy, Stage
    <3>3. QED
      BY <1>1, <2>1, <3>1, <3>2 DEF Stage
  <2>3. CASE u \notin gone
    <3>1. use'[u] = use[u] /\ broker'[u] = broker[u]
      BY <1>2, <1>3, <2>3
    <3>2. QED
      BY <1>1, <2>1, <3>1 DEF Stage
  <2>4. QED
    BY <2>2, <2>3
<1>9. QED
  BY <1>7, <1>8 DEF LoginInv

\* Another session host takes every key file away, and nothing else.
LEMMA LoginHostStarts ==
  ASSUME LoginInv, Login!HostStarts
  PROVE  LoginInv'
<1>1. keys' = {} /\ torn' = {} /\ UNCHANGED <<use, broker, helper>>
  BY DEF Login!HostStarts
<1>2. plan'.uses = plan.uses /\ plan'.logins = plan.logins
  BY DEF Login!HostStarts
<1>3. LoginTypes'
  BY <1>1, <1>2 DEF LoginInv, LoginTypes
<1>4. ASSUME NEW u \in Uses PROVE Stage(u)'
  BY <1>1, <1>4 DEF LoginInv, Stage
<1>5. QED
  BY <1>3, <1>4 DEF LoginInv

LEMMA LoginStep ==
  ASSUME LoginInv, Login!Next
  PROVE  LoginInv'
  BY LoginPrepare, LoginPrepareFails, LoginStartBroker, LoginSpawn, LoginStartFails, LoginOver,
     LoginJoin, LoginRemoveKey, LoginDie, LoginHostStarts, LoginAccept, LoginRead,
     LoginDeadline, LoginBrokerEnds, LoginAsk, LoginHelperConnects, LoginHelperSends,
     LoginHelperFails, LoginHelperDies DEF Login!Next

\* What the invariant says of the ends of uses and helpers.
LEMMA LoginTruth ==
  ASSUME LoginInv
  PROVE  Login!SecretsGo /\ (~Inherits => Login!HelpersAreAnswered) /\ Login!TypeOK
<1>1. Login!SecretsGo
  BY DEF LoginInv, Stage, Login!SecretsGo
<1>2. ~Inherits => Login!HelpersAreAnswered
  BY DEF LoginInv, Stage, Login!HelpersAreAnswered, Login!Busy
<1>3. Login!TypeOK
  BY DEF LoginInv, LoginTypes, Using, Brokers, Helpers, Login!TypeOK
<1>4. QED
  BY <1>1, <1>2, <1>3

LEMMA LoginStays ==
  ASSUME LoginInv, UNCHANGED Login!vars
  PROVE  LoginInv'
BY DEF LoginInv, LoginTypes, Stage, Login!vars

LEMMA LoginInvariant ==
  ASSUME Login!LoginConstants
  PROVE  Login!Spec => []LoginInv
<1>1. Login!Init => LoginInv
  BY LoginInit
<1>2. LoginInv /\ [Login!Next]_(Login!vars) => LoginInv'
  BY LoginStep, LoginStays
<1> QED
  BY <1>1, <1>2, PTL DEF Login!Spec

\* The variables keep their types (ssh_auth.rs).
THEOREM LoginTypeCorrect ==
  ASSUME Login!LoginConstants
  PROVE  Login!Spec => []Login!TypeOK
<1>1. LoginInv => Login!TypeOK
  BY LoginTruth
<1> QED
  BY <1>1, LoginInvariant, PTL

\* No secret outlives its use, for any number of terminals and transfers, and whether or
\* not accepted sockets are blocking.
THEOREM SecretsGoWithTheirUse ==
  ASSUME Login!LoginConstants
  PROVE  Login!Spec => []Login!SecretsGo
<1>1. LoginInv => Login!SecretsGo
  BY LoginTruth
<1> QED
  BY <1>1, LoginInvariant, PTL

\* Where accepted sockets are blocking, a helper is refused only by a broker that was
\* stopped, was late, or died with its process.
THEOREM HelpersGetAnswers ==
  ASSUME Login!LoginConstants, ~Inherits
  PROVE  Login!Spec => []Login!HelpersAreAnswered
<1>1. LoginInv => Login!HelpersAreAnswered
  BY LoginTruth
<1> QED
  BY <1>1, LoginInvariant, PTL
================================================================================
