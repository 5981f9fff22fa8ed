---------------------------- MODULE VaultSyncProofs ----------------------------
(***************************************************************************)
(* Proofs about VaultSync: its types; that a baseline never lies about the *)
(* file it names, whatever fails; that "no change" is said of equal vaults *)
(* only; and, without racing writers and without a death between a         *)
(* download and its baseline, that no saved edit is lost.                  *)
(***************************************************************************)
EXTENDS VaultSync, FiniteSetTheorems, TLAPS

-----------------------------------------------------------------------------
(* A hash no file and no baseline has.                                     *)

\* Only finitely many hashes are in use, so there is always a fresh one.
LEMMA InUseFinite == IsFiniteSet(InUse)
<1> DEFINE A == { HashesOf(d) : d \in Devices }
<1>1. ASSUME NEW b PROVE IsFiniteSet(Hashes(b))
  BY FS_EmptySet, FS_Singleton DEF Hashes
<1>2. ASSUME NEW d PROVE IsFiniteSet(HashesOf(d))
  <2>1. IsFiniteSet(IF coord[d] = None THEN {} ELSE Hashes(coord[d].base))
    BY <1>1, FS_EmptySet
  <2>2. IsFiniteSet(Hashes(saved[d]) \cup Hashes(op[d].seen))
    BY <1>1, FS_Union
  <2> QED
    BY <2>1, <2>2, FS_Union DEF HashesOf
<1>3. IsFiniteSet(A)
  <2> DEFINE f == [d \in Devices |-> HashesOf(d)]
  <2>1. f \in Surjection(Devices, A)
    BY DEF Surjection
  <2> QED
    BY <2>1, FS_Surjection, DevicesAssumption
<1>4. IsFiniteSet(UNION A)
  <2>1. \A T \in A : IsFiniteSet(T)
    BY <1>2
  <2> QED
    BY <2>1, <1>3, FS_UNION
<1> QED
  BY <1>1, <1>4, FS_Union DEF InUse

LEMMA FreshIdIsFresh == FreshId \in Nat /\ FreshId \notin InUse
<1> DEFINE k == Cardinality(InUse)
<1>1. k \in Nat
  BY InUseFinite, FS_CardinalityType
<1>2. \E n \in 1..(k + 1) : n \notin InUse
  <2>1. SUFFICES ASSUME 1..(k + 1) \subseteq InUse PROVE FALSE
    OBVIOUS
  <2>2. Cardinality(1..(k + 1)) <= k
    BY <2>1, InUseFinite, FS_Subset
  <2>3. Cardinality(1..(k + 1)) = k + 1
    BY <1>1, FS_Interval
  <2> HIDE DEF k
  <2> QED
    BY <1>1, <2>2, <2>3
<1> HIDE DEF k
<1>3. FreshId = CHOOSE n \in 1..(k + 1) : n \notin InUse
  BY DEF FreshId, k
<1>4. FreshId \in 1..(k + 1) /\ FreshId \notin InUse
  BY <1>2, <1>3
<1> QED
  BY <1>1, <1>4

-----------------------------------------------------------------------------
(* Types, and what an operation in progress relies on.                     *)

\* The mutex keeps the coordinator and the vault in place while an operation
\* runs, and what the operation read or wrote last is there.
OpInv(d) ==
  /\ op[d].pc \notin {"idle", "clear"} => coord[d] # None
  /\ op[d].pc = "clear" => mem[d] # None
  /\ op[d].pc \in {"check", "backup", "apply", "take", "save"} => op[d].seen # None
  /\ op[d].pc = "save" => op[d].seen.vault = mem[d]
OpsInv == \A d \in Devices : OpInv(d)
TypeInv == TypeOK /\ OpsInv

\* None is no vault, no file, no baseline and no coordinator.
LEMMA NoneIsNothing ==
  /\ None \notin Vaults /\ None \notin Files /\ None \notin Baselines
  /\ None \notin Vaults' /\ None \notin Files'
  /\ None \notin [base : Baselines \cup {None}]
<1>1. ASSUME NEW n PROVE 1..n \subseteq Nat
  OBVIOUS
<1> QED
  BY <1>1, NoneAssumption DEF Vaults, Files, Baselines

LEMMA InitTyped == Init => TypeInv
<1>1. SUFFICES ASSUME Init PROVE TypeInv
  OBVIOUS
<1> USE DEF Init
<1>2. Vault0 \in Vaults
  BY DEF Vault0, Vaults
<1>3. [base |-> None] \in [base : Baselines \cup {None}]
  OBVIOUS
<1>4. Idle \in [pc : Steps, kind : {"none", "sync", "local", "remote"}, seen : Files \cup {None}]
  BY DEF Idle, Steps
<1>5. TypeOK
  BY <1>1, <1>2, <1>3, <1>4, LimitsAssumption, NoneIsNothing DEF TypeOK
<1>6. OpsInv
  BY <1>1 DEF OpsInv, OpInv, Idle
<1> QED
  BY <1>5, <1>6 DEF TypeInv

LEMMA EditTyped ==
  ASSUME TypeInv, NEW d \in Devices, Edit(d)
  PROVE  TypeInv'
<1> DEFINE new == [rev |-> mem[d].rev + 1, edits |-> mem[d].edits \cup {edits + 1}]
<1> USE DEF TypeInv, TypeOK, At
<1>1. edits \in Nat /\ edits' = edits + 1 /\ edits' \in 0..MaxEdits
  BY LimitsAssumption DEF Edit
<1>2. 1..edits \subseteq 1..edits' /\ edits' \in 1..edits'
  BY <1>1
<1>3. Vaults \subseteq Vaults'
  BY <1>2 DEF Vaults
<1>4. Files \subseteq Files'
  BY <1>3 DEF Files
<1>5. new \in Vaults'
  BY <1>1, <1>2 DEF Edit, Vaults
<1>6. new # None
  BY <1>5, NoneIsNothing
<1>7. mishaps' \in 0..MaxMishaps
  BY LimitsAssumption DEF Edit, Works, Happens, Mishap
<1> HIDE DEF new
<1>8. TypeOK'
  <2>1. mem' \in [Devices -> Vaults' \cup {None}] /\ disk' \in [Devices -> Vaults']
    BY <1>3, <1>5 DEF Edit, new
  <2>2. UNCHANGED <<remote, copies, coord, saved, op, kept>> /\ mem[d] # None
    BY DEF Edit
  <2>3. op' \in [Devices -> [pc : Steps, kind : {"none", "sync", "local", "remote"},
                             seen : Files' \cup {None}]]
    BY <1>4, <2>2
  <2>4. remote' \in Files' \cup {None} /\ copies' \subseteq Vaults'
    BY <1>3, <1>4, <2>2
  <2>5. acked' \subseteq 1..edits' /\ kept' \subseteq 1..edits'
    BY <1>2, <2>2 DEF Edit
  <2>6. \A x \in Devices : mem'[x] = None => coord'[x] = None
    BY <1>6, <2>2 DEF Edit, new
  <2>7. coord' \in [Devices -> [base : Baselines \cup {None}] \cup {None}]
        /\ saved' \in [Devices -> Baselines \cup {None}]
    BY <2>2
  <2> QED
    BY <1>1, <1>7, <2>1, <2>3, <2>4, <2>5, <2>6, <2>7 DEF Baselines
<1>9. OpsInv'
  BY DEF OpsInv, OpInv, Edit
<1> QED
  BY <1>8, <1>9

Ops    == [pc : Steps, kind : {"none", "sync", "local", "remote"}, seen : Files \cup {None}]
Coords == [base : Baselines \cup {None}]

\* A step of one device changes nothing of the others'.
Alone(d) ==
  /\ disk'  = [disk  EXCEPT ![d] = disk'[d]]
  /\ mem'   = [mem   EXCEPT ![d] = mem'[d]]
  /\ coord' = [coord EXCEPT ![d] = coord'[d]]
  /\ saved' = [saved EXCEPT ![d] = saved'[d]]
  /\ op'    = [op    EXCEPT ![d] = op'[d]]

LEMMA OthersKeepTypes ==
  ASSUME TypeInv, NEW d \in Devices, Alone(d),
         edits' = edits, acked' = acked, mishaps' \in 0..MaxMishaps,
         remote' \in Files \cup {None}, copies' \subseteq Vaults, kept' \subseteq 1..edits,
         disk'[d] \in Vaults, mem'[d] \in Vaults \cup {None},
         coord'[d] \in Coords \cup {None}, saved'[d] \in Baselines \cup {None},
         op'[d] \in Ops, mem'[d] = None => coord'[d] = None, OpInv(d)'
  PROVE  TypeInv'
<1>1. Vaults' = Vaults /\ Files' = Files
  BY DEF Vaults, Files
<1>2. TypeOK'
  BY <1>1 DEF TypeInv, TypeOK, Ops, Coords, Alone
<1>3. OpsInv'
  BY DEF TypeInv, TypeOK, OpsInv, OpInv, Alone
<1> QED
  BY <1>2, <1>3 DEF TypeInv

\* Counting one mishap more, or none, stays within the bound.
LEMMA MishapsBounded ==
  ASSUME TypeOK, Mishap \/ Works
  PROVE  mishaps' \in 0..MaxMishaps
BY LimitsAssumption DEF TypeOK, Mishap, Works

LEMMA LockTyped ==
  ASSUME TypeInv, NEW d \in Devices, Lock(d) \/ Unlock(d) \/ Crash(d)
  PROVE  TypeInv' /\ Alone(d)
<1>0. TypeOK
  BY DEF TypeInv
<1>1. Idle \in Ops
  BY DEF Idle, Steps, Ops
<1>2. CASE Lock(d)
  <2>1. Alone(d)
    BY <1>0, <1>2 DEF Lock, Alone, TypeOK
  <2>2. mem'[d] = None /\ coord'[d] = None /\ disk'[d] = disk[d] /\ saved'[d] = saved[d]
        /\ op'[d] = op[d] /\ At(d, "idle")
    BY <1>0, <1>2 DEF Lock, TypeOK
  <2>3. OpInv(d)'
    BY <2>2 DEF OpInv, At
  <2> QED
    BY <1>0, <1>2, <2>1, <2>2, <2>3, OthersKeepTypes DEF Lock, TypeOK, boundVars, Ops
<1>3. CASE Unlock(d)
  <2>1. Alone(d)
    BY <1>0, <1>3 DEF Unlock, Alone, TypeOK
  <2>2. mem'[d] = disk[d] /\ coord'[d] = [base |-> saved[d]] /\ disk'[d] = disk[d]
        /\ saved'[d] = saved[d] /\ op'[d] = op[d] /\ At(d, "idle")
    BY <1>0, <1>3 DEF Unlock, TypeOK
  <2>3. OpInv(d)'
    BY <2>2 DEF OpInv, At
  <2>4. coord'[d] \in Coords /\ mem'[d] # None
    BY <1>0, <2>2, NoneIsNothing DEF TypeOK, Coords
  <2> QED
    BY <1>0, <1>3, <2>1, <2>2, <2>3, <2>4, OthersKeepTypes DEF Unlock, TypeOK, boundVars, Ops
<1>4. CASE Crash(d)
  <2>1. Alone(d)
    BY <1>0, <1>4 DEF Crash, Alone, TypeOK
  <2>2. mem'[d] = None /\ coord'[d] = None /\ disk'[d] = disk[d] /\ saved'[d] = saved[d]
        /\ op'[d] = Idle
    BY <1>0, <1>4 DEF Crash, TypeOK
  <2>3. OpInv(d)'
    BY <2>2 DEF OpInv, Idle
  <2>4. mishaps' \in 0..MaxMishaps
    BY <1>0, <1>4, MishapsBounded DEF Crash
  <2> QED
    BY <1>0, <1>1, <1>4, <2>1, <2>2, <2>3, <2>4, OthersKeepTypes DEF Crash, TypeOK
<1> QED
  BY <1>2, <1>3, <1>4

\* Starting, looking at the folder and checking it only move the operation on.
OnlyOp(d) ==
  /\ op' = [op EXCEPT ![d] = op'[d]]
  /\ UNCHANGED <<remote, copies, disk, mem, coord, saved, acked, kept, boundVars>>

LEMMA LookingMoves ==
  ASSUME TypeInv, NEW d \in Devices,
         (\E kind \in {"sync", "local", "remote"} : Start(d, kind)) \/ Download(d) \/ Check(d)
  PROVE  /\ OnlyOp(d) /\ op'[d] \in Ops
         /\ op'[d].seen \in {None, remote, op[d].seen}
         /\ op'[d].pc \in {"check", "backup", "apply"} => op'[d].seen = remote /\ remote # None
         /\ op'[d].pc \notin {"take", "save", "clear"}
         /\ coord[d] # None
<1>0. TypeOK /\ OpInv(d)
  BY DEF TypeInv, OpsInv
<1>1. CASE \E kind \in {"sync", "local", "remote"} : Start(d, kind)
  BY <1>0, <1>1 DEF Start, OnlyOp, TypeOK, Ops, Steps
<1>2. CASE Download(d)
  <2>1. coord[d] # None /\ op[d] \in Ops
    BY <1>0, <1>2 DEF Download, OpInv, At, TypeOK, Ops
  <2>2. OnlyOp(d)
    BY <1>0, <1>2 DEF Download, OnlyOp, Finish, TypeOK
  <2>3. \/ op'[d] = [pc |-> IF remote = None THEN "rename" ELSE "check", kind |-> "sync",
                     seen |-> remote]
        \/ op'[d] = Idle
        \/ remote # None /\ op'[d] = [op[d] EXCEPT !.pc = "apply", !.seen = remote]
        \/ remote # None /\ op'[d] = [op[d] EXCEPT !.pc = "backup", !.seen = remote]
    BY <1>0, <1>2 DEF Download, Finish, TypeOK, RemoteChanged
  <2>4. remote \in Files \cup {None}
    BY <1>0 DEF TypeOK
  <2>5. CASE op'[d] = [pc |-> IF remote = None THEN "rename" ELSE "check", kind |-> "sync",
                       seen |-> remote]
    <3>1. CASE remote = None
      BY <2>1, <2>2, <2>4, <2>5, <3>1 DEF Ops, Steps
    <3>2. CASE remote # None
      BY <2>1, <2>2, <2>4, <2>5, <3>2 DEF Ops, Steps
    <3> QED
      BY <3>1, <3>2
  <2>6. CASE op'[d] = Idle
    BY <2>1, <2>2, <2>6 DEF Ops, Steps, Idle
  <2>7. CASE remote # None /\ op'[d] = [op[d] EXCEPT !.pc = "apply", !.seen = remote]
    BY <2>1, <2>2, <2>4, <2>7 DEF Ops, Steps
  <2>8. CASE remote # None /\ op'[d] = [op[d] EXCEPT !.pc = "backup", !.seen = remote]
    BY <2>1, <2>2, <2>4, <2>8 DEF Ops, Steps
  <2> QED
    BY <2>3, <2>5, <2>6, <2>7, <2>8
<1>3. CASE Check(d)
  <2>1. coord[d] # None /\ op[d] \in Ops
    BY <1>0, <1>3 DEF Check, OpInv, At, TypeOK, Ops
  <2>2. OnlyOp(d)
    BY <1>0, <1>3 DEF Check, OnlyOp, Finish, Goto, TypeOK
  <2>3. op'[d] = Idle \/ op'[d] = [op[d] EXCEPT !.pc = "rename"]
    BY <1>0, <1>3 DEF Check, Finish, Goto, TypeOK
  <2> QED
    BY <2>1, <2>2, <2>3 DEF Ops, Steps, Idle
<1> QED
  BY <1>1, <1>2, <1>3

LEMMA LookingTyped ==
  ASSUME TypeInv, NEW d \in Devices,
         (\E kind \in {"sync", "local", "remote"} : Start(d, kind)) \/ Download(d) \/ Check(d)
  PROVE  TypeInv' /\ Alone(d)
<1>0. TypeOK /\ OpInv(d)
  BY DEF TypeInv, OpsInv
<1>1. OnlyOp(d) /\ op'[d] \in Ops
  BY LookingMoves
<1>2. Alone(d)
  BY <1>0, <1>1 DEF Alone, OnlyOp, TypeOK
<1>3. OpInv(d)'
  BY <1>0, <1>1, LookingMoves DEF OnlyOp, OpInv
<1> QED
  BY <1>0, <1>1, <1>2, <1>3, OthersKeepTypes DEF OnlyOp, TypeOK, boundVars, Coords

LEMMA RenameTyped ==
  ASSUME TypeInv, NEW d \in Devices, Rename(d)
  PROVE  TypeInv' /\ Alone(d)
<1> DEFINE new == [id |-> FreshId, vault |-> mem[d]]
<1>0. TypeOK /\ OpInv(d)
  BY DEF TypeInv, OpsInv
<1>1. mem[d] \in Vaults /\ coord[d] # None
  BY <1>0 DEF Rename, OpInv, At, TypeOK
<1>2. new \in Files
  BY <1>1, FreshIdIsFresh DEF Files
<1>3. new # None
  BY <1>2, NoneIsNothing
<1> HIDE DEF new
<1>4. op' = [op EXCEPT ![d].pc = "save", ![d].seen = new]
  BY DEF Rename, new
<1>5. op'[d] = [op[d] EXCEPT !.pc = "save", !.seen = new]
  BY <1>0, <1>4 DEF TypeOK
<1>6. op'[d] \in Ops /\ op'[d].pc = "save" /\ op'[d].seen = new
  BY <1>0, <1>2, <1>5 DEF TypeOK, Ops, Steps
<1>7. UNCHANGED <<disk, mem, coord, saved, acked, kept, boundVars>>
  BY DEF Rename
<1>8. Alone(d)
  BY <1>0, <1>4, <1>7 DEF Alone, TypeOK
<1>9. OpInv(d)'
  BY <1>1, <1>3, <1>6, <1>7 DEF OpInv, new
<1>10. remote' \in {remote, new} /\ copies' \subseteq copies \cup {mem[d]}
  BY DEF Rename, new
<1> QED
  BY <1>0, <1>1, <1>2, <1>6, <1>7, <1>8, <1>9, <1>10, OthersKeepTypes
     DEF TypeOK, boundVars, Coords

\* A new baseline reaches the coordinator, the coordinator and the file, or neither.
LEMMA BaselineSet ==
  ASSUME TypeInv, NEW d \in Devices, coord[d] # None, NEW rev \in Nat, NEW id \in Nat,
         SetBaseline(d, rev, id)
  PROVE  LET b == [rev |-> rev, id |-> id] IN
         /\ b \in Baselines
         /\ coord' = [coord EXCEPT ![d] = coord'[d]] /\ saved' = [saved EXCEPT ![d] = saved'[d]]
         /\ \/ coord'[d] = [base |-> b]
            \/ coord'[d] = coord[d] /\ op[d].kind # "sync" /\ mishaps' # mishaps
         /\ saved'[d] = b \/ saved'[d] = saved[d]
         /\ mishaps' = mishaps => coord'[d] = [base |-> b] /\ saved'[d] = b
         /\ coord'[d] \in Coords /\ saved'[d] \in Baselines \cup {None}
         /\ mishaps' \in 0..MaxMishaps
<1> DEFINE b == [rev |-> rev, id |-> id]
<1>0. TypeOK
  BY DEF TypeInv
<1>1. b \in Baselines /\ coord[d] \in Coords /\ saved[d] \in Baselines \cup {None}
  BY <1>0 DEF Baselines, TypeOK, Coords
<1>2. [base |-> b] \in Coords /\ [coord[d] EXCEPT !.base = b] = [base |-> b]
  BY <1>1 DEF Coords
<1>3. mishaps \in Nat /\ mishaps' \in 0..MaxMishaps
  BY <1>0, MishapsBounded, LimitsAssumption DEF SetBaseline, Happens, TypeOK
<1> HIDE DEF b
<1>4. \/ Works /\ coord' = [coord EXCEPT ![d].base = b] /\ saved' = [saved EXCEPT ![d] = b]
      \/ Mishap /\ coord' = [coord EXCEPT ![d].base = b] /\ UNCHANGED saved
      \/ op[d].kind # "sync" /\ Mishap /\ UNCHANGED <<coord, saved>>
  BY DEF SetBaseline, b, Happens
<1>5. [coord EXCEPT ![d].base = b] = [coord EXCEPT ![d] = [base |-> b]]
  BY <1>0, <1>2
<1>6. Mishap => mishaps' # mishaps
  BY <1>3 DEF Mishap
<1> QED
  BY <1>0, <1>1, <1>2, <1>3, <1>4, <1>5, <1>6 DEF TypeOK, b, Works

LEMMA SaveTyped ==
  ASSUME TypeInv, NEW d \in Devices, Save(d) \/ Take(d)
  PROVE  TypeInv' /\ Alone(d)
<1>0. TypeOK /\ OpInv(d)
  BY DEF TypeInv, OpsInv
<1>1. coord[d] # None /\ mem[d] \in Vaults /\ op[d].seen \in Files
  BY <1>0 DEF Save, Take, At, OpInv, TypeOK
<1>2. mem[d].rev \in Nat /\ op[d].seen.vault \in Vaults /\ op[d].seen.vault.rev \in Nat
      /\ op[d].seen.id \in Nat
  BY <1>1 DEF Vaults, Files
<1>3. PICK rev \in Nat : SetBaseline(d, rev, op[d].seen.id)
  BY <1>2 DEF Save, Take
<1>4. /\ coord' = [coord EXCEPT ![d] = coord'[d]] /\ saved' = [saved EXCEPT ![d] = saved'[d]]
      /\ coord'[d] \in Coords /\ saved'[d] \in Baselines \cup {None}
      /\ mishaps' \in 0..MaxMishaps
  BY <1>1, <1>2, <1>3, BaselineSet
<1>5. mem'[d] \in Vaults /\ mem' = [mem EXCEPT ![d] = mem'[d]]
  BY <1>0, <1>1, <1>2 DEF Save, Take, TypeOK
<1>6. op' = [op EXCEPT ![d] = Idle] /\ op'[d] = Idle /\ Idle \in Ops
      /\ UNCHANGED <<remote, copies, disk, acked, kept, edits>>
  BY <1>0 DEF Save, Take, Finish, TypeOK, Ops, Idle, Steps
<1>7. OpInv(d)' /\ mem'[d] # None
  BY <1>5, <1>6, NoneIsNothing DEF OpInv, Idle
<1>8. Alone(d)
  BY <1>0, <1>4, <1>5, <1>6 DEF Alone, TypeOK
<1> QED
  BY <1>0, <1>4, <1>5, <1>6, <1>7, <1>8, OthersKeepTypes DEF TypeOK

LEMMA ApplyTyped ==
  ASSUME TypeInv, NEW d \in Devices, Backup(d) \/ Apply(d)
  PROVE  TypeInv' /\ Alone(d)
<1>0. TypeOK /\ OpInv(d)
  BY DEF TypeInv, OpsInv
<1>1. coord[d] # None /\ mem[d] \in Vaults /\ op[d].seen \in Files /\ op[d].seen # None
      /\ op[d] \in Ops
  BY <1>0 DEF Backup, Apply, At, OpInv, TypeOK, Ops
<1>2. op[d].seen.vault \in Vaults /\ op[d].seen.vault.edits \in SUBSET (1..edits)
      /\ mem[d].edits \in SUBSET (1..edits)
  BY <1>1 DEF Vaults, Files
<1>3. op'[d] \in {Idle, [op[d] EXCEPT !.pc = "check"], [op[d] EXCEPT !.pc = "apply"],
                  [op[d] EXCEPT !.pc = "take"]}
      /\ op' = [op EXCEPT ![d] = op'[d]]
  BY <1>0 DEF Backup, Apply, Finish, Goto, TypeOK
<1>4. op'[d] \in Ops /\ OpInv(d)' /\ UNCHANGED <<mem, coord>>
  <2>1. UNCHANGED <<mem, coord>>
    BY DEF Backup, Apply
  <2> QED
    BY <1>1, <1>3, <2>1 DEF OpInv, Idle, Ops, Steps
<1>5. disk' = [disk EXCEPT ![d] = disk'[d]] /\ disk'[d] \in Vaults
  BY <1>0, <1>2 DEF Backup, Apply, TypeOK
<1>6. kept' \subseteq 1..edits
  BY <1>0, <1>2 DEF Backup, Apply, TypeOK
<1>7. mishaps' \in 0..MaxMishaps
  BY <1>0, MishapsBounded DEF Backup, Apply, Happens, boundVars, Works
<1>8. UNCHANGED <<remote, copies, mem, coord, saved, acked, edits>>
  BY DEF Backup, Apply, boundVars
<1>9. Alone(d)
  BY <1>0, <1>3, <1>5, <1>8 DEF Alone, TypeOK
<1> QED
  BY <1>0, <1>3, <1>4, <1>5, <1>6, <1>7, <1>8, <1>9, OthersKeepTypes DEF TypeOK, Coords

LEMMA RestoreTyped ==
  ASSUME TypeInv, NEW d \in Devices,
         (\E c \in copies : Adopt(d, c)) \/ ClearState(d) \/ Restore(d) \/ RestoreClear(d)
  PROVE  TypeInv' /\ Alone(d)
<1>0. TypeOK /\ OpInv(d)
  BY DEF TypeInv, OpsInv
<1>1. Vault0 \in Vaults /\ Vault0 # None
  BY NoneIsNothing DEF Vault0, Vaults
<1>2. Idle \in Ops /\ [Idle EXCEPT !.pc = "clear"] \in Ops
  BY DEF Idle, Ops, Steps
<1>3. [base |-> None] \in Coords
  BY DEF Coords
<1>4. CASE \E c \in copies : Adopt(d, c)
  <2>1. PICK c \in copies : Adopt(d, c)
    BY <1>4
  <2>2. c \in Vaults /\ c # None /\ c.edits \subseteq 1..edits /\ disk[d].edits \subseteq 1..edits
    BY <1>0, NoneIsNothing DEF TypeOK, Vaults
  <2>3. Alone(d)
    BY <1>0, <2>1 DEF Adopt, Alone, TypeOK
  <2>4. disk'[d] = c /\ mem'[d] = c /\ op'[d] = op[d] /\ At(d, "idle") /\ coord'[d] = coord[d]
        /\ saved'[d] = saved[d]
    BY <1>0, <2>1 DEF Adopt, TypeOK
  <2>5. OpInv(d)'
    BY <2>4 DEF OpInv, At
  <2> QED
    BY <1>0, <2>1, <2>2, <2>3, <2>4, <2>5, OthersKeepTypes
       DEF Adopt, TypeOK, boundVars, Ops, Coords
<1>5. CASE ClearState(d)
  <2>1. coord[d] \in Coords /\ [coord[d] EXCEPT !.base = None] = [base |-> None]
    BY <1>0, <1>5 DEF ClearState, TypeOK, Coords
  <2>2. coord'[d] = [base |-> None] /\ saved'[d] \in {saved[d], None}
        /\ mem'[d] = mem[d] /\ op'[d] = op[d] /\ At(d, "idle") /\ disk'[d] = disk[d]
        /\ mem'[d] # None
    BY <1>0, <1>5, <2>1 DEF ClearState, TypeOK
  <2>3. Alone(d)
    BY <1>0, <1>5, <2>2 DEF ClearState, Alone, TypeOK
  <2>4. OpInv(d)'
    BY <2>2 DEF OpInv, At
  <2>5. mishaps' \in 0..MaxMishaps
    BY <1>0, <1>5, MishapsBounded DEF ClearState, Happens
  <2> QED
    BY <1>0, <1>3, <1>5, <2>2, <2>3, <2>4, <2>5, OthersKeepTypes DEF ClearState, TypeOK, Ops
<1>6. CASE Restore(d)
  <2>1. Alone(d)
    BY <1>0, <1>6 DEF Restore, Alone, TypeOK
  <2>2. disk'[d] = Vault0 /\ mem'[d] = Vault0 /\ op'[d] = [Idle EXCEPT !.pc = "clear"]
        /\ coord'[d] = coord[d] /\ saved'[d] = saved[d]
    BY <1>0, <1>6 DEF Restore, TypeOK
  <2>3. OpInv(d)'
    BY <1>1, <2>2 DEF OpInv, Idle
  <2>4. mishaps' \in 0..MaxMishaps
    BY <1>0, <1>6, MishapsBounded DEF Restore, Happens
  <2>5. kept' \subseteq 1..edits
    BY <1>0, <1>6 DEF Restore, TypeOK, Vaults
  <2> QED
    BY <1>0, <1>1, <1>2, <1>6, <2>1, <2>2, <2>3, <2>4, <2>5, OthersKeepTypes
       DEF Restore, TypeOK, Coords
<1>7. CASE RestoreClear(d)
  <2>1. coord'[d] \in {[base |-> None], None} /\ saved'[d] \in {saved[d], None}
        /\ mem'[d] = mem[d] /\ op'[d] = Idle /\ disk'[d] = disk[d] /\ mem'[d] # None
    BY <1>0, <1>7 DEF RestoreClear, Finish, TypeOK, OpInv, At
  <2>2. Alone(d)
    BY <1>0, <1>7, <2>1 DEF RestoreClear, Finish, Alone, TypeOK
  <2>3. OpInv(d)'
    BY <2>1 DEF OpInv, Idle
  <2>4. mishaps' \in 0..MaxMishaps
    BY <1>0, <1>7, MishapsBounded DEF RestoreClear, Happens
  <2> QED
    BY <1>0, <1>2, <1>3, <1>7, <2>1, <2>2, <2>3, <2>4, OthersKeepTypes DEF RestoreClear, TypeOK
<1> QED
  BY <1>4, <1>5, <1>6, <1>7

LEMMA FolderTyped ==
  ASSUME TypeInv, (\E c \in copies : Ignore(c)) \/ DeleteRemote
  PROVE  TypeInv' /\ UNCHANGED <<disk, mem, coord, saved, op, acked, edits>>
<1>0. TypeOK
  BY DEF TypeInv
<1>1. UNCHANGED <<disk, mem, coord, saved, op, acked, edits>>
  BY DEF Ignore, DeleteRemote, boundVars, dataVars
<1>2. Vaults' = Vaults /\ Files' = Files
  BY <1>1 DEF Vaults, Files
<1>3. mishaps' \in 0..MaxMishaps
  BY <1>0, MishapsBounded DEF Ignore, DeleteRemote, boundVars, Happens, Works
<1>4. remote' \in Files \cup {None} /\ copies' \subseteq Vaults /\ kept' \subseteq 1..edits
  BY <1>0 DEF Ignore, DeleteRemote, boundVars, dataVars, TypeOK, Vaults
<1>5. TypeOK'
  BY <1>0, <1>1, <1>2, <1>3, <1>4 DEF TypeOK
<1>6. OpsInv'
  BY <1>1 DEF TypeInv, OpsInv, OpInv
<1> QED
  BY <1>1, <1>5, <1>6 DEF TypeInv

LEMMA StepTyped == TypeInv /\ [Next]_syncVars => TypeInv'
<1>1. SUFFICES ASSUME TypeInv, [Next]_syncVars PROVE TypeInv'
  OBVIOUS
<1>2. CASE UNCHANGED syncVars
  BY <1>1, <1>2 DEF syncVars, dataVars, boundVars, TypeInv, TypeOK, OpsInv, OpInv,
                    Vaults, Files, Baselines
<1>3. ASSUME NEW d \in Devices, Edit(d) PROVE TypeInv'
  BY <1>1, <1>3, EditTyped
<1>4. ASSUME NEW d \in Devices, Lock(d) \/ Unlock(d) \/ Crash(d) PROVE TypeInv'
  BY <1>1, <1>4, LockTyped
<1>5. ASSUME NEW d \in Devices, SyncStep(d) PROVE TypeInv'
  BY <1>1, <1>5, LookingTyped, RenameTyped, SaveTyped, ApplyTyped DEF SyncStep
<1>6. ASSUME NEW d \in Devices,
             (\E c \in copies : Adopt(d, c)) \/ ClearState(d) \/ Restore(d) \/ RestoreClear(d)
      PROVE  TypeInv'
  BY <1>1, <1>6, RestoreTyped
<1>7. ASSUME (\E c \in copies : Ignore(c)) \/ DeleteRemote PROVE TypeInv'
  BY <1>1, <1>7, FolderTyped
<1> QED
  BY <1>1, <1>2, <1>3, <1>4, <1>5, <1>6, <1>7 DEF Next

LEMMA TypesHold == Spec => []TypeInv
BY InitTyped, StepTyped, PTL DEF Spec

\* Whatever fails, every variable keeps its type: an operation never finds the
\* vault, the coordinator or the file it works with gone (SyncCoordinator behind
\* the daemon's mutex).
THEOREM VaultTypes == Spec => []TypeOK
<1>1. TypeInv => TypeOK
  BY DEF TypeInv
<1> QED
  BY <1>1, TypesHold, PTL

-----------------------------------------------------------------------------
(* A baseline never lies about the file it names.                          *)

\* The files in the folder and in the hands of the operations, and the baselines
\* a device has.
InPlay == ({remote} \cup { op[d].seen : d \in Devices }) \ {None}
Known(d) == ({saved[d]} \cup (IF coord[d] = None THEN {} ELSE {coord[d].base})) \ {None}
BaselineOf(f) == [rev |-> f.vault.rev, id |-> f.id]

\* A hash belongs to one file, and a baseline with the hash of a file in play was
\* made of it.
OneHash == \A f, g \in InPlay : f.id = g.id => f = g
TrueKnown == \A d \in Devices : \A b \in Known(d), f \in InPlay : b.id = f.id => b = BaselineOf(f)
HashInv == OneHash /\ TrueKnown

\* Hashes in play and in baselines are in use.
LEMMA UsedHashes ==
  /\ \A f \in InPlay : f.id \in InUse
  /\ \A d \in Devices : \A b \in Known(d) : b.id \in InUse
<1>1. ASSUME NEW d \in Devices PROVE HashesOf(d) \subseteq InUse
  BY DEF InUse
<1>2. Hashes(remote) \subseteq InUse
  BY DEF InUse
<1>3. ASSUME NEW f \in InPlay PROVE f.id \in InUse
  <2>1. CASE f = remote
    BY <1>2, <2>1 DEF Hashes, InPlay
  <2>2. CASE \E d \in Devices : f = op[d].seen
    BY <1>1, <2>2 DEF Hashes, HashesOf, InPlay
  <2> QED
    BY <2>1, <2>2 DEF InPlay
<1>4. ASSUME NEW d \in Devices, NEW b \in Known(d) PROVE b.id \in InUse
  BY <1>1 DEF Hashes, HashesOf, Known
<1> QED
  BY <1>3, <1>4

\* A step that brings no new file into play and makes baselines only of files in
\* play keeps the invariant.
LEMMA NoNewFile ==
  ASSUME HashInv, InPlay' \subseteq InPlay,
         \A d \in Devices : \A b \in Known(d)' :
           b \in Known(d) \/ \E f \in InPlay : b = BaselineOf(f)
  PROVE  HashInv'
<1>1. OneHash'
  BY DEF OneHash, HashInv
<1>2. ASSUME NEW d \in Devices, NEW b \in Known(d)', NEW f \in InPlay', b.id = f.id
      PROVE  b = BaselineOf(f)
  <2>1. CASE b \in Known(d)
    BY <1>2, <2>1 DEF HashInv, TrueKnown
  <2>2. CASE \E g \in InPlay : b = BaselineOf(g)
    BY <1>2, <2>2 DEF HashInv, OneHash, BaselineOf
  <2> QED
    BY <2>1, <2>2
<1> QED
  BY <1>1, <1>2 DEF HashInv, TrueKnown, BaselineOf

\* An upload brings in a file with a hash of its own.
LEMMA RenameTrue ==
  ASSUME TypeInv, HashInv, NEW d \in Devices, Rename(d)
  PROVE  HashInv'
<1> DEFINE new == [id |-> FreshId, vault |-> mem[d]]
<1>0. TypeOK
  BY DEF TypeInv
<1>1. new.id \notin InUse
  BY FreshIdIsFresh
<1>2. op' = [op EXCEPT ![d].pc = "save", ![d].seen = new] /\ remote' \in {remote, new}
      /\ UNCHANGED <<coord, saved>>
  BY DEF Rename
<1> HIDE DEF new
<1>3. \A x \in Devices : op'[x].seen \in {op[x].seen, new}
  BY <1>0, <1>2 DEF TypeOK
<1>4. InPlay' \subseteq InPlay \cup {new}
  BY <1>2, <1>3 DEF InPlay
<1>5. \A x \in Devices : Known(x)' = Known(x)
  BY <1>2 DEF Known
<1>6. OneHash'
  BY <1>1, <1>4, UsedHashes DEF HashInv, OneHash
<1>7. TrueKnown'
  BY <1>1, <1>4, <1>5, UsedHashes DEF HashInv, TrueKnown, BaselineOf
<1> QED
  BY <1>6, <1>7 DEF HashInv

LEMMA SaveTrue ==
  ASSUME TypeInv, HashInv, NEW d \in Devices, Save(d) \/ Take(d)
  PROVE  HashInv'
<1>0. TypeOK /\ OpInv(d)
  BY DEF TypeInv, OpsInv
<1>1. coord[d] # None /\ mem[d] \in Vaults /\ op[d].seen \in Files
  BY <1>0 DEF Save, Take, At, OpInv, TypeOK
<1>2. op[d].seen \in InPlay /\ op[d].seen.vault.rev \in Nat /\ op[d].seen.id \in Nat
  BY <1>0, <1>1 DEF Save, Take, At, OpInv, InPlay, Vaults, Files
<1>3. SetBaseline(d, op[d].seen.vault.rev, op[d].seen.id)
  BY <1>0 DEF Save, Take, OpInv, At
<1>4. \A x \in Devices : x # d => coord'[x] = coord[x] /\ saved'[x] = saved[x]
  BY <1>0, SaveTyped DEF Alone, TypeOK
<1>5. /\ coord'[d] = [base |-> BaselineOf(op[d].seen)] \/ coord'[d] = coord[d]
      /\ saved'[d] = BaselineOf(op[d].seen) \/ saved'[d] = saved[d]
  BY <1>1, <1>2, <1>3, BaselineSet DEF BaselineOf
<1>6. InPlay' \subseteq InPlay
  <2>1. remote' = remote /\ \A x \in Devices : op'[x].seen \in {None, op[x].seen}
    BY <1>0 DEF Save, Take, Finish, Idle, TypeOK
  <2> QED
    BY <2>1 DEF InPlay
<1>7. \A x \in Devices : \A b \in Known(x)' :
        b \in Known(x) \/ \E f \in InPlay : b = BaselineOf(f)
  BY <1>2, <1>4, <1>5 DEF Known
<1> QED
  BY <1>6, <1>7, NoNewFile

LEMMA EveryStepTrue ==
  ASSUME TypeInv, HashInv, [Next]_syncVars
  PROVE  HashInv'
<1>0. TypeOK /\ \A d \in Devices : OpInv(d)
  BY DEF TypeInv, OpsInv
<1>1. ASSUME InPlay' \subseteq InPlay, \A x \in Devices : Known(x)' \subseteq Known(x)
      PROVE  HashInv'
  BY <1>1, NoNewFile
<1>2. CASE UNCHANGED syncVars
  BY <1>1, <1>2 DEF syncVars, dataVars, InPlay, Known
<1>3. ASSUME NEW d \in Devices, Edit(d) PROVE HashInv'
  BY <1>1, <1>3 DEF Edit, InPlay, Known
<1>4. ASSUME NEW d \in Devices, Lock(d) \/ Unlock(d) \/ Crash(d) PROVE HashInv'
  <2>1. InPlay' \subseteq InPlay
    BY <1>0, <1>4 DEF Lock, Unlock, Crash, Idle, InPlay, TypeOK
  <2>2. \A x \in Devices : saved'[x] = saved[x]
                           /\ (coord'[x] = coord[x] \/ coord'[x] \in {None, [base |-> saved[x]]})
    BY <1>0, <1>4 DEF Lock, Unlock, Crash, TypeOK
  <2>3. \A x \in Devices : Known(x)' \subseteq Known(x)
    BY <2>2 DEF Known
  <2> QED
    BY <1>1, <2>1, <2>3
<1>5. ASSUME NEW d \in Devices,
             (\E kind \in {"sync", "local", "remote"} : Start(d, kind)) \/ Download(d) \/ Check(d)
      PROVE  HashInv'
  <2>1. OnlyOp(d) /\ op'[d].seen \in {None, remote, op[d].seen}
    BY <1>5, LookingMoves
  <2>2. InPlay' \subseteq InPlay
    BY <1>0, <2>1 DEF OnlyOp, InPlay, TypeOK
  <2>3. \A x \in Devices : Known(x)' = Known(x)
    BY <2>1 DEF OnlyOp, Known
  <2> QED
    BY <1>1, <2>2, <2>3
<1>6. ASSUME NEW d \in Devices, Backup(d) \/ Apply(d) PROVE HashInv'
  <2>1. \A x \in Devices : op'[x].seen \in {None, op[x].seen}
    BY <1>0, <1>6 DEF Backup, Apply, Finish, Goto, Idle, TypeOK
  <2>2. UNCHANGED <<remote, coord, saved>>
    BY <1>6 DEF Backup, Apply
  <2> QED
    BY <1>1, <2>1, <2>2 DEF InPlay, Known
<1>7. ASSUME NEW d \in Devices, (\E c \in copies : Adopt(d, c)) \/ ClearState(d) PROVE HashInv'
  <2>1. UNCHANGED <<remote, op>>
    BY <1>7 DEF Adopt, ClearState
  <2>2. \A x \in Devices : saved'[x] \in {None, saved[x]}
                           /\ (coord'[x] = coord[x] \/ coord'[x] = [base |-> None])
    <3>1. ASSUME ClearState(d) PROVE [coord[d] EXCEPT !.base = None] = [base |-> None]
      BY <1>0, <3>1 DEF TypeOK, ClearState
    <3> QED
      BY <1>0, <1>7, <3>1 DEF Adopt, ClearState, TypeOK
  <2>3. \A x \in Devices : Known(x)' \subseteq Known(x)
    BY <2>2 DEF Known
  <2> QED
    BY <1>1, <2>1, <2>3 DEF InPlay
<1>8. ASSUME NEW d \in Devices, Restore(d) \/ RestoreClear(d) PROVE HashInv'
  <2>1. remote' = remote /\ \A x \in Devices : op'[x].seen \in {None, op[x].seen}
    BY <1>0, <1>8 DEF Restore, RestoreClear, Finish, Idle, TypeOK
  <2>2. \A x \in Devices : saved'[x] \in {None, saved[x]}
                           /\ (coord'[x] = coord[x] \/ coord'[x] \in {None, [base |-> None]})
    BY <1>0, <1>8 DEF Restore, RestoreClear, TypeOK
  <2>3. \A x \in Devices : Known(x)' \subseteq Known(x)
    BY <2>2 DEF Known
  <2> QED
    BY <1>1, <2>1, <2>3 DEF InPlay
<1>9. ASSUME (\E c \in copies : Ignore(c)) \/ DeleteRemote PROVE HashInv'
  BY <1>1, <1>9, FolderTyped DEF Ignore, DeleteRemote, InPlay, Known
<1> QED
  BY <1>2, <1>3, <1>4, <1>5, <1>6, <1>7, <1>8, <1>9, RenameTrue, SaveTrue DEF Next, SyncStep

LEMMA HashesHold == Spec => [](TypeInv /\ HashInv)
<1>1. Init => HashInv
  BY DEF Init, HashInv, OneHash, TrueKnown, InPlay, Known, Idle
<1>2. TypeInv /\ HashInv /\ [Next]_syncVars => HashInv'
  BY EveryStepTrue
<1> QED
  BY <1>1, <1>2, TypesHold, PTL DEF Spec

\* A baseline that names the file now in the folder has the revision of the vault
\* in it, in the coordinator and in sync_state.json, whichever calls fail, wherever
\* the daemons die and whatever becomes of racing uploads.
THEOREM BaselinesAreTrue == Spec => []BaselineTrue
<1>1. HashInv => BaselineTrue
  BY DEF HashInv, TrueKnown, BaselineTrue, Known, InPlay, BaselineOf
<1> QED
  BY <1>1, HashesHold, PTL

-----------------------------------------------------------------------------
(* "No change" is said of equal vaults only.                               *)

\* No call fails between replacing the vault on disk and the vault in memory.
SteadyWrites == Mishaps \cap {"edit", "apply", "resolve"} = {}

\* A restored backup does not keep the baseline of the vault it replaced: removing
\* sync_state.json does not fail and the daemon does not die before it.
CleanRestores == "restore" \in Mishaps => "cleanup" \notin Mishaps /\ "clear" \notin CrashAt

\* The vault in memory is the one on disk, except while a download is taken over.
AlignInv(d) ==
  /\ mem[d] # None /\ ~At(d, "take") => disk[d] = mem[d]
  /\ At(d, "take") => disk[d] = op[d].seen.vault
AlignedInv == \A d \in Devices : AlignInv(d)

LEMMA TakeWorks ==
  ASSUME SteadyWrites, TypeInv, NEW d \in Devices, Take(d)
  PROVE  /\ mem' = [mem EXCEPT ![d] = op[d].seen.vault]
         /\ coord'[d] = [base |-> BaselineOf(op[d].seen)]
         /\ saved'[d] \in {saved[d], BaselineOf(op[d].seen)}
         /\ "take" \notin Mishaps => saved'[d] = BaselineOf(op[d].seen)
<1>0. TypeOK /\ OpInv(d)
  BY DEF TypeInv, OpsInv
<1>1. "resolve" \notin Mishaps /\ At(d, "take")
  BY DEF SteadyWrites, Take
<1>2. \/ Works /\ saved' = [saved EXCEPT ![d] = BaselineOf(op[d].seen)]
      \/ op[d].kind = "sync" /\ "take" \in Mishaps /\ UNCHANGED saved
  BY <1>1 DEF Take, SetBaseline, Happens, At, BaselineOf
<1>3. coord' = [coord EXCEPT ![d].base = BaselineOf(op[d].seen)]
  BY <1>1 DEF Take, SetBaseline, Happens, BaselineOf
<1>4. coord[d] \in Coords /\ coord[d] # None
  BY <1>0, <1>1 DEF TypeOK, Coords, OpInv, At
<1>5. mem' = [mem EXCEPT ![d] = op[d].seen.vault]
  BY <1>2 DEF Take, Works
<1> QED
  BY <1>0, <1>2, <1>3, <1>4, <1>5 DEF TypeOK, Coords

LEMMA StepAligned ==
  ASSUME SteadyWrites, TypeInv, AlignedInv, [Next]_syncVars
  PROVE  AlignedInv'
<1>0. TypeOK /\ (\A d \in Devices : OpInv(d)) /\ (\A d \in Devices : AlignInv(d))
  BY DEF TypeInv, OpsInv, AlignedInv
<1>1. "edit" \notin Mishaps /\ "apply" \notin Mishaps
  BY DEF SteadyWrites
<1>2. ASSUME NEW d \in Devices, Alone(d), AlignInv(d)' PROVE AlignedInv'
  BY <1>0, <1>2 DEF AlignedInv, AlignInv, Alone, At, TypeOK
<1>3. ASSUME UNCHANGED <<mem, disk, op>> PROVE AlignedInv'
  BY <1>3 DEF AlignedInv, AlignInv, At
<1>4. ASSUME NEW d \in Devices, Edit(d) PROVE AlignedInv'
  <2>1. mem'[d] = disk'[d] /\ op' = op /\ \A x \in Devices \ {d} : mem'[x] = mem[x] /\ disk'[x] = disk[x]
    BY <1>0, <1>1, <1>4 DEF Edit, Happens, TypeOK
  <2>2. At(d, "idle")
    BY <1>4 DEF Edit
  <2> QED
    BY <1>0, <2>1, <2>2 DEF AlignedInv, AlignInv, At
<1>5. ASSUME NEW d \in Devices, Lock(d) \/ Unlock(d) \/ Crash(d) PROVE AlignedInv'
  <2>1. mem'[d] \in {None, disk[d]} /\ disk'[d] = disk[d] /\ op'[d].pc = "idle"
    BY <1>0, <1>5 DEF Lock, Unlock, Crash, Idle, At, TypeOK
  <2> QED
    BY <1>2, <1>5, <2>1, LockTyped DEF AlignInv, At
<1>6. ASSUME NEW d \in Devices,
             (\E kind \in {"sync", "local", "remote"} : Start(d, kind)) \/ Download(d) \/ Check(d)
      PROVE  AlignedInv'
  <2>1. OnlyOp(d) /\ op'[d].pc # "take" /\ op[d].pc # "take"
    BY <1>6, LookingMoves DEF Start, Download, Check, At
  <2> QED
    BY <1>0, <1>2, <1>6, <2>1, LookingTyped DEF OnlyOp, AlignInv, At
<1>7. ASSUME NEW d \in Devices, Rename(d) PROVE AlignedInv'
  <2>1. op'[d].pc = "save" /\ op[d].pc = "rename" /\ UNCHANGED <<mem, disk>>
    BY <1>0, <1>7 DEF Rename, At, TypeOK
  <2> QED
    BY <1>0, <1>2, <1>7, <2>1, RenameTyped DEF AlignInv, At
<1>8. ASSUME NEW d \in Devices, Save(d) \/ Take(d) PROVE AlignedInv'
  <2>1. op'[d].pc = "idle" /\ UNCHANGED disk
    BY <1>0, <1>8 DEF Save, Take, Finish, Idle, TypeOK
  <2>2. CASE Save(d)
    BY <1>0, <1>2, <1>8, <2>1, <2>2, SaveTyped DEF Save, AlignInv, At
  <2>3. CASE Take(d)
    <3>1. mem'[d] = op[d].seen.vault
      BY <1>0, <2>3, TakeWorks DEF TypeOK
    <3> QED
      BY <1>0, <1>2, <1>8, <2>1, <2>3, <3>1, SaveTyped DEF Take, AlignInv, At
  <2> QED
    BY <1>8, <2>2, <2>3
<1>9. ASSUME NEW d \in Devices, Backup(d) \/ Apply(d) PROVE AlignedInv'
  <2>1. CASE Backup(d)
    <3>1. op'[d].pc # "take" /\ op[d].pc # "take" /\ UNCHANGED <<mem, disk>>
      BY <1>0, <2>1 DEF Backup, Goto, At, TypeOK
    <3> QED
      BY <1>0, <1>2, <1>9, <3>1, ApplyTyped DEF AlignInv, At
  <2>2. CASE Apply(d)
    <3>1. op'[d].pc = "take" /\ op'[d].seen = op[d].seen /\ disk'[d] = op[d].seen.vault
      BY <1>0, <1>1, <2>2 DEF Apply, Happens, Goto, TypeOK
    <3> QED
      BY <1>2, <1>9, <3>1, ApplyTyped DEF AlignInv, At
  <2> QED
    BY <1>9, <2>1, <2>2
<1>10. ASSUME NEW d \in Devices,
              (\E c \in copies : Adopt(d, c)) \/ ClearState(d) \/ Restore(d) \/ RestoreClear(d)
       PROVE  AlignedInv'
  <2>1. op'[d].pc # "take" /\ op[d].pc # "take"
        /\ (mem'[d] = disk'[d] \/ (mem'[d] = mem[d] /\ disk'[d] = disk[d]))
    <3>1. CASE \E c \in copies : Adopt(d, c)
      BY <1>0, <3>1 DEF Adopt, At, TypeOK
    <3>2. CASE ClearState(d)
      BY <1>0, <3>2 DEF ClearState, At, TypeOK
    <3>3. CASE Restore(d)
      BY <1>0, <3>3 DEF Restore, Idle, At, TypeOK
    <3>4. CASE RestoreClear(d)
      BY <1>0, <3>4 DEF RestoreClear, Finish, Idle, At, TypeOK
    <3> QED
      BY <1>10, <3>1, <3>2, <3>3, <3>4
  <2> QED
    BY <1>0, <1>2, <1>10, <2>1, RestoreTyped DEF AlignInv, At
<1>11. ASSUME (\E c \in copies : Ignore(c)) \/ DeleteRemote PROVE AlignedInv'
  BY <1>3, <1>11, FolderTyped
<1>12. CASE UNCHANGED syncVars
  BY <1>3, <1>12 DEF syncVars, dataVars
<1> QED
  BY <1>4, <1>5, <1>6, <1>7, <1>8, <1>9, <1>10, <1>11, <1>12 DEF Next, SyncStep

LEMMA AlignmentHolds ==
  ASSUME SteadyWrites
  PROVE  Spec => [](TypeInv /\ HashInv /\ AlignedInv)
<1>1. Init => AlignedInv
  BY DEF Init, AlignedInv, AlignInv, At, Idle
<1>2. TypeInv /\ AlignedInv /\ [Next]_syncVars => AlignedInv'
  BY StepAligned
<1> QED
  BY <1>1, <1>2, TypesHold, HashesHold, PTL DEF Spec

\* A vault as old as a baseline with the hash of the file in the folder has the
\* edits of that file, and it is never older.
Matches(v, b, f) ==
  b # None /\ f # None =>
    (b.id = f.id => v.rev >= b.rev /\ (v.rev = b.rev => v.edits = f.vault.edits))

\* The vault in memory matches the coordinator's baseline and the vault on disk the
\* saved one, which a crash brings together; a download that is being taken over is
\* of the file in the folder if the saved baseline is.
MatchInv(d) ==
  /\ coord[d] # None /\ ~At(d, "clear") => Matches(mem[d], coord[d].base, remote)
  /\ ~At(d, "clear") => Matches(disk[d], saved[d], remote)
  /\ op[d].pc \in {"backup", "apply", "take"} /\ saved[d] # None /\ remote # None =>
       (saved[d].id = remote.id => op[d].seen = remote)
  /\ At(d, "clear") => "restore" \in Mishaps
MatchedInv == copies = {} /\ \A d \in Devices : MatchInv(d)

\* A file with a hash nobody knows, or no file, matches every baseline.
LEMMA UnknownFileMatches ==
  ASSUME TypeInv, remote' = None \/ remote'.id \notin InUse, UNCHANGED <<coord, saved>>,
         \A d \in Devices : At(d, "clear")' => "restore" \in Mishaps
  PROVE  \A d \in Devices : MatchInv(d)'
<1>1. ASSUME NEW d \in Devices PROVE MatchInv(d)'
  <2>1. saved[d] # None => saved[d].id \in InUse
    BY UsedHashes DEF Known
  <2>2. coord[d] # None /\ coord[d].base # None => coord[d].base.id \in InUse
    BY UsedHashes DEF Known
  <2> QED
    BY <2>1, <2>2 DEF MatchInv, Matches
<1> QED
  BY <1>1

\* A vault matches a baseline made of it or of a file that holds it.
LEMMA OwnBaselineMatches ==
  ASSUME TypeInv, HashInv, NEW f \in InPlay
  PROVE  Matches(f.vault, BaselineOf(f), remote)
<1>1. f \in Files
  BY DEF TypeInv, TypeOK, InPlay
<1>2. f.vault.rev \in Nat
  BY <1>1 DEF Files, Vaults
<1>3. remote # None /\ f.id = remote.id => f = remote
  BY DEF HashInv, OneHash, InPlay
<1> QED
  BY <1>2, <1>3 DEF Matches, BaselineOf

LEMMA LockMatches ==
  ASSUME CleanRestores, TypeInv, AlignedInv, NEW d \in Devices, MatchInv(d),
         Lock(d) \/ Unlock(d) \/ Crash(d)
  PROVE  MatchInv(d)' /\ UNCHANGED <<remote, copies>>
<1>0. TypeOK
  BY DEF TypeInv
<1>1. UNCHANGED <<remote, copies>> /\ disk'[d] = disk[d] /\ saved'[d] = saved[d]
      /\ op'[d].pc = "idle"
  BY <1>0 DEF Lock, Unlock, Crash, Idle, At, TypeOK
<1>2. coord'[d] = None \/ (coord'[d].base = saved[d] /\ mem'[d] = disk[d])
  BY <1>0 DEF Lock, Unlock, Crash, TypeOK
<1>3. CASE At(d, "clear")
  BY <1>3 DEF Lock, Unlock, Crash, At, CleanRestores, MatchInv
<1> QED
  BY <1>1, <1>2, <1>3 DEF MatchInv, Matches, At

LEMMA EditMatches ==
  ASSUME TypeInv, AlignedInv, SteadyWrites, NEW d \in Devices, MatchInv(d), Edit(d)
  PROVE  MatchInv(d)' /\ Alone(d)
<1> DEFINE new == [rev |-> mem[d].rev + 1, edits |-> mem[d].edits \cup {edits + 1}]
<1>0. TypeOK /\ AlignInv(d)
  BY DEF TypeInv, AlignedInv
<1>1. mem[d] = disk[d] /\ mem[d].rev \in Nat
  BY <1>0 DEF Edit, AlignInv, At, TypeOK, Vaults
<1>2. mem' = [mem EXCEPT ![d] = new] /\ disk' = [disk EXCEPT ![d] = new]
      /\ UNCHANGED <<remote, coord, saved, op>> /\ At(d, "idle")
  BY DEF Edit, Happens, SteadyWrites
<1>3. Alone(d)
  BY <1>0, <1>2 DEF Alone, TypeOK
<1>4. ASSUME NEW b \in Baselines \cup {None}, Matches(mem[d], b, remote)
      PROVE  Matches(new, b, remote)
  BY <1>1, <1>4 DEF Matches, Baselines
<1> HIDE DEF new
<1>5. mem'[d] = new /\ disk'[d] = new
  BY <1>0, <1>2 DEF TypeOK
<1>6. saved[d] \in Baselines \cup {None}
      /\ (coord[d] # None => coord[d].base \in Baselines \cup {None})
  BY <1>0 DEF TypeOK
<1>7. Matches(disk[d], saved[d], remote)
      /\ (coord[d] # None => Matches(mem[d], coord[d].base, remote))
  BY <1>2 DEF MatchInv, At
<1>8. Matches(new, saved[d], remote) /\ (coord[d] # None => Matches(new, coord[d].base, remote))
  BY <1>1, <1>4, <1>6, <1>7
<1> QED
  BY <1>2, <1>3, <1>5, <1>8 DEF MatchInv, At

LEMMA LookingMatches ==
  ASSUME TypeInv, NEW d \in Devices, MatchInv(d),
         (\E kind \in {"sync", "local", "remote"} : Start(d, kind)) \/ Download(d) \/ Check(d)
  PROVE  MatchInv(d)' /\ UNCHANGED remote
<1>0. TypeOK
  BY DEF TypeInv
<1>1. OnlyOp(d) /\ op[d].pc # "clear" /\ op'[d].pc \notin {"take", "clear"}
      /\ (op'[d].pc \in {"backup", "apply"} => op'[d].seen = remote)
  BY LookingMoves DEF Start, Download, Check, At
<1> QED
  BY <1>0, <1>1 DEF MatchInv, Matches, OnlyOp, At

LEMMA SaveMatches ==
  ASSUME SteadyWrites, TypeInv, HashInv, AlignedInv, NEW d \in Devices, MatchInv(d),
         Save(d) \/ Take(d)
  PROVE  MatchInv(d)' /\ UNCHANGED remote
<1> DEFINE f == op[d].seen
<1>0. TypeOK /\ OpInv(d) /\ AlignInv(d)
  BY DEF TypeInv, OpsInv, AlignedInv
<1>1. op[d].pc \in {"save", "take"} /\ f # None /\ f \in InPlay /\ coord[d] # None
      /\ f \in Files /\ mem[d] # None /\ UNCHANGED <<remote, disk>>
      /\ op'[d].pc = "idle"
  BY <1>0 DEF Save, Take, At, OpInv, InPlay, TypeOK, Finish, Idle
<1>2. disk[d] = f.vault /\ mem'[d] = f.vault
  <2>1. CASE Save(d)
    BY <1>0, <1>1, <2>1 DEF Save, AlignInv, At, OpInv
  <2>2. CASE Take(d)
    <3>1. mem'[d] = f.vault
      BY <1>0, <2>2, TakeWorks DEF TypeOK
    <3> QED
      BY <1>0, <2>2, <3>1 DEF Take, AlignInv
  <2> QED
    BY <2>1, <2>2
<1>3. SetBaseline(d, f.vault.rev, f.id) /\ f.vault.rev \in Nat /\ f.id \in Nat
  BY <1>0, <1>1 DEF Save, Take, OpInv, At, Files, Vaults
<1>4. saved'[d] \in {saved[d], BaselineOf(f)} /\ coord'[d] = [base |-> BaselineOf(f)]
  <2>1. "resolve" \notin Mishaps /\ coord[d] \in Coords
    BY <1>0, <1>1 DEF SteadyWrites, TypeOK, Coords
  <2>2. coord' = [coord EXCEPT ![d].base = BaselineOf(f)]
        /\ (saved' = saved \/ saved' = [saved EXCEPT ![d] = BaselineOf(f)])
    BY <1>3, <2>1 DEF SetBaseline, Happens, BaselineOf
  <2> QED
    BY <1>0, <1>1, <2>1, <2>2 DEF TypeOK, Coords
<1>5. Matches(f.vault, BaselineOf(f), remote)
  BY <1>1, OwnBaselineMatches
<1> HIDE DEF f
<1> QED
  BY <1>1, <1>2, <1>4, <1>5 DEF MatchInv, At

LEMMA ApplyMatches ==
  ASSUME SteadyWrites, TypeInv, HashInv, AlignedInv, NEW d \in Devices, MatchInv(d),
         Backup(d) \/ Apply(d)
  PROVE  MatchInv(d)' /\ UNCHANGED <<remote, copies>>
<1>0. TypeOK /\ OpInv(d) /\ AlignInv(d)
  BY DEF TypeInv, OpsInv, AlignedInv
<1>1. UNCHANGED <<remote, copies, mem, coord, saved>> /\ op[d].pc \in {"backup", "apply"}
      /\ op'[d].seen = op[d].seen /\ op'[d].pc \in {"check", "apply", "take"}
      /\ op[d].seen \in InPlay /\ op[d].seen # None
  BY <1>0 DEF Backup, Apply, Happens, SteadyWrites, Goto, At, TypeOK, OpInv, InPlay
<1>2. CASE Backup(d)
  <2>1. disk'[d] = disk[d]
    BY <1>2 DEF Backup
  <2>2. op[d].pc = "backup"
    BY <1>2 DEF Backup, At
  <2> QED
    BY <1>1, <2>1, <2>2 DEF MatchInv, At
<1>3. CASE Apply(d)
  <2>1. disk'[d] = op[d].seen.vault
    BY <1>0, <1>3 DEF Apply, Happens, SteadyWrites, TypeOK
  <2>2. saved[d] # None /\ remote # None /\ saved[d].id = remote.id => op[d].seen = remote
    BY <1>3 DEF Apply, At, MatchInv
  <2>3. Matches(op[d].seen.vault, saved[d], remote)
    <3>1. SUFFICES ASSUME saved[d] # None, remote # None, saved[d].id = remote.id
                   PROVE  saved[d] = BaselineOf(op[d].seen)
      BY <1>1, OwnBaselineMatches DEF Matches
    <3>2. op[d].seen = remote /\ saved[d] \in Known(d)
      BY <2>2, <3>1 DEF Known
    <3> QED
      BY <1>1, <3>1, <3>2 DEF HashInv, TrueKnown
  <2> QED
    BY <1>1, <2>1, <2>2, <2>3 DEF MatchInv, At
<1> QED
  BY <1>2, <1>3

LEMMA RestoreMatches ==
  ASSUME CleanRestores, TypeInv, NEW d \in Devices, MatchInv(d),
         ClearState(d) \/ Restore(d) \/ RestoreClear(d)
  PROVE  MatchInv(d)' /\ UNCHANGED <<remote, copies>>
<1>0. TypeOK
  BY DEF TypeInv
<1>1. UNCHANGED <<remote, copies>>
  BY DEF ClearState, Restore, RestoreClear
<1>2. CASE ClearState(d)
  <2>1. coord'[d].base = None /\ UNCHANGED <<mem, disk, op>> /\ saved'[d] \in {None, saved[d]}
        /\ At(d, "idle")
    BY <1>0, <1>2 DEF ClearState, TypeOK
  <2> QED
    BY <1>1, <2>1 DEF MatchInv, Matches, At
<1>3. CASE Restore(d)
  <2>1. At(d, "clear")' /\ "restore" \in Mishaps
    BY <1>0, <1>3 DEF Restore, Happens, At, Idle, TypeOK
  <2> QED
    BY <1>1, <2>1 DEF MatchInv, At
<1>4. CASE RestoreClear(d)
  <2>1. "cleanup" \notin Mishaps
    BY <1>4 DEF RestoreClear, MatchInv, CleanRestores
  <2>2. coord'[d].base = None /\ saved'[d] = None /\ At(d, "idle")'
    BY <1>0, <1>4, <2>1 DEF RestoreClear, Happens, Finish, Idle, At, TypeOK
  <2> QED
    BY <1>1, <2>2 DEF MatchInv, Matches, At
<1> QED
  BY <1>2, <1>3, <1>4

LEMMA StepMatched ==
  ASSUME Races \subseteq {"overwrite"}, SteadyWrites, CleanRestores,
         TypeInv, HashInv, AlignedInv, MatchedInv, [Next]_syncVars
  PROVE  MatchedInv'
<1>0. TypeOK /\ copies = {} /\ \A d \in Devices : MatchInv(d)
  BY DEF TypeInv, MatchedInv
<1>1. ASSUME NEW d \in Devices, Alone(d), MatchInv(d)', UNCHANGED <<remote, copies>>
      PROVE  MatchedInv'
  <2>1. \A x \in Devices : x # d => MatchInv(x)'
    BY <1>0, <1>1 DEF Alone, MatchInv, At, TypeOK
  <2> QED
    BY <1>0, <1>1, <2>1 DEF MatchedInv
<1>2. ASSUME NEW d \in Devices, Edit(d) PROVE MatchedInv'
  <2>1. UNCHANGED <<remote, copies>>
    BY <1>2 DEF Edit
  <2> QED
    BY <1>0, <1>1, <1>2, <2>1, EditMatches
<1>3. ASSUME NEW d \in Devices, Lock(d) \/ Unlock(d) \/ Crash(d) PROVE MatchedInv'
  BY <1>0, <1>1, <1>3, LockMatches, LockTyped
<1>4. ASSUME NEW d \in Devices,
             (\E kind \in {"sync", "local", "remote"} : Start(d, kind)) \/ Download(d) \/ Check(d)
      PROVE  MatchedInv'
  <2>1. UNCHANGED copies
    BY <1>4, LookingMoves DEF OnlyOp
  <2> QED
    BY <1>0, <1>1, <1>4, <2>1, LookingMatches, LookingTyped
<1>5. ASSUME NEW d \in Devices, Rename(d) PROVE MatchedInv'
  <2>1. "copy" \notin Races
    OBVIOUS
  <2>2. UNCHANGED copies /\ remote' = [id |-> FreshId, vault |-> mem[d]]
        /\ UNCHANGED <<coord, saved>>
    BY <1>5, <2>1 DEF Rename
  <2>3. \A x \in Devices : At(x, "clear")' => At(x, "clear")
    BY <1>0, <1>5 DEF Rename, At, TypeOK
  <2>4. remote'.id \notin InUse
    BY <2>2, FreshIdIsFresh
  <2>5. \A x \in Devices : MatchInv(x)'
    BY <1>0, <2>2, <2>3, <2>4, UnknownFileMatches DEF MatchInv
  <2> QED
    BY <1>0, <2>2, <2>5 DEF MatchedInv
<1>6. ASSUME NEW d \in Devices, Save(d) \/ Take(d) PROVE MatchedInv'
  <2>1. UNCHANGED copies
    BY <1>6 DEF Save, Take
  <2> QED
    BY <1>0, <1>1, <1>6, <2>1, SaveMatches, SaveTyped
<1>7. ASSUME NEW d \in Devices, Backup(d) \/ Apply(d) PROVE MatchedInv'
  BY <1>0, <1>1, <1>7, ApplyMatches, ApplyTyped
<1>8. ASSUME NEW d \in Devices, ClearState(d) \/ Restore(d) \/ RestoreClear(d)
      PROVE  MatchedInv'
  BY <1>0, <1>1, <1>8, RestoreMatches, RestoreTyped
<1>9. ASSUME DeleteRemote PROVE MatchedInv'
  <2>1. remote' = None /\ UNCHANGED <<copies, coord, saved, op>>
    BY <1>9 DEF DeleteRemote, dataVars
  <2>2. \A x \in Devices : At(x, "clear")' => "restore" \in Mishaps
    BY <1>0, <2>1 DEF MatchInv, At
  <2> QED
    BY <1>0, <2>1, <2>2, UnknownFileMatches DEF MatchedInv
<1>10. CASE UNCHANGED syncVars
  BY <1>0, <1>10 DEF syncVars, dataVars, MatchedInv, MatchInv, At
<1> QED
  BY <1>0, <1>2, <1>3, <1>4, <1>5, <1>6, <1>7, <1>8, <1>9, <1>10 DEF Next, SyncStep

\* When a sync would answer "no change", the vault of the device and the one in the
\* folder hold the same edits.  This is proved for folders that only overwrite (no
\* conflict file is ever adopted over an old baseline), when no write fails between
\* the vault in memory and the one on disk, and when a restore forgets the old
\* baseline; uploads may race, daemons may die, baselines may fail to be saved and
\* the file in the folder may be deleted.
THEOREM NoChangeMeansEqual ==
  ASSUME Races \subseteq {"overwrite"}, SteadyWrites, CleanRestores
  PROVE  Spec => []SyncedMeansEqual
<1>1. Init => MatchedInv
  BY DEF Init, MatchedInv, MatchInv, Matches, At, Idle
<1>2. TypeInv /\ HashInv /\ AlignedInv /\ MatchedInv /\ [Next]_syncVars => MatchedInv'
  BY StepMatched
<1>3. TypeInv /\ MatchedInv => SyncedMeansEqual
  <2>1. SUFFICES ASSUME TypeInv, MatchedInv, NEW d \in Devices, At(d, "idle"), coord[d] # None,
                        remote # None, ~RemoteChanged(d), ~LocalChanged(d)
                 PROVE  mem[d].edits = remote.vault.edits
    BY DEF SyncedMeansEqual
  <2>2. coord[d].base # None /\ coord[d].base.id = remote.id /\ ~(mem[d].rev > coord[d].base.rev)
    BY <2>1 DEF RemoteChanged, LocalChanged
  <2>3. Matches(mem[d], coord[d].base, remote)
    BY <2>1 DEF MatchedInv, MatchInv, At
  <2>4. mem[d].rev \in Nat /\ coord[d].base.rev \in Nat
    BY <2>1, <2>2 DEF TypeInv, TypeOK, Vaults, Baselines
  <2> QED
    BY <2>1, <2>2, <2>3, <2>4 DEF Matches
<1> QED
  BY <1>1, <1>2, <1>3, AlignmentHolds, PTL DEF Spec

-----------------------------------------------------------------------------
(* No saved edit is lost and no work is overwritten blindly.               *)

\* Nothing but saving a baseline after an upload, restoring a backup and removing
\* sync_state.json goes wrong, no writer races an upload, and no daemon dies between
\* writing a downloaded vault and its baseline: with the vault replaced and the old
\* baseline kept, an edit made next could carry a revision the baseline already has.
QuietFolder ==
  /\ Races = {} /\ Mishaps \subseteq {"save", "restore", "cleanup"}
  /\ "take" \notin CrashAt /\ CleanRestores

\* Edits that are in the folder or in a backup.
Shared == kept \cup (IF remote = None THEN {} ELSE remote.vault.edits)

\* A vault is never older than its baseline; as long as it is as old, its edits are
\* shared; and it has the edits of the file its baseline names.
Covers(v, b, f, s) ==
  b # None =>
    /\ v.rev >= b.rev
    /\ v.rev = b.rev => v.edits \subseteq s
    /\ f # None /\ b.id = f.id => f.vault.edits \subseteq v.edits

\* What makes it safe to go on from each step of an operation.
SafeInv(d) ==
  /\ coord[d] # None /\ op[d].pc \notin {"clear", "take"} =>
       Covers(mem[d], coord[d].base, remote, Shared)
  /\ op[d].pc \notin {"clear", "take"} => Covers(disk[d], saved[d], remote, Shared)
  /\ op[d].pc \in {"backup", "check", "apply", "take", "save"} =>
       remote # None /\ op[d].seen.vault.edits \subseteq Shared
  /\ At(d, "rename") => op[d].seen = remote
  /\ op[d].pc \in {"check", "rename"} /\ op[d].seen # None =>
       op[d].seen.vault.edits \subseteq mem[d].edits \cup kept
  /\ At(d, "apply") => mem[d].edits \subseteq op[d].seen.vault.edits \cup kept
OneWriter == \A d, x \in Devices : At(d, "rename") /\ At(x, "rename") => d = x
SafetyInv == OneWriter /\ \A d \in Devices : SafeInv(d)
SyncInv == TypeInv /\ HashInv /\ AlignedInv /\ MatchedInv /\ SafetyInv

LEMMA QuietIsSteady == QuietFolder => SteadyWrites /\ CleanRestores /\ Races \subseteq {"overwrite"}
BY DEF QuietFolder, SteadyWrites

\* A step of one device that leaves the folder alone is safe when that device is.
LEMMA OthersStaySafe ==
  ASSUME TypeInv, SafetyInv, NEW d \in Devices, Alone(d), UNCHANGED remote, kept \subseteq kept',
         SafeInv(d)', At(d, "rename")' => \A x \in Devices \ {d} : ~At(x, "rename")
  PROVE  SafetyInv'
<1>0. TypeOK /\ OneWriter /\ \A x \in Devices : SafeInv(x)
  BY DEF TypeInv, SafetyInv
<1>1. Shared \subseteq Shared'
  BY DEF Shared
<1>2. ASSUME NEW x \in Devices, x # d PROVE SafeInv(x)'
  <2>1. mem'[x] = mem[x] /\ disk'[x] = disk[x] /\ coord'[x] = coord[x] /\ saved'[x] = saved[x]
        /\ op'[x] = op[x]
    BY <1>0, <1>2 DEF Alone, TypeOK
  <2> HIDE DEF Shared
  <2> QED
    BY <1>0, <1>1, <2>1 DEF SafeInv, Covers, At
<1>3. OneWriter'
  BY <1>0 DEF OneWriter, Alone, At, TypeOK
<1> QED
  BY <1>2, <1>3 DEF SafetyInv

LEMMA LockSafe ==
  ASSUME QuietFolder, SyncInv, NEW d \in Devices, Lock(d) \/ Unlock(d) \/ Crash(d)
  PROVE  SafetyInv' /\ UNCHANGED <<remote, kept>>
<1>0. TypeInv /\ TypeOK /\ SafetyInv /\ SafeInv(d) /\ MatchInv(d)
  BY DEF SyncInv, TypeInv, SafetyInv, MatchedInv
<1>1. UNCHANGED <<remote, kept>> /\ disk'[d] = disk[d] /\ saved'[d] = saved[d]
      /\ op'[d].pc = "idle"
  BY <1>0 DEF Lock, Unlock, Crash, Idle, At, TypeOK
<1>2. coord'[d] = None \/ (coord'[d].base = saved[d] /\ mem'[d] = disk[d])
  BY <1>0 DEF Lock, Unlock, Crash, TypeOK
<1>3. op[d].pc \notin {"clear", "take"}
  BY <1>0 DEF Lock, Unlock, Crash, At, QuietFolder, CleanRestores, MatchInv
<1>4. Shared' = Shared
  BY <1>1 DEF Shared
<1>5. SafeInv(d)'
  BY <1>0, <1>1, <1>2, <1>3, <1>4 DEF SafeInv, At
<1> QED
  BY <1>0, <1>1, <1>5, LockTyped, OthersStaySafe DEF At

LEMMA EditSafe ==
  ASSUME QuietFolder, SyncInv, NEW d \in Devices, Edit(d)
  PROVE  SafetyInv' /\ UNCHANGED <<remote, kept>>
<1> DEFINE new == [rev |-> mem[d].rev + 1, edits |-> mem[d].edits \cup {edits + 1}]
<1>0. TypeInv /\ TypeOK /\ SafetyInv /\ SafeInv(d) /\ AlignInv(d)
  BY DEF SyncInv, TypeInv, SafetyInv, AlignedInv
<1>1. mem[d] = disk[d] /\ mem[d].rev \in Nat
  BY <1>0 DEF Edit, AlignInv, At, TypeOK, Vaults
<1>2. mem' = [mem EXCEPT ![d] = new] /\ disk' = [disk EXCEPT ![d] = new]
      /\ UNCHANGED <<remote, kept, coord, saved, op>> /\ At(d, "idle")
  BY QuietIsSteady DEF Edit, Happens, SteadyWrites
<1>3. Alone(d)
  BY <1>0, <1>2 DEF Alone, TypeOK
<1>4. ASSUME NEW b \in Baselines \cup {None}, Covers(mem[d], b, remote, Shared)
      PROVE  Covers(new, b, remote, Shared)
  BY <1>1, <1>4 DEF Covers, Baselines
<1> HIDE DEF new
<1>5. mem'[d] = new /\ disk'[d] = new
  BY <1>0, <1>2 DEF TypeOK
<1>6. saved[d] \in Baselines \cup {None}
      /\ (coord[d] # None => coord[d].base \in Baselines \cup {None})
  BY <1>0 DEF TypeOK
<1>7. Covers(disk[d], saved[d], remote, Shared)
      /\ (coord[d] # None => Covers(mem[d], coord[d].base, remote, Shared))
  BY <1>0, <1>2 DEF SafeInv, At
<1>8. Covers(new, saved[d], remote, Shared)
      /\ (coord[d] # None => Covers(new, coord[d].base, remote, Shared))
  BY <1>1, <1>4, <1>6, <1>7
<1>9. Shared' = Shared
  BY <1>2 DEF Shared
<1>10. SafeInv(d)'
  BY <1>2, <1>5, <1>8, <1>9 DEF SafeInv, At
<1> QED
  BY <1>0, <1>2, <1>3, <1>10, OthersStaySafe DEF At

LEMMA StartSafe ==
  ASSUME QuietFolder, SyncInv, NEW d \in Devices,
         \E kind \in {"sync", "local", "remote"} : Start(d, kind)
  PROVE  SafetyInv' /\ UNCHANGED <<remote, kept>>
<1>0. TypeInv /\ TypeOK /\ SafetyInv /\ SafeInv(d)
  BY DEF SyncInv, TypeInv, SafetyInv
<1>1. UNCHANGED <<remote, kept, mem, disk, coord, saved>> /\ op'[d].pc = "download"
      /\ op[d].pc = "idle"
  BY <1>0 DEF Start, At, TypeOK
<1>2. Shared' = Shared
  BY <1>1 DEF Shared
<1>3. SafeInv(d)'
  BY <1>0, <1>1, <1>2 DEF SafeInv, At
<1> QED
  BY <1>0, <1>1, <1>3, LookingTyped, OthersStaySafe DEF At

\* What the decision table makes sure of: an upload follows a look at the file the
\* vault is based on, a download replaces a vault whose edits are shared.
LEMMA DownloadSafe ==
  ASSUME QuietFolder, SyncInv, NEW d \in Devices, Download(d)
  PROVE  SafetyInv' /\ UNCHANGED <<remote, kept>>
<1>0. TypeInv /\ TypeOK /\ SafetyInv /\ SafeInv(d) /\ OpInv(d)
  BY DEF SyncInv, TypeInv, SafetyInv, OpsInv
<1>1. UNCHANGED <<remote, kept, mem, disk, coord, saved>> /\ op[d].pc = "download"
  BY DEF Download, At
<1>2. Shared' = Shared
  BY <1>1 DEF Shared
<1>3. coord[d] # None /\ Covers(mem[d], coord[d].base, remote, Shared)
      /\ Covers(disk[d], saved[d], remote, Shared)
  BY <1>0, <1>1 DEF SafeInv, OpInv
<1>4. coord[d].base # None => mem[d].rev \in Nat /\ coord[d].base.rev \in Nat
  BY <1>0, <1>3 DEF TypeOK, Vaults, Baselines
<1>5. ASSUME At(d, "rename")' PROVE \A x \in Devices \ {d} : ~At(x, "rename")
  BY <1>0, <1>5 DEF Download, MayCommit, QuietFolder, At, Finish, Idle, TypeOK
<1>6. ASSUME remote # None PROVE remote.vault.edits \subseteq Shared
  BY <1>6 DEF Shared
<1> HIDE DEF Shared
<1>7. CASE ~RemoteChanged(d) /\ LocalChanged(d)
  <2>1. op'[d].seen = remote /\ op'[d].pc = IF remote = None THEN "rename" ELSE "check"
    BY <1>0, <1>7 DEF Download, TypeOK
  <2>2. remote # None => coord[d].base # None /\ coord[d].base.id = remote.id
    BY <1>7 DEF RemoteChanged
  <2>3. remote # None => remote.vault.edits \subseteq mem[d].edits
    BY <1>3, <2>2 DEF Covers
  <2>4. SafeInv(d)'
    BY <1>1, <1>2, <1>3, <1>6, <2>1, <2>3 DEF SafeInv, At
  <2> QED
    BY <1>0, <1>1, <1>5, <2>4, LookingTyped, OthersStaySafe
<1>8. CASE op' = [op EXCEPT ![d] = Idle]
  <2>1. op'[d] = Idle
    BY <1>0, <1>8 DEF TypeOK
  <2>2. SafeInv(d)'
    BY <1>1, <1>2, <1>3, <2>1 DEF SafeInv, At, Idle
  <2> QED
    BY <1>0, <1>1, <1>5, <2>2, LookingTyped, OthersStaySafe
<1>9. CASE /\ remote # None /\ ~LocalChanged(d)
           /\ op' = [op EXCEPT ![d].pc = "apply", ![d].seen = remote]
  <2>1. op'[d].pc = "apply" /\ op'[d].seen = remote
    BY <1>0, <1>9 DEF TypeOK
  <2>2. coord[d].base # None /\ mem[d].rev = coord[d].base.rev
    BY <1>3, <1>4, <1>9 DEF LocalChanged, Covers
  <2>3. mem[d].edits \subseteq remote.vault.edits \cup kept
    BY <1>3, <1>9, <2>2 DEF Covers, Shared
  <2>4. SafeInv(d)'
    BY <1>1, <1>2, <1>3, <1>6, <1>9, <2>1, <2>3 DEF SafeInv, At
  <2> QED
    BY <1>0, <1>1, <1>5, <2>4, LookingTyped, OthersStaySafe
<1>10. CASE /\ remote # None
            /\ op' = [op EXCEPT ![d].pc = "backup", ![d].seen = remote]
  <2>1. op'[d].pc = "backup" /\ op'[d].seen = remote
    BY <1>0, <1>10 DEF TypeOK
  <2>2. SafeInv(d)'
    BY <1>1, <1>2, <1>3, <1>6, <1>10, <2>1 DEF SafeInv, At
  <2> QED
    BY <1>0, <1>1, <1>5, <2>2, LookingTyped, OthersStaySafe
<1> QED
  BY <1>1, <1>7, <1>8, <1>9, <1>10 DEF Download, RemoteChanged, Finish

LEMMA CheckSafe ==
  ASSUME QuietFolder, SyncInv, NEW d \in Devices, Check(d)
  PROVE  SafetyInv' /\ UNCHANGED <<remote, kept>>
<1>0. TypeInv /\ TypeOK /\ SafetyInv /\ SafeInv(d) /\ OpInv(d) /\ HashInv
  BY DEF SyncInv, TypeInv, SafetyInv, OpsInv
<1>1. UNCHANGED <<remote, kept, mem, disk, coord, saved>> /\ op[d].pc = "check"
      /\ remote # None /\ op[d].seen # None
  BY <1>0 DEF Check, At, SafeInv, OpInv
<1>2. Shared' = Shared
  BY <1>1 DEF Shared
<1>3. CASE remote.id # op[d].seen.id
  <2>1. op'[d].pc = "idle"
    BY <1>0, <1>1, <1>3 DEF Check, Finish, Idle, TypeOK
  <2>2. SafeInv(d)'
    BY <1>0, <1>1, <1>2, <2>1 DEF SafeInv, At
  <2> QED
    BY <1>0, <1>1, <2>1, <2>2, LookingTyped, OthersStaySafe DEF At
<1>4. CASE remote.id = op[d].seen.id
  <2>1. op'[d].pc = "rename" /\ op'[d].seen = op[d].seen
    BY <1>0, <1>1, <1>4 DEF Check, Goto, TypeOK
  <2>2. \A x \in Devices \ {d} : ~At(x, "rename")
    BY <1>1, <1>4 DEF Check, MayCommit, QuietFolder
  <2>3. op[d].seen = remote
    BY <1>0, <1>1, <1>4 DEF HashInv, OneHash, InPlay
  <2>4. SafeInv(d)'
    BY <1>0, <1>1, <1>2, <2>1, <2>3 DEF SafeInv, At
  <2> QED
    BY <1>0, <1>1, <2>2, <2>4, LookingTyped, OthersStaySafe
<1> QED
  BY <1>3, <1>4

\* An upload replaces the file it has seen, whose edits the vault has or a backup.
LEMMA RenameSafe ==
  ASSUME QuietFolder, SyncInv, NEW d \in Devices, Rename(d)
  PROVE  /\ SafetyInv' /\ UNCHANGED <<kept, disk, acked>> /\ remote' # None
         /\ remote # None => remote.vault.edits \subseteq remote'.vault.edits \cup kept
<1> DEFINE new == [id |-> FreshId, vault |-> mem[d]]
<1>0. TypeInv /\ TypeOK /\ SafetyInv /\ SafeInv(d) /\ OpInv(d)
      /\ OneWriter /\ \A x \in Devices : SafeInv(x)
  BY DEF SyncInv, TypeInv, SafetyInv, OpsInv
<1>1. mem[d] \in Vaults /\ coord[d] # None /\ At(d, "rename")
  BY <1>0 DEF Rename, OpInv, At, TypeOK
<1>2. new \in Files /\ new.id \notin InUse
  BY <1>1, FreshIdIsFresh DEF Files
<1>3. new # None /\ new.vault = mem[d]
  BY <1>2, NoneIsNothing
<1>4. remote = op[d].seen
  BY <1>0, <1>1 DEF SafeInv
<1> HIDE DEF new
<1>5. remote' = new /\ op' = [op EXCEPT ![d].pc = "save", ![d].seen = new]
      /\ UNCHANGED <<disk, mem, coord, saved, acked, kept>>
  BY <1>4 DEF Rename, new, QuietFolder
<1>6. op'[d].pc = "save" /\ op'[d].seen = new /\ \A x \in Devices \ {d} : op'[x] = op[x]
  BY <1>0, <1>5 DEF TypeOK
<1>7. remote # None => remote.vault.edits \subseteq mem[d].edits \cup kept
  BY <1>0, <1>1, <1>4 DEF SafeInv, At
<1>8. Shared \subseteq Shared' /\ mem[d].edits \subseteq Shared'
  BY <1>3, <1>5, <1>7 DEF Shared
<1>9. ASSUME NEW x \in Devices
      PROVE  /\ saved[x] # None => saved[x].id # new.id
             /\ coord[x] # None /\ coord[x].base # None => coord[x].base.id # new.id
  BY <1>2, UsedHashes DEF Known
<1>10. ASSUME NEW v, NEW b, b # None => b.id # new.id, Covers(v, b, remote, Shared)
       PROVE  Covers(v, b, new, Shared')
  BY <1>8, <1>10 DEF Covers
<1>11. \A x \in Devices \ {d} : ~At(x, "rename")
  BY <1>0, <1>1 DEF OneWriter
<1> HIDE DEF Shared
<1>12. ASSUME NEW x \in Devices PROVE SafeInv(x)'
  <2>1. coord[x] # None /\ op[x].pc \notin {"clear", "take"} =>
          Covers(mem[x], coord[x].base, new, Shared')
    BY <1>0, <1>9, <1>10 DEF SafeInv
  <2>2. op[x].pc \notin {"clear", "take"} => Covers(disk[x], saved[x], new, Shared')
    BY <1>0, <1>9, <1>10 DEF SafeInv
  <2>3. CASE x = d
    BY <1>1, <1>3, <1>5, <1>6, <1>8, <2>1, <2>2, <2>3 DEF SafeInv, At
  <2>4. CASE x # d
    BY <1>0, <1>3, <1>5, <1>6, <1>8, <1>11, <2>1, <2>2, <2>4 DEF SafeInv, At
  <2> QED
    BY <2>3, <2>4
<1>13. OneWriter'
  BY <1>6, <1>11 DEF OneWriter, At
<1> QED
  BY <1>3, <1>5, <1>7, <1>12, <1>13 DEF SafetyInv

\* A vault covers the baseline made of it.
LEMMA OwnBaselineCovers ==
  ASSUME TypeInv, HashInv, NEW f \in InPlay, NEW s, f.vault.edits \subseteq s
  PROVE  Covers(f.vault, BaselineOf(f), remote, s)
<1>1. f \in Files
  BY DEF TypeInv, TypeOK, InPlay
<1>2. f.vault.rev \in Nat
  BY <1>1 DEF Files, Vaults
<1>3. remote # None /\ f.id = remote.id => f = remote
  BY DEF HashInv, OneHash, InPlay
<1> QED
  BY <1>2, <1>3 DEF Covers, BaselineOf

LEMMA SaveSafe ==
  ASSUME QuietFolder, SyncInv, NEW d \in Devices, Save(d) \/ Take(d)
  PROVE  SafetyInv' /\ UNCHANGED <<remote, kept, disk>>
<1> DEFINE f == op[d].seen
<1>0. TypeInv /\ TypeOK /\ SafetyInv /\ SafeInv(d) /\ OpInv(d) /\ AlignInv(d) /\ HashInv
      /\ SteadyWrites
  BY QuietIsSteady DEF SyncInv, TypeInv, SafetyInv, OpsInv, AlignedInv
<1>1. op[d].pc \in {"save", "take"} /\ f # None /\ f \in InPlay /\ coord[d] # None
      /\ f \in Files /\ mem[d] # None /\ UNCHANGED <<remote, disk, kept>>
      /\ op'[d].pc = "idle"
  BY <1>0 DEF Save, Take, At, OpInv, InPlay, TypeOK, Finish, Idle
<1>2. disk[d] = f.vault /\ mem'[d] = f.vault
  <2>1. CASE Save(d)
    BY <1>0, <1>1, <2>1 DEF Save, AlignInv, At, OpInv
  <2>2. CASE Take(d)
    <3>1. mem'[d] = f.vault
      BY <1>0, <2>2, TakeWorks DEF TypeOK
    <3> QED
      BY <1>0, <2>2, <3>1 DEF Take, AlignInv
  <2> QED
    BY <2>1, <2>2
<1>3. SetBaseline(d, f.vault.rev, f.id)
  BY <1>0, <1>1 DEF Save, Take, OpInv, At
<1>4. coord'[d] = [base |-> BaselineOf(f)]
      /\ (saved'[d] = BaselineOf(f) \/ (saved'[d] = saved[d] /\ op[d].pc = "save"))
  <2>1. "resolve" \notin Mishaps /\ "take" \notin Mishaps /\ coord[d] \in Coords
    BY <1>0, <1>1 DEF QuietFolder, TypeOK, Coords
  <2>2. coord' = [coord EXCEPT ![d].base = BaselineOf(f)]
        /\ (saved' = [saved EXCEPT ![d] = BaselineOf(f)] \/ (saved' = saved /\ op[d].pc # "take"))
    BY <1>3, <2>1 DEF SetBaseline, Happens, BaselineOf
  <2> QED
    BY <1>0, <1>1, <2>1, <2>2 DEF TypeOK, Coords
<1>5. f.vault.edits \subseteq Shared /\ (op[d].pc = "save" => Covers(f.vault, saved[d], remote, Shared))
  BY <1>0, <1>1, <1>2 DEF SafeInv
<1>6. Covers(f.vault, BaselineOf(f), remote, Shared)
  BY <1>0, <1>1, <1>5, OwnBaselineCovers
<1>7. Shared' = Shared
  BY <1>1 DEF Shared
<1> HIDE DEF f
<1>8. SafeInv(d)'
  BY <1>1, <1>2, <1>4, <1>5, <1>6, <1>7 DEF SafeInv, At
<1> QED
  BY <1>0, <1>1, <1>8, SaveTyped, OthersStaySafe DEF At

LEMMA ApplySafe ==
  ASSUME QuietFolder, SyncInv, NEW d \in Devices, Backup(d) \/ Apply(d)
  PROVE  /\ SafetyInv' /\ UNCHANGED remote /\ kept \subseteq kept'
         /\ disk[d].edits \subseteq disk'[d].edits \cup kept
<1>0. TypeInv /\ TypeOK /\ SafetyInv /\ SafeInv(d) /\ OpInv(d) /\ AlignInv(d) /\ "apply" \notin Mishaps
  BY DEF SyncInv, TypeInv, SafetyInv, OpsInv, AlignedInv, QuietFolder
<1>1. UNCHANGED <<remote, mem, coord, saved>> /\ mem[d] # None
  BY <1>0 DEF Backup, Apply, OpInv, At, TypeOK
<1>2. kept \subseteq kept'
  BY DEF Backup, Apply
<1>3. Shared \subseteq Shared'
  BY <1>1, <1>2 DEF Shared
<1>4. CASE Backup(d)
  <2>1. disk' = disk /\ op[d].pc = "backup" /\ op'[d].seen = op[d].seen
        /\ \/ op'[d].pc = "apply" /\ mem[d].edits \subseteq kept'
           \/ op'[d].pc = "check" /\ op[d].seen.vault.edits \subseteq kept'
    BY <1>0, <1>4 DEF Backup, Goto, At, TypeOK
  <2>2. ASSUME NEW v, NEW b, Covers(v, b, remote, Shared) PROVE Covers(v, b, remote, Shared')
    BY <1>3, <2>2 DEF Covers
  <2> HIDE DEF Shared
  <2>3. Covers(mem[d], coord[d].base, remote, Shared') /\ Covers(disk[d], saved[d], remote, Shared')
        /\ remote # None /\ op[d].seen.vault.edits \subseteq Shared'
    BY <1>0, <1>3, <2>1, <2>2 DEF SafeInv, OpInv
  <2>4. SafeInv(d)'
    BY <1>1, <2>1, <2>3 DEF SafeInv, At
  <2> QED
    BY <1>0, <1>1, <1>2, <2>1, <2>4, ApplyTyped, OthersStaySafe DEF At
<1>5. CASE Apply(d)
  <2>1. op[d].pc = "apply" /\ op'[d].pc = "take" /\ op'[d].seen = op[d].seen
        /\ disk'[d] = op[d].seen.vault /\ kept' = kept
    BY <1>0, <1>5 DEF Apply, Happens, Goto, At, TypeOK
  <2>2. SafeInv(d)'
    BY <1>0, <1>1, <1>3, <2>1 DEF SafeInv, At
  <2>3. disk[d] = mem[d] /\ mem[d].edits \subseteq op[d].seen.vault.edits \cup kept
    BY <1>0, <1>1, <2>1 DEF SafeInv, AlignInv, At
  <2> QED
    BY <1>0, <1>1, <1>2, <2>1, <2>2, <2>3, ApplyTyped, OthersStaySafe DEF At
<1> QED
  BY <1>4, <1>5

LEMMA RestoreSafe ==
  ASSUME QuietFolder, SyncInv, NEW d \in Devices,
         ClearState(d) \/ Restore(d) \/ RestoreClear(d)
  PROVE  /\ SafetyInv' /\ UNCHANGED remote /\ kept \subseteq kept'
         /\ disk[d].edits \subseteq disk'[d].edits \cup kept'
<1>0. TypeInv /\ TypeOK /\ SafetyInv /\ SafeInv(d) /\ MatchInv(d)
  BY DEF SyncInv, TypeInv, SafetyInv, MatchedInv
<1>1. UNCHANGED remote /\ kept \subseteq kept' /\ disk[d].edits \subseteq disk'[d].edits \cup kept'
  BY <1>0 DEF ClearState, Restore, RestoreClear, TypeOK
<1>2. CASE ClearState(d)
  <2>1. coord'[d].base = None /\ UNCHANGED <<mem, disk, op, kept>> /\ saved'[d] \in {None, saved[d]}
        /\ At(d, "idle")
    BY <1>0, <1>2 DEF ClearState, TypeOK
  <2>2. Shared' = Shared
    BY <1>1, <2>1 DEF Shared
  <2>3. SafeInv(d)'
    BY <1>0, <1>1, <2>1, <2>2 DEF SafeInv, Covers, At
  <2> QED
    BY <1>0, <1>1, <1>2, <2>1, <2>3, RestoreTyped, OthersStaySafe DEF At
<1>3. CASE Restore(d)
  <2>1. op'[d].pc = "clear"
    BY <1>0, <1>3 DEF Restore, Idle, TypeOK
  <2>2. SafeInv(d)'
    BY <2>1 DEF SafeInv, At
  <2> QED
    BY <1>0, <1>1, <1>3, <2>1, <2>2, RestoreTyped, OthersStaySafe DEF At
<1>4. CASE RestoreClear(d)
  <2>1. "cleanup" \notin Mishaps
    BY <1>0, <1>4 DEF RestoreClear, MatchInv, QuietFolder, CleanRestores
  <2>2. coord'[d].base = None /\ saved'[d] = None /\ op'[d].pc = "idle"
    BY <1>0, <1>4, <2>1 DEF RestoreClear, Happens, Finish, Idle, TypeOK
  <2>3. SafeInv(d)'
    BY <2>2 DEF SafeInv, Covers, At
  <2> QED
    BY <1>0, <1>1, <1>4, <2>2, <2>3, RestoreTyped, OthersStaySafe DEF At
<1> QED
  BY <1>2, <1>3, <1>4

\* Where edits may go in one step: what leaves the folder or a device's disk stays
\* in what replaces it or is in a backup, and an acknowledged edit is on a disk.
Flow ==
  /\ kept \subseteq kept'
  /\ remote # None => remote' # None /\ remote.vault.edits \subseteq remote'.vault.edits \cup kept
  /\ \A x \in Devices : disk[x].edits \subseteq disk'[x].edits \cup kept'
  /\ \A x \in Devices : At(x, "apply") => disk[x].edits \subseteq disk'[x].edits \cup kept
  /\ \A e \in acked' : e \in acked \/ \E x \in Devices : e \in disk'[x].edits

LEMMA StepSafe ==
  ASSUME QuietFolder, SyncInv, [Next]_syncVars
  PROVE  SafetyInv' /\ Flow
<1>0. TypeInv /\ TypeOK /\ SafetyInv /\ copies = {}
  BY DEF SyncInv, TypeInv, MatchedInv
<1>1. ASSUME NEW d \in Devices, SafetyInv', Alone(d), UNCHANGED <<remote, acked>>,
             kept \subseteq kept', disk[d].edits \subseteq disk'[d].edits \cup kept',
             At(d, "apply") => disk[d].edits \subseteq disk'[d].edits \cup kept
      PROVE  SafetyInv' /\ Flow
  BY <1>0, <1>1 DEF Flow, Alone, TypeOK
<1>2. ASSUME NEW d \in Devices, Edit(d) PROVE SafetyInv' /\ Flow
  <2>1. SafetyInv' /\ UNCHANGED <<remote, kept>>
    BY <1>2, EditSafe
  <2>2. disk[d] = mem[d]
    BY <1>2 DEF SyncInv, AlignedInv, AlignInv, Edit, At
  <2>3. \/ UNCHANGED <<acked, disk>>
        \/ /\ disk' = [disk EXCEPT ![d] = [rev |-> mem[d].rev + 1,
                                           edits |-> mem[d].edits \cup {edits + 1}]]
           /\ acked' = acked \cup {edits + 1}
    BY <1>2 DEF Edit, Happens, QuietFolder
  <2>4. CASE UNCHANGED <<acked, disk>>
    BY <2>1, <2>4 DEF Flow
  <2>5. CASE /\ disk' = [disk EXCEPT ![d] = [rev |-> mem[d].rev + 1,
                                             edits |-> mem[d].edits \cup {edits + 1}]]
             /\ acked' = acked \cup {edits + 1}
    <3>1. disk'[d].edits = disk[d].edits \cup {edits + 1}
          /\ \A x \in Devices \ {d} : disk'[x] = disk[x]
      BY <1>0, <2>2, <2>5 DEF TypeOK
    <3> QED
      BY <2>1, <2>5, <3>1 DEF Flow
  <2> QED
    BY <2>3, <2>4, <2>5
<1>3. ASSUME NEW d \in Devices, Lock(d) \/ Unlock(d) \/ Crash(d) PROVE SafetyInv' /\ Flow
  <2>1. UNCHANGED <<disk, acked>>
    BY <1>3 DEF Lock, Unlock, Crash
  <2> QED
    BY <1>0, <1>1, <1>3, <2>1, LockSafe, LockTyped
<1>4. ASSUME NEW d \in Devices,
             (\E kind \in {"sync", "local", "remote"} : Start(d, kind)) \/ Download(d) \/ Check(d)
      PROVE  SafetyInv' /\ Flow
  <2>1. UNCHANGED <<disk, acked>>
    BY <1>0, <1>4, LookingMoves DEF OnlyOp
  <2> QED
    BY <1>0, <1>1, <1>4, <2>1, StartSafe, DownloadSafe, CheckSafe, LookingTyped
<1>5. ASSUME NEW d \in Devices, Rename(d) PROVE SafetyInv' /\ Flow
  BY <1>5, RenameSafe DEF Flow
<1>6. ASSUME NEW d \in Devices, Save(d) \/ Take(d) PROVE SafetyInv' /\ Flow
  <2>1. UNCHANGED acked
    BY <1>6 DEF Save, Take
  <2> QED
    BY <1>0, <1>1, <1>6, <2>1, SaveSafe, SaveTyped
<1>7. ASSUME NEW d \in Devices, Backup(d) \/ Apply(d) PROVE SafetyInv' /\ Flow
  <2>1. UNCHANGED acked
    BY <1>7 DEF Backup, Apply
  <2> QED
    BY <1>0, <1>1, <1>7, <2>1, ApplySafe, ApplyTyped
<1>8. ASSUME NEW d \in Devices, ClearState(d) \/ Restore(d) \/ RestoreClear(d)
      PROVE  SafetyInv' /\ Flow
  <2>1. UNCHANGED acked /\ ~At(d, "apply")
    BY <1>8 DEF ClearState, Restore, RestoreClear, At
  <2> QED
    BY <1>0, <1>1, <1>8, <2>1, RestoreSafe, RestoreTyped
<1>9. ~DeleteRemote
  BY DEF DeleteRemote, Happens, QuietFolder
<1>10. CASE UNCHANGED syncVars
  <2>1. Flow
    BY <1>10 DEF Flow, syncVars, dataVars
  <2>2. Shared' = Shared
    BY <1>10 DEF Shared, syncVars, dataVars
  <2> HIDE DEF Shared
  <2>3. SafetyInv'
    BY <1>0, <1>10, <2>2 DEF SafetyInv, OneWriter, SafeInv, At, syncVars, dataVars
  <2> QED
    BY <2>1, <2>3
<1> QED
  BY <1>0, <1>2, <1>3, <1>4, <1>5, <1>6, <1>7, <1>8, <1>9, <1>10 DEF Next, SyncStep

LEMMA InitSafe == Init => MatchedInv /\ SafetyInv
BY DEF Init, MatchedInv, MatchInv, Matches, SafetyInv, OneWriter, SafeInv, Covers, At, Idle

LEMMA SafetyHolds ==
  ASSUME QuietFolder
  PROVE  Spec => []SyncInv
<1>1. SyncInv /\ [Next]_syncVars => SyncInv'
  BY StepTyped, EveryStepTrue, StepAligned, StepMatched, StepSafe, QuietIsSteady DEF SyncInv
<1>2. Init => SyncInv
  BY InitTyped, InitSafe
     DEF SyncInv, Init, HashInv, OneHash, TrueKnown, InPlay, Known, Idle, AlignedInv, AlignInv, At
<1> QED
  BY <1>1, <1>2, PTL DEF Spec

\* Where an acknowledged edit is found.
Found == acked \subseteq Shared \cup (UNION { disk[d].edits : d \in Devices })

LEMMA FlowKeepsFound ==
  ASSUME Found, Flow
  PROVE  Found'
<1>1. Shared \subseteq Shared'
  BY DEF Flow, Shared
<1>2. \A x \in Devices : disk[x].edits \subseteq disk'[x].edits \cup Shared'
  BY DEF Flow, Shared
<1> HIDE DEF Shared
<1>3. \A e \in acked : e \in Shared \/ \E x \in Devices : e \in disk[x].edits
  BY DEF Found
<1>4. \A e \in acked' : e \in Shared' \/ \E x \in Devices : e \in disk'[x].edits
  BY <1>1, <1>2, <1>3 DEF Flow
<1> QED
  BY <1>4 DEF Found

\* An edit whose save succeeded is on some device, in the folder or in a backup,
\* through every interleaving of syncs, resolutions and crashes of any number of
\* devices.
THEOREM NoEditLost ==
  ASSUME QuietFolder
  PROVE  Spec => []NothingLost
<1>1. Init => Found
  BY DEF Init, Found
<1>2. SyncInv /\ Found /\ [Next]_syncVars => Found'
  BY StepSafe, FlowKeepsFound
<1>3. Found => NothingLost
  <2>1. SUFFICES ASSUME Found, NEW e \in acked PROVE e \in Findable
    BY DEF NothingLost
  <2>2. CASE e \in Shared
    <3>1. e \in kept \/ e \in (IF remote = None THEN {} ELSE remote.vault.edits)
      BY <2>2 DEF Shared
    <3> QED
      BY <3>1 DEF Findable
  <2>3. CASE \E x \in Devices : e \in disk[x].edits
    BY <2>3 DEF Findable
  <2> HIDE DEF Shared
  <2> QED
    BY <2>1, <2>2, <2>3 DEF Found
<1> QED
  BY <1>1, <1>2, <1>3, SafetyHolds, PTL DEF Spec

\* A file in the folder is replaced only by one that contains its edits, and a
\* device's vault only by a download that does, or the edits went into a backup
\* before.
THEOREM NoBlindOverwrite ==
  ASSUME QuietFolder
  PROVE  Spec => NoBlindReplacement
<1>1. SyncInv /\ [Next]_syncVars =>
        [/\ remote # None /\ remote' # None /\ remote' # remote
              => remote.vault.edits \subseteq remote'.vault.edits \cup kept
         /\ \A d \in Devices : At(d, "apply") /\ disk'[d] # disk[d]
              => disk[d].edits \subseteq disk'[d].edits \cup kept]_syncVars
  BY StepSafe DEF Flow
<1> QED
  BY <1>1, SafetyHolds, PTL DEF Spec, NoBlindReplacement
=============================================================================
