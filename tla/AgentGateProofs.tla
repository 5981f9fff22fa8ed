--------------------------- MODULE AgentGateProofs ---------------------------
(***************************************************************************)
(* Proofs about AgentGate, for any number of agents, owners, sessions,     *)
(* hosts and execs, any time to live and any number of faults and crashes. *)
(*                                                                         *)
(* First what the audit file and the approvals say of a command (GateInv), *)
(* then what requests remember of their sessions while they wait for the   *)
(* mutexes (KnowsInv): the consent a dangerous command needs, the single   *)
(* login of the agents, the ends of the approvals, and that the gate       *)
(* implements ApprovalLedger (LifeInv).                                    *)
(***************************************************************************)
EXTENDS AgentGate, FiniteSetTheorems, TLAPS

-----------------------------------------------------------------------------
(* Types.  What a request carries depends on how far it has come.          *)

AboutExec == ExecPCs \cup ApprovePCs \cup {"deny"}
AboutSession == ExecPCs \cup {"register", "remove", "agent_register"}
AboutTarget == {"open", "register", "agent_list", "agent_spawn", "agent_register"}

Sound(r) ==
  /\ r.pc \in AboutExec => r.exec \in Execs
  /\ r.pc \in AboutSession => r.sess \in Sessions
  /\ r.pc \in AboutTarget => r.target \in Targets
  /\ r.pc = "trust" => r.target \in Hosts

SoundRequests == {r \in Requests : Sound(r)}

TypeInv ==
  /\ TypeOK
  /\ req \in [Clients -> SoundRequests]

\* The idle request is sound.
LEMMA IdleSound == Idle \in SoundRequests
BY DEF Idle, SoundRequests, Sound, Requests, AboutExec, AboutSession, AboutTarget, ExecPCs,
       ApprovePCs, OtherPCs, Trusts

\* Adding an outcome to a log keeps the log's type.
LEMMA LoggedType ==
  ASSUME NEW S, NEW log \in [Execs -> SUBSET S], NEW execs, NEW what \in S
  PROVE  Logged(log, execs, what) \in [Execs -> SUBSET S]
BY DEF Logged

\* One more entry keeps the types of the audit file and of the events.
LEMMA AuditType ==
  ASSUME NEW log \in [Execs -> SUBSET Outcomes], NEW execs, NEW what \in Outcomes
  PROVE  Logged(log, execs, what) \in [Execs -> SUBSET Outcomes]
BY LoggedType

LEMMA ToldType ==
  ASSUME NEW log \in [Execs -> SUBSET (Resolutions \cup {"requested"})], NEW execs,
         NEW what \in Resolutions \cup {"requested"}
  PROVE  Logged(log, execs, what) \in [Execs -> SUBSET (Resolutions \cup {"requested"})]
BY LoggedType

\* The outcomes and events the steps record.
LEMMA Recorded ==
  /\ {"allowed", "needs_approval", "approved", "denied", "expired", "cancelled",
      "rejected_readonly", "rejected_unknown_session", "failed"} \subseteq Outcomes
  /\ {"requested", "approved", "failed", "denied", "expired", "cancelled"}
        \subseteq Resolutions \cup {"requested"}
BY DEF Outcomes, Resolutions

LEMMA FaultType == TypeOK /\ (Fault \/ NoFault) => faults' \in Nat
BY DEF TypeOK, Fault, NoFault

\* The results of a successful expire_pending have the right types.
LEMMA ExpireType ==
  ASSUME TypeOK, NEW now
  PROVE  /\ Live(now) \in SUBSET Execs
         /\ Overdue(now) \in SUBSET Execs
         /\ ExpiredAudit(now) \in [Execs -> SUBSET Outcomes]
         /\ ExpiredTold(now) \in [Execs -> SUBSET (Resolutions \cup {"requested"})]
<1>1. "expired" \in Outcomes /\ "expired" \in Resolutions \cup {"requested"}
  BY DEF Outcomes, Resolutions
<1>2. Live(now) \in SUBSET Execs /\ Overdue(now) \in SUBSET Execs
  BY DEF TypeOK, Live, Overdue
<1>3. QED
  BY <1>1, <1>2, LoggedType DEF TypeOK, ExpiredAudit, ExpiredTold

\* A request that arrives, ends or moves on leaves the requests sound.
LEMMA ReqChange ==
  ASSUME TypeInv, NEW c \in Clients, NEW r \in SoundRequests,
         req' = [req EXCEPT ![c] = r]
  PROVE  req' \in [Clients -> SoundRequests]
BY DEF TypeInv

LEMMA FinishSound ==
  ASSUME TypeInv, NEW c \in Clients, Finish(c)
  PROVE  req' \in [Clients -> SoundRequests]
BY IdleSound DEF Finish, TypeInv

LEMMA GotoSound ==
  ASSUME TypeInv, NEW c \in Clients, NEW pc, Goto(c, pc),
         \/ /\ req[c].pc \in ExecPCs
            /\ pc \in ExecPCs \ {"trust"}
         \/ /\ req[c].pc \in ApprovePCs
            /\ pc \in ApprovePCs
         \/ /\ req[c].pc = "agent_list"
            /\ pc = "agent_spawn"
  PROVE  req' \in [Clients -> SoundRequests]
<1> DEFINE r == [req[c] EXCEPT !.pc = pc]
<1>1. req[c] \in Requests /\ Sound(req[c])
  BY DEF TypeInv, SoundRequests
<1>2. r \in Requests
  BY <1>1 DEF Requests, ExecPCs, ApprovePCs, OtherPCs
<1>3. /\ r.pc = pc /\ r.exec = req[c].exec /\ r.sess = req[c].sess
      /\ r.target = req[c].target
  BY <1>1 DEF Requests
<1>4. Sound(r)
  BY <1>1, <1>3 DEF Sound, AboutExec, AboutSession, AboutTarget, ExecPCs, ApprovePCs
<1>5. req' = [req EXCEPT ![c] = r]
  BY DEF Goto, TypeInv
<1>6. QED
  BY <1>2, <1>4, <1>5, ReqChange DEF SoundRequests

\* The initial state is well typed.
LEMMA InitType == Init => TypeInv
<1> SUFFICES ASSUME Init PROVE TypeInv
  OBVIOUS
<1>1. req \in [Clients -> SoundRequests]
  BY IdleSound DEF Init
<1>2. SoundRequests \subseteq Requests
  BY DEF SoundRequests
<1>3. TypeOK
  BY <1>1, <1>2 DEF Init, TypeOK
<1>4. QED
  BY <1>1, <1>3 DEF TypeInv

\* What TypeInv says of a request in progress.
LEMMA InProgress ==
  ASSUME TypeInv, NEW c \in Clients
  PROVE  /\ req[c] \in Requests
         /\ Sound(req[c])
         /\ req[c].now \in Nat
BY DEF TypeInv, SoundRequests, Requests

\* Sound requests are requests.
LEMMA SoundTyped == req' \in [Clients -> SoundRequests] => req' \in [Clients -> Requests]
BY DEF SoundRequests

LEMMA RefusedType ==
  ASSUME TypeInv, NEW c \in Clients, ExpireFails(c)
  PROVE  TypeInv'
<1>1. PICK gone, done :
        /\ pending' = pending \ (done \cup {gone})
        /\ audit' = Logged(audit, done, "expired")
        /\ told' = Logged(told, done, "expired")
  BY DEF ExpireFails
<1>2. /\ pending' \in SUBSET Execs
      /\ audit' \in [Execs -> SUBSET Outcomes]
      /\ told' \in [Execs -> SUBSET (Resolutions \cup {"requested"})]
  BY <1>1, LoggedType DEF TypeInv, TypeOK, Outcomes, Resolutions
<1>3. req' \in [Clients -> SoundRequests]
  BY FinishSound DEF ExpireFails
<1>4. faults' \in Nat
  BY DEF TypeInv, TypeOK, ExpireFails, Fault
<1>5. TypeOK'
  BY <1>2, <1>3, <1>4, SoundTyped DEF TypeInv, TypeOK, ExpireFails, procVars, envVars
<1>6. QED
  BY <1>3, <1>5 DEF TypeInv

\* The steps of AgentExec keep the types.
LEMMA ExecType ==
  ASSUME TypeInv, NEW a \in Agents,
         \/ \E e \in Execs, s \in Sessions : ExecArrives(a, e, s)
         \/ ExecTrust(a) \/ ExecEvaluate(a) \/ RecordAllowed(a) \/ SendAllowed(a)
         \/ RecordFailed(a)
  PROVE  TypeInv'
<1>0. a \in Clients /\ TypeOK
  BY DEF Clients, TypeInv
<1>1. ASSUME NEW e \in Execs, NEW s \in Sessions, ExecArrives(a, e, s)
      PROVE  TypeInv'
  <2> DEFINE r == [Idle EXCEPT !.pc = IF bound[s] \in Hosts THEN "trust" ELSE "evaluate",
                               !.exec = e, !.sess = s, !.target = bound[s], !.now = clock,
                               !.seen = {TrustOf(origin[s])}]
  <2>1. TrustOf(origin[s]) \in Trusts
    BY <1>0 DEF TrustOf, Trusts, TypeOK
  <2>2. r \in SoundRequests
    BY <1>0, <2>1 DEF TypeOK, Idle, SoundRequests, Sound, Requests, AboutExec, AboutSession,
       AboutTarget, ExecPCs, ApprovePCs, OtherPCs, Trusts
  <2>3. req' = [req EXCEPT ![a] = r]
    BY <1>1 DEF ExecArrives, Arrive
  <2>4. req' \in [Clients -> SoundRequests]
    BY <1>0, <2>2, <2>3, ReqChange
  <2>5. TypeOK'
    BY <1>0, <1>1, <2>4, SoundTyped DEF TypeOK, ExecArrives, ctlVars, procVars, envVars
  <2>6. QED
    BY <2>4, <2>5 DEF TypeInv
<1>2. ASSUME ExecTrust(a) PROVE TypeInv'
  <2>1. req' \in [Clients -> SoundRequests]
    <3>1. CASE unlocked
      <4> DEFINE r == [req[a] EXCEPT !.trust = trust[req[a].target], !.pc = "evaluate"]
      <4>1. req' = [req EXCEPT ![a] = r]
        BY <1>0, <1>2, <3>1 DEF ExecTrust, TypeInv
      <4>2. trust[req[a].target] \in Trusts
        BY <1>0, <1>2, InProgress DEF ExecTrust, Sound, TypeOK
      <4>3. r \in SoundRequests
        BY <1>0, <1>2, <4>2, InProgress DEF ExecTrust, Requests, Sound, SoundRequests, AboutExec,
           AboutSession, AboutTarget, ExecPCs, ApprovePCs, OtherPCs
      <4>4. QED
        BY <1>0, <4>1, <4>3, ReqChange
    <3>2. CASE ~unlocked
      BY <1>0, <1>2, <3>2, FinishSound DEF ExecTrust
    <3>3. QED
      BY <3>1, <3>2
  <2>2. TypeOK'
    BY <1>0, <1>2, <2>1, SoundTyped DEF TypeOK, ExecTrust, ctlVars, procVars, envVars
  <2>3. QED
    BY <2>1, <2>2 DEF TypeInv
<1>3. ASSUME ExecEvaluate(a) PROVE TypeInv'
  <2> DEFINE e == req[a].exec
             now == req[a].now
  <2>1. e \in Execs /\ now \in Nat /\ now + TTL \in Nat
    BY <1>0, <1>3, InProgress, BoundsAssumption DEF ExecEvaluate, Sound, AboutExec, ExecPCs
  <2>2. req' \in [Clients -> SoundRequests]
    <3>1. Goto(a, "record_allowed") \/ Finish(a)
      BY <1>3 DEF ExecEvaluate
    <3>2. QED
      BY <1>0, <1>3, <3>1, GotoSound, FinishSound DEF ExecEvaluate, ExecPCs
  <2>3. pending' \in SUBSET Execs /\ expires' \in [Execs -> Nat] /\ faults' \in Nat
    <3>1. Live(now) \in SUBSET Execs
      BY <1>0, ExpireType
    <3>2. pending' \in {Live(now), Live(now) \cup {e}}
      BY <1>3 DEF ExecEvaluate
    <3>3. expires' \in {expires, [expires EXCEPT ![e] = now + TTL]}
      BY <1>3 DEF ExecEvaluate
    <3>4. faults' \in {faults, faults + 1}
      BY <1>3 DEF ExecEvaluate, Fault, NoFault
    <3>5. pending' \in SUBSET Execs
      BY <2>1, <3>1, <3>2
    <3>6. expires' \in [Execs -> Nat]
      BY <1>0, <2>1, <3>3 DEF TypeOK
    <3>7. QED
      BY <1>0, <3>4, <3>5, <3>6 DEF TypeOK
  <2>4. audit' \in [Execs -> SUBSET Outcomes]
    <3>1. ExpiredAudit(now) \in [Execs -> SUBSET Outcomes]
      BY <1>0, ExpireType
    <3>2. PICK d \in {"rejected_unknown_session", "rejected_readonly", "needs_approval"} :
            audit' \in {ExpiredAudit(now), Logged(ExpiredAudit(now), {e}, d)}
      BY <1>3 DEF ExecEvaluate
    <3>3. Logged(ExpiredAudit(now), {e}, d) \in [Execs -> SUBSET Outcomes]
      BY <3>1, AuditType, Recorded
    <3>4. QED
      BY <3>1, <3>2, <3>3
  <2>5. told' \in [Execs -> SUBSET (Resolutions \cup {"requested"})]
    <3>1. ExpiredTold(now) \in [Execs -> SUBSET (Resolutions \cup {"requested"})]
      BY <1>0, ExpireType
    <3>2. told' \in {ExpiredTold(now), Logged(ExpiredTold(now), {e}, "requested")}
      BY <1>3 DEF ExecEvaluate
    <3>3. Logged(ExpiredTold(now), {e}, "requested") \in [Execs -> SUBSET (Resolutions \cup {"requested"})]
      BY <3>1, ToldType, Recorded
    <3>4. QED
      BY <3>1, <3>2, <3>3
  <2>6. TypeOK'
    BY <1>0, <1>3, <2>2, <2>3, <2>4, <2>5, SoundTyped DEF TypeOK, ExecEvaluate, procVars, envVars
  <2>7. QED
    BY <2>2, <2>6 DEF TypeInv
<1>4. ASSUME RecordAllowed(a) PROVE TypeInv'
  <2>1. req' \in [Clients -> SoundRequests]
    BY <1>0, <1>4, GotoSound, FinishSound DEF RecordAllowed, ExecPCs
  <2>2. audit' \in [Execs -> SUBSET Outcomes] /\ faults' \in Nat
    <3>1. audit' = audit \/ audit' = Logged(audit, {req[a].exec}, "allowed")
      BY <1>4 DEF RecordAllowed
    <3>2. faults' \in Nat
      BY <1>0, <1>4, FaultType DEF RecordAllowed
    <3>3. audit \in [Execs -> SUBSET Outcomes]
      BY <1>0 DEF TypeOK
    <3>4. QED
      BY <3>1, <3>2, <3>3, AuditType, Recorded
  <2>3. TypeOK'
    BY <1>0, <1>4, <2>1, <2>2, SoundTyped DEF TypeOK, RecordAllowed, procVars, envVars
  <2>4. QED
    BY <2>1, <2>3 DEF TypeInv
<1>5. ASSUME SendAllowed(a) PROVE TypeInv'
  <2>1. req' \in [Clients -> SoundRequests]
    BY <1>0, <1>5, GotoSound, FinishSound DEF SendAllowed, Dispatch, ExecPCs
  <2>2. sent' \in [Execs -> Nat] /\ faults' \in Nat
    BY <1>0, <1>5 DEF SendAllowed, Dispatch, TypeOK, Fault, NoFault
  <2>3. TypeOK'
    BY <1>0, <1>5, <2>1, <2>2, SoundTyped
       DEF TypeOK, SendAllowed, Dispatch, ctlVars, procVars, envVars
  <2>4. QED
    BY <2>1, <2>3 DEF TypeInv
<1>6. ASSUME RecordFailed(a) PROVE TypeInv'
  <2>1. req' \in [Clients -> SoundRequests]
    BY <1>0, <1>6, FinishSound DEF RecordFailed
  <2>2. audit' \in [Execs -> SUBSET Outcomes] /\ faults' \in Nat
    <3>1. audit' = audit \/ audit' = Logged(audit, {req[a].exec}, "failed")
      BY <1>6 DEF RecordFailed
    <3>2. faults' \in Nat
      BY <1>0, <1>6, FaultType DEF RecordFailed
    <3>3. audit \in [Execs -> SUBSET Outcomes]
      BY <1>0 DEF TypeOK
    <3>4. QED
      BY <3>1, <3>2, <3>3, AuditType, Recorded
  <2>3. TypeOK'
    BY <1>0, <1>6, <2>1, <2>2, SoundTyped DEF TypeOK, RecordFailed, procVars, envVars
  <2>4. QED
    BY <2>1, <2>3 DEF TypeInv
<1>7. QED
  BY <1>1, <1>2, <1>3, <1>4, <1>5, <1>6

\* The owner's decisions keep the types.
LEMMA DecisionType ==
  ASSUME TypeInv, NEW o \in Owners,
         \/ \E e \in Execs, pc \in {"take", "deny"} : DecisionArrives(o, e, pc)
         \/ ListArrives(o)
         \/ TakeForApproval(o) \/ RecordApproved(o) \/ SendApproved(o)
         \/ RecordApproveFailed(o) \/ Resolve(o) \/ Deny(o) \/ List(o)
  PROVE  TypeInv'
<1>0. o \in Clients /\ TypeOK
  BY DEF Clients, TypeInv
<1>1. ASSUME NEW e \in Execs, NEW pc \in {"take", "deny"}, DecisionArrives(o, e, pc)
      PROVE  TypeInv'
  <2> DEFINE r == [Idle EXCEPT !.pc = pc, !.exec = e, !.now = clock]
  <2>1. r \in SoundRequests
    BY <1>0 DEF TypeOK, Idle, SoundRequests, Sound, Requests, AboutExec, AboutSession,
       AboutTarget, ExecPCs, ApprovePCs, OtherPCs, Trusts
  <2>2. req' \in [Clients -> SoundRequests]
    BY <1>0, <1>1, <2>1, ReqChange DEF DecisionArrives, Arrive
  <2>3. TypeOK'
    BY <1>0, <1>1, <2>2, SoundTyped DEF TypeOK, DecisionArrives, ctlVars, procVars, envVars
  <2>4. QED
    BY <2>2, <2>3 DEF TypeInv
<1>2. ASSUME ListArrives(o) PROVE TypeInv'
  <2> DEFINE r == [Idle EXCEPT !.pc = "list", !.now = clock]
  <2>1. r \in SoundRequests
    BY <1>0 DEF TypeOK, Idle, SoundRequests, Sound, Requests, AboutExec, AboutSession,
       AboutTarget, ExecPCs, ApprovePCs, OtherPCs, Trusts
  <2>2. req' \in [Clients -> SoundRequests]
    BY <1>0, <1>2, <2>1, ReqChange DEF ListArrives, Arrive
  <2>3. TypeOK'
    BY <1>0, <1>2, <2>2, SoundTyped DEF TypeOK, ListArrives, ctlVars, procVars, envVars
  <2>4. QED
    BY <2>2, <2>3 DEF TypeInv
<1>3. ASSUME TakeForApproval(o) PROVE TypeInv'
  <2>1. req' \in [Clients -> SoundRequests]
    BY <1>0, <1>3, GotoSound, FinishSound DEF TakeForApproval, ApprovePCs
  <2>2. TypeOK'
    BY <1>0, <1>3, <2>1, SoundTyped, ExpireType DEF TypeOK, TakeForApproval, procVars, envVars
  <2>3. QED
    BY <2>1, <2>2 DEF TypeInv
<1>4. ASSUME RecordApproved(o) PROVE TypeInv'
  <2>1. req' \in [Clients -> SoundRequests]
    BY <1>0, <1>4, GotoSound, FinishSound DEF RecordApproved, ApprovePCs
  <2>2. audit' \in [Execs -> SUBSET Outcomes] /\ faults' \in Nat
    <3>1. audit' = audit \/ audit' = Logged(audit, {req[o].exec}, "approved")
      BY <1>4 DEF RecordApproved
    <3>2. faults' \in Nat
      BY <1>0, <1>4, FaultType DEF RecordApproved
    <3>3. audit \in [Execs -> SUBSET Outcomes]
      BY <1>0 DEF TypeOK
    <3>4. QED
      BY <3>1, <3>2, <3>3, AuditType, Recorded
  <2>3. TypeOK'
    BY <1>0, <1>4, <2>1, <2>2, SoundTyped DEF TypeOK, RecordApproved, procVars, envVars
  <2>4. QED
    BY <2>1, <2>3 DEF TypeInv
<1>5. ASSUME SendApproved(o) PROVE TypeInv'
  <2>1. req' \in [Clients -> SoundRequests]
    BY <1>0, <1>5, GotoSound DEF SendApproved, Dispatch, ApprovePCs
  <2>2. sent' \in [Execs -> Nat] /\ faults' \in Nat
    BY <1>0, <1>5 DEF SendApproved, Dispatch, TypeOK, Fault, NoFault
  <2>3. TypeOK'
    BY <1>0, <1>5, <2>1, <2>2, SoundTyped
       DEF TypeOK, SendApproved, Dispatch, ctlVars, procVars, envVars
  <2>4. QED
    BY <2>1, <2>3 DEF TypeInv
<1>6. ASSUME RecordApproveFailed(o) PROVE TypeInv'
  <2>1. req' \in [Clients -> SoundRequests]
    BY <1>0, <1>6, GotoSound, FinishSound DEF RecordApproveFailed, ApprovePCs
  <2>2. audit' \in [Execs -> SUBSET Outcomes] /\ faults' \in Nat
    <3>1. audit' = audit \/ audit' = Logged(audit, {req[o].exec}, "failed")
      BY <1>6 DEF RecordApproveFailed
    <3>2. faults' \in Nat
      BY <1>0, <1>6, FaultType DEF RecordApproveFailed
    <3>3. audit \in [Execs -> SUBSET Outcomes]
      BY <1>0 DEF TypeOK
    <3>4. QED
      BY <3>1, <3>2, <3>3, AuditType, Recorded
  <2>3. TypeOK'
    BY <1>0, <1>6, <2>1, <2>2, SoundTyped DEF TypeOK, RecordApproveFailed, procVars, envVars
  <2>4. QED
    BY <2>1, <2>3 DEF TypeInv
<1>7. ASSUME Resolve(o) PROVE TypeInv'
  <2>1. req' \in [Clients -> SoundRequests]
    BY <1>0, <1>7, FinishSound DEF Resolve
  <2>2. told' \in [Execs -> SUBSET (Resolutions \cup {"requested"})]
    BY <1>0, <1>7, LoggedType DEF Resolve, TypeOK, Resolutions
  <2>3. TypeOK'
    BY <1>0, <1>7, <2>1, <2>2, SoundTyped DEF TypeOK, Resolve, procVars, envVars
  <2>4. QED
    BY <2>1, <2>3 DEF TypeInv
<1>8. ASSUME Deny(o) PROVE TypeInv'
  <2> DEFINE e == req[o].exec
             now == req[o].now
  <2>1. req' \in [Clients -> SoundRequests]
    BY <1>0, <1>8, FinishSound DEF Deny
  <2>2. pending' \in SUBSET Execs /\ faults' \in Nat
    BY <1>0, <1>8, ExpireType DEF Deny, TypeOK, Fault, NoFault
  <2>3. /\ audit' \in {ExpiredAudit(now), Logged(ExpiredAudit(now), {e}, "denied")}
        /\ told' \in {ExpiredTold(now), Logged(ExpiredTold(now), {e}, "denied")}
    BY <1>8 DEF Deny
  <2>4. /\ audit' \in [Execs -> SUBSET Outcomes]
        /\ told' \in [Execs -> SUBSET (Resolutions \cup {"requested"})]
    <3>1. /\ ExpiredAudit(now) \in [Execs -> SUBSET Outcomes]
          /\ ExpiredTold(now) \in [Execs -> SUBSET (Resolutions \cup {"requested"})]
      BY <1>0, ExpireType
    <3>2. Logged(ExpiredAudit(now), {e}, "denied") \in [Execs -> SUBSET Outcomes]
      BY <3>1, AuditType, Recorded
    <3>3. Logged(ExpiredTold(now), {e}, "denied") \in [Execs -> SUBSET (Resolutions \cup {"requested"})]
      BY <3>1, ToldType, Recorded
    <3>4. QED
      BY <2>3, <3>1, <3>2, <3>3
  <2>5. TypeOK'
    BY <1>0, <1>8, <2>1, <2>2, <2>4, SoundTyped DEF TypeOK, Deny, procVars, envVars
  <2>6. QED
    BY <2>1, <2>5 DEF TypeInv
<1>9. ASSUME List(o) PROVE TypeInv'
  <2>1. req' \in [Clients -> SoundRequests]
    BY <1>0, <1>9, FinishSound DEF List
  <2>2. TypeOK'
    BY <1>0, <1>9, <2>1, SoundTyped, ExpireType DEF TypeOK, List, procVars, envVars
  <2>3. QED
    BY <2>1, <2>2 DEF TypeInv
<1>10. QED
  BY <1>1, <1>2, <1>3, <1>4, <1>5, <1>6, <1>7, <1>8, <1>9

\* Opening and closing by an owner keeps the types.
LEMMA SessionType ==
  ASSUME TypeInv, NEW o \in Owners,
         \/ \E t \in Targets : OpenArrives(o, t)
         \/ \E s \in Sessions : CloseArrives(o, s)
         \/ OpenStarts(o) \/ OpenRegisters(o) \/ CloseRemoves(o)
  PROVE  TypeInv'
<1>0. o \in Clients /\ TypeOK
  BY DEF Clients, TypeInv
<1>1. ASSUME NEW t \in Targets, OpenArrives(o, t) PROVE TypeInv'
  <2> DEFINE r == [Idle EXCEPT !.pc = "open", !.target = t]
  <2>1. r \in SoundRequests
    BY DEF Idle, SoundRequests, Sound, Requests, AboutExec, AboutSession, AboutTarget, ExecPCs,
           ApprovePCs, OtherPCs, Trusts
  <2>2. req' \in [Clients -> SoundRequests]
    BY <1>0, <1>1, <2>1, ReqChange DEF OpenArrives, Arrive
  <2>3. TypeOK'
    BY <1>0, <1>1, <2>2, SoundTyped DEF TypeOK, OpenArrives, ctlVars, procVars, envVars
  <2>4. QED
    BY <2>2, <2>3 DEF TypeInv
<1>2. ASSUME NEW s \in Sessions, CloseArrives(o, s) PROVE TypeInv'
  <2> DEFINE r == [Idle EXCEPT !.pc = "remove", !.sess = s]
  <2>1. r \in SoundRequests
    BY DEF Idle, SoundRequests, Sound, Requests, AboutExec, AboutSession, AboutTarget, ExecPCs,
           ApprovePCs, OtherPCs, Trusts
  <2>2. req' \in [Clients -> SoundRequests]
    BY <1>0, <1>2, <2>1, ReqChange DEF CloseArrives, Arrive, TypeInv
  <2>3. faults' \in Nat
    BY <1>0, <1>2, FaultType DEF CloseArrives
  <2>4. TypeOK'
    BY <1>0, <1>2, <2>2, <2>3, SoundTyped DEF TypeOK, CloseArrives, ctlVars, envVars
  <2>5. QED
    BY <2>2, <2>4 DEF TypeInv
<1>3. ASSUME OpenStarts(o) PROVE TypeInv'
  <2>1. req[o].target \in Targets
    BY <1>0, <1>3, InProgress DEF OpenStarts, Sound, AboutTarget
  <2>2. req' \in [Clients -> SoundRequests]
    <3>1. CASE Finish(o)
      BY <1>0, <3>1, FinishSound
    <3>2. ASSUME NEW s \in Sessions,
                 req' = [req EXCEPT ![o].pc = "register", ![o].sess = s]
          PROVE  req' \in [Clients -> SoundRequests]
      <4> DEFINE r == [req[o] EXCEPT !.pc = "register", !.sess = s]
      <4>1. req' = [req EXCEPT ![o] = r]
        BY <1>0, <3>2 DEF TypeInv
      <4>2. r \in SoundRequests
        BY <1>0, <1>3, <2>1, InProgress DEF OpenStarts, Requests, Sound, SoundRequests, AboutExec,
           AboutSession, AboutTarget, ExecPCs, ApprovePCs, OtherPCs
      <4>3. QED
        BY <1>0, <4>1, <4>2, ReqChange
    <3>3. QED
      BY <1>3, <3>1, <3>2 DEF OpenStarts
  <2>3. faults' \in Nat
    BY <1>0, <1>3, FaultType DEF OpenStarts
  <2>4. /\ proc' \in [Sessions -> {"none", "alive", "dead", "gone"}]
        /\ origin' \in [Sessions -> Targets \cup {None}]
    BY <1>0, <1>3, <2>1 DEF OpenStarts, Started, TypeOK
  <2>5. TypeOK'
    BY <1>0, <1>3, <2>2, <2>3, <2>4, SoundTyped DEF TypeOK, OpenStarts, ctlVars, envVars
  <2>6. QED
    BY <2>2, <2>5 DEF TypeInv
<1>4. ASSUME OpenRegisters(o) PROVE TypeInv'
  <2>1. req[o].target \in Targets /\ req[o].sess \in Sessions
    BY <1>0, <1>4, InProgress DEF OpenRegisters, Sound, AboutTarget, AboutSession
  <2>2. req' \in [Clients -> SoundRequests]
    BY <1>0, <1>4, FinishSound DEF OpenRegisters
  <2>3. faults' \in Nat
    BY <1>0, <1>4, FaultType DEF OpenRegisters
  <2>4. bound' \in [Sessions -> Targets \cup {None}] /\ disk' \in [Sessions -> Targets \cup {None}]
    BY <1>0, <1>4, <2>1 DEF OpenRegisters, TypeOK
  <2>5. TypeOK'
    BY <1>0, <1>4, <2>2, <2>3, <2>4, SoundTyped DEF TypeOK, OpenRegisters, procVars, envVars
  <2>6. QED
    BY <2>2, <2>5 DEF TypeInv
<1>5. ASSUME CloseRemoves(o) PROVE TypeInv'
  <2> DEFINE mine == {e \in pending : cmd[e] = req[o].sess}
  <2>1. req' \in [Clients -> SoundRequests]
    BY <1>0, <1>5, FinishSound DEF CloseRemoves
  <2>2. faults' \in Nat
    BY <1>0, <1>5, FaultType DEF CloseRemoves
  <2>3. bound' \in [Sessions -> Targets \cup {None}] /\ disk' \in [Sessions -> Targets \cup {None}]
    BY <1>0, <1>5 DEF CloseRemoves, TypeOK
  <2>4. PICK over, done :
          /\ pending' = pending \ over
          /\ audit' = Logged(audit, done, "cancelled")
          /\ told' = Logged(told, done, "cancelled")
    BY <1>5 DEF CloseRemoves
  <2>5. pending' \in SUBSET Execs
    BY <1>0, <2>4 DEF TypeOK
  <2>6. /\ audit' \in [Execs -> SUBSET Outcomes]
        /\ told' \in [Execs -> SUBSET (Resolutions \cup {"requested"})]
    BY <1>0, <2>4, AuditType, ToldType, Recorded DEF TypeOK
  <2>7. TypeOK'
    BY <1>0, <1>5, <2>1, <2>2, <2>3, <2>5, <2>6, SoundTyped DEF TypeOK, CloseRemoves, procVars, envVars
  <2>8. QED
    BY <2>1, <2>7 DEF TypeInv
<1>6. QED
  BY <1>1, <1>2, <1>3, <1>4, <1>5

\* AgentOpenSshSession keeps the types.
LEMMA AgentOpenType ==
  ASSUME TypeInv, NEW a \in Agents,
         \/ \E h \in Hosts : AgentOpenArrives(a, h)
         \/ AgentLists(a) \/ AgentSpawns(a) \/ AgentRegisters(a)
  PROVE  TypeInv'
<1>0. a \in Clients /\ TypeOK
  BY DEF Clients, TypeInv
<1>1. ASSUME NEW h \in Hosts, AgentOpenArrives(a, h) PROVE TypeInv'
  <2> DEFINE r == [Idle EXCEPT !.pc = "agent_list", !.target = h]
  <2>1. r \in SoundRequests
    BY DEF Idle, SoundRequests, Sound, Requests, AboutExec, AboutSession, AboutTarget, ExecPCs,
           ApprovePCs, OtherPCs, Trusts, Targets
  <2>2. req' \in [Clients -> SoundRequests]
    BY <1>0, <1>1, <2>1, ReqChange DEF AgentOpenArrives, Arrive
  <2>3. TypeOK'
    BY <1>0, <1>1, <2>2, SoundTyped DEF TypeOK, AgentOpenArrives, ctlVars, procVars, envVars
  <2>4. QED
    BY <2>2, <2>3 DEF TypeInv
<1>2. ASSUME AgentLists(a) PROVE TypeInv'
  <2>1. req' \in [Clients -> SoundRequests]
    BY <1>0, <1>2, GotoSound, FinishSound DEF AgentLists
  <2>2. TypeOK'
    BY <1>0, <1>2, <2>1, SoundTyped DEF TypeOK, AgentLists, ctlVars, procVars, envVars
  <2>3. QED
    BY <2>1, <2>2 DEF TypeInv
<1>3. ASSUME AgentSpawns(a) PROVE TypeInv'
  <2>1. req[a].target \in Targets
    BY <1>0, <1>3, InProgress DEF AgentSpawns, Sound, AboutTarget
  <2>2. req' \in [Clients -> SoundRequests]
    <3>1. CASE Finish(a)
      BY <1>0, <3>1, FinishSound
    <3>2. ASSUME NEW s \in Sessions,
                 req' = [req EXCEPT ![a].pc = "agent_register", ![a].sess = s]
          PROVE  req' \in [Clients -> SoundRequests]
      <4> DEFINE r == [req[a] EXCEPT !.pc = "agent_register", !.sess = s]
      <4>1. req' = [req EXCEPT ![a] = r]
        BY <1>0, <3>2 DEF TypeInv
      <4>2. r \in SoundRequests
        BY <1>0, <1>3, <2>1, InProgress DEF AgentSpawns, Requests, Sound, SoundRequests, AboutExec,
           AboutSession, AboutTarget, ExecPCs, ApprovePCs, OtherPCs
      <4>3. QED
        BY <1>0, <4>1, <4>2, ReqChange
    <3>3. QED
      BY <1>3, <3>1, <3>2 DEF AgentSpawns
  <2>3. faults' \in Nat
    BY <1>0, <1>3, FaultType DEF AgentSpawns
  <2>4. /\ proc' \in [Sessions -> {"none", "alive", "dead", "gone"}]
        /\ origin' \in [Sessions -> Targets \cup {None}]
        /\ agentMade' \in SUBSET Sessions
        /\ holder' \in Agents \cup {None}
    BY <1>0, <1>3, <2>1 DEF AgentSpawns, Started, TypeOK, procVars
  <2>5. TypeOK'
    BY <1>0, <1>3, <2>2, <2>3, <2>4, SoundTyped DEF TypeOK, AgentSpawns, ctlVars, envVars
  <2>6. QED
    BY <2>2, <2>5 DEF TypeInv
<1>4. ASSUME AgentRegisters(a) PROVE TypeInv'
  <2>1. req[a].target \in Targets /\ req[a].sess \in Sessions
    BY <1>0, <1>4, InProgress DEF AgentRegisters, Sound, AboutTarget, AboutSession
  <2>2. req' \in [Clients -> SoundRequests]
    BY <1>0, <1>4, FinishSound DEF AgentRegisters
  <2>3. faults' \in Nat
    BY <1>0, <1>4, FaultType DEF AgentRegisters
  <2>4. /\ bound' \in [Sessions -> Targets \cup {None}]
        /\ disk' \in [Sessions -> Targets \cup {None}]
        /\ proc' \in [Sessions -> {"none", "alive", "dead", "gone"}]
    BY <1>0, <1>4, <2>1 DEF AgentRegisters, TypeOK
  <2>5. TypeOK'
    BY <1>0, <1>4, <2>2, <2>3, <2>4, SoundTyped DEF TypeOK, AgentRegisters, envVars
  <2>6. QED
    BY <2>2, <2>5 DEF TypeInv
<1>5. QED
  BY <1>1, <1>2, <1>3, <1>4

\* So do the steps of the surroundings.
LEMMA SurroundingsType ==
  ASSUME TypeInv, Surroundings
  PROVE  TypeInv'
<1>0. TypeOK
  BY DEF TypeInv
<1>1. CASE Tick
  BY <1>0, <1>1 DEF Tick, TypeInv, TypeOK, ctlVars, procVars
<1>2. ASSUME NEW h \in Hosts, NEW t \in Trusts, SetTrust(h, t) PROVE TypeInv'
  <2>1. req' \in [Clients -> SoundRequests]
    <3>1. \A c \in Clients :
            IF req[c].pc \in ExecPCs /\ origin[req[c].sess] = h
            THEN [req[c] EXCEPT !.seen = @ \cup {t}] \in SoundRequests
            ELSE req[c] \in SoundRequests
      BY InProgress DEF SoundRequests, Requests, Sound
    <3>2. QED
      BY <1>2, <3>1 DEF SetTrust
  <2>2. TypeOK'
    BY <1>0, <1>2, <2>1, SoundTyped DEF SetTrust, TypeOK, ctlVars, procVars
  <2>3. QED
    BY <2>1, <2>2 DEF TypeInv
<1>3. CASE SetLock
  BY <1>0, <1>3 DEF SetLock, TypeInv, TypeOK, ctlVars, procVars
<1>4. ASSUME NEW s \in Sessions, Exits(s) PROVE TypeInv'
  BY <1>0, <1>4 DEF Exits, TypeInv, TypeOK, ctlVars, envVars
<1>5. CASE Crash
  <2>1. req' \in [Clients -> SoundRequests]
    BY <1>5, IdleSound DEF Crash
  <2>2. bound' \in [Sessions -> Targets \cup {None}]
    <3>1. PICK tabs : bound' = [s \in Sessions |-> IF disk[s] # None THEN disk[s]
                                                 ELSE IF s \in tabs THEN origin[s] ELSE None]
      BY <1>5 DEF Crash
    <3>2. \A s \in Sessions : /\ disk[s] \in Targets \cup {None}
                             /\ origin[s] \in Targets \cup {None}
      BY <1>0 DEF TypeOK
    <3>3. QED
      BY <3>1, <3>2
  <2>3. /\ crashes' = crashes + 1 /\ pending' = {} /\ unlocked' = FALSE /\ holder' = None
        /\ UNCHANGED <<clock, trust, disk, expires, audit, told, cmd, sent, proc, origin,
                       agentMade, faults>>
    BY <1>5 DEF Crash, procVars
  <2>4. crashes' \in Nat /\ unlocked' \in BOOLEAN
    <3>1. crashes \in Nat /\ crashes' = crashes + 1
      BY <1>0, <2>3 DEF TypeOK
    <3>2. unlocked' \in BOOLEAN
      BY <2>3, Zenon
    <3>3. QED
      BY <3>1, <3>2
  <2>5. TypeOK'
    BY <1>0, <2>1, <2>2, <2>3, <2>4, SoundTyped DEF TypeOK
  <2>6. QED
    BY <2>1, <2>5 DEF TypeInv
<1>6. QED
  BY <1>1, <1>2, <1>3, <1>4, <1>5 DEF Surroundings

LEMMA StepType == TypeInv /\ [Next]_vars => TypeInv'
<1> SUFFICES ASSUME TypeInv, [Next]_vars PROVE TypeInv'
  OBVIOUS
<1>1. ASSUME NEW a \in Agents, AgentArrives(a) \/ AgentStep(a) PROVE TypeInv'
  BY <1>1, ExecType, AgentOpenType, RefusedType DEF AgentArrives, AgentStep, Clients
<1>2. ASSUME NEW o \in Owners, OwnerArrives(o) \/ OwnerStep(o) PROVE TypeInv'
  BY <1>2, DecisionType, SessionType, RefusedType DEF OwnerArrives, OwnerStep, Clients
<1>3. CASE UNCHANGED vars
  BY <1>3 DEF vars, TypeInv, TypeOK
<1>4. QED
  BY <1>1, <1>2, <1>3, SurroundingsType DEF Next

LEMMA TypeInvariance == Spec => []TypeInv
BY InitType, StepType, PTL DEF Spec

\* The variables of the gate keep their types.
THEOREM GateTypeCorrect == Spec => []TypeOK
<1>1. TypeInv => TypeOK
  BY DEF TypeInv
<1>2. QED
  BY <1>1, TypeInvariance, PTL

-----------------------------------------------------------------------------
(* Safety.  The invariant follows one exec: while it is in a client's      *)
(* hands it is not pending, nobody else has it, it has not been sent, and  *)
(* the audit file says exactly how far it has come.  Hence the line is     *)
(* there before the command is sent, and nothing else can send it.         *)

Undecided == {"trust", "evaluate", "record_allowed"}
Failing == {"exec_failed", "approve_failed"}
HandPCs == Undecided \cup Failing \cup {"send", "record_approved", "send_approved"}

InHand(c, e) == req[c].exec = e /\ req[c].pc \in HandPCs

OnRecord(pc, e) ==
  /\ pc \in Undecided => audit[e] = {}
  /\ pc = "send" => audit[e] = {"allowed"}
  /\ pc = "record_approved" => audit[e] = {"needs_approval"}
  /\ pc = "send_approved" => audit[e] = {"needs_approval", "approved"}
  /\ pc \notin Failing => sent[e] = 0

ExecInv(e) ==
  /\ \A c \in Clients : InHand(c, e) => e \notin pending /\ cmd[e] # None /\ OnRecord(req[c].pc, e)
  /\ \A c, d \in Clients : InHand(c, e) /\ InHand(d, e) => c = d
  /\ e \in pending => sent[e] = 0 /\ cmd[e] # None /\ audit[e] = {"needs_approval"}
  /\ cmd[e] = None => sent[e] = 0 /\ audit[e] = {}
  /\ sent[e] \in {0, 1}
  /\ sent[e] = 1 => audit[e] \cap {"allowed", "approved"} # {}
  /\ \A x, y \in audit[e] \cap Ends : x = y

\* The inductive invariant of the gate.
GateInv == TypeInv /\ \A e \in Execs : ExecInv(e)

\* A step that does not concern exec e: it may drop it, or move a request on
\* where neither the audit file nor the terminal is involved.
Quiet(e) ==
  /\ e \in pending' => e \in pending
  /\ audit'[e] = audit[e] /\ sent'[e] = sent[e] /\ cmd'[e] = cmd[e]
  /\ \A c \in Clients :
       req'[c].exec = e /\ req'[c].pc \in HandPCs =>
         /\ InHand(c, e)
         /\ \/ req'[c].pc = req[c].pc
            \/ req[c].pc \in Undecided /\ req'[c].pc \in Undecided
            \/ req'[c].pc \in Failing

LEMMA QuietStep ==
  ASSUME NEW e \in Execs, ExecInv(e), Quiet(e)
  PROVE  ExecInv(e)'
<1>1. \A c \in Clients : InHand(c, e)' =>
        InHand(c, e) /\ e \notin pending' /\ cmd'[e] # None /\ OnRecord(req[c].pc, e)'
  <2> SUFFICES ASSUME NEW c \in Clients, InHand(c, e)'
               PROVE  InHand(c, e) /\ e \notin pending' /\ cmd'[e] # None /\ OnRecord(req[c].pc, e)'
    OBVIOUS
  <2>1. InHand(c, e) /\ OnRecord(req[c].pc, e) /\ e \notin pending /\ cmd[e] # None
    BY DEF Quiet, InHand, ExecInv
  <2>2. OnRecord(req[c].pc, e)'
    BY <2>1 DEF Quiet, InHand, OnRecord, Undecided, Failing
  <2>3. QED
    BY <2>1, <2>2 DEF Quiet
<1>2. \A c, d \in Clients : InHand(c, e)' /\ InHand(d, e)' => c = d
  BY <1>1 DEF ExecInv
<1>3. QED
  BY <1>1, <1>2 DEF ExecInv, Quiet

\* A step that ends the pending approval e, with or without an audit line.
Ended(e) ==
  /\ e \in pending /\ e \notin pending'
  /\ \E how \in {"expired", "denied", "cancelled"} : audit'[e] \in {audit[e], audit[e] \cup {how}}
  /\ sent'[e] = sent[e] /\ cmd'[e] = cmd[e]
  /\ \A c \in Clients : req'[c].exec = e /\ req'[c].pc \in HandPCs => InHand(c, e)

LEMMA EndedStep ==
  ASSUME NEW e \in Execs, ExecInv(e), Ended(e)
  PROVE  ExecInv(e)'
<1>1. /\ sent[e] = 0 /\ cmd[e] # None /\ audit[e] = {"needs_approval"}
      /\ \A c \in Clients : ~InHand(c, e)
  BY DEF Ended, ExecInv
<1>2. \A c \in Clients : ~InHand(c, e)'
  BY <1>1 DEF Ended, InHand
<1>3. PICK how \in {"expired", "denied", "cancelled"} :
        audit'[e] = {"needs_approval"} \/ audit'[e] = {"needs_approval", how}
  BY <1>1 DEF Ended
<1>4. \A x, y \in audit'[e] \cap Ends : x = y
  BY <1>3 DEF Ends
<1>5. sent'[e] = 0 /\ cmd'[e] # None /\ e \notin pending'
  BY <1>1 DEF Ended
<1>6. QED
  BY <1>2, <1>4, <1>5 DEF ExecInv

\* A successful expire_pending, seen from exec e.
LEMMA ExpireStep ==
  ASSUME NEW e \in Execs, ExecInv(e), NEW now,
         e \in pending' => e \in Live(now),
         audit'[e] = ExpiredAudit(now)[e],
         sent'[e] = sent[e],
         cmd'[e] = cmd[e],
         \A c \in Clients :
           req'[c].exec = e /\ req'[c].pc \in HandPCs =>
             /\ InHand(c, e)
             /\ \/ req'[c].pc = req[c].pc
                \/ req[c].pc \in Undecided /\ req'[c].pc \in Undecided
  PROVE  ExecInv(e)'
<1>1. CASE e \in Overdue(now)
  <2>1. audit'[e] = audit[e] \cup {"expired"}
    BY <1>1 DEF ExpiredAudit, Logged
  <2>2. e \in pending /\ e \notin pending'
    BY <1>1 DEF Live, Overdue
  <2>3. Ended(e)
    BY <2>1, <2>2 DEF Ended
  <2>4. QED
    BY <2>3, EndedStep
<1>2. CASE e \notin Overdue(now)
  <2>1. audit'[e] = audit[e]
    BY <1>2 DEF ExpiredAudit, Logged
  <2>2. Quiet(e)
    BY <2>1 DEF Quiet, Live
  <2>3. QED
    BY <2>2, QuietStep
<1>3. QED
  BY <1>1, <1>2

\* A step of one client's request leaves the other requests alone.
Only(c) == \A d \in Clients \ {c} : req'[d] = req[d]

LEMMA FinishHands ==
  ASSUME TypeInv, NEW c \in Clients, Finish(c)
  PROVE  Only(c) /\ req'[c].pc = "idle" /\ req'[c].pc \notin HandPCs
BY DEF TypeInv, Finish, Only, Idle, HandPCs, Undecided, Failing

LEMMA GotoHands ==
  ASSUME TypeInv, NEW c \in Clients, NEW pc, Goto(c, pc)
  PROVE  Only(c) /\ req'[c].pc = pc /\ req'[c].exec = req[c].exec
<1>1. req[c] \in Requests /\ req' = [req EXCEPT ![c] = [req[c] EXCEPT !.pc = pc]]
  BY InProgress DEF Goto, TypeInv
<1>2. QED
  BY <1>1 DEF TypeInv, Only, Requests

LEMMA ArriveHands ==
  ASSUME TypeInv, NEW c \in Clients, NEW r, Arrive(c, r)
  PROVE  Only(c) /\ req'[c] = r /\ req[c].pc = "idle"
BY DEF TypeInv, Arrive, Only

\* Only one client has e in its hands, so after its step nobody else has.
LEMMA Exclusive ==
  ASSUME NEW e \in Execs, ExecInv(e), NEW c \in Clients, InHand(c, e), Only(c)
  PROVE  \A d \in Clients \ {c} : ~InHand(d, e) /\ ~InHand(d, e)'
BY DEF ExecInv, Only, InHand

\* The steps of AgentExec keep the invariant of every exec.
LEMMA ExecSafe ==
  ASSUME GateInv, NEW a \in Agents, NEW e \in Execs,
         \/ \E x \in Execs, s \in Sessions : ExecArrives(a, x, s)
         \/ ExecTrust(a) \/ ExecEvaluate(a) \/ RecordAllowed(a) \/ SendAllowed(a)
         \/ RecordFailed(a)
  PROVE  ExecInv(e)'
<1>0. TypeInv /\ TypeOK /\ ExecInv(e) /\ a \in Clients
  BY DEF GateInv, TypeInv, Clients
<1>1. ASSUME NEW x \in Execs, NEW s \in Sessions, ExecArrives(a, x, s) PROVE ExecInv(e)'
  <2>1. /\ Only(a) /\ req'[a].exec = x /\ req'[a].pc \in {"trust", "evaluate"}
        /\ req[a].pc = "idle"
    <3> DEFINE r == [Idle EXCEPT !.pc = IF bound[s] \in Hosts THEN "trust" ELSE "evaluate",
                                 !.exec = x, !.sess = s, !.target = bound[s], !.now = clock,
                                 !.seen = {TrustOf(origin[s])}]
    <3>1. Arrive(a, r)
      BY <1>1 DEF ExecArrives
    <3>2. r.exec = x /\ r.pc \in {"trust", "evaluate"}
      BY DEF Idle
    <3>3. QED
      BY <1>0, <3>1, <3>2, ArriveHands
  <2>2. UNCHANGED <<pending, audit, sent>> /\ cmd[x] = None /\ cmd' = [cmd EXCEPT ![x] = s]
    BY <1>1 DEF ExecArrives, ctlVars
  <2>3. s # None
    BY NoneAssumption
  <2>4. CASE e = x
    <3>1. /\ sent'[e] = 0 /\ audit'[e] = {} /\ e \notin pending' /\ cmd'[e] # None
          /\ \A c \in Clients : ~InHand(c, e)
      BY <1>0, <2>2, <2>3, <2>4 DEF ExecInv, TypeOK
    <3>2. \A c \in Clients : InHand(c, e)' => c = a
      BY <2>1, <3>1 DEF Only, InHand
    <3>3. OnRecord(req[a].pc, e)'
      BY <2>1, <3>1 DEF OnRecord, Undecided, Failing
    <3>4. QED
      BY <3>1, <3>2, <3>3 DEF ExecInv
  <2>5. CASE e # x
    <3>1. cmd'[e] = cmd[e]
      BY <1>0, <2>2, <2>5 DEF TypeOK
    <3>2. Quiet(e)
      BY <2>1, <2>2, <2>5, <3>1 DEF Quiet, Only, InHand
    <3>3. QED
      BY <1>0, <3>2, QuietStep
  <2>6. QED
    BY <2>4, <2>5
<1>2. ASSUME ExecTrust(a) PROVE ExecInv(e)'
  <2>1. /\ UNCHANGED <<pending, audit, sent, cmd>> /\ req[a].pc = "trust" /\ Only(a)
    BY <1>0, <1>2, FinishHands DEF ExecTrust, ctlVars, Only, TypeInv
  <2>2. \/ req'[a].pc = "idle"
        \/ req'[a].pc = "evaluate" /\ req'[a].exec = req[a].exec
    BY <1>0, <1>2, FinishHands, InProgress DEF ExecTrust, TypeInv, Requests
  <2>3. Quiet(e)
    BY <2>1, <2>2 DEF Quiet, Only, InHand, HandPCs, Undecided, Failing
  <2>4. QED
    BY <1>0, <2>3, QuietStep
<1>3. ASSUME ExecEvaluate(a) PROVE ExecInv(e)'
  <2> DEFINE r == req[a]
  <2>1. r.pc = "evaluate" /\ r.exec \in Execs /\ sent' = sent /\ cmd' = cmd
    BY <1>0, <1>3, InProgress DEF ExecEvaluate, Sound, AboutExec, ExecPCs
  <2>2. /\ Only(a)
        /\ \/ req'[a].pc = "idle"
           \/ req'[a].pc = "record_allowed" /\ req'[a].exec = r.exec
    <3>1. Finish(a) \/ Goto(a, "record_allowed")
      BY <1>3 DEF ExecEvaluate
    <3>2. CASE Finish(a)
      BY <1>0, <3>2, FinishHands
    <3>3. CASE Goto(a, "record_allowed")
      BY <1>0, <3>3, GotoHands
    <3>4. QED
      BY <3>1, <3>2, <3>3
  <2>3. CASE e # r.exec
    <3>1. e \in pending' => e \in Live(r.now)
      BY <1>3, <2>3 DEF ExecEvaluate
    <3>2. audit'[e] = ExpiredAudit(r.now)[e]
      BY <1>3, <2>3 DEF ExecEvaluate, Logged
    <3>3. \A c \in Clients : req'[c].exec = e /\ req'[c].pc \in HandPCs =>
            InHand(c, e) /\ req'[c].pc = req[c].pc
      BY <2>2, <2>3 DEF Only, InHand, HandPCs, Undecided, Failing
    <3>4. QED
      BY <1>0, <2>1, <3>1, <3>2, <3>3, ExpireStep
  <2>4. CASE e = r.exec
    <3>1. InHand(a, e)
      BY <2>1, <2>4 DEF InHand, HandPCs, Undecided
    <3>2. sent'[e] = 0 /\ cmd'[e] # None /\ audit[e] = {} /\ e \notin pending
      BY <1>0, <2>1, <3>1 DEF ExecInv, OnRecord, Undecided, Failing
    <3>3. ExpiredAudit(r.now)[e] = {} /\ e \notin Live(r.now)
      BY <3>2 DEF ExpiredAudit, Logged, Overdue, Live
    <3>4. \A c \in Clients : InHand(c, e)' => c = a /\ req'[a].pc = "record_allowed"
      BY <1>0, <2>2, <3>1, Exclusive DEF InHand, HandPCs, Undecided, Failing
    <3>5. CASE Goto(a, "record_allowed") /\ pending' = Live(r.now) /\ audit' = ExpiredAudit(r.now)
      <4>1. OnRecord("record_allowed", e)'
        BY <3>2, <3>3, <3>5 DEF OnRecord, Undecided, Failing
      <4>2. QED
        BY <3>2, <3>3, <3>4, <3>5, <4>1 DEF ExecInv
    <3>6. CASE Finish(a)
      <4>1. \A c \in Clients : ~InHand(c, e)'
        BY <1>0, <3>4, <3>6, FinishHands
      <4>2. \/ e \notin pending' /\ audit'[e] \in {{}, {"rejected_readonly"}, {"rejected_unknown_session"}}
            \/ audit'[e] = {"needs_approval"}
        BY <1>3, <2>4, <3>3, <3>6 DEF ExecEvaluate, Logged, Evaluation
      <4>3. \A x, y \in audit'[e] \cap Ends : x = y
        BY <4>2 DEF Ends
      <4>4. QED
        BY <3>2, <4>1, <4>2, <4>3 DEF ExecInv
    <3>7. QED
      BY <1>3, <3>5, <3>6 DEF ExecEvaluate
  <2>5. QED
    BY <2>3, <2>4
<1>4. ASSUME RecordAllowed(a) PROVE ExecInv(e)'
  <2> DEFINE x == req[a].exec
  <2>1. req[a].pc = "record_allowed" /\ UNCHANGED <<pending, sent, cmd>>
    BY <1>4 DEF RecordAllowed
  <2>2. CASE Finish(a) /\ audit' = audit
    <3>1. Quiet(e)
      BY <1>0, <2>1, <2>2, FinishHands DEF Quiet, Only, InHand
    <3>2. QED
      BY <1>0, <3>1, QuietStep
  <2>3. CASE Goto(a, "send") /\ audit' = Logged(audit, {x}, "allowed")
    <3>1. Only(a) /\ req'[a].pc = "send" /\ req'[a].exec = x
      BY <1>0, <2>3, GotoHands
    <3>2. CASE e = x
      <4>1. InHand(a, e)
        BY <2>1, <3>2 DEF InHand, HandPCs, Undecided
      <4>2. audit[e] = {} /\ sent'[e] = 0 /\ cmd'[e] # None /\ e \notin pending'
        BY <1>0, <2>1, <4>1 DEF ExecInv, OnRecord, Undecided, Failing
      <4>3. audit'[e] = {"allowed"}
        BY <2>3, <3>2, <4>2 DEF Logged
      <4>4. \A c \in Clients : InHand(c, e)' => c = a
        BY <1>0, <3>1, <4>1, Exclusive
      <4>5. OnRecord(req[a].pc, e)'
        BY <3>1, <4>2, <4>3 DEF OnRecord, Undecided, Failing
      <4>6. QED
        BY <4>2, <4>3, <4>4, <4>5 DEF ExecInv
    <3>3. CASE e # x
      <4>1. Quiet(e)
        BY <2>1, <2>3, <3>1, <3>3 DEF Quiet, Only, InHand, Logged
      <4>2. QED
        BY <1>0, <4>1, QuietStep
    <3>4. QED
      BY <3>2, <3>3
  <2>4. QED
    BY <1>4, <2>2, <2>3 DEF RecordAllowed
<1>5. ASSUME SendAllowed(a) PROVE ExecInv(e)'
  <2> DEFINE x == req[a].exec
  <2>1. /\ req[a].pc = "send" /\ UNCHANGED <<pending, audit, cmd>>
        /\ sent' \in {sent, [sent EXCEPT ![x] = @ + 1]}
        /\ Finish(a) \/ Goto(a, "exec_failed")
    BY <1>5 DEF SendAllowed, Dispatch, ctlVars
  <2>2. /\ Only(a)
        /\ \/ req'[a].pc = "idle"
           \/ req'[a].pc = "exec_failed" /\ req'[a].exec = x
    <3>1. CASE Finish(a)
      BY <1>0, <3>1, FinishHands
    <3>2. CASE Goto(a, "exec_failed")
      BY <1>0, <3>2, GotoHands
    <3>3. QED
      BY <2>1, <3>1, <3>2
  <2>3. CASE e = x
    <3>1. InHand(a, e)
      BY <2>1, <2>3 DEF InHand, HandPCs
    <3>2. audit'[e] = {"allowed"} /\ sent[e] = 0 /\ cmd'[e] # None /\ e \notin pending'
      BY <1>0, <2>1, <3>1 DEF ExecInv, OnRecord, Failing
    <3>3. sent'[e] \in {0, 1}
      BY <1>0, <2>1, <2>3, <3>2 DEF TypeOK
    <3>4. \A c \in Clients : InHand(c, e)' => c = a /\ req'[a].pc = "exec_failed"
      BY <1>0, <2>2, <3>1, Exclusive DEF InHand, HandPCs, Undecided, Failing
    <3>5. OnRecord("exec_failed", e)'
      BY DEF OnRecord, Undecided, Failing
    <3>6. QED
      BY <3>2, <3>3, <3>4, <3>5 DEF ExecInv
  <2>4. CASE e # x
    <3>1. sent'[e] = sent[e]
      BY <1>0, <2>1, <2>4 DEF TypeOK
    <3>2. Quiet(e)
      BY <2>1, <2>2, <2>4, <3>1 DEF Quiet, Only, InHand, HandPCs, Undecided, Failing
    <3>3. QED
      BY <1>0, <3>2, QuietStep
  <2>5. QED
    BY <2>3, <2>4
<1>6. ASSUME RecordFailed(a) PROVE ExecInv(e)'
  <2> DEFINE x == req[a].exec
  <2>1. /\ req[a].pc = "exec_failed" /\ UNCHANGED <<pending, sent, cmd>>
        /\ audit' \in {audit, Logged(audit, {x}, "failed")}
        /\ Finish(a)
    BY <1>6 DEF RecordFailed
  <2>2. Only(a) /\ req'[a].pc = "idle"
    BY <1>0, <2>1, FinishHands
  <2>3. CASE e = x
    <3>1. InHand(a, e)
      BY <2>1, <2>3 DEF InHand, HandPCs, Failing
    <3>2. cmd'[e] # None /\ e \notin pending' /\ sent'[e] = sent[e]
      BY <1>0, <2>1, <3>1 DEF ExecInv
    <3>3. audit'[e] \in {audit[e], audit[e] \cup {"failed"}} /\ "failed" \notin Ends
      BY <2>1 DEF Logged, Ends
    <3>4. \A c \in Clients : ~InHand(c, e)'
      BY <1>0, <2>2, <3>1, Exclusive DEF InHand, HandPCs, Undecided, Failing
    <3>5. \A u, v \in audit'[e] \cap Ends : u = v
      BY <1>0, <3>3 DEF ExecInv
    <3>6. QED
      BY <1>0, <3>2, <3>3, <3>4, <3>5 DEF ExecInv
  <2>4. CASE e # x
    <3>1. Quiet(e)
      BY <2>1, <2>2, <2>4 DEF Quiet, Only, InHand, Logged, HandPCs, Undecided, Failing
    <3>2. QED
      BY <1>0, <3>1, QuietStep
  <2>5. QED
    BY <2>3, <2>4
<1>7. QED
  BY <1>1, <1>2, <1>3, <1>4, <1>5, <1>6

\* A failing expire_pending ends some approvals and the request.
LEMMA RefusedSafe ==
  ASSUME GateInv, NEW c \in Clients, NEW e \in Execs, ExpireFails(c)
  PROVE  ExecInv(e)'
<1>0. TypeInv /\ ExecInv(e)
  BY DEF GateInv
<1>1. PICK gone, done :
        /\ gone \in pending /\ done \subseteq pending /\ gone \notin done
        /\ pending' = pending \ (done \cup {gone})
        /\ audit' = Logged(audit, done, "expired")
  BY DEF ExpireFails, Overdue
<1>2. sent'[e] = sent[e] /\ cmd'[e] = cmd[e] /\ Only(c) /\ req'[c].pc \notin HandPCs
  BY <1>0, FinishHands DEF ExpireFails
<1>3. \A d \in Clients : req'[d].exec = e /\ req'[d].pc \in HandPCs =>
        InHand(d, e) /\ req'[d].pc = req[d].pc
  BY <1>2 DEF Only, InHand
<1>4. CASE e \in done \cup {gone}
  <2>1. audit'[e] \in {audit[e], audit[e] \cup {"expired"}}
    BY <1>1 DEF Logged
  <2>2. Ended(e)
    BY <1>1, <1>2, <1>3, <1>4, <2>1 DEF Ended
  <2>3. QED
    BY <1>0, <2>2, EndedStep
<1>5. CASE e \notin done \cup {gone}
  <2>1. Quiet(e)
    BY <1>1, <1>2, <1>3, <1>5 DEF Quiet, Logged
  <2>2. QED
    BY <1>0, <2>1, QuietStep
<1>6. QED
  BY <1>4, <1>5

\* The owner's decisions keep the invariant of every exec.
LEMMA DecisionSafe ==
  ASSUME GateInv, NEW o \in Owners, NEW e \in Execs,
         \/ \E x \in Execs, pc \in {"take", "deny"} : DecisionArrives(o, x, pc)
         \/ ListArrives(o)
         \/ TakeForApproval(o) \/ RecordApproved(o) \/ SendApproved(o)
         \/ RecordApproveFailed(o) \/ Resolve(o) \/ Deny(o) \/ List(o)
  PROVE  ExecInv(e)'
<1>0. TypeInv /\ TypeOK /\ ExecInv(e) /\ o \in Clients
  BY DEF GateInv, TypeInv, Clients
<1> DEFINE x == req[o].exec
           now == req[o].now
<1>1. ASSUME NEW y \in Execs, NEW pc \in {"take", "deny"}, DecisionArrives(o, y, pc)
      PROVE  ExecInv(e)'
  <2>1. Only(o) /\ req'[o].pc = pc /\ UNCHANGED <<pending, audit, sent, cmd>>
    <3> DEFINE r == [Idle EXCEPT !.pc = pc, !.exec = y, !.now = clock]
    <3>1. Arrive(o, r) /\ UNCHANGED <<pending, audit, sent, cmd>>
      BY <1>1 DEF DecisionArrives, ctlVars
    <3>2. r.pc = pc
      BY DEF Idle
    <3>3. QED
      BY <1>0, <3>1, <3>2, ArriveHands
  <2>2. Quiet(e)
    BY <2>1 DEF Quiet, Only, InHand, HandPCs, Undecided, Failing
  <2>3. QED
    BY <1>0, <2>2, QuietStep
<1>2. ASSUME ListArrives(o) PROVE ExecInv(e)'
  <2>1. Only(o) /\ req'[o].pc = "list" /\ UNCHANGED <<pending, audit, sent, cmd>>
    <3> DEFINE r == [Idle EXCEPT !.pc = "list", !.now = clock]
    <3>1. Arrive(o, r) /\ UNCHANGED <<pending, audit, sent, cmd>>
      BY <1>2 DEF ListArrives, ctlVars
    <3>2. r.pc = "list"
      BY DEF Idle
    <3>3. QED
      BY <1>0, <3>1, <3>2, ArriveHands
  <2>2. Quiet(e)
    BY <2>1 DEF Quiet, Only, InHand, HandPCs, Undecided, Failing
  <2>3. QED
    BY <1>0, <2>2, QuietStep
<1>3. ASSUME TakeForApproval(o) PROVE ExecInv(e)'
  <2>1. /\ req[o].pc = "take" /\ pending' = Live(now) \ {x} /\ audit' = ExpiredAudit(now)
        /\ UNCHANGED <<sent, cmd>>
        /\ Only(o)
    BY <1>0, <1>3, FinishHands, GotoHands DEF TakeForApproval
  <2>2. CASE e = x /\ e \in Live(now)
    <3>1. req'[o].pc = "record_approved" /\ req'[o].exec = e
      BY <1>0, <1>3, <2>2, GotoHands DEF TakeForApproval
    <3>2. /\ audit'[e] = {"needs_approval"} /\ sent'[e] = 0 /\ cmd'[e] # None /\ e \notin pending'
          /\ \A c \in Clients : ~InHand(c, e)
      BY <1>0, <2>1, <2>2 DEF ExecInv, ExpiredAudit, Logged, Live
    <3>3. \A c \in Clients : InHand(c, e)' => c = o
      BY <2>1, <3>2 DEF Only, InHand
    <3>4. OnRecord(req[o].pc, e)'
      BY <3>1, <3>2 DEF OnRecord, Undecided, Failing
    <3>5. \A u, v \in audit'[e] \cap Ends : u = v
      BY <3>2 DEF Ends
    <3>6. QED
      BY <3>2, <3>3, <3>4, <3>5 DEF ExecInv
  <2>3. CASE ~(e = x /\ e \in Live(now))
    <3>1. req'[o].pc = "idle" \/ req'[o].exec # e
      BY <1>0, <1>3, <2>3, FinishHands, GotoHands DEF TakeForApproval
    <3>2. \A c \in Clients : req'[c].exec = e /\ req'[c].pc \in HandPCs =>
            InHand(c, e) /\ req'[c].pc = req[c].pc
      BY <2>1, <3>1 DEF Only, InHand, HandPCs, Undecided, Failing
    <3>3. QED
      BY <1>0, <2>1, <2>3, <3>2, ExpireStep
  <2>4. QED
    BY <2>2, <2>3
<1>4. ASSUME RecordApproved(o) PROVE ExecInv(e)'
  <2>1. req[o].pc = "record_approved" /\ UNCHANGED <<pending, sent, cmd>>
    BY <1>4 DEF RecordApproved
  <2>2. CASE Finish(o) /\ audit' = audit
    <3>1. Quiet(e)
      BY <1>0, <2>1, <2>2, FinishHands DEF Quiet, Only, InHand
    <3>2. QED
      BY <1>0, <3>1, QuietStep
  <2>3. CASE Goto(o, "send_approved") /\ audit' = Logged(audit, {x}, "approved")
    <3>1. Only(o) /\ req'[o].pc = "send_approved" /\ req'[o].exec = x
      BY <1>0, <2>3, GotoHands
    <3>2. CASE e = x
      <4>1. InHand(o, e)
        BY <2>1, <3>2 DEF InHand, HandPCs
      <4>2. audit[e] = {"needs_approval"} /\ sent'[e] = 0 /\ cmd'[e] # None /\ e \notin pending'
        BY <1>0, <2>1, <4>1 DEF ExecInv, OnRecord, Failing
      <4>3. audit'[e] = {"needs_approval", "approved"}
        BY <2>3, <3>2, <4>2 DEF Logged
      <4>4. \A c \in Clients : InHand(c, e)' => c = o
        BY <1>0, <3>1, <4>1, Exclusive
      <4>5. OnRecord(req[o].pc, e)'
        BY <3>1, <4>2, <4>3 DEF OnRecord, Undecided, Failing
      <4>6. \A u, v \in audit'[e] \cap Ends : u = v
        BY <4>3 DEF Ends
      <4>7. QED
        BY <4>2, <4>3, <4>4, <4>5, <4>6 DEF ExecInv
    <3>3. CASE e # x
      <4>1. Quiet(e)
        BY <2>1, <2>3, <3>1, <3>3 DEF Quiet, Only, InHand, Logged
      <4>2. QED
        BY <1>0, <4>1, QuietStep
    <3>4. QED
      BY <3>2, <3>3
  <2>4. QED
    BY <1>4, <2>2, <2>3 DEF RecordApproved
<1>5. ASSUME SendApproved(o) PROVE ExecInv(e)'
  <2>1. /\ req[o].pc = "send_approved" /\ UNCHANGED <<pending, audit, cmd>>
        /\ sent' \in {sent, [sent EXCEPT ![x] = @ + 1]}
    BY <1>5 DEF SendApproved, Dispatch, ctlVars
  <2>2. PICK pc \in {"resolve_approved", "approve_failed"} : Goto(o, pc)
    BY <1>5 DEF SendApproved, Dispatch
  <2>3. Only(o) /\ req'[o].pc = pc /\ req'[o].exec = x
    BY <1>0, <2>2, GotoHands
  <2>4. CASE e = x
    <3>1. InHand(o, e)
      BY <2>1, <2>4 DEF InHand, HandPCs
    <3>2. audit'[e] = {"needs_approval", "approved"} /\ sent[e] = 0 /\ cmd'[e] # None /\ e \notin pending'
      BY <1>0, <2>1, <3>1 DEF ExecInv, OnRecord, Failing
    <3>3. sent'[e] \in {0, 1}
      BY <1>0, <2>1, <2>4, <3>2 DEF TypeOK
    <3>4. \A c \in Clients : InHand(c, e)' => c = o /\ req'[o].pc = "approve_failed"
      BY <1>0, <2>3, <3>1, Exclusive DEF InHand, HandPCs, Undecided, Failing
    <3>5. OnRecord("approve_failed", e)'
      BY DEF OnRecord, Undecided, Failing
    <3>6. \A u, v \in audit'[e] \cap Ends : u = v
      BY <3>2 DEF Ends
    <3>7. QED
      BY <3>2, <3>3, <3>4, <3>5, <3>6 DEF ExecInv
  <2>5. CASE e # x
    <3>1. sent'[e] = sent[e]
      BY <1>0, <2>1, <2>5 DEF TypeOK
    <3>2. Quiet(e)
      BY <2>1, <2>3, <2>5, <3>1 DEF Quiet, Only, InHand
    <3>3. QED
      BY <1>0, <3>2, QuietStep
  <2>6. QED
    BY <2>4, <2>5
<1>6. ASSUME RecordApproveFailed(o) PROVE ExecInv(e)'
  <2>1. /\ req[o].pc = "approve_failed" /\ UNCHANGED <<pending, sent, cmd>>
        /\ audit' \in {audit, Logged(audit, {x}, "failed")}
    BY <1>6 DEF RecordApproveFailed
  <2>2. Only(o) /\ req'[o].pc \in {"idle", "resolve_failed"}
    BY <1>0, <1>6, FinishHands, GotoHands DEF RecordApproveFailed
  <2>3. CASE e = x
    <3>1. InHand(o, e)
      BY <2>1, <2>3 DEF InHand, HandPCs, Failing
    <3>2. cmd'[e] # None /\ e \notin pending' /\ sent'[e] = sent[e]
      BY <1>0, <2>1, <3>1 DEF ExecInv
    <3>3. audit'[e] \in {audit[e], audit[e] \cup {"failed"}} /\ "failed" \notin Ends
      BY <2>1 DEF Logged, Ends
    <3>4. \A c \in Clients : ~InHand(c, e)'
      BY <1>0, <2>2, <3>1, Exclusive DEF InHand, HandPCs, Undecided, Failing
    <3>5. \A u, v \in audit'[e] \cap Ends : u = v
      BY <1>0, <3>3 DEF ExecInv
    <3>6. QED
      BY <1>0, <3>2, <3>3, <3>4, <3>5 DEF ExecInv
  <2>4. CASE e # x
    <3>1. Quiet(e)
      BY <2>1, <2>2, <2>4 DEF Quiet, Only, InHand, Logged, HandPCs, Undecided, Failing
    <3>2. QED
      BY <1>0, <3>1, QuietStep
  <2>5. QED
    BY <2>3, <2>4
<1>7. ASSUME Resolve(o) PROVE ExecInv(e)'
  <2>1. Only(o) /\ req'[o].pc \notin HandPCs /\ UNCHANGED <<pending, audit, sent, cmd>>
    BY <1>0, <1>7, FinishHands DEF Resolve
  <2>2. Quiet(e)
    BY <2>1 DEF Quiet, Only, InHand
  <2>3. QED
    BY <1>0, <2>2, QuietStep
<1>8. ASSUME Deny(o) PROVE ExecInv(e)'
  <2>1. /\ pending' = Live(now) \ {x} /\ UNCHANGED <<sent, cmd>>
        /\ Only(o) /\ req'[o].pc \notin HandPCs
    BY <1>0, <1>8, FinishHands DEF Deny
  <2>2. \A c \in Clients : req'[c].exec = e /\ req'[c].pc \in HandPCs =>
          InHand(c, e) /\ req'[c].pc = req[c].pc
    BY <2>1 DEF Only, InHand
  <2>3. CASE audit' = Logged(ExpiredAudit(now), {x}, "denied") /\ x \in Live(now) /\ e = x
    <3>1. audit'[e] = audit[e] \cup {"denied"} /\ e \in pending /\ e \notin pending'
      BY <2>1, <2>3 DEF ExpiredAudit, Logged, Live
    <3>2. Ended(e)
      BY <2>1, <2>2, <3>1 DEF Ended
    <3>3. QED
      BY <1>0, <3>2, EndedStep
  <2>4. CASE audit'[e] = ExpiredAudit(now)[e]
    BY <1>0, <2>1, <2>2, <2>4, ExpireStep
  <2>5. QED
    BY <1>8, <2>3, <2>4 DEF Deny, Logged
<1>9. ASSUME List(o) PROVE ExecInv(e)'
  <2>1. /\ pending' = Live(now) /\ audit' = ExpiredAudit(now) /\ UNCHANGED <<sent, cmd>>
        /\ Only(o) /\ req'[o].pc \notin HandPCs
    BY <1>0, <1>9, FinishHands DEF List
  <2>2. \A c \in Clients : req'[c].exec = e /\ req'[c].pc \in HandPCs =>
          InHand(c, e) /\ req'[c].pc = req[c].pc
    BY <2>1 DEF Only, InHand
  <2>3. QED
    BY <1>0, <2>1, <2>2, ExpireStep
<1>10. QED
  BY <1>1, <1>2, <1>3, <1>4, <1>5, <1>6, <1>7, <1>8, <1>9

\* Opening and closing sessions keeps the invariant of every exec.
LEMMA SessionSafe ==
  ASSUME GateInv, NEW o \in Owners, NEW e \in Execs,
         \/ \E t \in Targets : OpenArrives(o, t)
         \/ \E s \in Sessions : CloseArrives(o, s)
         \/ OpenStarts(o) \/ OpenRegisters(o) \/ CloseRemoves(o)
  PROVE  ExecInv(e)'
<1>0. TypeInv /\ ExecInv(e) /\ o \in Clients
  BY DEF GateInv, Clients
<1>1. CASE ~CloseRemoves(o)
  <2>1. UNCHANGED <<pending, audit, sent, cmd>>
    BY <1>1 DEF OpenArrives, CloseArrives, OpenStarts, OpenRegisters, ctlVars
  <2>2. Only(o) /\ (req'[o] = req[o] \/ req'[o].pc \notin HandPCs)
    <3>1. ASSUME NEW t \in Targets, OpenArrives(o, t) PROVE Only(o) /\ req'[o].pc = "open"
      BY <1>0, <3>1 DEF OpenArrives, Arrive, Only, TypeInv, Idle
    <3>2. ASSUME NEW s \in Sessions, CloseArrives(o, s)
          PROVE  Only(o) /\ (req'[o] = req[o] \/ req'[o].pc = "remove")
      BY <1>0, <3>2 DEF CloseArrives, Arrive, Only, TypeInv, Idle
    <3>3. ASSUME OpenStarts(o) PROVE Only(o) /\ req'[o].pc \in {"register", "idle"}
      BY <1>0, <3>3, InProgress DEF OpenStarts, Finish, Idle, Only, TypeInv, Requests
    <3>4. ASSUME OpenRegisters(o) PROVE Only(o) /\ req'[o].pc = "idle"
      BY <1>0, <3>4, FinishHands DEF OpenRegisters
    <3>5. QED
      BY <1>1, <3>1, <3>2, <3>3, <3>4 DEF HandPCs, Undecided, Failing
  <2>3. Quiet(e)
    BY <2>1, <2>2 DEF Quiet, Only, InHand
  <2>4. QED
    BY <1>0, <2>3, QuietStep
<1>2. CASE CloseRemoves(o)
  <2>1. PICK over, done :
          /\ over \subseteq pending /\ done \subseteq over
          /\ pending' = pending \ over
          /\ audit' = Logged(audit, done, "cancelled")
    <3> DEFINE mine == {x \in pending : cmd[x] = req[o].sess}
    <3>1. CASE pending' = pending \ mine /\ audit' = Logged(audit, mine, "cancelled")
      BY <3>1
    <3>2. CASE \E gone \in mine : \E done \in SUBSET (mine \ {gone}) :
                 /\ pending' = pending \ (done \cup {gone})
                 /\ audit' = Logged(audit, done, "cancelled")
      BY <3>2
    <3>3. QED
      BY <1>2, <3>1, <3>2 DEF CloseRemoves
  <2>2. sent' = sent /\ cmd' = cmd /\ Only(o) /\ req'[o].pc \notin HandPCs
    BY <1>0, <1>2, FinishHands DEF CloseRemoves
  <2>3. \A c \in Clients : req'[c].exec = e /\ req'[c].pc \in HandPCs =>
          InHand(c, e) /\ req'[c].pc = req[c].pc
    BY <2>2 DEF Only, InHand
  <2>4. CASE e \in over
    <3>1. audit'[e] \in {audit[e], audit[e] \cup {"cancelled"}}
      BY <2>1 DEF Logged
    <3>2. Ended(e)
      BY <2>1, <2>2, <2>3, <2>4, <3>1 DEF Ended
    <3>3. QED
      BY <1>0, <3>2, EndedStep
  <2>5. CASE e \notin over
    <3>1. Quiet(e)
      BY <2>1, <2>2, <2>3, <2>5 DEF Quiet, Logged
    <3>2. QED
      BY <1>0, <3>1, QuietStep
  <2>6. QED
    BY <2>4, <2>5
<1>3. QED
  BY <1>1, <1>2

\* So does AgentOpenSshSession.
LEMMA AgentOpenSafe ==
  ASSUME GateInv, NEW a \in Agents, NEW e \in Execs,
         \/ \E h \in Hosts : AgentOpenArrives(a, h)
         \/ AgentLists(a) \/ AgentSpawns(a) \/ AgentRegisters(a)
  PROVE  ExecInv(e)'
<1>0. TypeInv /\ ExecInv(e) /\ a \in Clients
  BY DEF GateInv, Clients
<1>1. UNCHANGED <<pending, audit, sent, cmd>>
  BY DEF AgentOpenArrives, AgentLists, AgentSpawns, AgentRegisters, ctlVars
<1>2. Only(a) /\ req'[a].pc \notin HandPCs
  <2>1. ASSUME NEW h \in Hosts, AgentOpenArrives(a, h) PROVE Only(a) /\ req'[a].pc = "agent_list"
    BY <1>0, <2>1 DEF AgentOpenArrives, Arrive, Only, TypeInv, Idle
  <2>2. ASSUME AgentLists(a) PROVE Only(a) /\ req'[a].pc \in {"agent_spawn", "idle"}
    BY <1>0, <2>2, FinishHands, GotoHands DEF AgentLists
  <2>3. ASSUME AgentSpawns(a) PROVE Only(a) /\ req'[a].pc \in {"agent_register", "idle"}
    BY <1>0, <2>3, InProgress DEF AgentSpawns, Finish, Idle, Only, TypeInv, Requests
  <2>4. ASSUME AgentRegisters(a) PROVE Only(a) /\ req'[a].pc = "idle"
    BY <1>0, <2>4, FinishHands DEF AgentRegisters
  <2>5. QED
    BY <2>1, <2>2, <2>3, <2>4 DEF HandPCs, Undecided, Failing
<1>3. Quiet(e)
  BY <1>1, <1>2 DEF Quiet, Only, InHand
<1>4. QED
  BY <1>0, <1>3, QuietStep

\* And the surroundings: a crash only takes things out of hands.
LEMMA SurroundingsSafe ==
  ASSUME GateInv, NEW e \in Execs, Surroundings
  PROVE  ExecInv(e)'
<1>0. TypeInv /\ ExecInv(e)
  BY DEF GateInv
<1>1. /\ e \in pending' => e \in pending
      /\ UNCHANGED <<audit, sent, cmd>>
  BY DEF Surroundings, Tick, SetTrust, SetLock, Exits, Crash, ctlVars
<1>2. \A c \in Clients : \/ req'[c].pc = req[c].pc /\ req'[c].exec = req[c].exec
                         \/ req'[c].pc = "idle"
  <2>1. CASE Tick \/ SetLock \/ \E s \in Sessions : Exits(s)
    BY <2>1 DEF Tick, SetLock, Exits
  <2>2. ASSUME NEW h \in Hosts, NEW t \in Trusts, SetTrust(h, t), NEW c \in Clients
        PROVE  req'[c].pc = req[c].pc /\ req'[c].exec = req[c].exec
    BY <1>0, <2>2, InProgress DEF SetTrust, Requests
  <2>3. CASE Crash
    BY <2>3 DEF Crash, Idle
  <2>4. QED
    BY <2>1, <2>2, <2>3 DEF Surroundings
<1>3. Quiet(e)
  BY <1>1, <1>2 DEF Quiet, InHand, HandPCs, Undecided, Failing
<1>4. QED
  BY <1>0, <1>3, QuietStep

LEMMA InitGateInv == Init => GateInv
<1> SUFFICES ASSUME Init PROVE GateInv
  OBVIOUS
<1>1. ASSUME NEW e \in Execs PROVE ExecInv(e)
  BY <1>1 DEF Init, ExecInv, InHand, Idle, HandPCs, Undecided, Failing
<1>2. QED
  BY <1>1, InitType DEF GateInv

LEMMA StepGateInv == GateInv /\ [Next]_vars => GateInv'
<1> SUFFICES ASSUME GateInv, [Next]_vars PROVE GateInv'
  OBVIOUS
<1>1. TypeInv'
  BY StepType DEF GateInv
<1> SUFFICES ASSUME NEW e \in Execs PROVE ExecInv(e)'
  BY <1>1 DEF GateInv
<1>2. ASSUME NEW a \in Agents, AgentArrives(a) \/ AgentStep(a) PROVE ExecInv(e)'
  BY <1>2, ExecSafe, AgentOpenSafe, RefusedSafe DEF AgentArrives, AgentStep, Clients
<1>3. ASSUME NEW o \in Owners, OwnerArrives(o) \/ OwnerStep(o) PROVE ExecInv(e)'
  BY <1>3, DecisionSafe, SessionSafe, RefusedSafe DEF OwnerArrives, OwnerStep, Clients
<1>4. CASE UNCHANGED vars
  BY <1>4, QuietStep DEF vars, GateInv, Quiet, InHand
<1>5. QED
  BY <1>2, <1>3, <1>4, SurroundingsSafe DEF Next

LEMMA GateInvariance == Spec => []GateInv
BY InitGateInv, StepGateInv, PTL DEF Spec

\* Whatever fails and whenever the daemon crashes, a command that was written
\* to a terminal is in the audit file as allowed or approved.
THEOREM AuditedBeforeDispatch == Spec => []AuditBeforeDispatch
<1>1. GateInv => AuditBeforeDispatch
  BY DEF GateInv, ExecInv, AuditBeforeDispatch
<1>2. QED
  BY <1>1, GateInvariance, PTL

\* However many owners decide at the same time, a command is sent at most once.
THEOREM DispatchedAtMostOnce == Spec => []AtMostOnce
<1>1. GateInv => AtMostOnce
  BY DEF GateInv, ExecInv, AtMostOnce
<1>2. QED
  BY <1>1, GateInvariance, PTL

\* An approval ends in one way, and never comes back.
THEOREM EndsOneWay == Spec => []OneEnd
<1>1. GateInv => OneEnd
  BY DEF GateInv, ExecInv, OneEnd
<1>2. QED
  BY <1>1, GateInvariance, PTL

-----------------------------------------------------------------------------
(* What sessions and requests know of each other.                          *)

\* A binding, in memory or in the file, names what its session is connected to.
SessionInv(s) ==
  /\ bound[s] # None => bound[s] = origin[s] /\ proc[s] # "none"
  /\ disk[s] # None => disk[s] = origin[s] /\ proc[s] # "none"

\* What a request in progress remembers of its session and of its host's trust.
RequestInv(c) ==
  LET r == req[c] IN
  /\ r.pc \in {"register", "agent_register"} => origin[r.sess] = r.target /\ proc[r.sess] # "none"
  /\ r.pc = "remove" => proc[r.sess] = "gone"
  /\ r.pc \in ExecPCs => proc[r.sess] # "none" /\ cmd[r.exec] = r.sess
  /\ r.pc = "trust" => r.target = origin[r.sess] /\ trust[r.target] \in r.seen
  /\ r.pc = "evaluate" /\ r.trust = "trusted" => "trusted" \in r.seen
  /\ r.pc \in {"record_allowed", "send"} /\ r.exec \in Dangerous => "trusted" \in r.seen

SessionsInv == \A s \in Sessions : SessionInv(s)
RequestsInv == \A c \in Clients : RequestInv(c)

\* A session that was started keeps what it is connected to, one that is gone
\* stays gone, and a command keeps the session it was submitted for.
Steady ==
  /\ \A s \in Sessions : proc[s] # "none" => proc'[s] # "none" /\ origin'[s] = origin[s]
  /\ \A s \in Sessions : proc[s] = "gone" => proc'[s] = "gone"
  /\ \A e \in Execs : cmd[e] # None => cmd'[e] = cmd[e]

LEMMA StepSteady ==
  ASSUME TypeInv, [Next]_vars
  PROVE  Steady
<1>0. TypeOK
  BY DEF TypeInv
<1>1. ASSUME UNCHANGED <<proc, origin, cmd>> PROVE Steady
  BY <1>1 DEF Steady
<1>2. ASSUME NEW a \in Agents, NEW e \in Execs, NEW s \in Sessions, ExecArrives(a, e, s)
      PROVE  Steady
  BY <1>0, <1>2 DEF ExecArrives, Steady, TypeOK, procVars
<1>3. ASSUME NEW s \in Sessions, NEW t, Started(s, t), cmd' = cmd PROVE Steady
  BY <1>0, <1>3 DEF Started, Steady, TypeOK
<1>4. ASSUME NEW s \in Sessions, NEW to \in {"gone", "dead"}, proc[s] \in {"alive", "dead"},
             proc' = [proc EXCEPT ![s] = to], UNCHANGED <<origin, cmd>>
      PROVE  Steady
  BY <1>0, <1>4 DEF Steady, TypeOK
<1>5. ASSUME NEW a \in Agents, AgentRegisters(a) PROVE Steady
  BY <1>0, <1>5 DEF AgentRegisters, Steady, TypeOK
<1>6. ASSUME NEW a \in Agents, AgentArrives(a) \/ AgentStep(a) PROVE Steady
  <2>1. CASE AgentArrives(a)
    BY <1>1, <1>2, <2>1 DEF AgentArrives, AgentOpenArrives, procVars
  <2>2. CASE AgentSpawns(a)
    BY <1>1, <1>3, <2>2 DEF AgentSpawns, procVars
  <2>3. CASE ExecTrust(a) \/ ExecEvaluate(a) \/ RecordAllowed(a) \/ SendAllowed(a)
             \/ RecordFailed(a) \/ AgentLists(a) \/ ExpireFails(a)
    BY <1>1, <2>3 DEF ExecTrust, ExecEvaluate, RecordAllowed, SendAllowed, Dispatch, RecordFailed,
                      AgentLists, ExpireFails, procVars
  <2>4. QED
    BY <1>5, <1>6, <2>1, <2>2, <2>3 DEF AgentStep
<1>7. ASSUME NEW o \in Owners, OwnerArrives(o) \/ OwnerStep(o) PROVE Steady
  <2>1. CASE OwnerArrives(o)
    <3>1. ASSUME NEW s \in Sessions, CloseArrives(o, s) PROVE Steady
      BY <1>4, <3>1 DEF CloseArrives
    <3>2. QED
      BY <1>1, <2>1, <3>1 DEF OwnerArrives, DecisionArrives, ListArrives, OpenArrives, procVars
  <2>2. CASE OpenStarts(o)
    BY <1>1, <1>3, <2>2 DEF OpenStarts
  <2>3. CASE OwnerStep(o) /\ ~OpenStarts(o)
    BY <1>1, <2>3 DEF OwnerStep, TakeForApproval, RecordApproved, SendApproved, Dispatch,
                      RecordApproveFailed, Resolve, Deny, List, ExpireFails, OpenRegisters,
                      CloseRemoves, procVars
  <2>4. QED
    BY <1>7, <2>1, <2>2, <2>3
<1>8. CASE Surroundings
  <2>1. ASSUME NEW s \in Sessions, Exits(s) PROVE Steady
    BY <1>4, <2>1 DEF Exits
  <2>2. QED
    BY <1>1, <1>8, <2>1 DEF Surroundings, Tick, SetTrust, SetLock, Crash, procVars
<1>9. CASE UNCHANGED vars
  BY <1>1, <1>9 DEF vars
<1>10. QED
  BY <1>6, <1>7, <1>8, <1>9 DEF Next

\* A request that does not move stays right while the trusts stay.
LEMMA RequestKept ==
  ASSUME TypeInv, Steady, trust' = trust, NEW c \in Clients, RequestInv(c), req'[c] = req[c]
  PROVE  RequestInv(c)'
<1>1. /\ req[c].pc \in AboutSession => req[c].sess \in Sessions
      /\ req[c].pc \in AboutExec => req[c].exec \in Execs
  BY InProgress DEF Sound
<1>2. None \notin Sessions
  BY NoneAssumption
<1>3. /\ req[c].pc \in {"register", "agent_register"} =>
           origin'[req[c].sess] = req[c].target /\ proc'[req[c].sess] # "none"
      /\ req[c].pc = "remove" => proc'[req[c].sess] = "gone"
  BY <1>1 DEF Steady, RequestInv, AboutSession
<1>4. /\ req[c].pc \in ExecPCs => proc'[req[c].sess] # "none" /\ cmd'[req[c].exec] = req[c].sess
      /\ req[c].pc = "trust" => req[c].target = origin'[req[c].sess]
  BY <1>1, <1>2 DEF Steady, RequestInv, AboutSession, AboutExec, ExecPCs
<1>5. QED
  BY <1>3, <1>4 DEF RequestInv

\* So only the requests a step moves need a look.
LEMMA OthersKept ==
  ASSUME TypeInv, Steady, RequestsInv, trust' = trust, NEW c \in Clients, Only(c), RequestInv(c)'
  PROVE  RequestsInv'
BY RequestKept DEF RequestsInv, Only

\* A request that is over, or about other things than a session, is right.
LEMMA NothingKnown ==
  ASSUME NEW c \in Clients,
         req'[c].pc \notin ExecPCs \cup {"register", "agent_register", "remove"}
  PROVE  RequestInv(c)'
BY DEF RequestInv, ExecPCs

\* A binding that is dropped, or copied between memory and file, stays right.
LEMMA SessionKept ==
  ASSUME Steady, NEW s \in Sessions, SessionInv(s),
         bound'[s] \in {bound[s], disk[s], None}, disk'[s] \in {bound[s], disk[s], None}
  PROVE  SessionInv(s)'
BY DEF Steady, SessionInv

LEMMA SessionsKept ==
  ASSUME Steady, SessionsInv, UNCHANGED <<bound, disk>>
  PROVE  SessionsInv'
BY SessionKept DEF SessionsInv

\* A request that registers its session binds it to what it is connected to.
LEMMA SessionBound ==
  ASSUME TypeInv, Steady, SessionsInv, NEW c \in Clients, RequestInv(c),
         req[c].pc \in {"register", "agent_register"},
         LET binding == [bound EXCEPT ![req[c].sess] = req[c].target]
         IN  bound' \in {bound, binding} /\ disk' \in {bound, disk, binding}
  PROVE  SessionsInv'
<1> DEFINE x == req[c].sess
           t == req[c].target
<1>1. x \in Sessions /\ t = origin[x] /\ proc[x] # "none"
  BY InProgress DEF Sound, AboutSession, RequestInv
<1>2. bound \in [Sessions -> Targets \cup {None}] /\ disk \in [Sessions -> Targets \cup {None}]
  BY DEF TypeInv, TypeOK
<1> SUFFICES ASSUME NEW s \in Sessions PROVE SessionInv(s)'
  BY DEF SessionsInv
<1>3. CASE s = x
  <2>1. bound'[s] \in {bound[s], t} /\ disk'[s] \in {bound[s], disk[s], t}
    BY <1>1, <1>2, <1>3
  <2>2. QED
    BY <1>1, <1>3, <2>1 DEF Steady, SessionsInv, SessionInv
<1>4. CASE s # x
  <2>1. bound'[s] = bound[s] /\ disk'[s] \in {bound[s], disk[s]}
    BY <1>1, <1>2, <1>4
  <2>2. QED
    BY <2>1, SessionKept DEF SessionsInv
<1>5. QED
  BY <1>3, <1>4

\* The steps of AgentExec, and the steps that end with an error.
LEMMA ExecKnows ==
  ASSUME TypeInv, SessionsInv, RequestsInv, Steady, NEW a \in Agents,
         \/ \E e \in Execs, s \in Sessions : ExecArrives(a, e, s)
         \/ ExecTrust(a) \/ ExecEvaluate(a) \/ RecordAllowed(a) \/ SendAllowed(a)
         \/ RecordFailed(a)
  PROVE  SessionsInv' /\ RequestsInv'
<1>0. a \in Clients /\ TypeOK /\ RequestInv(a) /\ req[a] \in Requests /\ Sound(req[a])
  BY InProgress DEF Clients, TypeInv, RequestsInv
<1>1. UNCHANGED <<bound, disk, trust, proc, origin>>
  BY DEF ExecArrives, ExecTrust, ExecEvaluate, RecordAllowed, SendAllowed, Dispatch, RecordFailed,
         ctlVars, procVars, envVars
<1>2. SessionsInv'
  BY <1>1, SessionsKept
<1>3. ASSUME Only(a), req'[a].pc = "idle" PROVE RequestsInv'
  BY <1>0, <1>1, <1>3, NothingKnown, OthersKept DEF ExecPCs
<1>4. ASSUME NEW e \in Execs, NEW s \in Sessions, ExecArrives(a, e, s) PROVE RequestsInv'
  <2> DEFINE r == [Idle EXCEPT !.pc = IF bound[s] \in Hosts THEN "trust" ELSE "evaluate",
                               !.exec = e, !.sess = s, !.target = bound[s], !.now = clock,
                               !.seen = {TrustOf(origin[s])}]
  <2>1. Arrive(a, r) /\ cmd' = [cmd EXCEPT ![e] = s] /\ proc[s] # "none"
    BY <1>4 DEF ExecArrives
  <2>2. /\ r.pc = IF bound[s] \in Hosts THEN "trust" ELSE "evaluate"
        /\ r.exec = e /\ r.sess = s /\ r.target = bound[s] /\ r.trust = "ask"
        /\ r.seen = {TrustOf(origin[s])}
    BY DEF Idle
  <2>3. Only(a) /\ req'[a] = r /\ cmd'[e] = s
    BY <1>0, <2>1, ArriveHands DEF TypeOK
  <2>4. bound[s] \in Hosts => bound[s] = origin[s] /\ trust[bound[s]] \in {TrustOf(origin[s])}
    BY NoneAssumption DEF SessionsInv, SessionInv, TrustOf
  <2>5. RequestInv(a)'
    BY <1>1, <2>1, <2>2, <2>3, <2>4 DEF RequestInv
  <2>6. QED
    BY <1>0, <1>1, <2>3, <2>5, OthersKept
<1>5. ASSUME NEW pc, Goto(a, pc), req[a].pc \in ExecPCs,
             \/ pc = "record_allowed" /\ (req[a].exec \in Dangerous => "trusted" \in req[a].seen)
             \/ pc = "send" /\ req[a].pc = "record_allowed"
             \/ pc = "exec_failed"
      PROVE  RequestsInv'
  <2>1. Only(a) /\ req'[a] = [req[a] EXCEPT !.pc = pc]
    BY <1>0, <1>5 DEF Goto, Only, TypeInv
  <2>2. /\ req'[a].pc = pc /\ req'[a].exec = req[a].exec /\ req'[a].sess = req[a].sess
        /\ req'[a].seen = req[a].seen
    BY <1>0, <2>1 DEF Requests
  <2>3. req[a].sess \in Sessions /\ req[a].exec \in Execs
    BY <1>0, <1>5 DEF Sound, AboutSession, AboutExec
  <2>4. proc'[req[a].sess] # "none" /\ cmd'[req[a].exec] = req[a].sess
    BY <1>0, <1>5, <2>3, NoneAssumption DEF RequestInv, Steady
  <2>5. pc \in {"record_allowed", "send"} /\ req[a].exec \in Dangerous => "trusted" \in req[a].seen
    BY <1>0, <1>5 DEF RequestInv
  <2>6. RequestInv(a)'
    BY <1>5, <2>2, <2>4, <2>5 DEF RequestInv
  <2>7. QED
    BY <1>0, <1>1, <2>1, <2>6, OthersKept
<1>6. ASSUME ExecTrust(a) PROVE RequestsInv'
  <2>1. CASE unlocked
    <3>1. req[a].pc = "trust"
      BY <1>6 DEF ExecTrust
    <3>2. /\ Only(a)
          /\ req'[a] = [req[a] EXCEPT !.trust = trust[req[a].target], !.pc = "evaluate"]
      BY <1>0, <1>6, <2>1 DEF ExecTrust, Only, TypeInv
    <3>3. /\ req'[a].pc = "evaluate" /\ req'[a].exec = req[a].exec /\ req'[a].sess = req[a].sess
          /\ req'[a].seen = req[a].seen /\ req'[a].trust = trust[req[a].target]
      BY <1>0, <3>2 DEF Requests
    <3>4. req[a].sess \in Sessions /\ req[a].exec \in Execs
      BY <1>0, <3>1 DEF Sound, AboutSession, AboutExec, ExecPCs
    <3>5. proc'[req[a].sess] # "none" /\ cmd'[req[a].exec] = req[a].sess
      BY <1>0, <3>1, <3>4, NoneAssumption DEF RequestInv, Steady, ExecPCs
    <3>6. RequestInv(a)'
      BY <1>0, <3>1, <3>3, <3>5 DEF RequestInv
    <3>7. QED
      BY <1>0, <1>1, <3>2, <3>6, OthersKept
  <2>2. CASE ~unlocked
    BY <1>0, <1>3, <1>6, <2>2, FinishHands DEF ExecTrust
  <2>3. QED
    BY <2>1, <2>2
<1>7. ASSUME ExecEvaluate(a) PROVE RequestsInv'
  <2>1. req[a].pc = "evaluate" /\ req[a].trust \in Trusts
    BY <1>0, <1>7 DEF ExecEvaluate, Requests
  <2>2. CASE Finish(a)
    BY <1>0, <1>3, <2>2, FinishHands
  <2>3. CASE Goto(a, "record_allowed") /\ Evaluation(req[a].exec, req[a].sess, req[a].trust) = "allow"
    <3>1. req[a].exec \in Dangerous => req[a].trust = "trusted"
      BY <2>1, <2>3 DEF Evaluation, Trusts
    <3>2. QED
      BY <1>0, <1>5, <2>1, <2>3, <3>1 DEF RequestInv, ExecPCs
  <2>4. QED
    BY <1>7, <2>2, <2>3 DEF ExecEvaluate
<1>8. ASSUME RecordAllowed(a) \/ SendAllowed(a) \/ RecordFailed(a) PROVE RequestsInv'
  <2>1. \/ Finish(a)
        \/ Goto(a, "send") /\ req[a].pc = "record_allowed"
        \/ Goto(a, "exec_failed") /\ req[a].pc = "send"
    BY <1>8 DEF RecordAllowed, SendAllowed, Dispatch, RecordFailed
  <2>2. QED
    BY <1>0, <1>3, <1>5, <2>1, FinishHands DEF ExecPCs
<1>9. QED
  BY <1>2, <1>4, <1>6, <1>7, <1>8

\* The owner's decisions and a failing expire_pending know nothing of sessions.
LEMMA DecisionKnows ==
  ASSUME TypeInv, SessionsInv, RequestsInv, Steady, NEW o \in Clients,
         \/ \E e \in Execs, pc \in {"take", "deny"} : DecisionArrives(o, e, pc)
         \/ ListArrives(o)
         \/ TakeForApproval(o) \/ RecordApproved(o) \/ SendApproved(o)
         \/ RecordApproveFailed(o) \/ Resolve(o) \/ Deny(o) \/ List(o)
         \/ ExpireFails(o)
  PROVE  SessionsInv' /\ RequestsInv'
<1>1. UNCHANGED <<bound, disk, trust>>
  BY DEF DecisionArrives, ListArrives, TakeForApproval, RecordApproved, SendApproved, Dispatch,
         RecordApproveFailed, Resolve, Deny, List, ExpireFails, ctlVars, envVars
<1>2. Only(o) /\ req'[o].pc \notin ExecPCs \cup {"register", "agent_register", "remove"}
  <2>1. CASE Finish(o)
    BY <2>1, FinishHands DEF ExecPCs
  <2>2. ASSUME NEW pc \in ApprovePCs, Goto(o, pc)
        PROVE  Only(o) /\ req'[o].pc \notin ExecPCs \cup {"register", "agent_register", "remove"}
    BY <2>2, GotoHands DEF ApprovePCs, ExecPCs
  <2>3. ASSUME NEW e, NEW pc \in {"take", "deny"}, DecisionArrives(o, e, pc)
        PROVE  Only(o) /\ req'[o].pc = pc
    BY <2>3 DEF DecisionArrives, Arrive, Only, TypeInv, Idle
  <2>4. ASSUME ListArrives(o) PROVE Only(o) /\ req'[o].pc = "list"
    BY <2>4 DEF ListArrives, Arrive, Only, TypeInv, Idle
  <2>5. CASE \/ TakeForApproval(o) \/ RecordApproved(o) \/ SendApproved(o)
             \/ RecordApproveFailed(o) \/ Resolve(o) \/ Deny(o) \/ List(o) \/ ExpireFails(o)
    <3>1. Finish(o) \/ \E pc \in ApprovePCs : Goto(o, pc)
      BY <2>5 DEF TakeForApproval, RecordApproved, SendApproved, Dispatch,
                  RecordApproveFailed, Resolve, Deny, List, ExpireFails, ApprovePCs
    <3>2. QED
      BY <2>1, <2>2, <3>1
  <2>6. QED
    BY <2>3, <2>4, <2>5 DEF ExecPCs
<1>3. QED
  BY <1>1, <1>2, SessionsKept, NothingKnown, OthersKept

\* Sessions are opened, registered and closed.
LEMMA SessionKnows ==
  ASSUME TypeInv, SessionsInv, RequestsInv, Steady, NEW o \in Clients,
         \/ \E t \in Targets : OpenArrives(o, t)
         \/ \E s \in Sessions : CloseArrives(o, s)
         \/ OpenStarts(o) \/ OpenRegisters(o) \/ CloseRemoves(o)
         \/ \E h \in Hosts : AgentOpenArrives(o, h)
         \/ AgentLists(o) \/ AgentSpawns(o) \/ AgentRegisters(o)
  PROVE  SessionsInv' /\ RequestsInv'
<1>0. TypeOK /\ RequestInv(o) /\ req[o] \in Requests /\ Sound(req[o]) /\ trust' = trust
  BY InProgress DEF TypeInv, RequestsInv, OpenArrives, CloseArrives, OpenStarts, OpenRegisters,
     CloseRemoves, AgentOpenArrives, AgentLists, AgentSpawns, AgentRegisters, envVars
<1>1. ASSUME Only(o), req'[o].pc \in {"idle", "open", "agent_list", "agent_spawn"} PROVE RequestsInv'
  BY <1>0, <1>1, NothingKnown, OthersKept DEF ExecPCs
<1>2. ASSUME Finish(o) PROVE RequestsInv'
  BY <1>1, <1>2, FinishHands
<1>3. ASSUME NEW pc \in {"register", "agent_register"}, NEW s \in Sessions,
             Started(s, req[o].target), UNCHANGED <<bound, disk>>,
             req' = [req EXCEPT ![o].pc = pc, ![o].sess = s]
      PROVE  RequestsInv'
  <2>1. Only(o) /\ req'[o].pc = pc /\ req'[o].sess = s /\ req'[o].target = req[o].target
    BY <1>0, <1>3 DEF Only, TypeInv, Requests
  <2>2. origin'[s] = req[o].target /\ proc'[s] # "none"
    BY <1>0, <1>3 DEF Started, TypeOK
  <2>3. RequestInv(o)'
    BY <1>3, <2>1, <2>2 DEF RequestInv, ExecPCs
  <2>4. QED
    BY <1>0, <2>1, <2>3, OthersKept
<1>4. ASSUME NEW t \in Targets, OpenArrives(o, t) PROVE SessionsInv' /\ RequestsInv'
  <2>1. Only(o) /\ req'[o].pc = "open" /\ UNCHANGED <<bound, disk>>
    BY <1>0, <1>4 DEF OpenArrives, Arrive, Only, TypeInv, Idle, ctlVars
  <2>2. QED
    BY <1>1, <2>1, SessionsKept
<1>5. ASSUME NEW s \in Sessions, CloseArrives(o, s) PROVE SessionsInv' /\ RequestsInv'
  <2>1. proc'[s] = "gone" /\ UNCHANGED <<bound, disk>>
    BY <1>0, <1>5 DEF CloseArrives, TypeOK, ctlVars
  <2>2. CASE UNCHANGED req
    BY <1>0, <2>1, <2>2, SessionsKept, RequestKept DEF RequestsInv
  <2>3. CASE Arrive(o, [Idle EXCEPT !.pc = "remove", !.sess = s])
    <3>1. Only(o) /\ req'[o].pc = "remove" /\ req'[o].sess = s
      BY <1>0, <2>3 DEF Arrive, Only, TypeInv, Idle
    <3>2. RequestInv(o)'
      BY <2>1, <3>1 DEF RequestInv, ExecPCs
    <3>3. QED
      BY <1>0, <2>1, <3>1, <3>2, SessionsKept, OthersKept
  <2>4. QED
    BY <1>5, <2>2, <2>3 DEF CloseArrives
<1>6. ASSUME OpenStarts(o) \/ AgentSpawns(o) PROVE SessionsInv' /\ RequestsInv'
  <2>1. UNCHANGED <<bound, disk>>
    BY <1>6 DEF OpenStarts, AgentSpawns, ctlVars
  <2>2. \/ Finish(o)
        \/ \E pc \in {"register", "agent_register"}, s \in Sessions :
             Started(s, req[o].target) /\ req' = [req EXCEPT ![o].pc = pc, ![o].sess = s]
    BY <1>6 DEF OpenStarts, AgentSpawns
  <2>3. QED
    BY <1>2, <1>3, <2>1, <2>2, SessionsKept
<1>7. ASSUME OpenRegisters(o) \/ AgentRegisters(o) PROVE SessionsInv' /\ RequestsInv'
  <2> DEFINE binding == [bound EXCEPT ![req[o].sess] = req[o].target]
  <2>1. req[o].pc \in {"register", "agent_register"} /\ Finish(o)
    BY <1>7 DEF OpenRegisters, AgentRegisters
  <2>2. bound' \in {bound, binding} /\ disk' \in {bound, disk, binding}
    BY <1>7 DEF OpenRegisters, AgentRegisters
  <2>3. QED
    BY <1>0, <1>2, <2>1, <2>2, SessionBound
<1>8. ASSUME CloseRemoves(o) PROVE SessionsInv' /\ RequestsInv'
  <2>1. \A s \in Sessions : bound'[s] \in {bound[s], None} /\ disk'[s] \in {bound[s], disk[s], None}
    BY <1>0, <1>8 DEF CloseRemoves, TypeOK
  <2>2. SessionsInv'
    BY <2>1, SessionKept DEF SessionsInv
  <2>3. QED
    BY <1>2, <1>8, <2>2 DEF CloseRemoves
<1>9. ASSUME NEW h \in Hosts, AgentOpenArrives(o, h) PROVE SessionsInv' /\ RequestsInv'
  <2>1. Only(o) /\ req'[o].pc = "agent_list" /\ UNCHANGED <<bound, disk>>
    BY <1>0, <1>9 DEF AgentOpenArrives, Arrive, Only, TypeInv, Idle, ctlVars
  <2>2. QED
    BY <1>1, <2>1, SessionsKept
<1>10. ASSUME AgentLists(o) PROVE SessionsInv' /\ RequestsInv'
  <2>1. UNCHANGED <<bound, disk>> /\ (Finish(o) \/ Goto(o, "agent_spawn"))
    BY <1>10 DEF AgentLists, ctlVars
  <2>2. QED
    BY <1>1, <1>2, <2>1, SessionsKept, GotoHands
<1>11. QED
  BY <1>4, <1>5, <1>6, <1>7, <1>8, <1>9, <1>10

\* The surroundings: a changed trust is seen by the requests it concerns.
LEMMA SurroundingsKnow ==
  ASSUME TypeInv, SessionsInv, RequestsInv, Steady, Surroundings
  PROVE  SessionsInv' /\ RequestsInv'
<1>0. TypeOK
  BY DEF TypeInv
<1>1. CASE Tick \/ SetLock \/ \E s \in Sessions : Exits(s)
  <2>1. UNCHANGED <<bound, disk, trust, req>>
    BY <1>1 DEF Tick, SetLock, Exits, ctlVars, envVars
  <2>2. QED
    BY <2>1, SessionsKept, RequestKept DEF RequestsInv
<1>2. ASSUME NEW h \in Hosts, NEW t \in Trusts, SetTrust(h, t) PROVE SessionsInv' /\ RequestsInv'
  <2>1. UNCHANGED <<bound, disk, proc, origin, cmd>> /\ trust' = [trust EXCEPT ![h] = t]
    BY <1>2 DEF SetTrust, ctlVars, procVars
  <2> SUFFICES ASSUME NEW c \in Clients PROVE RequestInv(c)'
    BY <2>1, SessionsKept DEF RequestsInv
  <2>2. RequestInv(c) /\ req[c] \in Requests /\ Sound(req[c])
    BY InProgress DEF RequestsInv
  <2>3. CASE req[c].pc \in ExecPCs /\ origin[req[c].sess] = h
    <3>1. req'[c] = [req[c] EXCEPT !.seen = @ \cup {t}]
      BY <1>2, <2>3 DEF SetTrust
    <3>2. /\ req'[c].seen = req[c].seen \cup {t} /\ req'[c].pc = req[c].pc
          /\ req'[c].exec = req[c].exec /\ req'[c].sess = req[c].sess
          /\ req'[c].target = req[c].target /\ req'[c].trust = req[c].trust
      BY <2>2, <3>1 DEF Requests
    <3>3. trust'[h] = t
      BY <1>0, <2>1 DEF TypeOK
    <3>4. QED
      BY <2>1, <2>2, <2>3, <3>2, <3>3 DEF RequestInv, ExecPCs
  <2>4. CASE ~(req[c].pc \in ExecPCs /\ origin[req[c].sess] = h)
    <3>1. req'[c] = req[c]
      BY <1>2, <2>4 DEF SetTrust
    <3>2. req[c].pc = "trust" => trust'[req[c].target] = trust[req[c].target]
      BY <1>0, <2>1, <2>2, <2>4 DEF TypeOK, Sound, RequestInv, ExecPCs
    <3>3. QED
      BY <2>1, <2>2, <3>1, <3>2 DEF RequestInv, ExecPCs
  <2>5. QED
    BY <2>3, <2>4
<1>3. CASE Crash
  <2>1. \A c \in Clients : req'[c].pc = "idle"
    BY <1>3 DEF Crash, Idle
  <2>2. PICK tabs \in SUBSET {s \in Sessions : bound[s] # None} :
          bound' = [s \in Sessions |-> IF disk[s] # None THEN disk[s]
                                      ELSE IF s \in tabs THEN origin[s] ELSE None]
    BY <1>3 DEF Crash
  <2>3. \A s \in Sessions : bound'[s] \in {bound[s], disk[s], None} /\ disk'[s] = disk[s]
    BY <1>3, <2>2 DEF Crash, SessionsInv, SessionInv
  <2>4. SessionsInv'
    BY <2>3, SessionKept DEF SessionsInv
  <2>5. RequestsInv'
    BY <2>1, NothingKnown DEF RequestsInv, ExecPCs
  <2>6. QED
    BY <2>4, <2>5
<1>4. QED
  BY <1>1, <1>2, <1>3 DEF Surroundings

KnowsInv == GateInv /\ SessionsInv /\ RequestsInv

LEMMA InitKnowsInv == Init => KnowsInv
<1> SUFFICES ASSUME Init PROVE KnowsInv
  OBVIOUS
<1>1. SessionsInv /\ RequestsInv
  BY DEF Init, SessionsInv, SessionInv, RequestsInv, RequestInv, Idle, ExecPCs
<1>2. QED
  BY <1>1, InitGateInv DEF KnowsInv

LEMMA StepKnowsInv == KnowsInv /\ [Next]_vars => KnowsInv'
<1> SUFFICES ASSUME KnowsInv, [Next]_vars PROVE KnowsInv'
  OBVIOUS
<1>1. GateInv' /\ TypeInv /\ Steady /\ SessionsInv /\ RequestsInv
  BY StepGateInv, StepSteady DEF KnowsInv, GateInv
<1> SUFFICES SessionsInv' /\ RequestsInv'
  BY <1>1 DEF KnowsInv
<1>2. ASSUME NEW a \in Agents, AgentArrives(a) \/ AgentStep(a) PROVE SessionsInv' /\ RequestsInv'
  <2>1. a \in Clients
    BY DEF Clients
  <2>2. QED
    BY <1>1, <1>2, <2>1, ExecKnows, DecisionKnows, SessionKnows DEF AgentArrives, AgentStep
<1>3. ASSUME NEW o \in Owners, OwnerArrives(o) \/ OwnerStep(o) PROVE SessionsInv' /\ RequestsInv'
  <2>1. o \in Clients
    BY DEF Clients
  <2>2. QED
    BY <1>1, <1>3, <2>1, DecisionKnows, SessionKnows DEF OwnerArrives, OwnerStep
<1>4. CASE UNCHANGED vars
  BY <1>1, <1>4, SessionsKept, RequestKept DEF vars, RequestsInv
<1>5. QED
  BY <1>1, <1>2, <1>3, <1>4, SurroundingsKnow DEF Next

LEMMA KnowsInvariance == Spec => []KnowsInv
BY InitKnowsInv, StepKnowsInv, PTL DEF Spec

-----------------------------------------------------------------------------
(* Consent.                                                                *)

\* A command is written only by the two sending steps.
LEMMA WhoSends ==
  ASSUME TypeInv, [Next]_vars, NEW e \in Execs, sent'[e] # sent[e]
  PROVE  \/ \E a \in Agents : req[a].pc = "send" /\ req[a].exec = e
         \/ \E o \in Owners : req[o].pc = "send_approved" /\ req[o].exec = e
<1>1. ASSUME NEW a \in Agents, AgentArrives(a) \/ AgentStep(a)
      PROVE  req[a].pc = "send" /\ req[a].exec = e
  <2>1. SendAllowed(a)
    BY <1>1 DEF AgentArrives, AgentStep, ExecArrives, AgentOpenArrives, ExecTrust, ExecEvaluate,
       RecordAllowed, RecordFailed, AgentLists, AgentSpawns, AgentRegisters, ExpireFails
  <2>2. QED
    BY <2>1 DEF SendAllowed, Dispatch, TypeInv, TypeOK
<1>2. ASSUME NEW o \in Owners, OwnerArrives(o) \/ OwnerStep(o)
      PROVE  req[o].pc = "send_approved" /\ req[o].exec = e
  <2>1. SendApproved(o)
    BY <1>2 DEF OwnerArrives, OwnerStep, DecisionArrives, ListArrives, OpenArrives, CloseArrives,
       TakeForApproval, RecordApproved, RecordApproveFailed, Resolve, Deny, List, ExpireFails,
       OpenStarts, OpenRegisters, CloseRemoves
  <2>2. QED
    BY <2>1 DEF SendApproved, Dispatch, TypeInv, TypeOK
<1>3. ~Surroundings /\ ~UNCHANGED vars
  BY DEF Surroundings, Tick, SetTrust, SetLock, Exits, Crash, vars
<1>4. QED
  BY <1>1, <1>2, <1>3 DEF Next

\* A dangerous command is sent only after an owner's approval is on record, or
\* if the host its session is connected to was trusted at some moment of the
\* request, whatever is bound, closed or changed while the request waits.
THEOREM ConsentForDanger == Spec => DangerNeedsConsent
<1>1. KnowsInv /\ [Next]_vars =>
        [\A e \in Dangerous :
           sent'[e] # sent[e] =>
             \/ "approved" \in audit[e]
             \/ \E a \in Agents : req[a].pc = "send" /\ req[a].exec = e /\ "trusted" \in req[a].seen]_vars
  <2> SUFFICES ASSUME KnowsInv, [Next]_vars, NEW e \in Dangerous, sent'[e] # sent[e]
               PROVE  \/ "approved" \in audit[e]
                      \/ \E a \in Agents : req[a].pc = "send" /\ req[a].exec = e /\ "trusted" \in req[a].seen
    OBVIOUS
  <2>1. e \in Execs /\ ExecInv(e)
    BY KindsAssumption DEF KnowsInv, GateInv
  <2>2. CASE \E a \in Agents : req[a].pc = "send" /\ req[a].exec = e
    BY <2>2 DEF KnowsInv, RequestsInv, RequestInv, Clients
  <2>3. CASE \E o \in Owners : req[o].pc = "send_approved" /\ req[o].exec = e
    BY <2>1, <2>3 DEF ExecInv, InHand, HandPCs, OnRecord, Clients
  <2>4. QED
    BY <2>1, <2>2, <2>3, WhoSends DEF KnowsInv, GateInv
<1>2. QED
  BY <1>1, KnowsInvariance, PTL DEF Spec, DangerNeedsConsent

-----------------------------------------------------------------------------
(* Closing a session, while no file write and no call of the host fails.   *)

\* One exec: its approval hangs on a bound session, and an approval the owners
\* see is pending or in the hands of an owner.
Bound(e) == e \in pending => bound[cmd[e]] # None
Cared(e) ==
  Shown(e) => \/ e \in pending
              \/ \E o \in Owners : req[o].exec = e /\ req[o].pc \in ApprovePCs \ {"take"}

LEMMA Faultless == MaxFaults = 0 /\ TypeInv => ~Fault
BY DEF Fault, TypeInv, TypeOK

\* Nothing but its own requests and the end of its session touches an exec.
Aside(e) ==
  /\ e \in pending' => e \in pending /\ bound'[cmd'[e]] = bound[cmd[e]]
  /\ e \in pending /\ e \notin pending' => told'[e] \cap Resolutions # {}
  /\ told[e] \subseteq told'[e]
  /\ "requested" \in told'[e] => "requested" \in told[e]
  /\ \A o \in Owners : req[o].exec = e /\ req[o].pc \in ApprovePCs \ {"take"} =>
       req'[o].exec = e /\ req'[o].pc \in ApprovePCs \ {"take"}

LEMMA AsideStep ==
  ASSUME NEW e \in Execs, Bound(e), Aside(e)
  PROVE  Bound(e)' /\ (Cared(e) => Cared(e)')
BY DEF Bound, Cared, Aside, Shown

\* A request that is not about approvals may do as it likes.
LEMMA AsideRequest ==
  ASSUME TypeInv, NEW e \in Execs, NEW c \in Clients, Only(c), UNCHANGED <<pending, told, cmd>>,
         bound'[cmd[e]] = bound[cmd[e]], req[c].pc \notin ApprovePCs \ {"take"}
  PROVE  Aside(e)
BY DEF Aside, Only, Clients

\* A successful expire_pending, by a request that is not about approvals yet.
LEMMA AsideExpire ==
  ASSUME TypeInv, NEW e \in Execs, NEW c \in Clients, Only(c), UNCHANGED <<bound, cmd>>,
         req[c].pc \notin ApprovePCs \ {"take"}, NEW now,
         e \in pending' <=> e \in Live(now), told'[e] = ExpiredTold(now)[e]
  PROVE  Aside(e)
<1>1. CASE e \in Overdue(now)
  <2>1. told'[e] = told[e] \cup {"expired"} /\ e \notin pending'
    BY <1>1 DEF ExpiredTold, Logged, Live
  <2>2. QED
    BY <2>1 DEF Aside, Only, Clients, Resolutions
<1>2. CASE e \notin Overdue(now)
  <2>1. told'[e] = told[e] /\ (e \in pending' <=> e \in pending)
    BY <1>2 DEF ExpiredTold, Logged, Live
  <2>2. QED
    BY <2>1 DEF Aside, Only, Clients
<1>3. QED
  BY <1>1, <1>2

LEMMA ExecEnds ==
  ASSUME MaxFaults = 0, KnowsInv, NEW a \in Agents, NEW e \in Execs, Bound(e),
         AgentArrives(a) \/ AgentStep(a)
  PROVE  Bound(e)' /\ (Cared(e) => Cared(e)')
<1>0. TypeInv /\ TypeOK /\ a \in Clients /\ RequestInv(a) /\ ExecInv(e) /\ ~Fault /\ a \notin Owners
  BY Faultless, KindsAssumption DEF KnowsInv, GateInv, RequestsInv, Clients, TypeInv
<1>1. ASSUME NEW x \in Execs, NEW s \in Sessions, ExecArrives(a, x, s) PROVE Bound(e)' /\ (Cared(e) => Cared(e)')
  <2>1. /\ Only(a) /\ UNCHANGED <<pending, told, bound>> /\ cmd[x] = None
        /\ cmd' = [cmd EXCEPT ![x] = s]
    BY <1>0, <1>1 DEF ExecArrives, Arrive, Only, TypeInv, ctlVars
  <2>2. e \in pending => cmd'[e] = cmd[e]
    BY <1>0, <2>1 DEF ExecInv, TypeOK
  <2>3. Aside(e)
    BY <1>0, <2>1, <2>2 DEF Aside, Only, Clients
  <2>4. QED
    BY <2>3, AsideStep
<1>2. CASE ExecEvaluate(a)
  <2> DEFINE r == req[a]
  <2>1. /\ r.pc = "evaluate" /\ r.exec \in Execs /\ UNCHANGED <<bound, cmd>>
        /\ (Finish(a) \/ Goto(a, "record_allowed"))
    BY <1>0, <1>2, InProgress DEF ExecEvaluate, Sound, AboutExec, ExecPCs
  <2>2. Only(a)
    BY <1>0, <2>1, FinishHands, GotoHands
  <2>3. CASE e = r.exec /\ Evaluation(r.exec, r.sess, r.trust) = "needs_approval"
    <3>1. e \in pending' /\ bound[cmd[e]] # None
      BY <1>0, <1>2, <2>1, <2>3 DEF ExecEvaluate, Evaluation, RequestInv, ExecPCs
    <3>2. QED
      BY <2>1, <3>1 DEF Bound, Cared
  <2>4. CASE ~(e = r.exec /\ Evaluation(r.exec, r.sess, r.trust) = "needs_approval")
    <3>1. (e \in pending' <=> e \in Live(r.now)) /\ told'[e] = ExpiredTold(r.now)[e]
      BY <1>0, <1>2, <2>4 DEF ExecEvaluate, Logged
    <3>2. QED
      BY <1>0, <2>1, <2>2, <3>1, AsideExpire, AsideStep DEF ApprovePCs
  <2>5. QED
    BY <2>3, <2>4
<1>3. CASE AgentRegisters(a)
  <2>1. Only(a) /\ req[a].pc = "agent_register" /\ UNCHANGED <<pending, told, cmd>>
    BY <1>0, <1>3, FinishHands DEF AgentRegisters
  <2>2. e \in pending => bound'[cmd[e]] = bound[cmd[e]]
    <3>1. req[a].sess \in Sessions /\ bound' = [bound EXCEPT ![req[a].sess] = req[a].target]
      BY <1>0, <1>3, InProgress DEF AgentRegisters, Sound, AboutSession
    <3>2. cmd[e] = req[a].sess /\ e \in pending => bound[cmd[e]] = origin[cmd[e]]
      BY <3>1 DEF Bound, KnowsInv, SessionsInv, SessionInv
    <3>3. QED
      BY <1>0, <1>3, <2>1, <3>1, <3>2 DEF RequestInv, TypeOK
  <2>3. Aside(e)
    BY <1>0, <2>1, <2>2 DEF Aside, Only, Clients
  <2>4. QED
    BY <2>3, AsideStep
<1>4. CASE \/ \E h \in Hosts : AgentOpenArrives(a, h)
           \/ ExecTrust(a) \/ RecordAllowed(a) \/ SendAllowed(a) \/ RecordFailed(a)
           \/ AgentLists(a) \/ AgentSpawns(a)
  <2>1. UNCHANGED <<pending, told, cmd, bound>>
    BY <1>4 DEF AgentOpenArrives, ExecTrust, RecordAllowed, SendAllowed, Dispatch, RecordFailed,
       AgentLists, AgentSpawns, ctlVars
  <2>2. \A d \in Clients \ {a} : req'[d] = req[d]
    BY <1>0, <1>4 DEF AgentOpenArrives, ExecTrust, RecordAllowed, SendAllowed, Dispatch, RecordFailed,
       AgentLists, AgentSpawns, Arrive, Goto, Finish, TypeInv
  <2>3. Aside(e)
    BY <1>0, <2>1, <2>2 DEF Aside, Clients
  <2>4. QED
    BY <2>3, AsideStep
<1>5. QED
  BY <1>0, <1>1, <1>2, <1>3, <1>4 DEF AgentArrives, AgentStep, ExpireFails

LEMMA OwnerEnds ==
  ASSUME MaxFaults = 0, KnowsInv, NEW o \in Owners, NEW e \in Execs, Bound(e),
         OwnerArrives(o) \/ OwnerStep(o)
  PROVE  Bound(e)' /\ (Cared(e) => Cared(e)')
<1>0. TypeInv /\ TypeOK /\ o \in Clients /\ RequestInv(o) /\ ~Fault
  BY Faultless DEF KnowsInv, GateInv, RequestsInv, Clients, TypeInv
<1> DEFINE x == req[o].exec
           now == req[o].now
<1>1. CASE OwnerArrives(o) \/ OpenStarts(o)
  <2>1. UNCHANGED <<pending, told, cmd, bound>> /\ Only(o)
    BY <1>0, <1>1 DEF OwnerArrives, OpenStarts, DecisionArrives, ListArrives, OpenArrives,
       CloseArrives, Arrive, Finish, Only, TypeInv, ctlVars
  <2>2. req[o].pc \notin ApprovePCs
    BY <1>1 DEF OwnerArrives, OpenStarts, DecisionArrives, ListArrives, OpenArrives, CloseArrives,
       Arrive, ApprovePCs
  <2>3. QED
    BY <1>0, <2>1, <2>2, AsideRequest, AsideStep
<1>2. CASE TakeForApproval(o)
  <2>1. /\ Only(o) /\ UNCHANGED <<bound, cmd>> /\ pending' = Live(now) \ {x}
        /\ told' = ExpiredTold(now) /\ req[o].pc = "take"
    BY <1>0, <1>2, FinishHands, GotoHands DEF TakeForApproval
  <2>2. CASE e = x /\ e \in Live(now)
    <3>1. req'[o].pc = "record_approved" /\ req'[o].exec = e
      BY <1>0, <1>2, <2>2, GotoHands DEF TakeForApproval
    <3>2. QED
      BY <2>1, <2>2, <3>1 DEF Bound, Cared, ApprovePCs
  <2>3. CASE ~(e = x /\ e \in Live(now))
    BY <1>0, <2>1, <2>3, AsideExpire, AsideStep
  <2>4. QED
    BY <2>2, <2>3
<1>3. CASE List(o)
  <2>1. /\ Only(o) /\ UNCHANGED <<bound, cmd>> /\ pending' = Live(now)
        /\ told' = ExpiredTold(now) /\ req[o].pc = "list"
    BY <1>0, <1>3, FinishHands DEF List
  <2>2. QED
    BY <1>0, <2>1, AsideExpire, AsideStep DEF ApprovePCs
<1>4. CASE Deny(o)
  <2>1. Only(o) /\ UNCHANGED <<bound, cmd>> /\ pending' = Live(now) \ {x} /\ req[o].pc = "deny"
    BY <1>0, <1>4, FinishHands DEF Deny
  <2>2. CASE e = x /\ e \in Live(now)
    <3>1. told'[e] = ExpiredTold(now)[e] \cup {"denied"}
      BY <1>0, <1>4, <2>2 DEF Deny, Logged
    <3>2. e \notin pending' /\ "denied" \in told'[e]
      BY <2>1, <2>2, <3>1
    <3>3. QED
      BY <3>2 DEF Bound, Cared, Shown, Resolutions
  <2>3. CASE ~(e = x /\ e \in Live(now))
    <3>1. told'[e] = ExpiredTold(now)[e] /\ (e \in pending' <=> e \in Live(now))
      BY <1>0, <1>4, <2>1, <2>3 DEF Deny, Logged
    <3>2. QED
      BY <1>0, <2>1, <3>1, AsideExpire, AsideStep DEF ApprovePCs
  <2>4. QED
    BY <2>2, <2>3
<1>5. CASE RecordApproved(o) \/ SendApproved(o) \/ RecordApproveFailed(o)
  <2>1. UNCHANGED <<pending, told, cmd, bound>>
    BY <1>5 DEF RecordApproved, SendApproved, Dispatch, RecordApproveFailed, ctlVars
  <2>2. PICK pc \in ApprovePCs \ {"take"} : Goto(o, pc)
    BY <1>0, <1>5 DEF RecordApproved, SendApproved, Dispatch, RecordApproveFailed, ApprovePCs
  <2>3. Only(o) /\ req'[o].pc = pc /\ req'[o].exec = x
    BY <1>0, <2>2, GotoHands
  <2>4. Aside(e)
    BY <2>1, <2>3 DEF Aside, Only, Clients
  <2>5. QED
    BY <2>4, AsideStep
<1>6. CASE Resolve(o)
  <2>1. PICK how \in {"approved", "failed"} : told' = Logged(told, {x}, how)
    BY <1>6 DEF Resolve
  <2>2. Only(o) /\ UNCHANGED <<pending, cmd, bound>>
    BY <1>0, <1>6, FinishHands DEF Resolve
  <2>3. CASE e = x
    <3>1. "approved" \in told'[e] \/ "failed" \in told'[e]
      BY <2>1, <2>3 DEF Logged
    <3>2. QED
      BY <2>2, <3>1 DEF Bound, Cared, Shown, Resolutions
  <2>4. CASE e # x
    <3>1. told'[e] = told[e]
      BY <2>1, <2>4 DEF Logged
    <3>2. Aside(e)
      BY <2>2, <2>4, <3>1 DEF Aside, Only, Clients
    <3>3. QED
      BY <3>2, AsideStep
  <2>5. QED
    BY <2>3, <2>4
<1>7. CASE OpenRegisters(o)
  <2>1. Only(o) /\ req[o].pc = "register" /\ UNCHANGED <<pending, told, cmd>>
    BY <1>0, <1>7, FinishHands DEF OpenRegisters
  <2>2. e \in pending => bound'[cmd[e]] = bound[cmd[e]]
    <3>1. req[o].sess \in Sessions /\ bound' = [bound EXCEPT ![req[o].sess] = req[o].target]
      BY <1>0, <1>7, InProgress DEF OpenRegisters, Sound, AboutSession
    <3>2. cmd[e] = req[o].sess /\ e \in pending => bound[cmd[e]] = origin[cmd[e]]
      BY <3>1 DEF Bound, KnowsInv, SessionsInv, SessionInv
    <3>3. QED
      BY <1>0, <2>1, <3>1, <3>2 DEF RequestInv, TypeOK
  <2>3. Aside(e)
    BY <2>1, <2>2 DEF Aside, Only, ApprovePCs, Clients
  <2>4. QED
    BY <2>3, AsideStep
<1>8. CASE CloseRemoves(o)
  <2> DEFINE mine == {y \in pending : cmd[y] = req[o].sess}
  <2>1. /\ Only(o) /\ req[o].pc = "remove" /\ cmd' = cmd
        /\ pending' = pending \ mine /\ told' = Logged(told, mine, "cancelled")
        /\ bound' = [bound EXCEPT ![req[o].sess] = None]
    BY <1>0, <1>8, FinishHands DEF CloseRemoves
  <2>2. CASE e \in mine
    <3>1. "cancelled" \in told'[e] /\ e \notin pending'
      BY <2>1, <2>2 DEF Logged
    <3>2. QED
      BY <3>1 DEF Bound, Cared, Shown, Resolutions
  <2>3. CASE e \notin mine
    <3>1. told'[e] = told[e] /\ (e \in pending' <=> e \in pending)
      BY <2>1, <2>3 DEF Logged
    <3>2. e \in pending => bound'[cmd[e]] = bound[cmd[e]]
      BY <1>0, <2>1, <2>3 DEF TypeOK
    <3>3. Aside(e)
      BY <2>1, <3>1, <3>2 DEF Aside, Only, ApprovePCs, Clients
    <3>4. QED
      BY <3>3, AsideStep
  <2>4. QED
    BY <2>2, <2>3
<1>9. QED
  BY <1>0, <1>1, <1>2, <1>3, <1>4, <1>5, <1>6, <1>7, <1>8 DEF OwnerStep, ExpireFails

\* The surroundings: a crash ends the approvals, so no binding is missing, but
\* nobody is told.
LEMMA SurroundingsEnd ==
  ASSUME KnowsInv, NEW e \in Execs, Bound(e), Surroundings
  PROVE  Bound(e)' /\ (Cared(e) /\ MaxCrashes = 0 => Cared(e)')
<1>0. TypeInv /\ TypeOK
  BY DEF KnowsInv, GateInv, TypeInv
<1>1. CASE Crash
  <2>1. pending' = {} /\ (MaxCrashes = 0 => FALSE)
    BY <1>0, <1>1 DEF Crash, TypeOK
  <2>2. QED
    BY <2>1 DEF Bound
<1>2. CASE ~Crash
  <2>1. UNCHANGED <<pending, told, cmd, bound>>
    BY <1>2 DEF Surroundings, Tick, SetTrust, SetLock, Exits, ctlVars
  <2>2. \A c \in Clients : req'[c].exec = req[c].exec /\ req'[c].pc = req[c].pc
    <3>1. ASSUME NEW h \in Hosts, NEW t \in Trusts, SetTrust(h, t), NEW c \in Clients
          PROVE  req'[c].pc = req[c].pc /\ req'[c].exec = req[c].exec
      BY <1>0, <3>1, InProgress DEF SetTrust, Requests
    <3>2. QED
      BY <1>2, <3>1 DEF Surroundings, Tick, SetLock, Exits
  <2>3. QED
    BY <2>1, <2>2 DEF Bound, Cared, Shown, Clients
<1>3. QED
  BY <1>1, <1>2

LEMMA StepEnds ==
  ASSUME MaxFaults = 0, KnowsInv, \A e \in Execs : Bound(e), [Next]_vars
  PROVE  /\ \A e \in Execs : Bound(e)'
         /\ MaxCrashes = 0 /\ (\A e \in Execs : Cared(e)) => \A e \in Execs : Cared(e)'
<1> SUFFICES ASSUME NEW e \in Execs
             PROVE  Bound(e)' /\ (Cared(e) /\ MaxCrashes = 0 => Cared(e)')
  OBVIOUS
<1>1. CASE UNCHANGED vars
  BY <1>1 DEF vars, Bound, Cared, Shown
<1>2. QED
  BY <1>1, ExecEnds, OwnerEnds, SurroundingsEnd DEF Next

\* While no write fails, no approval outlives the binding of its session, also
\* across crashes of the daemon.
THEOREM NoUnboundApproval ==
  ASSUME MaxFaults = 0
  PROVE  Spec => []PendingBound
<1> DEFINE Inv == KnowsInv /\ \A e \in Execs : Bound(e)
<1>1. Init => Inv
  BY InitKnowsInv DEF Init, Bound
<1>2. Inv /\ [Next]_vars => Inv'
  BY StepKnowsInv, StepEnds
<1>3. Inv => PendingBound
  BY DEF Bound, PendingBound, KnowsInv, GateInv, TypeInv, TypeOK
<1>4. QED
  BY <1>1, <1>2, <1>3, PTL DEF Spec

\* Without failed writes and crashes, closing a session ends its approvals, and
\* whoever was shown an approval hears how it ended, however deciding, expiring
\* and closing fall among each other (remove_session, expire_pending).
THEOREM ClosingEndsApprovals ==
  ASSUME MaxFaults = 0, MaxCrashes = 0
  PROVE  Spec => []EndsWithItsSession
<1> DEFINE Inv == KnowsInv /\ (\A e \in Execs : Bound(e)) /\ (\A e \in Execs : Cared(e))
<1>1. Init => Inv
  BY InitKnowsInv DEF Init, Bound, Cared, Shown
<1>2. Inv /\ [Next]_vars => Inv'
  BY StepKnowsInv, StepEnds
<1>3. Inv => EndsWithItsSession
  BY DEF Bound, Cared, EndsWithItsSession, PendingBound, NoSilentEnd, KnowsInv, GateInv, TypeInv,
         TypeOK
<1>4. QED
  BY <1>1, <1>2, <1>3, PTL DEF Spec

-----------------------------------------------------------------------------
(* One login, while nothing fails and the daemon does not crash.           *)

AgentAlive == {s \in agentMade : proc[s] = "alive"}
Opening == {"agent_spawn", "agent_register"}

\* Whoever opens a session for an agent holds the agent mutex; a live session an
\* agent opened is bound or about to be; nobody starts a second one for a host.
LoginInv ==
  /\ \A c \in Clients : req[c].pc \in Opening => holder = c
  /\ \A s \in agentMade : proc[s] # "none"
  /\ \A s \in AgentAlive :
       \/ bound[s] = origin[s]
       \/ \E c \in Clients : req[c].pc = "agent_register" /\ req[c].sess = s
  /\ \A c \in Clients, s \in AgentAlive : req[c].pc = "agent_spawn" => origin[s] # req[c].target
  /\ \A s, t \in AgentAlive : origin[s] = origin[t] => s = t

\* Steps that open nothing for an agent keep this, if they unbind no live session.
LEMMA LoginKept ==
  ASSUME LoginInv, Steady, TypeInv, UNCHANGED <<agentMade, holder>>,
         \A s \in AgentAlive' : s \in AgentAlive /\ bound'[s] \in {bound[s], origin[s]},
         \A c \in Clients : req[c].pc \in Opening \/ req'[c].pc \in Opening => req'[c] = req[c]
  PROVE  LoginInv'
<1>1. agentMade \subseteq Sessions
  BY DEF TypeInv, TypeOK
<1>2. \A s \in AgentAlive' : s \in AgentAlive /\ origin'[s] = origin[s]
  BY <1>1 DEF AgentAlive, Steady
<1>3. \A s \in AgentAlive' :
        \/ bound'[s] = origin'[s]
        \/ \E c \in Clients : req'[c].pc = "agent_register" /\ req'[c].sess = s
  <2> SUFFICES ASSUME NEW s \in AgentAlive', bound'[s] # origin'[s]
               PROVE  \E c \in Clients : req'[c].pc = "agent_register" /\ req'[c].sess = s
    OBVIOUS
  <2>1. PICK c \in Clients : req[c].pc = "agent_register" /\ req[c].sess = s
    BY <1>2 DEF LoginInv
  <2>2. QED
    BY <2>1 DEF Opening
<1>4. \A c \in Clients : req'[c].pc \in Opening => holder' = c
  BY DEF LoginInv
<1>5. \A s \in agentMade' : proc'[s] # "none"
  BY <1>1 DEF LoginInv, Steady
<1>6. \A c \in Clients, s \in AgentAlive' : req'[c].pc = "agent_spawn" => origin'[s] # req'[c].target
  BY <1>2 DEF LoginInv, Opening
<1>7. \A s, t \in AgentAlive' : origin'[s] = origin'[t] => s = t
  BY <1>2 DEF LoginInv
<1>8. QED
  BY <1>3, <1>4, <1>5, <1>6, <1>7 DEF LoginInv

\* The same for a step of one request that is not opening, with the sessions as
\* they are.
LEMMA LoginApart ==
  ASSUME LoginInv, Steady, TypeInv, UNCHANGED <<agentMade, holder, proc, bound>>,
         NEW c \in Clients, Only(c), req[c].pc \notin Opening, req'[c].pc \notin Opening
  PROVE  LoginInv'
<1>1. \A s \in AgentAlive' : s \in AgentAlive /\ bound'[s] \in {bound[s], origin[s]}
  BY DEF AgentAlive
<1>2. \A d \in Clients : req[d].pc \in Opening \/ req'[d].pc \in Opening => req'[d] = req[d]
  BY DEF Only
<1>3. QED
  BY <1>1, <1>2, LoginKept

LEMMA AgentLogin ==
  ASSUME MaxFaults = 0, KnowsInv, Steady, LoginInv, NEW a \in Agents,
         AgentArrives(a) \/ AgentStep(a)
  PROVE  LoginInv'
<1>0. /\ TypeInv /\ TypeOK /\ a \in Clients /\ RequestInv(a) /\ ~Fault /\ a # None
      /\ req[a] \in Requests /\ Sound(req[a]) /\ agentMade \subseteq Sessions
  BY Faultless, NoneAssumption, InProgress
     DEF KnowsInv, GateInv, RequestsInv, Clients, TypeInv, TypeOK
<1>1. CASE AgentArrives(a)
  <2>1. UNCHANGED <<agentMade, holder, proc, bound>>
    BY <1>1 DEF AgentArrives, ExecArrives, AgentOpenArrives, ctlVars, procVars
  <2>2. Only(a) /\ req[a].pc = "idle" /\ req'[a].pc \in {"trust", "evaluate", "agent_list"}
    <3>1. ASSUME NEW e \in Execs, NEW s \in Sessions, ExecArrives(a, e, s)
          PROVE  Only(a) /\ req[a].pc = "idle" /\ req'[a].pc \in {"trust", "evaluate"}
      BY <1>0, <3>1 DEF ExecArrives, Arrive, Only, TypeInv, Idle
    <3>2. ASSUME NEW h \in Hosts, AgentOpenArrives(a, h)
          PROVE  Only(a) /\ req[a].pc = "idle" /\ req'[a].pc = "agent_list"
      BY <1>0, <3>2 DEF AgentOpenArrives, Arrive, Only, TypeInv, Idle
    <3>3. QED
      BY <1>1, <3>1, <3>2 DEF AgentArrives
  <2>3. QED
    BY <1>0, <2>1, <2>2, LoginApart DEF Opening
<1>2. CASE ExecTrust(a) \/ ExecEvaluate(a) \/ RecordAllowed(a) \/ SendAllowed(a) \/ RecordFailed(a)
  <2>1. UNCHANGED <<agentMade, holder, proc, bound>> /\ req[a].pc \in ExecPCs
    BY <1>2 DEF ExecTrust, ExecEvaluate, RecordAllowed, SendAllowed, Dispatch, RecordFailed,
                ctlVars, procVars, ExecPCs
  <2>2. Only(a) /\ req'[a].pc \notin Opening
    <3>1. CASE Finish(a)
      BY <1>0, <3>1, FinishHands DEF Opening
    <3>2. ASSUME NEW pc \in ExecPCs, Goto(a, pc) PROVE Only(a) /\ req'[a].pc \notin Opening
      BY <1>0, <3>2, GotoHands DEF Opening, ExecPCs
    <3>3. ASSUME req' = [req EXCEPT ![a].trust = trust[req[a].target], ![a].pc = "evaluate"]
          PROVE  Only(a) /\ req'[a].pc \notin Opening
      BY <1>0, <3>3 DEF Opening, Only, TypeInv, Requests
    <3>4. QED
      BY <1>2, <3>1, <3>2, <3>3
         DEF ExecTrust, ExecEvaluate, RecordAllowed, SendAllowed, Dispatch, RecordFailed, ExecPCs
  <2>3. QED
    BY <1>0, <2>1, <2>2, LoginApart DEF Opening, ExecPCs
<1>3. CASE AgentLists(a)
  <2>1. UNCHANGED <<agentMade, proc, bound, origin>> /\ req[a].pc = "agent_list" /\ holder = None
    BY <1>3 DEF AgentLists, ctlVars, procVars, Free
  <2>2. CASE Finish(a) /\ UNCHANGED holder
    BY <1>0, <2>1, <2>2, FinishHands, LoginApart DEF Opening
  <2>3. CASE /\ Goto(a, "agent_spawn") /\ holder' = a
             /\ ~\E s \in Sessions : proc[s] = "alive" /\ bound[s] = req[a].target
    <3>1. /\ Only(a) /\ req'[a].pc = "agent_spawn" /\ req'[a].target = req[a].target
      BY <1>0, <2>3 DEF Goto, Only, TypeInv, Requests
    <3>2. \A c \in Clients : req[c].pc \notin Opening
      BY <2>1, NoneAssumption DEF LoginInv, Clients
    <3>3. \A c \in Clients : req'[c].pc \in Opening => c = a
      BY <3>1, <3>2 DEF Only
    <3>4. \A s \in AgentAlive' : s \in AgentAlive /\ bound[s] = origin[s]
      BY <2>1, <3>2 DEF AgentAlive, LoginInv, Opening
    <3>5. \A s \in AgentAlive' : bound'[s] = origin'[s] /\ origin'[s] # req'[a].target
      BY <1>0, <2>1, <2>3, <3>1, <3>4 DEF AgentAlive
    <3>6. \A s \in agentMade' : proc'[s] # "none"
      BY <2>1 DEF LoginInv
    <3>7. \A c \in Clients, s \in AgentAlive' :
            req'[c].pc = "agent_spawn" => origin'[s] # req'[c].target
      BY <3>3, <3>5 DEF Opening
    <3>8. \A s, t \in AgentAlive' : origin'[s] = origin'[t] => s = t
      BY <2>1, <3>4 DEF LoginInv
    <3>9. QED
      BY <2>3, <3>3, <3>5, <3>6, <3>7, <3>8 DEF LoginInv
  <2>4. QED
    BY <1>3, <2>2, <2>3 DEF AgentLists
<1>4. CASE AgentSpawns(a)
  <2>1. req[a].pc = "agent_spawn" /\ holder = a /\ UNCHANGED <<bound>>
    BY <1>0, <1>4 DEF AgentSpawns, LoginInv, Opening, ctlVars
  <2>2. \A c \in Clients \ {a} : req[c].pc \notin Opening
    BY <2>1 DEF LoginInv
  <2>3. CASE Finish(a) /\ holder' = None /\ UNCHANGED procVars
    <3>1. \A c \in Clients : req'[c].pc \notin Opening
      BY <1>0, <2>2, <2>3, FinishHands DEF Only, Opening
    <3>2. \A s \in AgentAlive' : s \in AgentAlive /\ bound'[s] = origin'[s]
      BY <2>1, <2>2, <2>3 DEF AgentAlive, procVars, LoginInv, Opening
    <3>3. QED
      BY <2>3, <3>1, <3>2 DEF LoginInv, procVars, Opening
  <2>4. ASSUME NEW x \in Sessions, Started(x, req[a].target), agentMade' = agentMade \cup {x},
               req' = [req EXCEPT ![a].pc = "agent_register", ![a].sess = x], UNCHANGED holder
        PROVE  LoginInv'
    <3>1. Only(a) /\ req'[a].pc = "agent_register" /\ req'[a].sess = x
      BY <1>0, <2>4 DEF Only, TypeInv, Requests
    <3>2. /\ origin'[x] = req[a].target /\ proc'[x] = "alive" /\ proc[x] = "none"
          /\ \A s \in Sessions \ {x} : proc'[s] = proc[s] /\ origin'[s] = origin[s]
      BY <1>0, <2>4 DEF Started, TypeOK
    <3>3. \A s \in AgentAlive' : s = x \/ (s # x /\ s \in AgentAlive /\ origin'[s] = origin[s])
      BY <1>0, <2>4, <3>2 DEF AgentAlive
    <3>4. \A s \in AgentAlive : origin[s] # req[a].target
      BY <1>0, <2>1 DEF LoginInv
    <3>5. \A s \in AgentAlive :
            \/ bound[s] = origin[s]
            \/ \E c \in Clients : req[c].pc = "agent_register" /\ req[c].sess = s
      BY DEF LoginInv
    <3>6. \A s \in AgentAlive : bound[s] = origin[s]
      BY <2>1, <2>2, <3>5 DEF Opening
    <3>7. \A s \in AgentAlive' :
            \/ bound'[s] = origin'[s]
            \/ \E c \in Clients : req'[c].pc = "agent_register" /\ req'[c].sess = s
      BY <1>0, <2>1, <3>1, <3>3, <3>6
    <3>8. \A c \in Clients : req'[c].pc \in Opening => holder' = c /\ req'[c].pc = "agent_register"
      BY <2>1, <2>2, <2>4, <3>1 DEF Only
    <3>9. \A s \in agentMade' : proc'[s] # "none"
      BY <1>0, <2>4, <3>2 DEF LoginInv
    <3>10. \A s, t \in AgentAlive : origin[s] = origin[t] => s = t
      BY DEF LoginInv
    <3>11. \A s, t \in AgentAlive' : origin'[s] = origin'[t] => s = t
      BY <3>2, <3>3, <3>4, <3>10
    <3>12. QED
      BY <3>7, <3>8, <3>9, <3>11 DEF LoginInv, Opening
  <2>5. QED
    BY <1>0, <1>4, <2>3, <2>4 DEF AgentSpawns
<1>5. CASE AgentRegisters(a)
  <2>1. /\ req[a].pc = "agent_register" /\ holder = a /\ holder' = None
        /\ bound' = [bound EXCEPT ![req[a].sess] = req[a].target]
        /\ UNCHANGED <<proc, origin, agentMade>> /\ Finish(a)
    BY <1>0, <1>5 DEF AgentRegisters, LoginInv, Opening
  <2>2. req[a].sess \in Sessions /\ origin[req[a].sess] = req[a].target
    BY <1>0, <2>1 DEF RequestInv, Sound, AboutSession
  <2>3. \A c \in Clients : req'[c].pc \notin Opening /\ (c # a => req[c].pc \notin Opening)
    BY <1>0, <2>1, FinishHands DEF Only, Opening, LoginInv
  <2>4. \A s \in AgentAlive : s = req[a].sess \/ bound[s] = origin[s]
    BY <2>1, <2>3 DEF LoginInv, Opening
  <2>5. \A s \in AgentAlive' : s \in AgentAlive /\ bound'[s] = origin'[s]
    BY <1>0, <2>1, <2>2, <2>4 DEF AgentAlive, TypeOK
  <2>6. QED
    BY <2>1, <2>3, <2>5 DEF LoginInv, Opening
<1>6. QED
  BY <1>0, <1>1, <1>2, <1>3, <1>4, <1>5 DEF AgentStep, ExpireFails

LEMMA OwnerLogin ==
  ASSUME MaxFaults = 0, KnowsInv, Steady, LoginInv, NEW o \in Owners,
         OwnerArrives(o) \/ OwnerStep(o)
  PROVE  LoginInv'
<1>0. /\ TypeInv /\ TypeOK /\ o \in Clients /\ RequestInv(o) /\ ~Fault
      /\ Sound(req[o]) /\ agentMade \subseteq Sessions
  BY Faultless, InProgress DEF KnowsInv, GateInv, RequestsInv, Clients, TypeInv, TypeOK
<1>1. UNCHANGED <<agentMade, holder>>
  BY DEF OwnerArrives, OwnerStep, DecisionArrives, ListArrives, OpenArrives, CloseArrives,
     TakeForApproval, RecordApproved, SendApproved, Dispatch, RecordApproveFailed, Resolve, Deny,
     List, ExpireFails, OpenStarts, OpenRegisters, CloseRemoves, procVars
<1>2. \A c \in Clients : req[c].pc \in Opening \/ req'[c].pc \in Opening => req'[c] = req[c]
  <2>1. holder # o
    BY KindsAssumption, NoneAssumption, <1>0 DEF TypeOK
  <2>2. req[o].pc \notin Opening
    BY <1>0, <2>1 DEF LoginInv
  <2>3. Only(o) /\ (req'[o] = req[o] \/ req'[o].pc \notin Opening)
    <3>1. CASE OwnerArrives(o) /\ ~\E s \in Sessions : CloseArrives(o, s)
      BY <1>0, <3>1 DEF OwnerArrives, DecisionArrives, ListArrives, OpenArrives, Arrive, Only, Idle,
         TypeInv, Opening
    <3>2. ASSUME NEW s \in Sessions, CloseArrives(o, s)
          PROVE  Only(o) /\ (req'[o] = req[o] \/ req'[o].pc \notin Opening)
      BY <1>0, <3>2 DEF CloseArrives, Arrive, Only, Idle, TypeInv, Opening
    <3>3. CASE Finish(o)
      BY <1>0, <3>3, FinishHands DEF Opening
    <3>4. ASSUME NEW pc \in ApprovePCs, Goto(o, pc) PROVE Only(o) /\ req'[o].pc \notin Opening
      BY <1>0, <3>4, GotoHands DEF Opening, ApprovePCs
    <3>5. ASSUME NEW s, req' = [req EXCEPT ![o].pc = "register", ![o].sess = s]
          PROVE  Only(o) /\ req'[o].pc \notin Opening
      BY <1>0, <3>5, InProgress DEF Opening, Only, TypeInv, Requests
    <3>6. CASE OwnerStep(o)
      <4>1. CASE OpenStarts(o)
        BY <3>3, <3>5, <4>1 DEF OpenStarts
      <4>2. CASE ~OpenStarts(o)
        <5>1. Finish(o) \/ \E pc \in ApprovePCs : Goto(o, pc)
          BY <3>6, <4>2 DEF OwnerStep, TakeForApproval, RecordApproved, SendApproved, Dispatch,
             RecordApproveFailed, Resolve, Deny, List, ExpireFails, OpenRegisters, CloseRemoves,
             ApprovePCs
        <5>2. QED
          BY <3>3, <3>4, <5>1
      <4>3. QED
        BY <4>1, <4>2
    <3>7. QED
      BY <3>1, <3>2, <3>6
  <2>4. QED
    BY <2>2, <2>3 DEF Only
<1>3. \A s \in AgentAlive' : s \in AgentAlive /\ bound'[s] \in {bound[s], origin[s]}
  <2>1. CASE OpenStarts(o)
    <3>1. \A s \in agentMade : proc'[s] = proc[s]
      BY <1>0, <2>1 DEF OpenStarts, Started, LoginInv, TypeOK
    <3>2. QED
      BY <1>1, <2>1, <3>1 DEF OpenStarts, AgentAlive, ctlVars
  <2>2. ASSUME NEW x \in Sessions, CloseArrives(o, x)
        PROVE  \A s \in AgentAlive' : s \in AgentAlive /\ bound'[s] \in {bound[s], origin[s]}
    BY <1>0, <2>2 DEF CloseArrives, AgentAlive, TypeOK, ctlVars
  <2>3. CASE OpenRegisters(o)
    <3>1. /\ bound' = [bound EXCEPT ![req[o].sess] = req[o].target] /\ UNCHANGED <<proc, agentMade>>
          /\ origin[req[o].sess] = req[o].target
      BY <1>0, <2>3 DEF OpenRegisters, RequestInv, procVars
    <3>2. QED
      BY <1>0, <3>1 DEF AgentAlive, TypeOK
  <2>4. CASE CloseRemoves(o)
    <3>1. /\ bound' = [bound EXCEPT ![req[o].sess] = None] /\ UNCHANGED <<proc, agentMade>>
          /\ proc[req[o].sess] = "gone"
      BY <1>0, <2>4 DEF CloseRemoves, RequestInv, procVars
    <3>2. QED
      BY <1>0, <3>1 DEF AgentAlive, TypeOK
  <2>5. CASE /\ ~OpenStarts(o) /\ ~OpenRegisters(o) /\ ~CloseRemoves(o)
             /\ ~\E s \in Sessions : CloseArrives(o, s)
    <3>1. UNCHANGED <<proc, bound, agentMade>>
      BY <2>5 DEF OwnerArrives, OwnerStep, DecisionArrives, ListArrives, OpenArrives,
         TakeForApproval, RecordApproved, SendApproved, Dispatch, RecordApproveFailed, Resolve,
         Deny, List, ExpireFails, ctlVars, procVars
    <3>2. QED
      BY <3>1 DEF AgentAlive
  <2>6. QED
    BY <2>1, <2>2, <2>3, <2>4, <2>5
<1>4. QED
  BY <1>0, <1>1, <1>2, <1>3, LoginKept

LEMMA SurroundingsLogin ==
  ASSUME MaxCrashes = 0, KnowsInv, Steady, LoginInv, Surroundings
  PROVE  LoginInv'
<1>0. TypeInv /\ TypeOK
  BY DEF KnowsInv, GateInv, TypeInv
<1>1. ~Crash
  BY <1>0 DEF Crash, TypeOK
<1>2. UNCHANGED <<agentMade, holder, bound>>
  BY <1>1 DEF Surroundings, Tick, SetTrust, SetLock, Exits, ctlVars, procVars
<1>3. \A s \in AgentAlive' : s \in AgentAlive
  <2>1. \A s \in Sessions : proc'[s] = "alive" => proc[s] = "alive"
    BY <1>0, <1>1 DEF Surroundings, Tick, SetTrust, SetLock, Exits, procVars, TypeOK
  <2>2. QED
    BY <1>0, <1>2, <2>1 DEF AgentAlive, TypeOK
<1>4. \A c \in Clients : req[c].pc \in Opening \/ req'[c].pc \in Opening => req'[c] = req[c]
  <2>1. ASSUME NEW h \in Hosts, NEW t \in Trusts, SetTrust(h, t), NEW c \in Clients,
               req[c].pc \in Opening \/ req'[c].pc \in Opening
        PROVE  req'[c] = req[c]
    <3>1. req'[c].pc = req[c].pc
      BY <1>0, <2>1, InProgress DEF SetTrust, Requests
    <3>2. QED
      BY <2>1, <3>1 DEF SetTrust, Opening, ExecPCs
  <2>2. QED
    BY <1>1, <2>1 DEF Surroundings, Tick, SetLock, Exits
<1>5. QED
  BY <1>0, <1>2, <1>3, <1>4, LoginKept

\* Without faults and crashes, of the sessions agents opened at most one is alive
\* for each host, however many agents ask for it at the same time: the agent
\* mutex is held from the look at the bindings to the new one.
THEOREM OneLoginPerHost ==
  ASSUME MaxFaults = 0, MaxCrashes = 0
  PROVE  Spec => []OneAgentLogin
<1> DEFINE Inv == KnowsInv /\ LoginInv
<1>1. Init => Inv
  BY InitKnowsInv DEF Init, LoginInv, AgentAlive, Opening, Idle
<1>2. Inv /\ [Next]_vars => Inv'
  <2> SUFFICES ASSUME KnowsInv, LoginInv, [Next]_vars PROVE LoginInv'
    BY StepKnowsInv
  <2>1. Steady
    BY StepSteady DEF KnowsInv, GateInv
  <2>2. CASE UNCHANGED vars
    BY <2>2 DEF vars, LoginInv, AgentAlive
  <2>3. QED
    BY <2>1, <2>2, AgentLogin, OwnerLogin, SurroundingsLogin DEF Next
<1>3. Inv => OneAgentLogin
  <2> SUFFICES ASSUME LoginInv, NEW h \in Hosts
               PROVE  Cardinality({s \in agentMade : proc[s] = "alive" /\ origin[s] = h}) <= 1
    BY DEF OneAgentLogin
  <2> DEFINE S == {s \in agentMade : proc[s] = "alive" /\ origin[s] = h}
  <2>1. \A s, t \in S : s = t
    BY DEF LoginInv, AgentAlive
  <2>2. S = {} \/ \E s : S = {s}
    BY <2>1
  <2> HIDE DEF S
  <2>3. Cardinality(S) = 0 \/ Cardinality(S) = 1
    BY <2>2, FS_EmptySet, FS_Singleton
  <2>4. QED
    BY <2>3 DEF S
<1>4. QED
  BY <1>1, <1>2, <1>3, PTL DEF Spec

-----------------------------------------------------------------------------
(* The gate implements ApprovalLedger.  A command is busy while a request   *)
(* is about it: then it is busy with one client only, it is not pending,    *)
(* and the program counter of that client says its stage.                   *)

BusyPCs == HandPCs \cup {"resolve_approved", "resolve_failed"}
Busy(c, e) == req[c].exec = e /\ req[c].pc \in BusyPCs

LifeInv(e) ==
  /\ \A c, d \in Clients : Busy(c, e) /\ Busy(d, e) => c = d
  /\ \A c \in Clients : Busy(c, e) => e \notin pending /\ cmd[e] # None
  /\ \A c \in Clients : Busy(c, e) /\ req[c].pc = "resolve_approved" => sent[e] = 1

StageAt(pc) ==
  CASE pc \in Undecided -> "asked"
    [] pc = "record_approved" -> "granted"
    [] pc \in {"send", "send_approved"} -> "cleared"
    [] pc \in Failing \cup {"resolve_failed"} -> "unsent"

StageFacts(e) ==
  /\ cmd[e] = None => StageOf(e) = "new"
  /\ cmd[e] # None /\ sent[e] = 1 => StageOf(e) = "sent"
  /\ e \in pending => StageOf(e) = "pending"
  /\ \A c \in Clients : Busy(c, e) /\ sent[e] = 0 => StageOf(e) = StageAt(req[c].pc)
  /\ cmd[e] # None /\ sent[e] = 0 /\ e \notin pending /\ (\A c \in Clients : ~Busy(c, e))
       => StageOf(e) = "over"

LEMMA BusyIsWorking ==
  ASSUME NEW e
  PROVE  /\ \A pcs \in SUBSET BusyPCs : Working(e, pcs) => \E c \in Clients : Busy(c, e) /\ req[c].pc \in pcs
         /\ \A pcs \in SUBSET HandPCs : Working(e, pcs) => \E c \in Clients : InHand(c, e) /\ req[c].pc \in pcs
BY DEF Working, Busy, InHand, BusyPCs

\* The stage of a command, by where it is.
LEMMA StageOfOne ==
  ASSUME NEW e \in Execs, ExecInv(e), LifeInv(e)
  PROVE  StageFacts(e)
<1>1. /\ Undecided \in SUBSET HandPCs /\ Undecided = {"trust", "evaluate", "record_allowed"}
      /\ {"record_approved"} \in SUBSET HandPCs /\ {"send", "send_approved"} \in SUBSET HandPCs
      /\ {"exec_failed", "approve_failed", "resolve_failed"} \in SUBSET BusyPCs
      /\ HandPCs \subseteq BusyPCs
  BY DEF BusyPCs, HandPCs, Undecided, Failing
<1> DEFINE Asked == Working(e, {"trust", "evaluate", "record_allowed"})
           Granted == Working(e, {"record_approved"})
           Cleared == Working(e, {"send", "send_approved"})
           Unsent == Working(e, {"exec_failed", "approve_failed", "resolve_failed"})
<1>2. ASSUME \A c \in Clients : ~Busy(c, e) PROVE ~Asked /\ ~Granted /\ ~Cleared /\ ~Unsent
  BY <1>1, <1>2, BusyIsWorking
<1>3. ASSUME sent[e] # 0 PROVE ~Asked /\ ~Granted /\ ~Cleared
  <2>1. \A c \in Clients : InHand(c, e) => req[c].pc \in Failing
    BY <1>3 DEF ExecInv, OnRecord
  <2>2. QED
    BY <1>1, <2>1, BusyIsWorking DEF Failing
<1> HIDE DEF Asked, Granted, Cleared, Unsent
<1>4. ASSUME cmd[e] = None PROVE StageOf(e) = "new"
  BY <1>2, <1>4 DEF StageOf, ExecInv, LifeInv, Asked, Granted, Cleared, Unsent
<1>5. ASSUME cmd[e] # None, sent[e] = 1 PROVE StageOf(e) = "sent"
  BY <1>3, <1>5 DEF StageOf, ExecInv, Asked, Granted, Cleared
<1>6. ASSUME e \in pending PROVE StageOf(e) = "pending"
  BY <1>2, <1>6 DEF StageOf, ExecInv, LifeInv, Asked, Granted, Cleared, Unsent
<1>7. ASSUME NEW c \in Clients, Busy(c, e), sent[e] = 0 PROVE StageOf(e) = StageAt(req[c].pc)
  <2>1. e \notin pending /\ cmd[e] # None /\ \A d \in Clients : Busy(d, e) => d = c
    BY <1>7 DEF LifeInv
  <2>2. \A pcs \in SUBSET BusyPCs : Working(e, pcs) <=> req[c].pc \in pcs
    BY <1>7, <2>1 DEF Working, Busy
  <2>3. QED
    BY <1>7, <2>1, <2>2 DEF StageOf, StageAt, LifeInv, Busy, BusyPCs, HandPCs, Undecided, Failing
<1>8. ASSUME cmd[e] # None, sent[e] = 0, e \notin pending, \A c \in Clients : ~Busy(c, e)
      PROVE  StageOf(e) = "over"
  BY <1>2, <1>8 DEF StageOf, Asked, Granted, Cleared, Unsent
<1>9. QED
  BY <1>4, <1>5, <1>6, <1>7, <1>8 DEF StageFacts

LEMMA StageIs == \A e \in Execs : ExecInv(e) /\ LifeInv(e) => StageFacts(e)
BY StageOfOne

\* The same in the next state.
LEMMA StageIsNext == \A e \in Execs : ExecInv(e)' /\ LifeInv(e)' => StageFacts(e)'
<1>1. (\A e \in Execs : ExecInv(e) /\ LifeInv(e) => StageFacts(e))'
  BY StageIs, PTL
<1>2. QED
  BY <1>1

\* A move of the ledger, by the stages before and after.
LEMMA LedgerMove ==
  ASSUME NEW e \in Execs, NEW from, NEW to, NEW lines, NEW events,
         StageOf(e) = from, StageOf(e)' = to,
         audit'[e] = audit[e] \cup lines, told'[e] = told[e] \cup events
  PROVE  Ledger!Moves(e, from, to, lines, events)
BY DEF Ledger!Moves

\* A step that has nothing to do with e, or moves it within its stage.
Untouched(e) ==
  /\ e \in pending' <=> e \in pending
  /\ cmd'[e] = cmd[e] /\ sent'[e] = sent[e] /\ audit'[e] = audit[e] /\ told'[e] = told[e]
  /\ \A c \in Clients :
       Busy(c, e) \/ Busy(c, e)' =>
         /\ Busy(c, e) /\ Busy(c, e)'
         /\ req'[c].pc = req[c].pc \/ {req[c].pc, req'[c].pc} \subseteq Undecided

LEMMA Rest ==
  ASSUME NEW e \in Execs, ExecInv(e), ExecInv(e)', LifeInv(e), Untouched(e)
  PROVE  LifeInv(e)' /\ Ledger!Lives(e)
<1>1. LifeInv(e)'
  BY DEF LifeInv, Untouched, Undecided
<1>2. StageFacts(e) /\ StageFacts(e)'
  BY <1>1, StageIs, StageIsNext
<1>3. \A c \in Clients : Busy(c, e) => Busy(c, e)' /\ StageAt(req'[c].pc) = StageAt(req[c].pc)
  BY DEF Untouched, StageAt, Undecided, Failing
<1>4. StageOf(e)' = StageOf(e)
  <2>1. sent[e] \in {0, 1}
    BY DEF ExecInv
  <2>2. CASE \E c \in Clients : Busy(c, e) /\ sent[e] = 0
    BY <1>2, <1>3, <2>2 DEF StageFacts, Untouched
  <2>3. CASE (\A c \in Clients : ~Busy(c, e)) \/ sent[e] = 1
    <3>1. (\A c \in Clients : ~Busy(c, e)) => \A c \in Clients : ~Busy(c, e)'
      BY DEF Untouched
    <3>2. QED
      BY <1>2, <2>1, <2>3, <3>1 DEF StageFacts, Untouched
  <2>4. QED
    BY <2>1, <2>2, <2>3
<1>5. Ledger!Rests(e)
  BY <1>4 DEF Ledger!Rests, Untouched
<1>6. QED
  BY <1>1, <1>5 DEF Ledger!Lives

\* Where a command is after a step that leaves it with nobody, or with client c.
LEMMA NextUnheld ==
  ASSUME NEW e \in Execs, ExecInv(e)', \A c \in Clients : ~Busy(c, e)'
  PROVE  /\ LifeInv(e)'
         /\ e \in pending' => StageOf(e)' = "pending"
         /\ cmd'[e] # None /\ sent'[e] = 1 => StageOf(e)' = "sent"
         /\ cmd'[e] # None /\ sent'[e] = 0 /\ e \notin pending' => StageOf(e)' = "over"
<1>1. LifeInv(e)'
  BY DEF LifeInv
<1>2. QED
  BY <1>1, StageIsNext DEF StageFacts

LEMMA NextHeld ==
  ASSUME NEW e \in Execs, ExecInv(e)', NEW c \in Clients, Busy(c, e)',
         \A d \in Clients \ {c} : ~Busy(d, e)', e \notin pending', cmd'[e] # None,
         req'[c].pc = "resolve_approved" => sent'[e] = 1
  PROVE  /\ LifeInv(e)'
         /\ sent'[e] = 1 => StageOf(e)' = "sent"
         /\ sent'[e] = 0 => StageOf(e)' = StageAt(req'[c].pc)
<1>1. LifeInv(e)'
  BY DEF LifeInv
<1>2. QED
  BY <1>1, StageIsNext DEF StageFacts

\* Before a step of the client that is busy with the command.
LEMMA NowHeld ==
  ASSUME NEW e \in Execs, ExecInv(e), LifeInv(e), NEW c \in Clients, Busy(c, e), Only(c)
  PROVE  /\ \A d \in Clients \ {c} : ~Busy(d, e) /\ ~Busy(d, e)'
         /\ e \notin pending /\ cmd[e] # None /\ sent[e] \in {0, 1}
         /\ sent[e] = 1 => StageOf(e) = "sent"
         /\ sent[e] = 0 => StageOf(e) = StageAt(req[c].pc)
<1>1. StageFacts(e)
  BY StageIs
<1>2. QED
  BY <1>1 DEF StageFacts, LifeInv, ExecInv, Only, Busy

\* An approval that ends is settled, or lost when nobody is told.
LEMMA ApprovalEnds ==
  ASSUME NEW e \in Execs, ExecInv(e), ExecInv(e)', LifeInv(e),
         e \in pending, e \notin pending', cmd'[e] = cmd[e], sent'[e] = sent[e],
         \A c \in Clients : Busy(c, e)' => Busy(c, e),
         NEW how \in {"denied", "expired", "cancelled"}, NEW what \in {{}, {how}},
         audit'[e] = audit[e] \cup what, told'[e] = told[e] \cup what
  PROVE  LifeInv(e)' /\ Ledger!Lives(e)
<1>1. sent[e] = 0 /\ cmd[e] # None /\ \A c \in Clients : ~Busy(c, e)'
  BY DEF ExecInv, LifeInv
<1>2. StageOf(e) = "pending"
  BY StageIs DEF StageFacts
<1>3. LifeInv(e)' /\ StageOf(e)' = "over"
  BY <1>1, NextUnheld
<1>4. Ledger!Moves(e, "pending", "over", what, what)
  BY <1>2, <1>3, LedgerMove
<1>5. CASE what = {}
  BY <1>3, <1>4, <1>5 DEF Ledger!Lives, Ledger!Lose
<1>6. CASE what = {how}
  BY <1>3, <1>4, <1>6 DEF Ledger!Lives, Ledger!Settle
<1>7. QED
  BY <1>5, <1>6

\* A successful expire_pending, seen from a command whose requests stay.
LEMMA ExpireLives ==
  ASSUME NEW e \in Execs, ExecInv(e), ExecInv(e)', LifeInv(e), NEW now,
         e \in pending' <=> e \in Live(now), cmd'[e] = cmd[e], sent'[e] = sent[e],
         audit'[e] = ExpiredAudit(now)[e], told'[e] = ExpiredTold(now)[e],
         \A c \in Clients :
           Busy(c, e) \/ Busy(c, e)' =>
             /\ Busy(c, e) /\ Busy(c, e)'
             /\ req'[c].pc = req[c].pc \/ {req[c].pc, req'[c].pc} \subseteq Undecided
  PROVE  LifeInv(e)' /\ Ledger!Lives(e)
<1>1. CASE e \in Overdue(now)
  <2>1. /\ e \in pending /\ e \notin pending'
        /\ audit'[e] = audit[e] \cup {"expired"} /\ told'[e] = told[e] \cup {"expired"}
    BY <1>1 DEF Overdue, Live, ExpiredAudit, ExpiredTold, Logged
  <2>2. QED
    BY <2>1, ApprovalEnds
<1>2. CASE e \notin Overdue(now)
  <2>1. Untouched(e)
    BY <1>2 DEF Untouched, Live, ExpiredAudit, ExpiredTold, Logged
  <2>2. QED
    BY <2>1, Rest
<1>3. QED
  BY <1>1, <1>2

\* A step of a client that is not busy with e before or after it.
LEMMA UnheldRequests ==
  ASSUME NEW e \in Execs, NEW c \in Clients, Only(c), ~Busy(c, e), ~Busy(c, e)'
  PROVE  \A d \in Clients :
           Busy(d, e) \/ Busy(d, e)' =>
             /\ Busy(d, e) /\ Busy(d, e)'
             /\ req'[d].pc = req[d].pc \/ {req[d].pc, req'[d].pc} \subseteq Undecided
BY DEF Only, Busy

LEMMA UnheldLives ==
  ASSUME NEW e \in Execs, ExecInv(e), ExecInv(e)', LifeInv(e),
         NEW c \in Clients, Only(c), ~Busy(c, e), ~Busy(c, e)',
         e \in pending' <=> e \in pending, cmd'[e] = cmd[e], sent'[e] = sent[e],
         audit'[e] = audit[e], told'[e] = told[e]
  PROVE  LifeInv(e)' /\ Ledger!Lives(e)
<1>1. Untouched(e)
  BY UnheldRequests DEF Untouched
<1>2. QED
  BY <1>1, Rest

\* The steps of AgentExec are moves of the ledger.
LEMMA ExecLives ==
  ASSUME GateInv, GateInv', NEW a \in Agents, NEW e \in Execs, LifeInv(e),
         \/ \E x \in Execs, s \in Sessions : ExecArrives(a, x, s)
         \/ ExecTrust(a) \/ ExecEvaluate(a) \/ RecordAllowed(a) \/ SendAllowed(a)
         \/ RecordFailed(a)
  PROVE  LifeInv(e)' /\ Ledger!Lives(e)
<1>0. /\ TypeInv /\ TypeOK /\ a \in Clients /\ ExecInv(e) /\ ExecInv(e)'
      /\ req[a] \in Requests /\ Sound(req[a])
  BY InProgress DEF GateInv, TypeInv, Clients
<1>1. ASSUME NEW x \in Execs, NEW s \in Sessions, ExecArrives(a, x, s)
      PROVE  LifeInv(e)' /\ Ledger!Lives(e)
  <2>1. /\ Only(a) /\ req'[a].exec = x /\ req'[a].pc \in {"trust", "evaluate"}
        /\ req[a].pc = "idle"
    BY <1>0, <1>1 DEF ExecArrives, Arrive, Only, TypeInv, Idle
  <2>2. /\ UNCHANGED <<pending, audit, sent, told>> /\ cmd[x] = None
        /\ cmd' = [cmd EXCEPT ![x] = s] /\ s # None
    BY <1>1, NoneAssumption DEF ExecArrives, ctlVars
  <2>3. CASE e = x
    <3>1. /\ sent'[e] = 0 /\ e \notin pending' /\ cmd'[e] # None /\ \A c \in Clients : ~Busy(c, e)
      BY <1>0, <2>2, <2>3 DEF ExecInv, LifeInv, TypeOK
    <3>2. Busy(a, e)' /\ \A d \in Clients \ {a} : ~Busy(d, e)'
      BY <2>1, <2>3, <3>1 DEF Busy, BusyPCs, HandPCs, Undecided, Only
    <3>3. LifeInv(e)' /\ StageOf(e)' = "asked"
      BY <1>0, <2>1, <3>1, <3>2, NextHeld DEF StageAt, Undecided, Failing
    <3>4. StageOf(e) = "new"
      BY <1>0, <2>2, <2>3, StageIs DEF StageFacts
    <3>5. Ledger!Moves(e, "new", "asked", {}, {})
      BY <2>2, <3>3, <3>4, LedgerMove
    <3>6. QED
      BY <3>3, <3>5 DEF Ledger!Lives, Ledger!Submit
  <2>4. CASE e # x
    BY <1>0, <2>1, <2>2, <2>4, UnheldLives DEF Busy, BusyPCs, HandPCs, Undecided, Failing, TypeOK
  <2>5. QED
    BY <2>3, <2>4
<1> DEFINE x == req[a].exec
<1>2. ASSUME ExecTrust(a) PROVE LifeInv(e)' /\ Ledger!Lives(e)
  <2>1. UNCHANGED <<pending, audit, sent, cmd, told>> /\ req[a].pc = "trust" /\ Only(a)
    BY <1>0, <1>2, FinishHands DEF ExecTrust, ctlVars, Only, TypeInv
  <2>2. CASE req'[a].pc = "evaluate" /\ req'[a].exec = x
    <3>1. Untouched(e)
      BY <2>1, <2>2 DEF Untouched, Busy, BusyPCs, HandPCs, Undecided, Only
    <3>2. QED
      BY <1>0, <3>1, Rest
  <2>3. CASE Finish(a) /\ e = x
    <3>1. Busy(a, e) /\ sent[e] = 0
      BY <1>0, <2>1, <2>3 DEF Busy, BusyPCs, HandPCs, Undecided, ExecInv, InHand, OnRecord, Failing
    <3>2. ~Busy(a, e)'
      BY <1>0, <2>3, FinishHands DEF Busy, BusyPCs
    <3>3. StageOf(e) = "asked" /\ LifeInv(e)' /\ StageOf(e)' = "over"
      BY <1>0, <2>1, <3>1, <3>2, NowHeld, NextUnheld DEF StageAt, Undecided, Failing
    <3>4. Ledger!Moves(e, "asked", "over", {}, {})
      BY <2>1, <3>3, LedgerMove
    <3>5. QED
      BY <3>3, <3>4 DEF Ledger!Lives, Ledger!Lose
  <2>4. CASE Finish(a) /\ e # x
    BY <1>0, <2>1, <2>4, FinishHands, UnheldLives DEF Busy, BusyPCs
  <2>5. Finish(a) \/ (req'[a].pc = "evaluate" /\ req'[a].exec = x)
    BY <1>0, <1>2 DEF ExecTrust, TypeInv, Requests
  <2>6. QED
    BY <2>2, <2>3, <2>4, <2>5
<1>3. ASSUME ExecEvaluate(a) PROVE LifeInv(e)' /\ Ledger!Lives(e)
  <2> DEFINE r == req[a]
             decision == Evaluation(r.exec, r.sess, r.trust)
  <2>1. r.pc = "evaluate" /\ r.exec \in Execs /\ sent' = sent /\ cmd' = cmd
    BY <1>0, <1>3 DEF ExecEvaluate, Sound, AboutExec, ExecPCs
  <2>2. Only(a) /\ (Finish(a) \/ (Goto(a, "record_allowed") /\ req'[a].pc = "record_allowed" /\ req'[a].exec = x))
    BY <1>0, <1>3, FinishHands, GotoHands DEF ExecEvaluate
  <2>3. CASE e # x
    <3>1. /\ e \in pending' <=> e \in Live(r.now)
          /\ audit'[e] = ExpiredAudit(r.now)[e] /\ told'[e] = ExpiredTold(r.now)[e]
      BY <1>3, <2>3 DEF ExecEvaluate, Logged
    <3>2. ~Busy(a, e) /\ ~Busy(a, e)'
      BY <1>0, <2>2, <2>3, FinishHands DEF Busy, BusyPCs
    <3>3. QED
      BY <1>0, <2>1, <2>2, <3>1, <3>2, UnheldRequests, ExpireLives
  <2>4. CASE e = x
    <3>1. Busy(a, e) /\ sent[e] = 0 /\ e \notin pending
      BY <1>0, <2>1, <2>4 DEF Busy, BusyPCs, HandPCs, Undecided, ExecInv, InHand, OnRecord, Failing
    <3>2. /\ e \notin Live(r.now) /\ ExpiredAudit(r.now)[e] = audit[e] /\ ExpiredTold(r.now)[e] = told[e]
      BY <1>0, <3>1 DEF Live, Overdue, ExpiredAudit, ExpiredTold, Logged
    <3>3. StageOf(e) = "asked" /\ cmd[e] # None /\ \A d \in Clients \ {a} : ~Busy(d, e) /\ ~Busy(d, e)'
      BY <1>0, <2>1, <2>2, <3>1, NowHeld DEF StageAt, Undecided, Failing
    <3>4. CASE Goto(a, "record_allowed") /\ pending' = Live(r.now) /\ audit' = ExpiredAudit(r.now) /\ told' = ExpiredTold(r.now)
      <4>1. req'[a].pc = "record_allowed" /\ req'[a].exec = e
        BY <1>0, <2>4, <3>4, GotoHands
      <4>2. Untouched(e)
        BY <2>1, <3>1, <3>2, <3>3, <3>4, <4>1 DEF Untouched, Busy, BusyPCs, HandPCs, Undecided
      <4>3. QED
        BY <1>0, <4>2, Rest
    <3>5. CASE Finish(a)
      <4>1. \A d \in Clients : ~Busy(d, e)'
        BY <1>0, <3>3, <3>5, FinishHands DEF Busy, BusyPCs
      <4>2. CASE decision = "needs_approval" /\ NoFault
        <5>1. e \in pending' /\ audit'[e] = audit[e] \cup {"needs_approval"} /\ told'[e] = told[e] \cup {"requested"}
          <6>1. /\ pending' = Live(r.now) \cup {r.exec}
                /\ audit' = Logged(ExpiredAudit(r.now), {r.exec}, "needs_approval")
                /\ told' = Logged(ExpiredTold(r.now), {r.exec}, "requested")
            BY <1>0, <1>3, <4>2 DEF ExecEvaluate, Fault, NoFault, TypeOK
          <6>2. QED
            BY <2>4, <3>2, <6>1 DEF Logged
        <5>2. LifeInv(e)' /\ StageOf(e)' = "pending"
          BY <1>0, <4>1, <5>1, NextUnheld
        <5>3. Ledger!Moves(e, "asked", "pending", {"needs_approval"}, {"requested"})
          BY <3>3, <5>1, <5>2, LedgerMove
        <5>4. QED
          BY <5>2, <5>3 DEF Ledger!Lives, Ledger!Wait
      <4>3. ASSUME e \notin pending', told'[e] = told[e],
                   NEW lines, audit'[e] = audit[e] \cup lines
            PROVE  LifeInv(e)' /\ Ledger!Moves(e, "asked", "over", lines, {})
        <5>1. LifeInv(e)' /\ StageOf(e)' = "over"
          BY <1>0, <2>1, <3>1, <3>3, <4>1, <4>3, NextUnheld
        <5>2. QED
          BY <3>3, <4>3, <5>1, LedgerMove
      <4>4. CASE decision \in {"rejected_unknown_session", "rejected_readonly"} /\ NoFault
        <5>1. e \notin pending' /\ told'[e] = told[e] /\ audit'[e] = audit[e] \cup {decision}
          <6>1. /\ pending' = Live(r.now) /\ told' = ExpiredTold(r.now)
                /\ audit' = Logged(ExpiredAudit(r.now), {r.exec}, decision)
            BY <1>0, <1>3, <4>4 DEF ExecEvaluate, Fault, NoFault, TypeOK
          <6>2. QED
            BY <2>4, <3>2, <6>1 DEF Logged
        <5>2. LifeInv(e)' /\ Ledger!Moves(e, "asked", "over", {decision}, {})
          BY <4>3, <5>1
        <5>3. QED
          BY <4>4, <5>2 DEF Ledger!Lives, Ledger!Reject
      <4>5. CASE Fault
        <5>1. e \notin pending' /\ told'[e] = told[e] /\ audit'[e] = audit[e] \cup {}
          BY <1>0, <1>3, <3>2, <4>5 DEF ExecEvaluate, Fault, NoFault, TypeOK
        <5>2. LifeInv(e)' /\ Ledger!Moves(e, "asked", "over", {}, {})
          BY <4>3, <5>1
        <5>3. QED
          BY <5>2 DEF Ledger!Lives, Ledger!Lose
      <4>6. QED
        BY <1>3, <3>4, <4>2, <4>4, <4>5 DEF ExecEvaluate
    <3>6. QED
      BY <1>3, <3>4, <3>5 DEF ExecEvaluate
  <2>5. QED
    BY <2>3, <2>4
<1>4. ASSUME RecordAllowed(a) PROVE LifeInv(e)' /\ Ledger!Lives(e)
  <2>1. req[a].pc = "record_allowed" /\ UNCHANGED <<pending, sent, cmd, told>> /\ Only(a)
    BY <1>0, <1>4, FinishHands, GotoHands DEF RecordAllowed
  <2>2. \/ Goto(a, "send") /\ audit' = Logged(audit, {x}, "allowed")
        \/ Finish(a) /\ audit' = audit
    BY <1>4 DEF RecordAllowed
  <2>3. CASE e # x
    <3>1. ~Busy(a, e) /\ ~Busy(a, e)' /\ audit'[e] = audit[e]
      BY <1>0, <2>2, <2>3, FinishHands, GotoHands DEF Busy, BusyPCs, Logged
    <3>2. QED
      BY <1>0, <2>1, <3>1, UnheldLives
  <2>4. CASE e = x
    <3>1. Busy(a, e) /\ sent'[e] = 0
      BY <1>0, <2>1, <2>4 DEF Busy, BusyPCs, HandPCs, Undecided, ExecInv, InHand, OnRecord, Failing
    <3>2. /\ StageOf(e) = "asked" /\ cmd'[e] # None /\ e \notin pending'
          /\ \A d \in Clients \ {a} : ~Busy(d, e)'
      BY <1>0, <2>1, <3>1, NowHeld DEF StageAt, Undecided, Failing
    <3>3. CASE Goto(a, "send") /\ audit' = Logged(audit, {x}, "allowed")
      <4>1. req'[a].pc = "send" /\ req'[a].exec = e
        BY <1>0, <2>4, <3>3, GotoHands
      <4>2. LifeInv(e)' /\ StageOf(e)' = "cleared"
        BY <1>0, <3>1, <3>2, <4>1, NextHeld DEF Busy, BusyPCs, HandPCs, StageAt, Undecided, Failing
      <4>3. audit'[e] = audit[e] \cup {"allowed"} /\ told'[e] = told[e] \cup {}
        BY <2>1, <2>4, <3>3 DEF Logged
      <4>4. Ledger!Moves(e, "asked", "cleared", {"allowed"}, {})
        BY <3>2, <4>2, <4>3, LedgerMove
      <4>5. QED
        BY <4>2, <4>4 DEF Ledger!Lives, Ledger!Allow
    <3>4. CASE Finish(a) /\ audit' = audit
      <4>1. LifeInv(e)' /\ StageOf(e)' = "over"
        BY <1>0, <3>1, <3>2, <3>4, FinishHands, NextUnheld DEF Busy, BusyPCs
      <4>2. Ledger!Moves(e, "asked", "over", {}, {})
        BY <2>1, <3>2, <3>4, <4>1, LedgerMove
      <4>3. QED
        BY <4>1, <4>2 DEF Ledger!Lives, Ledger!Lose
    <3>5. QED
      BY <2>2, <3>3, <3>4
  <2>5. QED
    BY <2>3, <2>4
<1>5. ASSUME SendAllowed(a) PROVE LifeInv(e)' /\ Ledger!Lives(e)
  <2>1. req[a].pc = "send" /\ UNCHANGED <<pending, audit, cmd, told>> /\ Only(a)
    BY <1>0, <1>5, FinishHands, GotoHands DEF SendAllowed, Dispatch, ctlVars
  <2>2. \/ Finish(a) /\ sent' = [sent EXCEPT ![x] = @ + 1]
        \/ Goto(a, "exec_failed") /\ sent' \in {sent, [sent EXCEPT ![x] = @ + 1]}
    BY <1>5 DEF SendAllowed, Dispatch
  <2>3. CASE e # x
    <3>1. ~Busy(a, e) /\ ~Busy(a, e)' /\ sent'[e] = sent[e]
      BY <1>0, <2>2, <2>3, FinishHands, GotoHands DEF Busy, BusyPCs, TypeOK
    <3>2. QED
      BY <1>0, <2>1, <3>1, UnheldLives
  <2>4. CASE e = x
    <3>1. Busy(a, e) /\ sent[e] = 0 /\ [sent EXCEPT ![x] = @ + 1][e] = 1
      BY <1>0, <2>1, <2>4
         DEF Busy, BusyPCs, HandPCs, Undecided, ExecInv, InHand, OnRecord, Failing, TypeOK
    <3>2. /\ StageOf(e) = "cleared" /\ cmd'[e] # None /\ e \notin pending'
          /\ \A d \in Clients \ {a} : ~Busy(d, e)'
      BY <1>0, <2>1, <3>1, NowHeld DEF StageAt, Undecided, Failing
    <3>3. LifeInv(e)' /\ (sent'[e] = 1 => StageOf(e)' = "sent")
                      /\ (sent'[e] = 0 => StageOf(e)' = "unsent")
      <4>1. CASE Finish(a) /\ sent'[e] = 1
        BY <1>0, <3>2, <4>1, FinishHands, NextUnheld DEF Busy, BusyPCs
      <4>2. CASE Goto(a, "exec_failed")
        <5>1. req'[a].pc = "exec_failed" /\ req'[a].exec = e
          BY <1>0, <2>4, <4>2, GotoHands
        <5>2. QED
          BY <1>0, <3>2, <5>1, NextHeld DEF Busy, BusyPCs, HandPCs, StageAt, Undecided, Failing
      <4>3. QED
        BY <2>2, <3>1, <4>1, <4>2
    <3>4. CASE sent'[e] = 1
      <4>1. Ledger!Moves(e, "cleared", "sent", {}, {})
        BY <2>1, <3>2, <3>3, <3>4, LedgerMove
      <4>2. QED
        BY <3>3, <4>1 DEF Ledger!Lives, Ledger!Write
    <3>5. CASE sent'[e] = 0
      <4>1. Ledger!Moves(e, "cleared", "unsent", {}, {})
        BY <2>1, <3>2, <3>3, <3>5, LedgerMove
      <4>2. QED
        BY <3>3, <4>1 DEF Ledger!Lives, Ledger!Fail
    <3>6. QED
      BY <2>2, <3>1, <3>4, <3>5
  <2>5. QED
    BY <2>3, <2>4
<1>6. ASSUME RecordFailed(a) PROVE LifeInv(e)' /\ Ledger!Lives(e)
  <2>1. /\ req[a].pc = "exec_failed" /\ UNCHANGED <<pending, sent, cmd, told>> /\ Only(a) /\ Finish(a)
        /\ audit' = audit \/ audit' = Logged(audit, {x}, "failed")
    BY <1>0, <1>6, FinishHands DEF RecordFailed
  <2>2. ~Busy(a, e)'
    BY <1>0, <2>1, FinishHands DEF Busy, BusyPCs
  <2>3. CASE e # x
    <3>1. ~Busy(a, e) /\ audit'[e] = audit[e]
      BY <2>1, <2>3 DEF Busy, Logged
    <3>2. QED
      BY <1>0, <2>1, <2>2, <3>1, UnheldLives
  <2>4. CASE e = x
    <3>1. Busy(a, e)
      BY <2>1, <2>4 DEF Busy, BusyPCs, HandPCs, Failing
    <3>2. PICK lines \in {{}, {"failed"}} : audit'[e] = audit[e] \cup lines
      BY <2>1, <2>4 DEF Logged
    <3>3. /\ \A d \in Clients : ~Busy(d, e)'
          /\ e \notin pending' /\ cmd'[e] # None /\ sent'[e] = sent[e] /\ sent[e] \in {0, 1}
          /\ sent[e] = 1 => StageOf(e) = "sent"
          /\ sent[e] = 0 => StageOf(e) = "unsent"
      BY <1>0, <2>1, <2>2, <3>1, NowHeld DEF StageAt, Undecided, Failing
    <3>4. LifeInv(e)' /\ (sent[e] = 1 => StageOf(e)' = "sent") /\ (sent[e] = 0 => StageOf(e)' = "over")
      BY <1>0, <3>3, NextUnheld
    <3>5. CASE sent[e] = 1
      <4>1. Ledger!Moves(e, "sent", "sent", lines, {})
        BY <2>1, <3>2, <3>3, <3>4, <3>5, LedgerMove
      <4>2. QED
        BY <2>1, <3>3, <3>4, <3>5, <4>1 DEF Ledger!Lives, Ledger!Record, Ledger!Rests, Ledger!Moves
    <3>6. CASE sent[e] = 0
      <4>1. Ledger!Moves(e, "unsent", "over", lines, {})
        BY <2>1, <3>2, <3>3, <3>4, <3>6, LedgerMove
      <4>2. QED
        BY <3>4, <4>1 DEF Ledger!Lives, Ledger!GiveUp
    <3>7. QED
      BY <3>3, <3>5, <3>6
  <2>5. QED
    BY <2>3, <2>4
<1>7. QED
  BY <1>1, <1>2, <1>3, <1>4, <1>5, <1>6

\* The owner's decisions are moves of the ledger.
LEMMA DecisionLives ==
  ASSUME GateInv, GateInv', NEW o \in Owners, NEW e \in Execs, LifeInv(e),
         \/ \E x \in Execs, pc \in {"take", "deny"} : DecisionArrives(o, x, pc)
         \/ ListArrives(o)
         \/ TakeForApproval(o) \/ RecordApproved(o) \/ SendApproved(o)
         \/ RecordApproveFailed(o) \/ Resolve(o) \/ Deny(o) \/ List(o)
  PROVE  LifeInv(e)' /\ Ledger!Lives(e)
<1>0. TypeInv /\ TypeOK /\ o \in Clients /\ ExecInv(e) /\ ExecInv(e)'
  BY DEF GateInv, TypeInv, Clients
<1> DEFINE x == req[o].exec
           now == req[o].now
<1>1. ASSUME NEW y \in Execs, NEW pc \in {"take", "deny"}, DecisionArrives(o, y, pc)
      PROVE  LifeInv(e)' /\ Ledger!Lives(e)
  <2>1. /\ Only(o) /\ req[o].pc = "idle" /\ req'[o].pc = pc
        /\ UNCHANGED <<pending, audit, sent, cmd, told>>
    BY <1>0, <1>1 DEF DecisionArrives, Arrive, Only, TypeInv, Idle, ctlVars
  <2>2. ~Busy(o, e) /\ ~Busy(o, e)'
    BY <2>1 DEF Busy, BusyPCs, HandPCs, Undecided, Failing
  <2>3. QED
    BY <1>0, <2>1, <2>2, UnheldLives
<1>2. ASSUME ListArrives(o) PROVE LifeInv(e)' /\ Ledger!Lives(e)
  <2>1. /\ Only(o) /\ req[o].pc = "idle" /\ req'[o].pc = "list"
        /\ UNCHANGED <<pending, audit, sent, cmd, told>>
    BY <1>0, <1>2 DEF ListArrives, Arrive, Only, TypeInv, Idle, ctlVars
  <2>2. ~Busy(o, e) /\ ~Busy(o, e)'
    BY <2>1 DEF Busy, BusyPCs, HandPCs, Undecided, Failing
  <2>3. QED
    BY <1>0, <2>1, <2>2, UnheldLives
<1>3. ASSUME TakeForApproval(o) PROVE LifeInv(e)' /\ Ledger!Lives(e)
  <2>1. /\ req[o].pc = "take" /\ pending' = Live(now) \ {x} /\ audit' = ExpiredAudit(now)
        /\ told' = ExpiredTold(now) /\ UNCHANGED <<sent, cmd>> /\ Only(o)
    BY <1>0, <1>3, FinishHands, GotoHands DEF TakeForApproval
  <2>2. ~Busy(o, e)
    BY <2>1 DEF Busy, BusyPCs, HandPCs, Undecided, Failing
  <2>3. CASE e = x /\ e \in Live(now)
    <3>1. req'[o].pc = "record_approved" /\ req'[o].exec = e
      BY <1>0, <1>3, <2>3, GotoHands DEF TakeForApproval
    <3>2. /\ e \in pending /\ e \notin pending' /\ cmd'[e] # None /\ sent'[e] = 0
          /\ audit'[e] = audit[e] \cup {} /\ told'[e] = told[e] \cup {}
      BY <1>0, <2>1, <2>3 DEF ExecInv, ExpiredAudit, ExpiredTold, Logged, Live
    <3>3. \A d \in Clients \ {o} : ~Busy(d, e)'
      BY <2>1, <3>2 DEF Only, Busy, LifeInv
    <3>4. LifeInv(e)' /\ StageOf(e)' = "granted"
      BY <1>0, <3>1, <3>2, <3>3, NextHeld DEF Busy, BusyPCs, HandPCs, StageAt, Undecided, Failing
    <3>5. StageOf(e) = "pending"
      BY <1>0, <3>2, StageIs DEF StageFacts
    <3>6. Ledger!Moves(e, "pending", "granted", {}, {})
      BY <3>2, <3>4, <3>5, LedgerMove
    <3>7. QED
      BY <3>4, <3>6 DEF Ledger!Lives, Ledger!Take
  <2>4. CASE ~(e = x /\ e \in Live(now))
    <3>1. ~Busy(o, e)' /\ (e \in pending' <=> e \in Live(now))
      BY <1>0, <1>3, <2>1, <2>4, FinishHands, GotoHands DEF TakeForApproval, Busy, BusyPCs
    <3>2. QED
      BY <1>0, <2>1, <2>2, <3>1, UnheldRequests, ExpireLives
  <2>5. QED
    BY <2>3, <2>4
<1>4. ASSUME RecordApproved(o) PROVE LifeInv(e)' /\ Ledger!Lives(e)
  <2>1. req[o].pc = "record_approved" /\ UNCHANGED <<pending, sent, cmd, told>> /\ Only(o)
    BY <1>0, <1>4, FinishHands, GotoHands DEF RecordApproved
  <2>2. \/ Goto(o, "send_approved") /\ audit' = Logged(audit, {x}, "approved")
        \/ Finish(o) /\ audit' = audit
    BY <1>4 DEF RecordApproved
  <2>3. CASE e # x
    <3>1. ~Busy(o, e) /\ ~Busy(o, e)' /\ audit'[e] = audit[e]
      BY <1>0, <2>2, <2>3, FinishHands, GotoHands DEF Busy, BusyPCs, Logged
    <3>2. QED
      BY <1>0, <2>1, <3>1, UnheldLives
  <2>4. CASE e = x
    <3>1. Busy(o, e) /\ sent'[e] = 0
      BY <1>0, <2>1, <2>4 DEF Busy, BusyPCs, HandPCs, ExecInv, InHand, OnRecord, Failing
    <3>2. /\ StageOf(e) = "granted" /\ cmd'[e] # None /\ e \notin pending'
          /\ \A d \in Clients \ {o} : ~Busy(d, e)'
      BY <1>0, <2>1, <3>1, NowHeld DEF StageAt, Undecided, Failing
    <3>3. CASE Goto(o, "send_approved") /\ audit' = Logged(audit, {x}, "approved")
      <4>1. req'[o].pc = "send_approved" /\ req'[o].exec = e
        BY <1>0, <2>4, <3>3, GotoHands
      <4>2. LifeInv(e)' /\ StageOf(e)' = "cleared"
        BY <1>0, <3>1, <3>2, <4>1, NextHeld DEF Busy, BusyPCs, HandPCs, StageAt, Undecided, Failing
      <4>3. audit'[e] = audit[e] \cup {"approved"} /\ told'[e] = told[e] \cup {}
        BY <2>1, <2>4, <3>3 DEF Logged
      <4>4. Ledger!Moves(e, "granted", "cleared", {"approved"}, {})
        BY <3>2, <4>2, <4>3, LedgerMove
      <4>5. QED
        BY <4>2, <4>4 DEF Ledger!Lives, Ledger!Approve
    <3>4. CASE Finish(o) /\ audit' = audit
      <4>1. LifeInv(e)' /\ StageOf(e)' = "over"
        BY <1>0, <3>1, <3>2, <3>4, FinishHands, NextUnheld DEF Busy, BusyPCs
      <4>2. Ledger!Moves(e, "granted", "over", {}, {})
        BY <2>1, <3>2, <3>4, <4>1, LedgerMove
      <4>3. QED
        BY <4>1, <4>2 DEF Ledger!Lives, Ledger!Lose
    <3>5. QED
      BY <2>2, <3>3, <3>4
  <2>5. QED
    BY <2>3, <2>4
<1>5. ASSUME SendApproved(o) PROVE LifeInv(e)' /\ Ledger!Lives(e)
  <2>1. req[o].pc = "send_approved" /\ UNCHANGED <<pending, audit, cmd, told>>
    BY <1>5 DEF SendApproved, Dispatch, ctlVars
  <2>2. \/ Goto(o, "resolve_approved") /\ sent' = [sent EXCEPT ![x] = @ + 1]
        \/ Goto(o, "approve_failed") /\ sent' \in {sent, [sent EXCEPT ![x] = @ + 1]}
    BY <1>5 DEF SendApproved, Dispatch
  <2>3. /\ Only(o) /\ req'[o].exec = x
        /\ \/ req'[o].pc = "resolve_approved" /\ sent' = [sent EXCEPT ![x] = @ + 1]
           \/ req'[o].pc = "approve_failed"
    BY <1>0, <2>2, GotoHands
  <2>4. CASE e # x
    <3>1. ~Busy(o, e) /\ ~Busy(o, e)' /\ sent'[e] = sent[e]
      BY <1>0, <2>2, <2>3, <2>4 DEF Busy, TypeOK
    <3>2. QED
      BY <1>0, <2>1, <2>3, <3>1, UnheldLives
  <2>5. CASE e = x
    <3>1. Busy(o, e) /\ sent[e] = 0 /\ [sent EXCEPT ![x] = @ + 1][e] = 1
      BY <1>0, <2>1, <2>5 DEF Busy, BusyPCs, HandPCs, ExecInv, InHand, OnRecord, Failing, TypeOK
    <3>2. /\ StageOf(e) = "cleared" /\ cmd'[e] # None /\ e \notin pending'
          /\ \A d \in Clients \ {o} : ~Busy(d, e)'
      BY <1>0, <2>1, <2>3, <3>1, NowHeld DEF StageAt, Undecided, Failing
    <3>3. Busy(o, e)' /\ (req'[o].pc = "resolve_approved" => sent'[e] = 1)
      BY <2>3, <2>5, <3>1 DEF Busy, BusyPCs, HandPCs, Failing
    <3>4. LifeInv(e)' /\ (sent'[e] = 1 => StageOf(e)' = "sent")
                      /\ (sent'[e] = 0 => StageOf(e)' = "unsent")
      BY <1>0, <2>3, <3>2, <3>3, NextHeld DEF StageAt, Undecided, Failing
    <3>5. CASE sent'[e] = 1
      <4>1. Ledger!Moves(e, "cleared", "sent", {}, {})
        BY <2>1, <3>2, <3>4, <3>5, LedgerMove
      <4>2. QED
        BY <3>4, <4>1 DEF Ledger!Lives, Ledger!Write
    <3>6. CASE sent'[e] = 0
      <4>1. Ledger!Moves(e, "cleared", "unsent", {}, {})
        BY <2>1, <3>2, <3>4, <3>6, LedgerMove
      <4>2. QED
        BY <3>4, <4>1 DEF Ledger!Lives, Ledger!Fail
    <3>7. QED
      BY <2>2, <3>1, <3>5, <3>6
  <2>6. QED
    BY <2>4, <2>5
<1>6. ASSUME RecordApproveFailed(o) PROVE LifeInv(e)' /\ Ledger!Lives(e)
  <2>1. req[o].pc = "approve_failed" /\ UNCHANGED <<pending, sent, cmd, told>> /\ Only(o)
    BY <1>0, <1>6, FinishHands, GotoHands DEF RecordApproveFailed
  <2>2. \/ Goto(o, "resolve_failed") /\ audit' = Logged(audit, {x}, "failed")
        \/ Finish(o) /\ audit' = audit
    BY <1>6 DEF RecordApproveFailed
  <2>3. CASE e # x
    <3>1. ~Busy(o, e) /\ ~Busy(o, e)' /\ audit'[e] = audit[e]
      BY <1>0, <2>2, <2>3, FinishHands, GotoHands DEF Busy, BusyPCs, Logged
    <3>2. QED
      BY <1>0, <2>1, <3>1, UnheldLives
  <2>4. CASE e = x
    <3>1. Busy(o, e)
      BY <2>1, <2>4 DEF Busy, BusyPCs, HandPCs, Failing
    <3>2. /\ \A d \in Clients \ {o} : ~Busy(d, e)'
          /\ e \notin pending' /\ cmd'[e] # None /\ sent'[e] = sent[e] /\ sent[e] \in {0, 1}
          /\ sent[e] = 1 => StageOf(e) = "sent"
          /\ sent[e] = 0 => StageOf(e) = "unsent"
      BY <1>0, <2>1, <3>1, NowHeld DEF StageAt, Undecided, Failing
    <3>3. CASE Goto(o, "resolve_failed") /\ audit' = Logged(audit, {x}, "failed")
      <4>1. req'[o].pc = "resolve_failed" /\ req'[o].exec = e
        BY <1>0, <2>4, <3>3, GotoHands
      <4>2. LifeInv(e)' /\ (sent[e] = 1 => StageOf(e)' = "sent") /\ (sent[e] = 0 => StageOf(e)' = "unsent")
        BY <1>0, <3>2, <4>1, NextHeld DEF Busy, BusyPCs, StageAt, Undecided, Failing
      <4>3. audit'[e] = audit[e] \cup {"failed"} /\ told'[e] = told[e] \cup {}
        BY <2>1, <2>4, <3>3 DEF Logged
      <4>4. \E st \in {"sent", "unsent"} : Ledger!Moves(e, st, st, {"failed"}, {})
        BY <3>2, <4>2, <4>3, LedgerMove
      <4>5. QED
        BY <4>2, <4>4 DEF Ledger!Lives, Ledger!Record
    <3>4. CASE Finish(o) /\ audit' = audit
      <4>1. LifeInv(e)' /\ (sent[e] = 1 => StageOf(e)' = "sent") /\ (sent[e] = 0 => StageOf(e)' = "over")
        BY <1>0, <3>2, <3>4, FinishHands, NextUnheld DEF Busy, BusyPCs
      <4>2. sent[e] = 0 => Ledger!Moves(e, "unsent", "over", {}, {})
        BY <2>1, <3>2, <3>4, <4>1, LedgerMove
      <4>3. sent[e] = 1 => Ledger!Rests(e)
        BY <2>1, <3>2, <3>4, <4>1 DEF Ledger!Rests
      <4>4. QED
        BY <3>2, <4>1, <4>2, <4>3 DEF Ledger!Lives, Ledger!GiveUp
    <3>5. QED
      BY <2>2, <3>3, <3>4
  <2>5. QED
    BY <2>3, <2>4
<1>7. ASSUME Resolve(o) PROVE LifeInv(e)' /\ Ledger!Lives(e)
  <2> DEFINE how == IF req[o].pc = "resolve_approved" THEN "approved" ELSE "failed"
  <2>1. /\ req[o].pc \in {"resolve_approved", "resolve_failed"} /\ told' = Logged(told, {x}, how)
        /\ UNCHANGED <<pending, audit, sent, cmd>> /\ Only(o) /\ req'[o].pc = "idle"
    BY <1>0, <1>7, FinishHands DEF Resolve
  <2>2. ~Busy(o, e)'
    BY <2>1 DEF Busy, BusyPCs, HandPCs, Undecided, Failing
  <2>3. CASE e # x
    <3>1. ~Busy(o, e) /\ told'[e] = told[e]
      BY <2>1, <2>3 DEF Busy, Logged
    <3>2. QED
      BY <1>0, <2>1, <2>2, <3>1, UnheldLives
  <2>4. CASE e = x
    <3>1. Busy(o, e) /\ told'[e] = told[e] \cup {how} /\ audit'[e] = audit[e] \cup {}
      BY <2>1, <2>4 DEF Busy, BusyPCs, Logged
    <3>2. /\ \A d \in Clients : ~Busy(d, e)'
          /\ e \notin pending' /\ cmd'[e] # None /\ sent'[e] = sent[e] /\ sent[e] \in {0, 1}
          /\ sent[e] = 1 => StageOf(e) = "sent"
      BY <1>0, <2>1, <2>2, <3>1, NowHeld
    <3>3. LifeInv(e)' /\ (sent[e] = 1 => StageOf(e)' = "sent") /\ (sent[e] = 0 => StageOf(e)' = "over")
      BY <1>0, <3>2, NextUnheld
    <3>4. CASE sent[e] = 1
      <4>1. Ledger!Moves(e, "sent", "sent", {}, {how})
        BY <3>1, <3>2, <3>3, <3>4, LedgerMove
      <4>2. QED
        BY <3>3, <4>1 DEF Ledger!Lives, Ledger!Tell
    <3>5. CASE sent[e] = 0
      <4>1. req[o].pc = "resolve_failed" /\ how = "failed"
        BY <1>0, <2>1, <3>1, <3>5 DEF LifeInv
      <4>2. StageOf(e) = "unsent"
        BY <1>0, <2>1, <3>1, <3>5, <4>1, NowHeld DEF StageAt, Undecided, Failing
      <4>3. Ledger!Moves(e, "unsent", "over", {}, {"failed"})
        BY <3>1, <3>3, <3>5, <4>1, <4>2, LedgerMove
      <4>4. QED
        BY <3>3, <4>3 DEF Ledger!Lives, Ledger!Tell
    <3>6. QED
      BY <3>2, <3>4, <3>5
  <2>5. QED
    BY <2>3, <2>4
<1>8. ASSUME Deny(o) PROVE LifeInv(e)' /\ Ledger!Lives(e)
  <2>1. /\ req[o].pc = "deny" /\ pending' = Live(now) \ {x} /\ UNCHANGED <<sent, cmd>> /\ Only(o)
        /\ req'[o].pc = "idle"
    BY <1>0, <1>8, FinishHands DEF Deny
  <2>2. ~Busy(o, e) /\ ~Busy(o, e)'
    BY <2>1 DEF Busy, BusyPCs, HandPCs, Undecided, Failing
  <2>3. CASE e = x /\ e \in Live(now)
    <3>1. /\ e \in pending /\ e \notin pending' /\ ExpiredAudit(now)[e] = audit[e]
          /\ ExpiredTold(now)[e] = told[e]
      BY <2>1, <2>3 DEF Live, ExpiredAudit, ExpiredTold, Logged
    <3>2. PICK what \in {{}, {"denied"}} :
            audit'[e] = audit[e] \cup what /\ told'[e] = told[e] \cup what
      <4>1. CASE /\ audit' = Logged(ExpiredAudit(now), {x}, "denied")
                 /\ told' = Logged(ExpiredTold(now), {x}, "denied")
        BY <2>3, <3>1, <4>1 DEF Logged
      <4>2. CASE audit' = ExpiredAudit(now) /\ told' = ExpiredTold(now)
        BY <3>1, <4>2
      <4>3. QED
        BY <1>8, <4>1, <4>2 DEF Deny
    <3>3. \A c \in Clients : Busy(c, e)' => Busy(c, e)
      BY <2>1, <2>2 DEF Only, Busy
    <3>4. QED
      BY <1>0, <2>1, <3>1, <3>2, <3>3, ApprovalEnds
  <2>4. CASE ~(e = x /\ e \in Live(now))
    <3>1. /\ e \in pending' <=> e \in Live(now)
          /\ audit'[e] = ExpiredAudit(now)[e] /\ told'[e] = ExpiredTold(now)[e]
      BY <1>8, <2>1, <2>4 DEF Deny, Logged
    <3>2. QED
      BY <1>0, <2>1, <2>2, <3>1, UnheldRequests, ExpireLives
  <2>5. QED
    BY <2>3, <2>4
<1>9. ASSUME List(o) PROVE LifeInv(e)' /\ Ledger!Lives(e)
  <2>1. /\ req[o].pc = "list" /\ pending' = Live(now) /\ audit' = ExpiredAudit(now)
        /\ told' = ExpiredTold(now) /\ UNCHANGED <<sent, cmd>> /\ Only(o) /\ req'[o].pc = "idle"
    BY <1>0, <1>9, FinishHands DEF List
  <2>2. ~Busy(o, e) /\ ~Busy(o, e)'
    BY <2>1 DEF Busy, BusyPCs, HandPCs, Undecided, Failing
  <2>3. QED
    BY <1>0, <2>1, <2>2, UnheldRequests, ExpireLives
<1>10. QED
  BY <1>1, <1>2, <1>3, <1>4, <1>5, <1>6, <1>7, <1>8, <1>9

\* A failing expire_pending loses one approval, and the request that asked.
LEMMA RefusedLives ==
  ASSUME GateInv, GateInv', NEW c \in Clients, NEW e \in Execs, LifeInv(e), ExpireFails(c)
  PROVE  LifeInv(e)' /\ Ledger!Lives(e)
<1>0. TypeInv /\ ExecInv(e) /\ ExecInv(e)'
  BY DEF GateInv
<1>1. PICK gone, done :
        /\ gone \in pending /\ done \subseteq pending
        /\ pending' = pending \ (done \cup {gone}) /\ gone \notin done
        /\ audit' = Logged(audit, done, "expired") /\ told' = Logged(told, done, "expired")
  BY DEF ExpireFails, Overdue
<1>2. /\ UNCHANGED <<sent, cmd>> /\ Only(c) /\ req'[c].pc = "idle"
      /\ req[c].pc \in {"evaluate", "take", "deny", "list"}
  BY <1>0, FinishHands DEF ExpireFails, Expiring
<1>3. ~Busy(c, e)'
  BY <1>2 DEF Busy, BusyPCs, HandPCs, Undecided, Failing
<1>4. CASE e \in done \cup {gone}
  <2>1. PICK what \in {{}, {"expired"}} : audit'[e] = audit[e] \cup what /\ told'[e] = told[e] \cup what
    BY <1>1 DEF Logged
  <2>2. \A d \in Clients : Busy(d, e)' => Busy(d, e)
    BY <1>2, <1>3 DEF Only, Busy
  <2>3. QED
    BY <1>0, <1>1, <1>2, <1>4, <2>1, <2>2, ApprovalEnds
<1>5. CASE e \notin done \cup {gone}
  <2>1. (e \in pending' <=> e \in pending) /\ audit'[e] = audit[e] /\ told'[e] = told[e]
    BY <1>1, <1>5 DEF Logged
  <2>2. CASE ~Busy(c, e)
    BY <1>0, <1>2, <1>3, <2>1, <2>2, UnheldLives
  <2>3. CASE Busy(c, e)
    <3>1. req[c].pc = "evaluate" /\ sent[e] = 0
      BY <1>0, <1>2, <2>3
         DEF Busy, BusyPCs, HandPCs, Undecided, Failing, ExecInv, InHand, OnRecord
    <3>2. /\ StageOf(e) = "asked" /\ cmd[e] # None /\ e \notin pending
          /\ \A d \in Clients \ {c} : ~Busy(d, e)'
      BY <1>0, <1>2, <2>3, <3>1, NowHeld DEF StageAt, Undecided, Failing
    <3>3. LifeInv(e)' /\ StageOf(e)' = "over"
      BY <1>0, <1>2, <1>3, <2>1, <3>1, <3>2, NextUnheld
    <3>4. Ledger!Moves(e, "asked", "over", {}, {})
      BY <2>1, <3>2, <3>3, LedgerMove
    <3>5. QED
      BY <3>3, <3>4 DEF Ledger!Lives, Ledger!Lose
  <2>4. QED
    BY <2>2, <2>3
<1>6. QED
  BY <1>4, <1>5

\* Opening sessions is not a move; closing one settles or loses its approvals.
LEMMA SessionLives ==
  ASSUME GateInv, GateInv', NEW c \in Clients, NEW e \in Execs, LifeInv(e),
         \/ \E t \in Targets : OpenArrives(c, t)
         \/ \E s \in Sessions : CloseArrives(c, s)
         \/ OpenStarts(c) \/ OpenRegisters(c) \/ CloseRemoves(c)
         \/ \E h \in Hosts : AgentOpenArrives(c, h)
         \/ AgentLists(c) \/ AgentSpawns(c) \/ AgentRegisters(c)
  PROVE  LifeInv(e)' /\ Ledger!Lives(e)
<1>0. TypeInv /\ ExecInv(e) /\ ExecInv(e)'
  BY DEF GateInv
<1> DEFINE Others == {"idle", "open", "register", "remove", "agent_list", "agent_spawn", "agent_register"}
<1>1. Only(c) /\ req[c].pc \in Others /\ req'[c].pc \in Others /\ UNCHANGED <<sent, cmd>>
  <2>1. ASSUME NEW t \in Targets, OpenArrives(c, t)
        PROVE  Only(c) /\ req[c].pc \in Others /\ req'[c].pc \in Others
    BY <1>0, <2>1 DEF OpenArrives, Arrive, Only, TypeInv, Idle
  <2>2. ASSUME NEW s \in Sessions, CloseArrives(c, s)
        PROVE  Only(c) /\ req[c].pc \in Others /\ req'[c].pc \in Others
    BY <1>0, <2>2 DEF CloseArrives, Arrive, Only, TypeInv, Idle
  <2>3. ASSUME OpenStarts(c) \/ AgentSpawns(c)
        PROVE  Only(c) /\ req[c].pc \in Others /\ req'[c].pc \in Others
    BY <1>0, <2>3, InProgress DEF OpenStarts, AgentSpawns, Finish, Idle, Only, TypeInv, Requests
  <2>4. ASSUME OpenRegisters(c) \/ CloseRemoves(c) \/ AgentRegisters(c)
        PROVE  Only(c) /\ req[c].pc \in Others /\ req'[c].pc \in Others
    BY <1>0, <2>4, FinishHands DEF OpenRegisters, CloseRemoves, AgentRegisters
  <2>5. ASSUME NEW h \in Hosts, AgentOpenArrives(c, h)
        PROVE  Only(c) /\ req[c].pc \in Others /\ req'[c].pc \in Others
    BY <1>0, <2>5 DEF AgentOpenArrives, Arrive, Only, TypeInv, Idle
  <2>6. ASSUME AgentLists(c) PROVE Only(c) /\ req[c].pc \in Others /\ req'[c].pc \in Others
    BY <1>0, <2>6, FinishHands, GotoHands DEF AgentLists
  <2>7. UNCHANGED <<sent, cmd>>
    BY DEF OpenArrives, CloseArrives, OpenStarts, OpenRegisters, CloseRemoves, AgentOpenArrives,
       AgentLists, AgentSpawns, AgentRegisters
  <2>8. QED
    BY <2>1, <2>2, <2>3, <2>4, <2>5, <2>6, <2>7
<1>2. ~Busy(c, e) /\ ~Busy(c, e)'
  BY <1>1 DEF Busy, BusyPCs, HandPCs, Undecided, Failing
<1>3. CASE ~CloseRemoves(c)
  <2>1. UNCHANGED <<pending, audit, told>>
    BY <1>3 DEF OpenArrives, CloseArrives, OpenStarts, OpenRegisters, AgentOpenArrives, AgentLists,
       AgentSpawns, AgentRegisters, ctlVars
  <2>2. QED
    BY <1>0, <1>1, <1>2, <2>1, UnheldLives
<1>4. CASE CloseRemoves(c)
  <2> DEFINE mine == {x \in pending : cmd[x] = req[c].sess}
  <2>1. PICK over, done :
          /\ over \subseteq pending /\ done \subseteq over
          /\ pending' = pending \ over
          /\ audit' = Logged(audit, done, "cancelled") /\ told' = Logged(told, done, "cancelled")
    <3>1. CASE /\ pending' = pending \ mine /\ audit' = Logged(audit, mine, "cancelled")
               /\ told' = Logged(told, mine, "cancelled")
      BY <3>1
    <3>2. CASE \E gone \in mine : \E done \in SUBSET (mine \ {gone}) :
                 /\ pending' = pending \ (done \cup {gone})
                 /\ audit' = Logged(audit, done, "cancelled")
                 /\ told' = Logged(told, done, "cancelled")
      BY <3>2
    <3>3. QED
      BY <1>4, <3>1, <3>2 DEF CloseRemoves
  <2>2. CASE e \in over
    <3>1. PICK what \in {{}, {"cancelled"}} :
            audit'[e] = audit[e] \cup what /\ told'[e] = told[e] \cup what
      BY <2>1 DEF Logged
    <3>2. \A d \in Clients : Busy(d, e)' => Busy(d, e)
      BY <1>1, <1>2 DEF Only, Busy
    <3>3. QED
      BY <1>0, <1>1, <2>1, <2>2, <3>1, <3>2, ApprovalEnds
  <2>3. CASE e \notin over
    <3>1. (e \in pending' <=> e \in pending) /\ audit'[e] = audit[e] /\ told'[e] = told[e]
      BY <2>1, <2>3 DEF Logged
    <3>2. QED
      BY <1>0, <1>1, <1>2, <3>1, UnheldLives
  <2>4. QED
    BY <2>2, <2>3
<1>5. QED
  BY <1>3, <1>4

\* A crash takes commands out of hands; nothing else around the gate moves them.
LEMMA SurroundingsLive ==
  ASSUME GateInv, GateInv', NEW e \in Execs, LifeInv(e), Surroundings
  PROVE  LifeInv(e)' /\ Ledger!Lives(e)
<1>0. TypeInv /\ ExecInv(e) /\ ExecInv(e)' /\ StageFacts(e) /\ sent[e] \in {0, 1}
  BY StageIs DEF GateInv, ExecInv
<1>1. UNCHANGED <<audit, sent, cmd, told>>
  BY DEF Surroundings, Tick, SetTrust, SetLock, Exits, Crash, ctlVars
<1>2. CASE ~Crash
  <2>1. pending' = pending
    BY <1>2 DEF Surroundings, Tick, SetTrust, SetLock, Exits, ctlVars
  <2>2. \A c \in Clients : req'[c].exec = req[c].exec /\ req'[c].pc = req[c].pc
    <3>1. ASSUME NEW h \in Hosts, NEW t \in Trusts, SetTrust(h, t), NEW c \in Clients
          PROVE  req'[c].pc = req[c].pc /\ req'[c].exec = req[c].exec
      BY <1>0, <3>1, InProgress DEF SetTrust, Requests
    <3>2. QED
      BY <1>2, <3>1 DEF Surroundings, Tick, SetLock, Exits
  <2>3. Untouched(e)
    BY <1>1, <2>1, <2>2 DEF Untouched, Busy
  <2>4. QED
    BY <1>0, <2>3, Rest
<1>3. CASE Crash
  <2>1. pending' = {} /\ \A c \in Clients : ~Busy(c, e)'
    BY <1>3 DEF Crash, Idle, Busy, BusyPCs, HandPCs, Undecided, Failing
  <2>2. CASE e \in pending
    BY <1>0, <1>1, <2>1, <2>2, ApprovalEnds
  <2>3. CASE e \notin pending /\ \A c \in Clients : ~Busy(c, e)
    <3>1. Untouched(e)
      BY <1>1, <2>1, <2>3 DEF Untouched
    <3>2. QED
      BY <1>0, <3>1, Rest
  <2>4. ASSUME NEW c \in Clients, Busy(c, e) PROVE LifeInv(e)' /\ Ledger!Lives(e)
    <3>1. e \notin pending /\ cmd[e] # None
      BY <2>4 DEF LifeInv
    <3>2. LifeInv(e)' /\ (sent[e] = 1 => StageOf(e)' = "sent") /\ (sent[e] = 0 => StageOf(e)' = "over")
      BY <1>0, <1>1, <2>1, <3>1, NextUnheld
    <3>3. CASE sent[e] = 1
      <4>1. Ledger!Rests(e)
        BY <1>0, <1>1, <3>1, <3>2, <3>3 DEF StageFacts, Ledger!Rests
      <4>2. QED
        BY <3>2, <4>1 DEF Ledger!Lives
    <3>4. CASE sent[e] = 0
      <4>1. StageOf(e) \in {"asked", "granted", "cleared", "unsent"}
        BY <1>0, <2>4, <3>4
           DEF StageFacts, StageAt, LifeInv, Busy, BusyPCs, HandPCs, Undecided, Failing
      <4>2. Ledger!Moves(e, StageOf(e), "over", {}, {})
        BY <1>1, <3>2, <3>4, LedgerMove
      <4>3. Ledger!Lose(e) \/ Ledger!GiveUp(e)
        BY <4>1, <4>2 DEF Ledger!Lose, Ledger!GiveUp
      <4>4. QED
        BY <3>2, <4>3 DEF Ledger!Lives
    <3>5. QED
      BY <1>0, <3>3, <3>4
  <2>5. QED
    BY <2>2, <2>3, <2>4
<1>4. QED
  BY <1>2, <1>3

LivesInv == GateInv /\ \A e \in Execs : LifeInv(e)

LEMMA StepLives == LivesInv /\ [Next]_vars => LivesInv' /\ Ledger!LedgerNext
<1> SUFFICES ASSUME LivesInv, [Next]_vars PROVE LivesInv' /\ Ledger!LedgerNext
  OBVIOUS
<1>1. GateInv /\ GateInv'
  BY StepGateInv DEF LivesInv
<1>2. ASSUME NEW e \in Execs PROVE LifeInv(e)' /\ Ledger!Lives(e)
  <2>0. LifeInv(e)
    BY DEF LivesInv
  <2>1. ASSUME NEW a \in Agents, AgentArrives(a) \/ AgentStep(a) PROVE LifeInv(e)' /\ Ledger!Lives(e)
    <3>1. a \in Clients
      BY DEF Clients
    <3>2. QED
      BY <1>1, <2>0, <2>1, <3>1, ExecLives, RefusedLives, SessionLives DEF AgentArrives, AgentStep
  <2>2. ASSUME NEW o \in Owners, OwnerArrives(o) \/ OwnerStep(o) PROVE LifeInv(e)' /\ Ledger!Lives(e)
    <3>1. o \in Clients
      BY DEF Clients
    <3>2. QED
      BY <1>1, <2>0, <2>2, <3>1, DecisionLives, RefusedLives, SessionLives DEF OwnerArrives, OwnerStep
  <2>3. CASE UNCHANGED vars
    <3>1. ExecInv(e) /\ ExecInv(e)'
      BY <1>1 DEF GateInv
    <3>2. Untouched(e)
      BY <2>3 DEF vars, Untouched, Busy
    <3>3. QED
      BY <2>0, <3>1, <3>2, Rest
  <2>4. QED
    BY <1>1, <2>0, <2>1, <2>2, <2>3, SurroundingsLive DEF Next
<1>3. DOMAIN audit' = Execs /\ DOMAIN told' = Execs
  BY <1>1 DEF GateInv, TypeInv, TypeOK
<1>4. QED
  BY <1>1, <1>2, <1>3 DEF LivesInv, Ledger!LedgerNext

LEMMA InitLives == Init => LivesInv /\ Ledger!LedgerInit
<1> SUFFICES ASSUME Init PROVE LivesInv /\ Ledger!LedgerInit
  OBVIOUS
<1>1. GateInv
  BY InitGateInv
<1>2. \A e \in Execs : LifeInv(e) /\ cmd[e] = None
  BY DEF Init, LifeInv, Busy, BusyPCs, HandPCs, Undecided, Failing, Idle
<1>3. \A e \in Execs : StageOf(e) = "new"
  BY <1>1, <1>2, StageIs DEF GateInv, StageFacts
<1>4. QED
  BY <1>1, <1>2, <1>3 DEF LivesInv, Ledger!LedgerInit, Init

\* The gate implements its ledger: whatever requests, owners, faults and crashes
\* interleave, every command is on record before it is cleared, is cleared once,
\* and never comes back from where it ended.
THEOREM GateImplementsLedger == Spec => ImplementsLedger
<1>1. LivesInv /\ [Next]_vars => [Ledger!LedgerNext]_(Ledger!life)
  BY StepLives
<1>2. QED
  BY <1>1, InitLives, StepLives, PTL DEF Spec, ImplementsLedger, Ledger!LedgerSpec
=============================================================================
