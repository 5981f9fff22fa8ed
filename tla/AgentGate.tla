------------------------------ MODULE AgentGate ------------------------------
(***************************************************************************)
(* The gate between agents and terminals (vida-daemon: agent.rs and the    *)
(* agent and session requests of ws_server.rs).                            *)
(*                                                                         *)
(* An agent asks to execute one command in a session.  The daemon decides  *)
(* from the session's binding to a host and that host's trust; a dangerous *)
(* command waits for an owner's approval, which expires.  Every decision   *)
(* is appended to an audit file before anything is written to a terminal.  *)
(*                                                                         *)
(* Each client is one WebSocket connection, whose requests the daemon      *)
(* handles one at a time and to the end; requests of different connections *)
(* interleave wherever a handler releases the vault mutex or the agent     *)
(* mutex.  Those places are the program counter `pc' of a request.  Only   *)
(* AgentOpenSshSession keeps the agent mutex across steps (`holder').      *)
(*                                                                         *)
(* The sessions live in another process, the session host, which survives  *)
(* a crash of the daemon.                                                  *)
(***************************************************************************)
EXTENDS Integers, FiniteSets

CONSTANTS
  Agents,       \* connections with the agent role
  Owners,       \* connections with the owner role
  Sessions,     \* session ids, each used by at most one session
  Hosts,        \* hosts configured in the vault
  Local,        \* the target of a local shell
  Execs,        \* AgentExec requests; also the ids of the approvals they need
  Dangerous,    \* those whose command matches a danger rule
  None,         \* no session, exec, target or client
  TTL,          \* APPROVAL_TTL_SECONDS
  MaxClock,     \* bound on the clock
  MaxFaults,    \* bound on failed file writes and uncertain host calls
  MaxCrashes    \* bound on crashes of the daemon

ASSUME NoneAssumption ==
  None \notin Agents \cup Owners \cup Sessions \cup Hosts \cup Execs \cup {Local}
ASSUME KindsAssumption ==
  /\ Local \notin Hosts
  /\ Agents \cap Owners = {}
  /\ Dangerous \subseteq Execs
ASSUME BoundsAssumption ==
  TTL \in Nat /\ MaxClock \in Nat /\ MaxFaults \in Nat /\ MaxCrashes \in Nat

VARIABLES
  clock,      \* seconds, as chrono::Utc::now() gives them
  unlocked,   \* the vault is unlocked
  trust,      \* agent_trust of each host in the unlocked vault
  bound,      \* AgentController.bindings: the target of a session, or None
  disk,       \* agent-sessions.json
  pending,    \* AgentController.pending
  expires,    \* expires_at of an approval
  audit,      \* the outcomes audit.jsonl has for an exec
  told,       \* the approval events broadcast for an exec
  cmd,        \* the session an exec was submitted for, None before
  sent,       \* how often the command was written to its terminal
  proc,       \* the session's process
  origin,     \* what the session really is connected to
  agentMade,  \* sessions opened by AgentOpenSshSession
  req,        \* the request each client has in progress
  holder,     \* the client that keeps the agent mutex across steps, or None
  faults,     \* faults so far
  crashes     \* crashes so far

ctlVars  == <<bound, disk, pending, expires, audit, told>>
procVars == <<proc, origin, agentMade>>
envVars  == <<clock, unlocked, trust, crashes>>
vars == <<clock, unlocked, trust, bound, disk, pending, expires, audit, told, cmd,
          sent, proc, origin, agentMade, req, holder, faults, crashes>>

Clients == Agents \cup Owners
Targets == Hosts \cup {Local}
Trusts  == {"readonly", "ask", "trusted"}

Outcomes ==
  {"allowed", "needs_approval", "approved", "denied", "expired", "cancelled",
   "rejected_readonly", "rejected_unknown_session", "failed"}
Resolutions == {"approved", "failed", "denied", "expired", "cancelled"}

ExecPCs == {"trust", "evaluate", "record_allowed", "send", "exec_failed"}
ApprovePCs == {"take", "record_approved", "send_approved", "approve_failed",
               "resolve_approved", "resolve_failed"}
OtherPCs == {"idle", "deny", "list", "open", "register", "remove",
             "agent_list", "agent_spawn", "agent_register"}

\* What a request in progress remembers: its program counter, the exec,
\* session and target it is about, the time read when it arrived, the trust
\* it looked up, and (for the properties) every trust the host had meanwhile.
Requests ==
  [pc : ExecPCs \cup ApprovePCs \cup OtherPCs, exec : Execs \cup {None},
   sess : Sessions \cup {None}, target : Targets \cup {None}, now : Nat,
   trust : Trusts, seen : SUBSET Trusts]

Idle == [pc |-> "idle", exec |-> None, sess |-> None, target |-> None, now |-> 0,
         trust |-> "ask", seen |-> {}]

Init ==
  /\ clock = 0
  /\ unlocked = TRUE
  /\ trust \in [Hosts -> Trusts]
  /\ bound = [s \in Sessions |-> None]
  /\ disk = [s \in Sessions |-> None]
  /\ pending = {}
  /\ expires = [e \in Execs |-> 0]
  /\ audit = [e \in Execs |-> {}]
  /\ told = [e \in Execs |-> {}]
  /\ cmd = [e \in Execs |-> None]
  /\ sent = [e \in Execs |-> 0]
  /\ proc = [s \in Sessions |-> "none"]
  /\ origin = [s \in Sessions |-> None]
  /\ agentMade = {}
  /\ req = [c \in Clients |-> Idle]
  /\ holder = None
  /\ faults = 0
  /\ crashes = 0

-----------------------------------------------------------------------------
(* Requests, faults and the controller's helpers.                          *)

\* A new request of an idle client; `now' is captured before anything else.
Arrive(c, r) ==
  /\ req[c].pc = "idle"
  /\ req' = [req EXCEPT ![c] = r]

Goto(c, pc) == req' = [req EXCEPT ![c].pc = pc]
Finish(c)   == req' = [req EXCEPT ![c] = Idle]

\* A file write or a call of the session host fails.
Fault   == faults < MaxFaults /\ faults' = faults + 1
NoFault == UNCHANGED faults

\* The agent mutex can be taken.
Free == holder = None

\* The trust an exec on this target needs: a local shell's is fixed.
TrustOf(t) == IF t \in Hosts THEN trust[t] ELSE "ask"

\* A log to which `what' has been added for each exec of `execs'.
Logged(log, execs, what) ==
  [e \in Execs |-> IF e \in execs THEN log[e] \cup {what} ELSE log[e]]

\* Mutant: an approval never expires.
OverdueNever(now) == {}

\* expire_pending: the approvals it ends, and the two logs after it succeeded.
Overdue(now) == {e \in pending : expires[e] <= now}
Live(now) == pending \ Overdue(now)
ExpiredAudit(now) == Logged(audit, Overdue(now), "expired")
ExpiredTold(now)  == Logged(told, Overdue(now), "expired")

\* Requests whose next step starts with expire_pending.
Expiring == {"evaluate", "take", "deny", "list"}

\* expire_pending stops at the first entry whose audit line cannot be
\* written; that approval is already removed, and nobody is told.  The order
\* of a HashMap is arbitrary.
ExpireFails(c) ==
  /\ req[c].pc \in Expiring /\ Free /\ Fault
  /\ \E gone \in Overdue(req[c].now) : \E done \in SUBSET (Overdue(req[c].now) \ {gone}) :
       /\ pending' = pending \ (done \cup {gone})
       /\ audit' = Logged(audit, done, "expired")
       /\ told' = Logged(told, done, "expired")
  /\ Finish(c)
  /\ UNCHANGED <<bound, disk, expires, cmd, sent, procVars, envVars, holder>>

-----------------------------------------------------------------------------
(* AgentExec.                                                              *)

\* The request arrives and its binding is read under the agent mutex; without
\* a host, trust is Ask.  An agent names a session that has been opened; the
\* guard on the clock leaves the approval time to expire within the bound.
ExecArrives(a, e, s) ==
  /\ cmd[e] = None
  /\ proc[s] # "none"
  /\ clock + TTL <= MaxClock
  /\ Free
  /\ Arrive(a, [Idle EXCEPT !.pc = IF bound[s] \in Hosts THEN "trust" ELSE "evaluate",
                            !.exec = e, !.sess = s, !.target = bound[s], !.now = clock,
                            !.seen = {TrustOf(origin[s])}])
  /\ cmd' = [cmd EXCEPT ![e] = s]
  /\ UNCHANGED <<ctlVars, sent, procVars, envVars, holder, faults>>

\* host_agent_trust, under the vault mutex; a locked vault ends the request.
ExecTrust(a) ==
  /\ req[a].pc = "trust"
  /\ IF unlocked
     THEN req' = [req EXCEPT ![a].trust = trust[req[a].target], ![a].pc = "evaluate"]
     ELSE Finish(a)
  /\ UNCHANGED <<ctlVars, cmd, sent, procVars, envVars, holder, faults>>

\* Mutant: the dangerous command is let through for the trust Ask.
EvaluationIgnoresDanger(e, s, t) ==
  CASE bound[s] = None   -> "rejected_unknown_session"
    [] t = "readonly"    -> "rejected_readonly"
    [] OTHER             -> "allow"

\* The decision of evaluate; the binding is looked up again.
Evaluation(e, s, t) ==
  CASE bound[s] = None                                   -> "rejected_unknown_session"
    [] bound[s] # None /\ t = "readonly"                 -> "rejected_readonly"
    [] bound[s] # None /\ t = "ask" /\ e \in Dangerous   -> "needs_approval"
    [] OTHER                                             -> "allow"

\* evaluate, under the agent mutex: expire, decide, and append the decision to
\* the audit file unless it is to allow.
ExecEvaluate(a) ==
  LET r == req[a]
      decision == Evaluation(r.exec, r.sess, r.trust)
      Expired == /\ pending' = Live(r.now)
                 /\ audit' = ExpiredAudit(r.now)
                 /\ told' = ExpiredTold(r.now)
  IN  /\ r.pc = "evaluate" /\ Free
      /\ \/ /\ decision = "allow" /\ NoFault
            /\ Expired /\ UNCHANGED expires
            /\ Goto(a, "record_allowed")
         \/ /\ decision \in {"rejected_unknown_session", "rejected_readonly"} /\ NoFault
            /\ pending' = Live(r.now)
            /\ audit' = Logged(ExpiredAudit(r.now), {r.exec}, decision)
            /\ told' = ExpiredTold(r.now)
            /\ UNCHANGED expires
            /\ Finish(a)
         \/ /\ decision = "needs_approval" /\ NoFault
            /\ pending' = Live(r.now) \cup {r.exec}
            /\ expires' = [expires EXCEPT ![r.exec] = r.now + TTL]
            /\ audit' = Logged(ExpiredAudit(r.now), {r.exec}, decision)
            /\ told' = Logged(ExpiredTold(r.now), {r.exec}, "requested")
            /\ Finish(a)
         \/ /\ decision # "allow" /\ Fault          \* append_audit fails
            /\ Expired /\ UNCHANGED expires
            /\ Finish(a)
      /\ UNCHANGED <<bound, disk, cmd, sent, procVars, envVars, holder>>

\* Mutant: a failed audit write does not stop the command.
RecordAllowedCarriesOn(a) ==
  /\ req[a].pc = "record_allowed" /\ Free
  /\ \/ NoFault /\ audit' = Logged(audit, {req[a].exec}, "allowed")
     \/ Fault /\ UNCHANGED audit
  /\ Goto(a, "send")
  /\ UNCHANGED <<bound, disk, pending, expires, told, cmd, sent, procVars, envVars, holder>>

\* record_allowed: the audit line is written before the command.
RecordAllowed(a) ==
  /\ req[a].pc = "record_allowed" /\ Free
  /\ \/ NoFault /\ audit' = Logged(audit, {req[a].exec}, "allowed") /\ Goto(a, "send")
     \/ Fault /\ UNCHANGED audit /\ Finish(a)
  /\ UNCHANGED <<bound, disk, pending, expires, told, cmd, sent, procVars, envVars, holder>>

\* session_input through the session host: it is refused unless the session's
\* process is alive; a lost reply is an error whether or not it was written.
Dispatch(c, done, failed) ==
  LET e == req[c].exec
      Written == sent' = [sent EXCEPT ![e] = @ + 1]
      alive == proc[cmd[e]] = "alive"
  IN  /\ \/ alive /\ NoFault /\ Written /\ done
         \/ ~alive /\ NoFault /\ UNCHANGED sent /\ failed
         \/ alive /\ Fault /\ Written /\ failed
         \/ Fault /\ UNCHANGED sent /\ failed
      /\ UNCHANGED <<ctlVars, cmd, procVars, envVars, holder>>

SendAllowed(a) ==
  /\ req[a].pc = "send"
  /\ Dispatch(a, Finish(a), Goto(a, "exec_failed"))

\* record_dispatch_failed.
RecordFailed(a) ==
  /\ req[a].pc = "exec_failed" /\ Free
  /\ \/ NoFault /\ audit' = Logged(audit, {req[a].exec}, "failed")
     \/ Fault /\ UNCHANGED audit
  /\ Finish(a)
  /\ UNCHANGED <<bound, disk, pending, expires, told, cmd, sent, procVars, envVars, holder>>

-----------------------------------------------------------------------------
(* The owner's decisions.                                                  *)

\* An owner approves or denies an approval it has been told of.
DecisionArrives(o, e, pc) ==
  /\ "requested" \in told[e]
  /\ Arrive(o, [Idle EXCEPT !.pc = pc, !.exec = e, !.now = clock])
  /\ UNCHANGED <<ctlVars, cmd, sent, procVars, envVars, holder, faults>>

ListArrives(o) ==
  /\ Arrive(o, [Idle EXCEPT !.pc = "list", !.now = clock])
  /\ UNCHANGED <<ctlVars, cmd, sent, procVars, envVars, holder, faults>>

\* Mutant: the approval is looked up but not removed.
TakeLeavesPending(o) ==
  LET r == req[o] IN
  /\ r.pc = "take" /\ Free
  /\ IF r.exec \in Live(r.now) THEN Goto(o, "record_approved") ELSE Finish(o)
  /\ pending' = Live(r.now)
  /\ audit' = ExpiredAudit(r.now)
  /\ told' = ExpiredTold(r.now)
  /\ UNCHANGED <<bound, disk, expires, cmd, sent, procVars, envVars, holder, faults>>

\* take_for_approval: expire, then remove the approval, or fail without it.
TakeForApproval(o) ==
  LET r == req[o] IN
  /\ r.pc = "take" /\ Free
  /\ IF r.exec \in Live(r.now) THEN Goto(o, "record_approved") ELSE Finish(o)
  /\ pending' = Live(r.now) \ {r.exec}
  /\ audit' = ExpiredAudit(r.now)
  /\ told' = ExpiredTold(r.now)
  /\ UNCHANGED <<bound, disk, expires, cmd, sent, procVars, envVars, holder, faults>>

\* record_approved: durable before the command is sent.
RecordApproved(o) ==
  /\ req[o].pc = "record_approved" /\ Free
  /\ \/ NoFault /\ audit' = Logged(audit, {req[o].exec}, "approved") /\ Goto(o, "send_approved")
     \/ Fault /\ UNCHANGED audit /\ Finish(o)
  /\ UNCHANGED <<bound, disk, pending, expires, told, cmd, sent, procVars, envVars, holder>>

SendApproved(o) ==
  /\ req[o].pc = "send_approved"
  /\ Dispatch(o, Goto(o, "resolve_approved"), Goto(o, "approve_failed"))

RecordApproveFailed(o) ==
  /\ req[o].pc = "approve_failed" /\ Free
  /\ \/ NoFault /\ audit' = Logged(audit, {req[o].exec}, "failed") /\ Goto(o, "resolve_failed")
     \/ Fault /\ UNCHANGED audit /\ Finish(o)
  /\ UNCHANGED <<bound, disk, pending, expires, told, cmd, sent, procVars, envVars, holder>>

Resolve(o) ==
  /\ req[o].pc \in {"resolve_approved", "resolve_failed"} /\ Free
  /\ told' = Logged(told, {req[o].exec},
                    IF req[o].pc = "resolve_approved" THEN "approved" ELSE "failed")
  /\ Finish(o)
  /\ UNCHANGED <<bound, disk, pending, expires, audit, cmd, sent, procVars, envVars, holder, faults>>

\* Mutant: the denied approval stays pending.
DenyLeavesPending(o) ==
  LET r == req[o] IN
  /\ r.pc = "deny" /\ Free
  /\ pending' = Live(r.now)
  /\ \/ /\ r.exec \in Live(r.now) /\ NoFault
        /\ audit' = Logged(ExpiredAudit(r.now), {r.exec}, "denied")
        /\ told' = Logged(ExpiredTold(r.now), {r.exec}, "denied")
     \/ /\ r.exec \notin Live(r.now) /\ NoFault
        /\ audit' = ExpiredAudit(r.now) /\ told' = ExpiredTold(r.now)
  /\ Finish(o)
  /\ UNCHANGED <<bound, disk, expires, cmd, sent, procVars, envVars, holder>>

\* deny: take it, append to the audit file, tell.  When the append fails the
\* approval is gone all the same.
Deny(o) ==
  LET r == req[o] IN
  /\ r.pc = "deny" /\ Free
  /\ pending' = Live(r.now) \ {r.exec}
  /\ \/ /\ r.exec \in Live(r.now) /\ NoFault
        /\ audit' = Logged(ExpiredAudit(r.now), {r.exec}, "denied")
        /\ told' = Logged(ExpiredTold(r.now), {r.exec}, "denied")
     \/ /\ \/ r.exec \in Live(r.now) /\ Fault
           \/ r.exec \notin Live(r.now) /\ NoFault
        /\ audit' = ExpiredAudit(r.now)
        /\ told' = ExpiredTold(r.now)
  /\ Finish(o)
  /\ UNCHANGED <<bound, disk, expires, cmd, sent, procVars, envVars, holder>>

\* ListAgentApprovals ends what is overdue.
List(o) ==
  /\ req[o].pc = "list" /\ Free
  /\ pending' = Live(req[o].now)
  /\ audit' = ExpiredAudit(req[o].now)
  /\ told' = ExpiredTold(req[o].now)
  /\ Finish(o)
  /\ UNCHANGED <<bound, disk, expires, cmd, sent, procVars, envVars, holder, faults>>

-----------------------------------------------------------------------------
(* Opening and closing sessions.                                           *)

\* The session host starts a process for session s, connected to target t.
Started(s, t) ==
  /\ proc[s] = "none"
  /\ proc' = [proc EXCEPT ![s] = "alive"]
  /\ origin' = [origin EXCEPT ![s] = t]

\* OpenLocalSession and OpenSshSession: the host is read from the vault, ...
OpenArrives(o, t) ==
  /\ t \in Hosts => unlocked
  /\ Arrive(o, [Idle EXCEPT !.pc = "open", !.target = t])
  /\ UNCHANGED <<ctlVars, cmd, sent, procVars, envVars, holder, faults>>

\* ... the session is started (or is not, or is but the reply is lost), ...
OpenStarts(o) ==
  /\ req[o].pc = "open"
  /\ \/ \E s \in Sessions :
          /\ Started(s, req[o].target)
          /\ \/ NoFault /\ req' = [req EXCEPT ![o].pc = "register", ![o].sess = s]
             \/ Fault /\ Finish(o)
     \/ NoFault /\ UNCHANGED <<proc, origin>> /\ Finish(o)
  /\ UNCHANGED <<ctlVars, cmd, sent, agentMade, envVars, holder>>

\* Mutant: the arguments of register_session are swapped.
RegistersSwapped(o) ==
  LET r == req[o] IN
  /\ r.pc = "register" /\ Free
  /\ bound' = [bound EXCEPT ![r.sess] = r.sess]
  /\ \/ NoFault /\ disk' = bound'
     \/ Fault /\ UNCHANGED disk
  /\ Finish(o)
  /\ UNCHANGED <<pending, expires, audit, told, cmd, sent, procVars, envVars, holder>>

\* ... and bound: register_session changes memory, then saves.
OpenRegisters(o) ==
  LET r == req[o] IN
  /\ r.pc = "register" /\ Free
  /\ bound' = [bound EXCEPT ![r.sess] = r.target]
  /\ \/ NoFault /\ disk' = bound'
     \/ Fault /\ UNCHANGED disk
  /\ Finish(o)
  /\ UNCHANGED <<pending, expires, audit, told, cmd, sent, procVars, envVars, holder>>

\* CloseSession: the session host kills and forgets the session, ...
CloseArrives(o, s) ==
  /\ proc[s] \in {"alive", "dead"}
  /\ proc' = [proc EXCEPT ![s] = "gone"]
  /\ \/ NoFault /\ Arrive(o, [Idle EXCEPT !.pc = "remove", !.sess = s])
     \/ Fault /\ req[o].pc = "idle" /\ UNCHANGED req
  /\ UNCHANGED <<ctlVars, cmd, sent, origin, agentMade, envVars, holder>>

\* Mutant: closing a session leaves its approvals pending.
CloseKeepsApprovals(o) ==
  LET s == req[o].sess IN
  /\ req[o].pc = "remove" /\ Free
  /\ bound' = [bound EXCEPT ![s] = None]
  /\ \/ NoFault /\ disk' = bound'
     \/ Fault /\ UNCHANGED disk
  /\ Finish(o)
  /\ UNCHANGED <<pending, expires, audit, told, cmd, sent, procVars, envVars, holder>>

\* Mutant: the cancelled approvals are not announced.
CloseCancelsSilently(o) ==
  LET s == req[o].sess
      mine == {e \in pending : cmd[e] = s}
  IN  /\ req[o].pc = "remove" /\ Free /\ NoFault
      /\ bound' = [bound EXCEPT ![s] = None]
      /\ disk' = bound'
      /\ pending' = pending \ mine
      /\ audit' = Logged(audit, mine, "cancelled")
      /\ Finish(o)
      /\ UNCHANGED <<expires, told, cmd, sent, procVars, envVars, holder>>

\* ... and remove_session unbinds it, cancels its approvals one by one, and
\* saves, unless an audit line or the save fails.
CloseRemoves(o) ==
  LET s == req[o].sess
      mine == {e \in pending : cmd[e] = s}
  IN  /\ req[o].pc = "remove" /\ Free
      /\ bound' = [bound EXCEPT ![s] = None]
      /\ \/ /\ pending' = pending \ mine
            /\ audit' = Logged(audit, mine, "cancelled")
            /\ told' = Logged(told, mine, "cancelled")
            /\ \/ NoFault /\ disk' = bound'
               \/ Fault /\ UNCHANGED disk
         \/ /\ Fault /\ UNCHANGED disk
            /\ \E gone \in mine : \E done \in SUBSET (mine \ {gone}) :
                 /\ pending' = pending \ (done \cup {gone})
                 /\ audit' = Logged(audit, done, "cancelled")
                 /\ told' = Logged(told, done, "cancelled")
      /\ Finish(o)
      /\ UNCHANGED <<expires, cmd, sent, procVars, envVars, holder>>

\* AgentOpenSshSession: the host is read from the vault, ...
AgentOpenArrives(a, h) ==
  /\ unlocked
  /\ Arrive(a, [Idle EXCEPT !.pc = "agent_list", !.target = h])
  /\ UNCHANGED <<ctlVars, cmd, sent, procVars, envVars, holder, faults>>

\* Mutant: the agent mutex is released between the check and the opening.
AgentListsReleasing(a) ==
  /\ req[a].pc = "agent_list" /\ Free
  /\ IF \E s \in Sessions : proc[s] = "alive" /\ bound[s] = req[a].target
     THEN Finish(a)
     ELSE Goto(a, "agent_spawn")
  /\ UNCHANGED <<ctlVars, cmd, sent, procVars, envVars, holder, faults>>

\* ... then, keeping the agent mutex, a live session bound to the host is
\* looked for and reused, ...
AgentLists(a) ==
  /\ req[a].pc = "agent_list" /\ Free
  /\ IF \E s \in Sessions : proc[s] = "alive" /\ bound[s] = req[a].target
     THEN Finish(a) /\ UNCHANGED holder
     ELSE Goto(a, "agent_spawn") /\ holder' = a
  /\ UNCHANGED <<ctlVars, cmd, sent, procVars, envVars, faults>>

\* ... or a new one is started ...
AgentSpawns(a) ==
  /\ req[a].pc = "agent_spawn"
  /\ \/ \E s \in Sessions :
          /\ Started(s, req[a].target)
          /\ agentMade' = agentMade \cup {s}
          /\ \/ /\ NoFault
                /\ req' = [req EXCEPT ![a].pc = "agent_register", ![a].sess = s]
                /\ UNCHANGED holder
             \/ Fault /\ Finish(a) /\ holder' = None
     \/ /\ NoFault /\ UNCHANGED procVars
        /\ Finish(a) /\ holder' = None
  /\ UNCHANGED <<ctlVars, cmd, sent, envVars>>

\* ... and bound, and the opening audited; when saving fails it is closed but
\* stays bound in memory, when auditing fails it is unbound and closed, whether
\* or not the binding can be taken out of the file again.
AgentRegisters(a) ==
  LET r == req[a]
      Closed == proc' = [proc EXCEPT ![r.sess] = "gone"]
      binding == [bound EXCEPT ![r.sess] = r.target]
  IN  /\ r.pc = "agent_register"
      /\ \/ NoFault /\ bound' = binding /\ disk' = binding /\ UNCHANGED proc
         \/ Fault /\ bound' = binding /\ UNCHANGED disk /\ Closed
         \/ Fault /\ UNCHANGED bound /\ disk' \in {bound, binding} /\ Closed
      /\ Finish(a)
      /\ holder' = None
      /\ UNCHANGED <<pending, expires, audit, told, cmd, sent, origin, agentMade, envVars>>

-----------------------------------------------------------------------------
(* The surroundings.                                                       *)

Tick ==
  /\ clock < MaxClock
  /\ clock' = clock + 1
  /\ UNCHANGED <<unlocked, trust, ctlVars, cmd, sent, procVars, req, holder, faults, crashes>>

\* The owner changes a host's trust (SetHostAgentTrust), in one step under the
\* vault mutex.  Requests in progress for that host have now seen both values.
SetTrust(h, t) ==
  /\ unlocked /\ trust[h] # t
  /\ trust' = [trust EXCEPT ![h] = t]
  /\ req' = [c \in Clients |->
               IF req[c].pc \in ExecPCs /\ origin[req[c].sess] = h
               THEN [req[c] EXCEPT !.seen = @ \cup {t}] ELSE req[c]]
  /\ UNCHANGED <<clock, unlocked, ctlVars, cmd, sent, procVars, holder, faults, crashes>>

\* The vault is locked or unlocked; locking closes no session.
SetLock ==
  /\ unlocked' = ~unlocked
  /\ UNCHANGED <<clock, trust, ctlVars, cmd, sent, procVars, req, holder, faults, crashes>>

\* The shell or ssh of a session ends by itself.
Exits(s) ==
  /\ proc[s] = "alive"
  /\ proc' = [proc EXCEPT ![s] = "dead"]
  /\ UNCHANGED <<ctlVars, cmd, sent, origin, agentMade, envVars, req, holder, faults>>

\* The daemon crashes and is started again.  Requests and pending approvals are
\* gone, the vault is locked; bindings come from agent-sessions.json and, for
\* other sessions, from the GUI's saved tabs, which know sessions the daemon
\* has reported (load_at).
Crash ==
  /\ crashes < MaxCrashes
  /\ crashes' = crashes + 1
  /\ \E tabs \in SUBSET {s \in Sessions : bound[s] # None} :
       bound' = [s \in Sessions |-> IF disk[s] # None THEN disk[s]
                                   ELSE IF s \in tabs THEN origin[s] ELSE None]
  /\ pending' = {}
  /\ unlocked' = FALSE
  /\ req' = [c \in Clients |-> Idle]
  /\ holder' = None
  /\ UNCHANGED <<clock, trust, disk, expires, audit, told, cmd, sent, procVars, faults>>

-----------------------------------------------------------------------------
AgentArrives(a) ==
  \/ \E e \in Execs, s \in Sessions : ExecArrives(a, e, s)
  \/ \E h \in Hosts : AgentOpenArrives(a, h)

OwnerArrives(o) ==
  \/ \E e \in Execs, pc \in {"take", "deny"} : DecisionArrives(o, e, pc)
  \/ ListArrives(o)
  \/ \E t \in Targets : OpenArrives(o, t)
  \/ \E s \in Sessions : CloseArrives(o, s)

\* The next step of a request in progress.
AgentStep(a) ==
  \/ ExecTrust(a) \/ ExecEvaluate(a) \/ RecordAllowed(a) \/ SendAllowed(a) \/ RecordFailed(a)
  \/ AgentLists(a) \/ AgentSpawns(a) \/ AgentRegisters(a)
  \/ ExpireFails(a)

OwnerStep(o) ==
  \/ TakeForApproval(o) \/ RecordApproved(o) \/ SendApproved(o)
  \/ RecordApproveFailed(o) \/ Resolve(o)
  \/ Deny(o) \/ List(o) \/ ExpireFails(o)
  \/ OpenStarts(o) \/ OpenRegisters(o) \/ CloseRemoves(o)

Surroundings ==
  \/ Tick
  \/ \E h \in Hosts, t \in Trusts : SetTrust(h, t)
  \/ SetLock
  \/ \E s \in Sessions : Exits(s)
  \/ Crash

Next ==
  \/ \E a \in Agents : AgentArrives(a) \/ AgentStep(a)
  \/ \E o \in Owners : OwnerArrives(o) \/ OwnerStep(o)
  \/ Surroundings

Spec == Init /\ [][Next]_vars

\* A GUI that shows an approval past its deadline asks for the list.
Shown(e) == "requested" \in told[e] /\ told[e] \cap Resolutions = {}
AsksAgain(o) ==
  /\ \E e \in Execs : Shown(e) /\ expires[e] <= clock
  /\ ListArrives(o)

\* A request in progress is carried on, and gets the agent mutex although others
\* take it again and again: tokio's mutex serves its waiters in order.  Time
\* passes, and a GUI keeps its one-second tick however busy its connection is.
FairSpec ==
  /\ Spec
  /\ \A a \in Agents : SF_vars(AgentStep(a))
  /\ \A o \in Owners : SF_vars(OwnerStep(o)) /\ SF_vars(AsksAgain(o))
  /\ WF_vars(Tick)

-----------------------------------------------------------------------------
TypeOK ==
  /\ clock \in Nat
  /\ unlocked \in BOOLEAN
  /\ trust \in [Hosts -> Trusts]
  /\ bound \in [Sessions -> Targets \cup {None}]
  /\ disk \in [Sessions -> Targets \cup {None}]
  /\ pending \in SUBSET Execs
  /\ expires \in [Execs -> Nat]
  /\ audit \in [Execs -> SUBSET Outcomes]
  /\ told \in [Execs -> SUBSET (Resolutions \cup {"requested"})]
  /\ cmd \in [Execs -> Sessions \cup {None}]
  /\ sent \in [Execs -> Nat]
  /\ proc \in [Sessions -> {"none", "alive", "dead", "gone"}]
  /\ origin \in [Sessions -> Targets \cup {None}]
  /\ agentMade \in SUBSET Sessions
  /\ req \in [Clients -> Requests]
  /\ holder \in Agents \cup {None}
  /\ faults \in Nat
  /\ crashes \in Nat

\* Whatever was written to a terminal for an agent is in the audit file, as
\* allowed or approved, whichever writes fail and wherever the daemon crashes.
AuditBeforeDispatch ==
  \A e \in Execs : sent[e] > 0 => audit[e] \cap {"allowed", "approved"} # {}

\* A command reaches its terminal at most once: not by two owners approving it
\* at the same time, nor after a failure was reported.
AtMostOnce == \A e \in Execs : sent[e] <= 1

\* An approval ends in one way: a command that was denied, cancelled, expired
\* or rejected is not sent, and at most one of the ends is on record.
Ends == {"allowed", "approved", "denied", "expired", "cancelled", "rejected_readonly",
         "rejected_unknown_session"}
OneEnd ==
  \A e \in Execs :
    /\ \A x, y \in audit[e] \cap Ends : x = y
    /\ e \in pending => audit[e] = {"needs_approval"}

\* A dangerous command is sent only if an owner approved it, or if the host it
\* really runs on was trusted at some moment of the request.
DangerNeedsConsent ==
  [][\A e \in Dangerous :
       sent'[e] # sent[e] =>
         \/ "approved" \in audit[e]
         \/ \E a \in Agents : req[a].pc = "send" /\ req[a].exec = e /\ "trusted" \in req[a].seen]_vars

\* A command no owner approved is not sent to a host that was readonly during
\* the whole request.
ReadonlyRejectsAll ==
  [][\A e \in Execs :
       sent'[e] # sent[e] =>
         \/ "approved" \in audit[e]
         \/ \E a \in Agents : req[a].pc = "send" /\ req[a].exec = e /\ req[a].seen # {"readonly"}]_vars

\* Opening by an agent is idempotent: of the sessions agents opened, at most
\* one is alive for each host.
OneAgentLogin ==
  \A h \in Hosts :
    Cardinality({s \in agentMade : proc[s] = "alive" /\ origin[s] = h}) <= 1

\* An approval the owners were shown is still pending, or is being dispatched,
\* or they were told how it ended.
NoSilentEnd ==
  \A e \in Execs : Shown(e) =>
    \/ e \in pending
    \/ \E o \in Owners : req[o].exec = e /\ req[o].pc \in ApprovePCs \ {"take"}

\* No approval outlives the binding of its session.
PendingBound == \A e \in pending : bound[cmd[e]] # None

\* Closing a session ends its approvals, and the owners hear of it: whatever else was
\* being decided or asked on it (remove_session).
EndsWithItsSession == PendingBound /\ NoSilentEnd

\* The owners hear of the end of every approval they are shown.
ApprovalsResolve == \A e \in Execs : Shown(e) ~> ~Shown(e)
-----------------------------------------------------------------------------
(* The gate implements ApprovalLedger: the stage of a command is read off    *)
(* the approvals and the requests in progress.                               *)

Working(e, pcs) == \E c \in Clients : req[c].exec = e /\ req[c].pc \in pcs

StageOf(e) ==
  CASE cmd[e] = None                                                -> "new"
    [] sent[e] > 0                                                  -> "sent"
    [] sent[e] = 0 /\ e \in pending                                 -> "pending"
    [] Working(e, {"trust", "evaluate", "record_allowed"})          -> "asked"
    [] Working(e, {"record_approved"})                              -> "granted"
    [] Working(e, {"send", "send_approved"})                        -> "cleared"
    [] Working(e, {"exec_failed", "approve_failed", "resolve_failed"}) /\ sent[e] = 0 -> "unsent"
    [] OTHER                                                        -> "over"

Ledger == INSTANCE ApprovalLedger WITH stage <- [e \in Execs |-> StageOf(e)]

\* Every command lives as ApprovalLedger says: whatever requests, faults and
\* crashes interleave, it is on record before it is cleared, is cleared only
\* once, and never comes back from where it ended.
ImplementsLedger == Ledger!LedgerSpec
=============================================================================
