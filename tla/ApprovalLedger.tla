---------------------------- MODULE ApprovalLedger ----------------------------
(***************************************************************************)
(* What the gate of AgentGate promises about each command an agent submits *)
(* (vida-daemon: agent.rs), without connections, clocks, mutexes or files: *)
(* the stages of its life, the lines the audit file has for it and what    *)
(* the owners were told of it.  AgentGate implements this specification.   *)
(*                                                                         *)
(* Commands do not depend on each other, but one call may move several of  *)
(* them: expire_pending ends every approval that is overdue.               *)
(***************************************************************************)
CONSTANT Execs

VARIABLES
  stage,   \* where the command is
  audit,   \* the outcomes on record for it
  told     \* the events broadcast for it

life == <<stage, audit, told>>

\* new      not submitted           granted  approved, not yet on record
\* asked    being evaluated         cleared  on record as allowed or approved
\* pending  waiting for an owner    sent     written to its terminal
\* unsent   could not be written    over     will never be written
Stages == {"new", "asked", "pending", "granted", "cleared", "sent", "unsent", "over"}

Outcomes ==
  {"allowed", "needs_approval", "approved", "denied", "expired", "cancelled",
   "rejected_readonly", "rejected_unknown_session", "failed"}

LedgerInit ==
  /\ stage = [e \in Execs |-> "new"]
  /\ audit = [e \in Execs |-> {}]
  /\ told = [e \in Execs |-> {}]

\* The command moves from one stage to another with new lines and new events.
Moves(e, from, to, lines, events) ==
  /\ stage[e] = from
  /\ stage'[e] = to
  /\ audit'[e] = audit[e] \cup lines
  /\ told'[e] = told[e] \cup events

Submit(e) == Moves(e, "new", "asked", {}, {})

\* evaluate: the command may go, is rejected, or waits.
Allow(e)  == Moves(e, "asked", "cleared", {"allowed"}, {})
Reject(e) == \E why \in {"rejected_readonly", "rejected_unknown_session"} :
               Moves(e, "asked", "over", {why}, {})
Wait(e)   == Moves(e, "asked", "pending", {"needs_approval"}, {"requested"})

\* An owner approves: the approval is taken out, then put on record.
Take(e)    == Moves(e, "pending", "granted", {}, {})
Approve(e) == Moves(e, "granted", "cleared", {"approved"}, {})

\* The approval is denied, expires, or is cancelled with its session.
Settle(e) == \E how \in {"denied", "expired", "cancelled"} :
               Moves(e, "pending", "over", {how}, {how})

\* The command is written to its terminal, or is not.
Write(e) == Moves(e, "cleared", "sent", {}, {})
Fail(e)  == Moves(e, "cleared", "unsent", {}, {})

\* How sending went is recorded and told, in this order.
Record(e) == \E st \in {"sent", "unsent"} : Moves(e, st, st, {"failed"}, {})
Tell(e) ==
  \/ Moves(e, "sent", "sent", {}, {"approved"})
  \/ Moves(e, "sent", "sent", {}, {"failed"})
  \/ Moves(e, "unsent", "over", {}, {"failed"})

\* The command of an agent that was told so, with its line.
GiveUp(e) == \E lines \in {{}, {"failed"}} : Moves(e, "unsent", "over", lines, {})

\* The daemon crashes, or a line cannot be written: the command is given up
\* without a word.
Lose(e) == \E st \in {"asked", "pending", "granted", "cleared"} : Moves(e, st, "over", {}, {})

Rests(e) == UNCHANGED <<stage[e], audit[e], told[e]>>

Lives(e) ==
  \/ Rests(e)
  \/ Submit(e) \/ Allow(e) \/ Reject(e) \/ Wait(e)
  \/ Take(e) \/ Approve(e) \/ Settle(e)
  \/ Write(e) \/ Fail(e) \/ Record(e) \/ Tell(e) \/ GiveUp(e) \/ Lose(e)

LedgerNext ==
  /\ \A e \in Execs : Lives(e)
  /\ DOMAIN stage' = Execs /\ DOMAIN audit' = Execs /\ DOMAIN told' = Execs

LedgerSpec == LedgerInit /\ [][LedgerNext]_life
=============================================================================
