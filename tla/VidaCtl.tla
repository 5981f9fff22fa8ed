-------------------------------- MODULE VidaCtl --------------------------------
(***************************************************************************)
(* The command line, vidactl: one process per command (vidactl.rs).        *)
(*                                                                         *)
(* A command about a host first lists the hosts, picks one by its id or by *)
(* a name only one host has, and then asks the daemon to act on its id; a  *)
(* command for a terminal goes through the agent's gate.  The exit code is *)
(* all a script sees.  Meanwhile the owner renames and deletes hosts, the  *)
(* vault is locked, other commands run, and the connection may be lost     *)
(* before the daemon acted or after.                                       *)
(***************************************************************************)
EXTENDS Integers, FiniteSets

CONSTANTS
  Runs,      \* the commands run, numbered in the order they are started
  Ids,       \* ids of hosts; the terminal of commands runs on the first of them
  Home,      \* that host
  Names,     \* names of hosts; a host may be named like another host's id
  Commands,  \* commands considered: [kind, sel]
  MaxEdits   \* bound on the owner's edits

\* What the proofs suppose of the constants.
CtlConstants == IsFiniteSet(Ids) /\ Home \in Ids

VARIABLES
  names,   \* names[h], "" when there is no such host
  trust,   \* trust[h]: "readonly", "ask" or "trusted"
  locked,  \* the vault is locked
  gate,    \* commands for the terminal: those sent, those that wait for approval
  edits,   \* edits made so far
  runs     \* the processes

vars == <<names, trust, locked, gate, edits, runs>>

\* The exit codes.
OK == 0
Connection == 10
Daemon == 11
NotFound == 12
Ambiguous == 13
NeedsApproval == 20
Rejected == 21

NoHost == "no host"

Idle == [pc |-> "idle", kind |-> "", sel |-> "", target |-> NoHost, listed |-> {},
         answer |-> "", did |-> FALSE, unsaved |-> FALSE, cut |-> FALSE, code |-> -1]

Init ==
  /\ names \in [Ids -> Names \cup {""}] /\ names[Home] # ""
  /\ trust = [h \in Ids |-> "ask"]
  /\ locked = FALSE
  /\ gate = [sent |-> {}, waits |-> {}]
  /\ edits = 0
  /\ runs = [r \in Runs |-> Idle]

Hosts == {h \in Ids : names[h] # ""}

Ended(r, code) == runs' = [runs EXCEPT ![r].pc = "ended", ![r].code = code]

AboutHost == {"show", "trust", "notes"}

-----------------------------------------------------------------------------
(* The process.                                                            *)

\* execute: the agent's token for commands and notes, the owner's otherwise.
Start(r, c) ==
  /\ runs[r].pc = "idle" /\ \A q \in Runs : q < r => runs[q].pc # "idle"
  /\ runs' = [runs EXCEPT ![r] = [Idle EXCEPT
       !.pc = IF c.kind \in AboutHost THEN "listing" ELSE "asking",
       !.kind = c.kind, !.sel = c.sel]]
  /\ UNCHANGED <<names, trust, locked, gate, edits>>

NotConnected(r) ==
  /\ runs[r].pc \in {"listing", "asking"} /\ runs[r].target = NoHost
  /\ Ended(r, Connection)
  /\ UNCHANGED <<names, trust, locked, gate, edits>>

\* typed_hosts.
List(r) ==
  /\ runs[r].pc = "listing"
  /\ IF locked THEN Ended(r, Daemon)
     ELSE runs' = [runs EXCEPT ![r].pc = "picking",
                               ![r].listed = {<<h, names[h]>> : h \in Hosts}]
  /\ UNCHANGED <<names, trust, locked, gate, edits>>

ById(r)   == {p[1] : p \in {q \in runs[r].listed : q[1] = runs[r].sel}}
ByName(r) == {p[1] : p \in {q \in runs[r].listed : q[2] = runs[r].sel}}

\* Mutant: the first host of that name is taken.
AnyOf(r) == IF ById(r) # {} THEN ById(r)
            ELSE IF ByName(r) = {} THEN {} ELSE {CHOOSE h \in ByName(r) : TRUE}

\* select_host: an id goes before a name.
Matching(r) == IF ById(r) # {} THEN ById(r) ELSE ByName(r)

Pick(r) ==
  /\ runs[r].pc = "picking"
  /\ LET found == Matching(r)
     IN IF Cardinality(found) # 1
        THEN Ended(r, IF found = {} THEN NotFound ELSE Ambiguous)
        ELSE runs' = [runs EXCEPT ![r].target = CHOOSE h \in found : TRUE,
                        ![r].pc = IF runs[r].kind = "show" THEN "ended" ELSE "asking",
                        ![r].code = IF runs[r].kind = "show" THEN OK ELSE @]
  /\ UNCHANGED <<names, trust, locked, gate, edits>>

Answered(r, answer, did) ==
  runs' = [runs EXCEPT ![r].pc = "answered", ![r].answer = answer, ![r].did = did]

\* SetHostAgentTrust and AgentUpdateHostNotes, for the id that was picked: the
\* host is changed first, and stays changed when the vault cannot be saved.
Act(r) ==
  /\ runs[r].pc = "asking" /\ runs[r].kind \in {"trust", "notes"}
  /\ \E saved \in BOOLEAN :
       LET done == ~locked /\ runs[r].target \in Hosts
       IN /\ runs' = [runs EXCEPT ![r].pc = "answered", ![r].did = done,
                        ![r].answer = IF done /\ saved THEN "ok" ELSE "error",
                        ![r].unsaved = done /\ ~saved]
          /\ trust' = IF done /\ runs[r].kind = "trust"
                      THEN [trust EXCEPT ![runs[r].target] = "readonly"] ELSE trust
  /\ UNCHANGED <<names, locked, gate, edits>>

\* AgentExec of a harmless or a dangerous command.
Exec(r) ==
  /\ runs[r].pc = "asking" /\ runs[r].kind \in {"exec", "danger"}
  /\ IF locked \/ Home \notin Hosts THEN Answered(r, "error", FALSE) /\ UNCHANGED gate
     ELSE IF trust[Home] = "readonly" THEN Answered(r, "rejected", FALSE) /\ UNCHANGED gate
     ELSE IF runs[r].kind = "danger"
          THEN Answered(r, "needs_approval", FALSE)
               /\ gate' = [gate EXCEPT !.waits = @ \cup {r}]
     ELSE \/ Answered(r, "sent", TRUE) /\ gate' = [gate EXCEPT !.sent = @ \cup {r}]
          \/ Answered(r, "error", FALSE) /\ UNCHANGED gate    \* the terminal failed
  /\ UNCHANGED <<names, trust, locked, edits>>

\* approval approve and approval deny, of any command that waits; an approved
\* one whose terminal fails is gone all the same.
Decide(r) ==
  /\ runs[r].pc = "asking" /\ runs[r].kind \in {"approve", "deny"}
  /\ \/ \E q \in gate.waits, works \in BOOLEAN :
          LET done == works \/ runs[r].kind = "deny"
          IN /\ gate' = [sent  |-> IF done /\ runs[r].kind = "approve"
                                   THEN gate.sent \cup {q} ELSE gate.sent,
                         waits |-> gate.waits \ {q}]
             /\ Answered(r, IF done THEN "ok" ELSE "error", done)
     \/ gate.waits = {} /\ Answered(r, "error", FALSE) /\ UNCHANGED gate
  /\ UNCHANGED <<names, trust, locked, edits>>

\* Mutant: an answer is an answer.
AnyIsOk(answer) == OK

\* Output::exit_code for an answer, EXIT_DAEMON for an error.
CodeOf(answer) ==
  CASE answer = "needs_approval" -> NeedsApproval
    [] answer = "rejected" -> Rejected
    [] answer = "error" -> Daemon
    [] OTHER -> OK

Finish(r) ==
  /\ runs[r].pc = "answered"
  /\ Ended(r, CodeOf(runs[r].answer))
  /\ UNCHANGED <<names, trust, locked, gate, edits>>

\* The connection is lost while an answer is awaited.
Cut(r) ==
  /\ runs[r].pc \in {"listing", "asking", "answered"}
  /\ runs' = [runs EXCEPT ![r].pc = "ended", ![r].code = Daemon, ![r].cut = TRUE]
  /\ UNCHANGED <<names, trust, locked, gate, edits>>

-----------------------------------------------------------------------------
(* The owner.                                                              *)

Rename(h, n) ==
  /\ edits < MaxEdits /\ ~locked /\ h \in Hosts /\ n # names[h]
  /\ names' = [names EXCEPT ![h] = n]      \* "" deletes the host
  /\ edits' = edits + 1
  /\ UNCHANGED <<trust, locked, gate, runs>>

Lock ==
  /\ edits < MaxEdits
  /\ locked' = ~locked /\ edits' = edits + 1
  /\ UNCHANGED <<names, trust, gate, runs>>

Next ==
  \/ \E r \in Runs : \E c \in Commands : Start(r, c)
  \/ \E r \in Runs : NotConnected(r)
  \/ \E r \in Runs : List(r)
  \/ \E r \in Runs : Pick(r)
  \/ \E r \in Runs : Act(r)
  \/ \E r \in Runs : Exec(r)
  \/ \E r \in Runs : Decide(r)
  \/ \E r \in Runs : Finish(r)
  \/ \E r \in Runs : Cut(r)
  \/ \E h \in Ids, n \in Names \cup {""} : Rename(h, n)
  \/ Lock

Spec == Init /\ [][Next]_vars

-----------------------------------------------------------------------------
\* The variables keep their types.
TypeOK ==
  /\ names \in [Ids -> Names \cup {""}]
  /\ trust \in [Ids -> {"readonly", "ask", "trusted"}]
  /\ gate.sent \subseteq Runs /\ gate.waits \subseteq Runs
  /\ \A r \in Runs :
       /\ runs[r].pc \in {"idle", "listing", "picking", "asking", "answered", "ended"}
       /\ runs[r].code \in {-1, OK, Connection, Daemon, NotFound, Ambiguous, NeedsApproval,
                            Rejected}

\* A script can go by the exit code: 0 means that it was done, and every other
\* code that it was not, but for a command whose connection was lost on the way,
\* one that changed a host and could not save the vault, and one that was held
\* for approval, which may be approved later.
CodesTellTheTruth ==
  \A r \in Runs : runs[r].pc = "ended" =>
    /\ runs[r].code = OK => runs[r].did \/ runs[r].kind = "show"
    /\ runs[r].code # OK => ~runs[r].did \/ runs[r].cut \/ runs[r].unsaved
    /\ runs[r].code \notin {OK, NeedsApproval} /\ ~runs[r].cut => r \notin gate.sent

\* What a command acts on is the host its argument meant when it looked: the
\* one with that id, or else the only one with that name.
ActsOnTheHostMeant ==
  \A r \in Runs : runs[r].target # NoHost =>
    LET named == {p \in runs[r].listed : p[2] = runs[r].sel}
        withId == {p \in runs[r].listed : p[1] = runs[r].sel}
    IN \/ runs[r].target = runs[r].sel /\ withId # {}
       \/ withId = {} /\ {p[1] : p \in named} = {runs[r].target}

\* (Observation.) ... and still means when it acts: a host renamed in between is
\* changed all the same.
StillMeant ==
  [][\A r \in Runs : Act(r) /\ runs'[r].did =>
       runs[r].sel \in {runs[r].target, names[runs[r].target]}]_vars
=================================================================================
