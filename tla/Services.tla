------------------------------ MODULE Services ------------------------------
(***************************************************************************)
(* The parts of the daemon and of the programs that talk to it which work  *)
(* side by side without sharing state: each behaviour is one of the part   *)
(* chosen at its start, in the variables v1, v2, ...  The constants are    *)
(* those of the parts, where they are explained.                           *)
(***************************************************************************)
EXTENDS Integers, Sequences, FiniteSets

CONSTANTS
  Secrets, OldFormats, MaxBackups, MaxVaults, FilePlans,                  \* VaultFile
  Updates, Sections, Asks, Documents,                                     \* HostNotes
  Runs, Ids, Home, HostNames, Commands, MaxEdits,                         \* VidaCtl
  Calls, Daemons, CallPlans,                                              \* AgentClient
  WireRoom, QueueRoom, EventRoom, ChannelRoom, MaxFrames, MaxEvents, MaxKeys, \* Connection
  Uses, LoginPlans, Inherits,                                             \* SshLogin
  Rows, MaxWrites, Capacity, Pollings, MaxSends,                          \* ScreenPush
  Agents, Owners, Sessions, Machines, Execs, Dangerous, TTL, MaxClock,    \* AgentGate
  MaxFaults, MaxCrashes, Local, Nil

VARIABLES
  part,  \* the part that is checked in this behaviour
  v1, v2, v3, v4, v5, v6, v7, v8, v9, v10, v11, v12, v13, v14, v15, v16, v17, v18  \* its variables

-----------------------------------------------------------------------------
(* The parts, and what may happen in each.                                 *)

\* The vault file and its backups.
File == INSTANCE VaultFile WITH
  now <- v1, safe <- v2, memory <- v3, cache <- v4, job <- v5, made <- v6, answered <- v7,
  tried <- v8, known <- v9, replaced <- v10, turns <- v11, cut <- v12, left <- v13,
  Plans <- FilePlans
fileVars == File!fileVars

\* What the proofs about the parts suppose of their constants.
ASSUME FileAssumption == File!FileConstants

\* Updates of the notes of a host.
Notes == INSTANCE HostNotes WITH
  vault <- v1, disk <- v2, audit <- v3, requests <- v4, drafts <- v5,
  Requests <- Updates
notesVars == Notes!vars

\* Commands of vidactl.
Ctl == INSTANCE VidaCtl WITH
  names <- v1, trust <- v2, locked <- v3, gate <- v4, edits <- v5, runs <- v6,
  Names <- HostNames
ctlVars == Ctl!vars
ASSUME CtlAssumption == Ctl!CtlConstants

\* Calls of the MCP server.
Client == INSTANCE AgentClient WITH
  files <- v1, daemons <- v2, links <- v3, shared <- v4, calls <- v5, logins <- v6,
  bound <- v7, did <- v8, rotated <- v9, steady <- v10, left <- v11, Plans <- CallPlans
clientVars == Client!linkVars
ASSUME ClientAssumption == Client!ClientConstants

\* A subscription with keys and events.
Link == INSTANCE Connection WITH
  wire <- v1, client <- v2, asked <- v3, tab <- v4, owner <- v5, daemon <- v6, bridges <- v7,
  pushq <- v8, events <- v9, shell <- v10, Subscribes <- 1
linkVars == Link!vars

\* A session subscribed a second time.
Again == INSTANCE Connection WITH
  wire <- v1, client <- v2, asked <- v3, tab <- v4, owner <- v5, daemon <- v6, bridges <- v7,
  pushq <- v8, events <- v9, shell <- v10, MaxFrames <- 1, MaxEvents <- 0,
  MaxKeys <- 0, Subscribes <- 2
againVars == Again!vars
ASSUME LinksAssumption == Link!ConnectionConstants /\ Again!ConnectionConstants

\* Terminals and transfers.
Login == INSTANCE SshLogin WITH
  use <- v1, files <- v2, torn <- v3, broker <- v4, helper <- v5, left <- v6,
  Plans <- LoginPlans
loginVars == Login!vars
ASSUME LoginAssumption == Login!LoginConstants

\* The frames of a terminal.
Screen == INSTANCE ScreenPush WITH
  term <- v1, cursor <- v2, damage <- v3, last <- v4, ended <- v5, frames <- v6, grid <- v7,
  dropped <- v8, queue <- v9, tokens <- v10, sent <- v11, midSend <- v12, sender <- v13,
  receiver <- v14, rpc <- v15, got <- v16, polling <- v17
screenVars == Screen!screenVars
ASSUME ScreenAssumption == Screen!ScreenConstants

\* Approvals.
Gate == INSTANCE AgentGate WITH
  clock <- v1, unlocked <- v2, trust <- v3, bound <- v4, disk <- v5, pending <- v6,
  expires <- v7, audit <- v8, told <- v9, cmd <- v10, sent <- v11, proc <- v12,
  origin <- v13, agentMade <- v14, req <- v15, holder <- v16, faults <- v17, crashes <- v18,
  Hosts <- Machines, None <- Nil
gateVars == Gate!vars

-----------------------------------------------------------------------------
Off == "off"
vars ==
  <<part, v1, v2, v3, v4, v5, v6, v7, v8, v9, v10, v11, v12, v13, v14, v15, v16, v17, v18>>

Init ==
  \/ /\ part = "file" /\ File!Init
     /\ v14 = Off /\ v15 = Off /\ v16 = Off /\ v17 = Off /\ v18 = Off
  \/ /\ part = "notes" /\ Notes!Init
     /\ v6 = Off /\ v7 = Off /\ v8 = Off /\ v9 = Off /\ v10 = Off /\ v11 = Off
     /\ v12 = Off /\ v13 = Off /\ v14 = Off /\ v15 = Off /\ v16 = Off /\ v17 = Off
     /\ v18 = Off
  \/ /\ part = "ctl" /\ Ctl!Init
     /\ v7 = Off /\ v8 = Off /\ v9 = Off /\ v10 = Off /\ v11 = Off /\ v12 = Off
     /\ v13 = Off /\ v14 = Off /\ v15 = Off /\ v16 = Off /\ v17 = Off /\ v18 = Off
  \/ /\ part = "client" /\ Client!Init
     /\ v12 = Off /\ v13 = Off /\ v14 = Off /\ v15 = Off /\ v16 = Off /\ v17 = Off
     /\ v18 = Off
  \/ /\ part = "link" /\ Link!Init
     /\ v11 = Off /\ v12 = Off /\ v13 = Off /\ v14 = Off /\ v15 = Off /\ v16 = Off
     /\ v17 = Off /\ v18 = Off
  \/ /\ part = "again" /\ Again!Init
     /\ v11 = Off /\ v12 = Off /\ v13 = Off /\ v14 = Off /\ v15 = Off /\ v16 = Off
     /\ v17 = Off /\ v18 = Off
  \/ /\ part = "login" /\ Login!Init
     /\ v7 = Off /\ v8 = Off /\ v9 = Off /\ v10 = Off /\ v11 = Off /\ v12 = Off
     /\ v13 = Off /\ v14 = Off /\ v15 = Off /\ v16 = Off /\ v17 = Off /\ v18 = Off
  \/ /\ part = "screen" /\ Screen!Init
     /\ v18 = Off
  \/ /\ part = "gate" /\ Gate!Init

Saving ==
  /\ part = "file" /\ File!Next
  /\ UNCHANGED <<part, v14, v15, v16, v17, v18>>

Noting ==
  /\ part = "notes" /\ Notes!Next
  /\ UNCHANGED <<part, v6, v7, v8, v9, v10, v11, v12, v13, v14, v15, v16, v17, v18>>

Scripting ==
  /\ part = "ctl" /\ Ctl!Next
  /\ UNCHANGED <<part, v7, v8, v9, v10, v11, v12, v13, v14, v15, v16, v17, v18>>

Calling ==
  /\ part = "client" /\ Client!Next
  /\ UNCHANGED <<part, v12, v13, v14, v15, v16, v17, v18>>

Connecting ==
  /\ part = "link" /\ Link!Next
  /\ UNCHANGED <<part, v11, v12, v13, v14, v15, v16, v17, v18>>

ConnectingAgain ==
  /\ part = "again" /\ Again!Next
  /\ UNCHANGED <<part, v11, v12, v13, v14, v15, v16, v17, v18>>

LoggingIn ==
  /\ part = "login" /\ Login!Next
  /\ UNCHANGED <<part, v7, v8, v9, v10, v11, v12, v13, v14, v15, v16, v17, v18>>

Showing ==
  /\ part = "screen" /\ Screen!Next
  /\ UNCHANGED <<part, v18>>

Waiting ==
  /\ part = "gate" /\ Gate!Next
  /\ UNCHANGED <<part>>

Next ==
  \/ Saving
  \/ Noting
  \/ Scripting
  \/ Calling
  \/ Connecting
  \/ ConnectingAgain
  \/ LoggingIn
  \/ Showing
  \/ Waiting

Spec == Init /\ [][Next]_vars

\* Each part under the fairness of its module.
FairSpec ==
  /\ Spec
  /\ \A k \in Client!Links : WF_clientVars(part = "client" /\ Client!ServeSteps(k))
  /\ \A c \in Calls : WF_clientVars(part = "client" /\ Client!CallSteps(c))
  /\ WF_linkVars(part = "link" /\ Link!ClientTask)
  /\ WF_linkVars(part = "link" /\ Link!DaemonTask)
  /\ WF_linkVars(part = "link" /\ Link!StreamStarts)
  /\ \A b \in 1 .. 1 : WF_linkVars(part = "link" /\ Link!BridgeTask(b))
  /\ WF_againVars(part = "again" /\ Again!ClientTask)
  /\ WF_againVars(part = "again" /\ Again!DaemonTask)
  /\ WF_againVars(part = "again" /\ Again!StreamStarts)
  /\ \A b \in 1 .. 2 : WF_againVars(part = "again" /\ Again!BridgeTask(b))
  /\ \A u \in Uses : WF_loginVars(part = "login" /\ Login!BrokerStep(u))
  /\ \A u \in Uses : WF_loginVars(part = "login" /\ Login!HelperStep(u))
  /\ \A u \in Uses : WF_loginVars(part = "login" /\ Login!CleanUpStep(u))
  /\ \A a \in Agents : SF_gateVars(part = "gate" /\ Gate!AgentStep(a))
  /\ \A o \in Owners : SF_gateVars(part = "gate" /\ Gate!OwnerStep(o))
  /\ \A o \in Owners : SF_gateVars(part = "gate" /\ Gate!AsksAgain(o))
  /\ WF_gateVars(part = "gate" /\ Gate!Tick)

-----------------------------------------------------------------------------
(* Properties.                                                             *)

\* The variables of the part at hand keep their types.
TypeOK ==
  /\ part = "file" => File!TypeOK
  /\ part = "notes" => Notes!TypeOK
  /\ part = "ctl" => Ctl!TypeOK
  /\ part = "client" => Client!TypeOK
  /\ part = "link" => Link!TypeOK
  /\ part = "again" => Again!TypeOK
  /\ part = "login" => Login!TypeOK
  /\ part = "screen" => Screen!TypeOK

\* Whoever asks the daemon is served once and told the truth: calls of the MCP server and
\* commands of vidactl, and the helpers that ask for a login's secret, which goes with it.
AskersAreToldTheTruth ==
  /\ part = "client" => Client!WrittenOnce /\ Client!SteadyCallsSucceed /\ Client!OneRotationSurvived
  /\ part = "ctl" => Ctl!CodesTellTheTruth /\ Ctl!ActsOnTheHostMeant
  /\ part = "login" => Login!SecretsGo /\ Login!HelpersAreAnswered

\* What was answered, recorded or printed is there: a change in the file and what a restore
\* replaced in a backup, vaults of every age open, an agent's change in the audit file;
\* what is pushed reaches its stream in order and once, the oldest of a full channel apart,
\* and the newest always; no row is lost but by an overflow of the channel, and the final
\* screen in no case.
DeliveredWhole ==
  /\ part = "file" => File!AnsweredIsDurable /\ File!ReplacedIsKept /\ File!OldVaultsOpen
  /\ part = "notes" => Notes!ChangesAreAudited
  /\ part = "link" => Link!PushesArrive
  /\ part = "again" => Again!PushesArrive
  /\ part = "screen" => Screen!LossOnlyByOverflow /\ Screen!FinalScreen

\* No step undoes what it is not about: an agent's change of one section of the notes
\* leaves the others alone, and no row of the desktop's grid goes back to an older one.
NothingIsUndone ==
  /\ [][part = "notes" => Notes!ChangesOneSection]_notesVars
  /\ [][part = "screen" => Screen!RowsGoOn]_screenVars

\* Nobody waits for ever: calls end, requests and streams end with their connection,
\* closing a terminal returns, and the owners hear of the end of every approval.
Returned ==
  IF part = "client" THEN \A c \in Calls : ~Client!Ongoing(c)
  ELSE IF part = "link" THEN Link!Served
  ELSE IF part = "again" THEN Again!Served
  ELSE IF part = "login" THEN \A u \in Uses : ~Login!Closing(u)
  ELSE IF part = "gate" THEN \A e \in Execs : ~Gate!Shown(e)
  ELSE TRUE
EveryoneReturns ==
  part \notin {"file", "notes", "ctl", "screen"} => []<>Returned
=============================================================================
