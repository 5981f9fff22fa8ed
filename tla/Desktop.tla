------------------------------- MODULE Desktop -------------------------------
(***************************************************************************)
(* The parts of the desktop application that work side by side without     *)
(* sharing state: each behaviour is one of the part chosen at its start,   *)
(* in the variables d1, d2, ...  The constants are those of the parts,     *)
(* where they are explained.  The terminal tabs are a module by            *)
(* themselves, TerminalTabs.                                               *)
(***************************************************************************)
EXTENDS Bags, Integers, Sequences, FiniteSets

CONSTANTS
  Passphrases, MaxMishaps, MaxTries,                 \* StartScreens
  Trusts, MaxHosts, EditorPlans,                     \* HostEditor
  Hosts, MaxAsks, MaxCopies, MaxMoves,               \* CredentialView
  Approvals, PanelPlans,                             \* ApprovalPanel
  Paths, Looks, BackupFiles, Disk, SettingsPlans,    \* SettingsScreens
  Depth, HomeDir, SftpPlans,                         \* SftpTab
  Count, Filters,                                    \* SftpSelection
  Terminals, Sizes, OpenSize, Blinking, ViewPlans,   \* TerminalView
  ScreenRows, History, Jumps, TextPlans              \* TerminalSelection

VARIABLES
  desk,  \* the part that is checked in this behaviour
  d1, d2, d3, d4, d5, d6, d7, d8, d9, d10, d11, d12, d13, d14, d15, d16  \* its variables

-----------------------------------------------------------------------------
(* The parts, and what may happen in each.                                 *)

\* Setup and unlocking.
Start == INSTANCE StartScreens WITH
  screen <- d1, form <- d2, task <- d3, link <- d4, toasts <- d5, vault <- d6, mishaps <- d7,
  tries <- d8, Secrets <- Passphrases
startVars == Start!vars

\* The host editor.
Editor == INSTANCE HostEditor WITH
  vault <- d1, fresh <- d2, hosts <- d3, tabs <- d4, active <- d5, form <- d6, drafts <- d7,
  shown <- d8, work <- d9, chosen <- d10, left <- d11, Plans <- EditorPlans
editorVars == Editor!editorVars

\* The credentials of the hosts.
Credential == INSTANCE CredentialView WITH
  page <- d1, main <- d2, revealed <- d3, hideToken <- d4, hideTimers <- d5, asked <- d6,
  clip <- d7, clipToken <- d8, guard <- d9, clipTimers <- d10, reading <- d11, wiping <- d12,
  wiped <- d13, asks <- d14, copies <- d15, moves <- d16
credentialVars == Credential!credentialVars

\* The approvals of the agents.
Panel == INSTANCE ApprovalPanel WITH
  pending <- d1, over <- d2, expired <- d3, events <- d4, work <- d5, shown <- d6,
  selected <- d7, busy <- d8, open <- d9, left <- d10, Plans <- PanelPlans
panelVars == Panel!panelVars

\* The settings, the backups and the synchronisation.
Settings == INSTANCE SettingsScreens WITH
  vault <- d1, secret <- d2, locked <- d3, folder <- d4, trouble <- d5, disk <- d6,
  screen <- d7, sync <- d8, locking <- d9, form <- d10, backup <- d11, exporting <- d12,
  look <- d13, work <- d14, left <- d15, Files <- BackupFiles,
  Secrets <- Passphrases, Plans <- SettingsPlans
settingsVars == Settings!settingsVars

\* The remote directories and the transfers.
Sftp == INSTANCE SftpTab WITH
  open <- d1, here <- d2, tab <- d3, cache <- d4, dialogs <- d5, work <- d6, remote <- d7,
  asked <- d8, astray <- d9, left <- d10, Home <- HomeDir, Plans <- SftpPlans
sftpVars == Sftp!sftpVars

\* What is selected in a list of entries.
Files == INSTANCE SftpSelection WITH
  rows <- d1, selected <- d2, base <- d3, anchor <- d4, additive <- d5, dragging <- d6,
  context <- d7, loading <- d8, last <- d9
filesVars == Files!selectionVars

\* The window that shows the terminals.
View == INSTANCE TerminalView WITH
  window <- d1, active <- d2, widget <- d3, drawn <- d4, grids <- d5, up <- d6, terms <- d7,
  pushed <- d8, down <- d9, astray <- d10, typed <- d11, left <- d12, Sessions <- Terminals,
  Plans <- ViewPlans
viewVars == View!viewVars
ASSUME ViewAssumption == View!ViewConstants

\* The text that is selected in one.
Text == INSTANCE TerminalSelection WITH
  lines <- d1, offset <- d2, next <- d3, sent <- d4, down <- d5, grid <- d6, selection <- d7,
  pointer <- d8, last <- d9, picked <- d10, copied <- d11, left <- d12, Rows <- ScreenRows,
  Plans <- TextPlans
textVars == Text!selectionVars
ASSUME TextAssumption == Text!TextConstants

-----------------------------------------------------------------------------
Unused == "off"
desktopVars ==
  <<desk, d1, d2, d3, d4, d5, d6, d7, d8, d9, d10, d11, d12, d13, d14, d15, d16>>

DesktopInit ==
  \/ /\ desk = "start" /\ Start!Init
     /\ d9 = Unused /\ d10 = Unused /\ d11 = Unused /\ d12 = Unused /\ d13 = Unused /\ d14 = Unused
     /\ d15 = Unused /\ d16 = Unused
  \/ /\ desk = "editor" /\ Editor!Init
     /\ d12 = Unused /\ d13 = Unused /\ d14 = Unused /\ d15 = Unused /\ d16 = Unused
  \/ /\ desk = "credential" /\ Credential!Init
  \/ /\ desk = "panel" /\ Panel!Init
     /\ d11 = Unused /\ d12 = Unused /\ d13 = Unused /\ d14 = Unused /\ d15 = Unused /\ d16 = Unused
  \/ /\ desk = "settings" /\ Settings!Init
     /\ d16 = Unused
  \/ /\ desk = "sftp" /\ Sftp!Init
     /\ d11 = Unused /\ d12 = Unused /\ d13 = Unused /\ d14 = Unused /\ d15 = Unused /\ d16 = Unused
  \/ /\ desk = "files" /\ Files!Init
     /\ d10 = Unused /\ d11 = Unused /\ d12 = Unused /\ d13 = Unused /\ d14 = Unused /\ d15 = Unused
     /\ d16 = Unused
  \/ /\ desk = "view" /\ View!Init
     /\ d13 = Unused /\ d14 = Unused /\ d15 = Unused /\ d16 = Unused
  \/ /\ desk = "text" /\ Text!Init
     /\ d13 = Unused /\ d14 = Unused /\ d15 = Unused /\ d16 = Unused

Starting ==
  /\ desk = "start" /\ Start!Next
  /\ UNCHANGED <<desk, d9, d10, d11, d12, d13, d14, d15, d16>>

Editing ==
  /\ desk = "editor" /\ Editor!Next
  /\ UNCHANGED <<desk, d12, d13, d14, d15, d16>>

Revealing ==
  /\ desk = "credential" /\ Credential!Next
  /\ UNCHANGED <<desk>>

Approving ==
  /\ desk = "panel" /\ Panel!Next
  /\ UNCHANGED <<desk, d11, d12, d13, d14, d15, d16>>

Configuring ==
  /\ desk = "settings" /\ Settings!Next
  /\ UNCHANGED <<desk, d16>>

Transferring ==
  /\ desk = "sftp" /\ Sftp!Next
  /\ UNCHANGED <<desk, d11, d12, d13, d14, d15, d16>>

Selecting ==
  /\ desk = "files" /\ Files!Next
  /\ UNCHANGED <<desk, d10, d11, d12, d13, d14, d15, d16>>

Viewing ==
  /\ desk = "view" /\ View!Next
  /\ UNCHANGED <<desk, d13, d14, d15, d16>>

Copying ==
  /\ desk = "text" /\ Text!Next
  /\ UNCHANGED <<desk, d13, d14, d15, d16>>

DesktopNext ==
  \/ Starting
  \/ Editing
  \/ Revealing
  \/ Approving
  \/ Configuring
  \/ Transferring
  \/ Selecting
  \/ Viewing
  \/ Copying

DesktopSpec == DesktopInit /\ [][DesktopNext]_desktopVars

\* Each part under the fairness of its module.
FairDesktopSpec ==
  /\ DesktopSpec
  /\ WF_startVars(desk = "start" /\ Start!Serve)
  /\ WF_startVars(desk = "start" /\ Start!Handle)
  /\ WF_editorVars(desk = "editor" /\ Editor!Requests)
  /\ WF_editorVars(desk = "editor" /\ Editor!Messages)
  /\ WF_credentialVars(desk = "credential" /\ \E t \in d5 : Credential!HideCredential(t))
  /\ WF_credentialVars(desk = "credential" /\ \E t \in d10 : Credential!ClearClipboard(t))
  /\ WF_credentialVars(desk = "credential" /\ \E h \in Hosts : Credential!ClipboardRead(h))
  /\ WF_credentialVars(desk = "credential" /\ Credential!ClipboardEmptied)
  /\ WF_panelVars(desk = "panel" /\ \E w \in Panel!At("list") : Panel!AnswerList(w))
  /\ WF_panelVars(desk = "panel" /\ \E w \in Panel!At("decide") : Panel!AnswerDecision(w))
  /\ WF_panelVars(desk = "panel" /\ Panel!Event)
  /\ WF_panelVars(desk = "panel" /\ \E w \in Panel!At("loaded") : Panel!AgentApprovalsLoaded(w))
  /\ WF_panelVars(desk = "panel" /\ \E w \in Panel!At("handled") : Panel!AgentApprovalHandled(w))
  /\ WF_panelVars(desk = "panel" /\ \E w \in Panel!At("failed") : Panel!AgentApprovalActionFailed(w))
  /\ WF_panelVars(desk = "panel" /\ \E w \in Panel!At("unlisted") : Panel!ListUnanswered(w))
  /\ SF_panelVars(desk = "panel" /\ Panel!AgentApprovalTick)
  /\ \A a \in Approvals : WF_panelVars(desk = "panel" /\ Panel!Expire(a))
  /\ \A task \in Settings!Tasks : WF_settingsVars(desk = "settings" /\ Settings!GoesOn(task))
  /\ WF_settingsVars(desk = "settings" /\ \E w \in BagToSet(d14) : Settings!Fails(w) /\ Settings!RequestFails(w))
  /\ WF_viewVars(desk = "view" /\ View!Redraw)
  /\ WF_viewVars(desk = "view" /\ View!Blink)
  /\ WF_viewVars(desk = "view" /\ View!Serve)
  /\ WF_viewVars(desk = "view" /\ View!Receive)
  /\ \A s \in Terminals : WF_viewVars(desk = "view" /\ View!Tick(s))

-----------------------------------------------------------------------------
(* Properties.                                                             *)

\* The variables of the part at hand keep their types.
DesktopTypeOK ==
  /\ desk = "start" => Start!TypeOK
  /\ desk = "editor" => Editor!TypeOK
  /\ desk = "credential" => Credential!TypeOK
  /\ desk = "panel" => Panel!TypeOK
  /\ desk = "settings" => Settings!TypeOK
  /\ desk = "sftp" => Sftp!TypeOK
  /\ desk = "files" => Files!TypeOK
  /\ desk = "view" => View!TypeOK
  /\ desk = "text" => Text!TypeOK

\* A drag over the entries of a remote directory selects what it spans, whatever way it took
\* and whatever the keys, the filter and the context menu do meanwhile.
DragsSelectTheirSpan == desk = "files" => Files!DragSelectsItsSpan

\* The terminal shows and sends what it should: keys find the terminal at its bottom; once
\* all is quiet the screen shown is the current one, and all of it unless the terminal had
\* come back to a size unseen by its push loop; and a copied row is the line that was
\* selected or, when lines have left a full history since, one at most as many lines on.
TerminalIsTrue ==
  /\ desk = "view" => View!KeysAtBottom /\ View!ScreenSettles
  /\ desk = "text" => Text!NoWrongLine

\* Apart from two buttons nothing stays under way or on show for ever: the buttons of the
\* start screens and of the approvals come back, synchronisations, previews, restorations
\* and exports end on the screen too, as do approvals, lists and transfers have a request
\* that moves them, credentials are hidden and cleared, and what is drawn catches up with
\* the grid.  The buttons that save a host and the settings do stay disabled when a request
\* is refused (app.rs, 2058 and 2490: nothing resets the flag then), and only then.
Settled ==
  IF desk = "start" THEN ~Start!Busy
  ELSE IF desk = "settings" THEN ~Settings!Busy
  ELSE IF desk = "panel" THEN ~Panel!Deciding /\ \A a \in Approvals : ~Panel!Outlived(a)
  ELSE IF desk = "credential" THEN ~Credential!Revealed /\ ~Credential!Copied
  ELSE IF desk = "view" THEN ~View!Behind
  ELSE TRUE
SaveDisabled == (desk = "editor" /\ Editor!Disabled) \/ (desk = "settings" /\ Settings!Disabled)
SaveRefused == (desk = "editor" /\ Editor!Refused) \/ (desk = "settings" /\ Settings!Refused)
ScreensSettle ==
  /\ [](desk = "sftp" => Sftp!NothingHangs)
  /\ desk \notin {"editor", "sftp", "files", "text"} => []<>Settled
  /\ <>[]SaveDisabled => <>SaveRefused
=============================================================================
