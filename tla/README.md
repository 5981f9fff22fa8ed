# vida: formal models of the daemon, its clients and the desktop application

vida keeps SSH credentials in an encrypted vault, opens terminals with them, and
lets AI agents run commands in those terminals under the owner's control. This
directory holds TLA+ models of the parts of it in which steps of several actors
meet, the TLC configurations that check them, and proofs that TLAPS checks.

Paths are relative to `src/crates/` unless they start with `src/`.

## 1. The system

```
 GUI, vidactl, vida-mcp --vida-client--> vida-daemon --Unix socket--> session host
   (one WebSocket each)                  vault, sync,                 PtyEngine, terminals,
                                         agent gate                   unlock cache
                                             |
                                         shared folder (other devices)
```

| component | state | operations | what makes it correct |
|---|---|---|---|
| push channel (`vida-daemon/src/pty/push.rs`) | a queue, a channel of wake-ups | send_drop_oldest, recv, try_recv | keeps the newest, in order; no premature end; the receiver catches up |
| session engine (`vida-daemon/src/pty/mod.rs`, `push.rs`) | per session: terminal, damage, subscribers, child, closed flag | open, input, resize, scroll, subscribe, close, finalize; pump, reader and push threads | the client ends up with the screen the terminal has; every session ends once |
| session host (`vida-daemon/src/session_host.rs`) | the engine, the unlock cache, its connections | one request per message, push streams, exit rule | one host per user; never exits while it is needed; a request executed at most once |
| agent gate (`vida-daemon/src/agent.rs`, `ws_server.rs`) | bindings, pending approvals, audit file | AgentExec, approve, deny, list, open, close, expiry | audited before sent; sent at most once; dangerous only with consent; one end for an approval |
| vault state (`vida-daemon/src/state.rs`) | vault, passphrase, coordinator | create, unlock, lock, edits, settings, restore, sync, resolve | memory and disk agree; nothing of a locked vault stays |
| synchronisation (`vida-core/src/sync.rs`) | baseline, in memory and in `sync_state.json` | sync, resolve, clear | no edit is overwritten unseen; "no change" means equal |
| vault format and persistence (`vida-core/src/persist.rs`, `vault.rs`) | vault.age, backups | write_atomic, save_vault, rotate_backups, migrations | what was answered survives; every age of vault opens |
| host notes, drafts (`vida-core/src/host.rs`, `vida-daemon/src/agent.rs`) | notes in sections, drafts | read, check, audit, update a section | audited first; one section changes |
| daemon connections (`vida-daemon/src/ws_server.rs`) | token and port files, bridges, bounded queues | authentication, dispatch, subscribe, events | whoever asks is answered; streams end with their connection |
| client library (`vida-client/src/lib.rs`) | pending requests, push registry | connect, send, subscribe, event streams | a response reaches its request; no push is lost before its subscriber |
| SFTP and SSH authentication (`vida-daemon/src/sftp.rs`, `ssh_auth.rs`) | key files, a broker per login | prepare, ask, answer, clean up | secrets go with the login; helpers are answered |
| MCP server, `vidactl` (`vida-mcp-cli`) | one shared connection; one process per command | tool calls, retries; commands, exit codes | writes happen once; errors and codes are true |
| GUI, terminals (`vida-gui/src/app.rs`) | tabs, streams, the connection, restoration flags | open, subscribe, lose, restore, lock | a surviving shell is kept; every tab recovers |
| GUI, screens (`app.rs`, `screens/`) | one form, list or dialog per screen | update's messages and the tasks they start | acts on what was shown; nothing stays busy |
| GUI, rendering (`term/`) | grid, size, scroll flag, selection | resize, scroll, type, select, copy, draw | the screen shown is the terminal's; a copy is what was selected |
| keyring cache, danger rules, translations, configuration, test tool | | | not modelled, see section 5 |

How they interact. A connection's requests are handled one at a time; requests of
different connections interleave at every place a handler releases the vault mutex or
the agent mutex (both tokio mutexes). The daemon calls the session host synchronously
over one socket with a 10 s timeout. Terminal output goes from the reader thread to the
pump thread to the push loop, through one bounded channel per subscriber in the host,
over a socket, through a second bounded channel in the daemon, which a bridge task
polls, to the WebSocket and the client's grid; either channel drops its oldest item when
it is full. The GUI handles one message at a time, and each handler may start tasks
whose answers come back as messages in any order. Devices share nothing but one file in
a folder that a cloud service may copy.

What is hard here: the two halves of the push channel are updated without a common
lock; frames are incremental but the channel drops; a decision about a command is
made in four critical sections; a call of the host may have been executed although
it failed; audit writes fail after the state has changed; a synchronisation is
half a dozen file operations any of which may fail or be the last one before a
crash; folder writers race; answers reach the GUI after the screen they were asked
for has changed; and connections, daemons and sessions end separately and each must
be noticed by the others. `PROJECT.json` lists each such place under "hazards", with
its line and the properties that watch it.

## 2. Modules

| module | models | extends or instantiates |
|---|---|---|
| `PushChannel` | the bounded channel with its two receivers | |
| `ScreenPush` | a session's pump, push loop, subscription, end, and the client's grid | extends `PushChannel` |
| `ApprovalLedger` | what the gate promises of one command: the stages it goes through | |
| `AgentGate`, `AgentGateProofs` | agents, owners, the controller, audit file, sessions, crashes | instantiates `ApprovalLedger` |
| `HostNotes` | an agent's notes and drafts | |
| `VaultSync`, `VaultSyncProofs` | several devices' vaults and baselines and the shared folder | |
| `VaultFile` | the vault file, its backups and its formats | |
| `SessionHost` | daemons, hosts, the socket file, connections, exit rule, unlock cache | |
| `SessionEngine` | the engine's lock, the sessions' mutexes, children and threads, the requests | |
| `SessionProofs` | proofs of engine and host | extends `SessionEngine` and `SessionHost` |
| `SshLogin` | key files, the askpass broker and its helper | |
| `Connection` | one WebSocket between GUI and daemon, both tasks, bridges, events | |
| `PushProofs` | proofs of `PushChannel`, `ScreenPush` and `Connection` | extends `ScreenPush`, instantiates `Connection` |
| `AgentClient` | finding the daemon, authentication, the MCP server's calls | |
| `VidaCtl` | the commands of `vidactl` | |
| `PartsProofs` | proofs of `VaultFile`, `HostNotes`, `VidaCtl`, `AgentClient` and `SshLogin` | instantiates each of them |
| `TerminalTabs`, `TerminalTabsProofs` | the GUI's terminal tabs, the client library and the daemon's connections | |
| `StartScreens` | connection failure, setup, unlocking | |
| `HostEditor`, `CredentialView`, `ApprovalPanel`, `SettingsScreens`, `SftpTab`, `SftpSelection` | the GUI's screens, each with what the daemon does for it | |
| `TerminalView`, `TerminalSelection` | the terminal's widget, grids and push loops; selecting and copying | |
| `GuiProofs` | proofs of `TerminalView` and `TerminalSelection` | instantiates both |
| `Services` | the sum of the services: one of them in each behaviour | instantiates their modules |
| `Desktop` | the sum of the screens: one of them in each behaviour | instantiates their modules |
| `ServicesProofs` | the proofs of the parts carried to both sums | extends both, instantiates the proof modules |
| other `MC_*` | constants, plans and symmetry for TLC | extend the module they name |

A definition introduced by a comment "Mutant:" is not part of a specification; it is
what a plausible slip in the code would make of the next definition, and serves to
show that the properties notice.

Several modules bound what the world does by a *plan*: a record with a number for each
kind of event (requests, faults, crashes, outputs), chosen at the start from the
constant `Plans` and counted down in `left`. The guards count; the code's own
operations are never bounded by anything but what it reacts to.

### PushChannel

`queue` and `tokens` are the `VecDeque` and the mpsc channel of unit tokens. `Push`
and `Notify` are the two halves of `send_drop_oldest`; `Take`/`Disconnected`,
`Drain` and `Pop`/`PopNothing` the three lines of `recv`; `Poll` starts `try_recv`.
`polling`, chosen once, says which of the two the receiver calls. All sends of a
channel are made under the session's lock, so one is in progress at a time
(`midSend`). `DropSender` and `DropReceiver` are the ends going away.

### ScreenPush

The session's mutex makes `Write` (the pump), `Tick` (an iteration of `push_loop`
with its send), `Subscribe` and `Finalize` atomic with respect to one another;
`midSend` keeps them apart while a send is half done, and the receiver moves at
any time. A row's content is the number of writes it has had. A frame is a
function from rows to contents; the code sends ranges of columns, which the model
widens to whole rows, so what it finds lost is lost in the code too, and
`LossOnlyByOverflow` speaks of rows. The client is the WebSocket bridge's polling
receiver followed by `ClientGrid::apply_frame`. The hop through the session host's
socket is not composed here; its receiver is the blocking one of `PushChannel`.

### AgentGate

A request in progress is a record with a program counter `pc`; a step runs from one
release of a mutex to the next. `holder` is the agent that keeps the agent mutex
while `AgentOpenSshSession` calls the host. `now` is captured when the request
arrives, as the code does, not when it gets the mutex. `audit` and `told` collect
the outcomes on file and the events broadcast for each command; `origin` is what a
session is really connected to, while `bound` and `disk` are the controller's idea
of it in memory and in `agent-sessions.json`. `Fault` makes one file write or host
call fail; a lost reply leaves the command written or the session running. A
`Crash` empties the daemon and keeps the host's sessions; the GUI's saved tabs may
supply bindings the file has not (`load_at`). A second failure inside one handler,
such as the clean-up of a failed opening, is left out, and so are denial by
validation of arguments, drafts, notes and the text of commands: `Dangerous` is the
set of commands a rule of `agent_policy.rs` matches.

### VaultSync

A vault is a revision and the set of edits it contains; a file in the folder has a
fresh hash because every encryption is salted. `op[d]` is the operation holding the
daemon's mutex, and `Start`, `Download`, `Check`, `Rename`, `Save`, `Backup`,
`Apply` and `Take` are the file operations of `sync` and `resolve_conflict` in the
code's order. `saved` is `sync_state.json`, `coord` the coordinator with its own
copy, which is read from the file only when the coordinator is created. `Restore`
and `RestoreClear` are the two halves of restoring a backup. A crash may happen
before any step in `CrashAt`; `Mishaps` says which writes may fail (with what the
code does then) and whether restores and deletions of the remote file occur.
`Races` is what the folder does with a file that is renamed over an unseen one.
Conflict files are visible to all devices at once, a detail no property depends on.
`kept` are the edits in backups.

### SessionHost

The socket file is one name, `sock`: whoever removes it removes whatever it names.
A daemon goes through `connect_or_spawn` step by step (`Probe`, `RemoveStale`,
`Spawn`, `ProbeAgain`, `Pinged`), reads the cached passphrase and then makes calls,
one at a time, on its control connection; a call that fails or takes too long drops
the connection, and the next call makes a new one. The host's main thread is the
loop of `run_host`: `Accept` when a connection waits, otherwise the four conditions
in the code's order (`Quiet`, `LookAtSessions`, `LookAtCache`, `Wipe`), each a step,
between which the connections' threads (`Serve`) go on. What a call does inside the
engine is one step here: it takes locks of its own, modelled in `SessionEngine`.

### SessionEngine

`readers` and `writer` are the engine's `RwLock`; `ses[s].mutex` the mutex of a session,
which has a holder only where it is kept across something that can wait:
`finalize_session` and `close_session` waiting for the child, `session_input` writing to
the terminal. The other critical sections are single steps. The child is an adversary:
it writes, stops reading, lets its terminal go and runs on, or exits. A request is what
a thread of the host serves (or the main thread's look at the list), with the sessions
it has yet to lock in `todo`; list_sessions keeps the engine's lock throughout, which is
how one session holds up the others. A subscription has its own channel `chan[t]`: the
items in it, up to `Room`, and whether there is a wake-up. `Push` is a turn of the push
loop, `Finalized` puts the end of the session in (`told`), and `Forward` is the host's
thread with its blocking `recv`, which throws all wake-ups away and takes one item; only
when it takes the last one has the follower heard of the end (`heard`). Its stream ends
when nothing refers to the session any more (`Dropped`), which is when its senders are
dropped, and no wake-up is left. The read lock is granted while a writer waits, as the
standard library allows; with finitely many requests the order makes no difference to
what returns.

### ApprovalLedger

The abstract specification of the gate: a command is new, asked, pending, granted,
cleared, then sent or unsent, or it is over, and no stage comes back. `AgentGate`
reads the stage off the approvals and the requests in progress (`StageOf`) and
`ImplementsLedger` is the refinement, checked in gate_approve.

### HostNotes, VaultFile

A note is a document of lines, each a heading, a text or blank; `update_notes_section`
is modelled by what it does to those lines. A request is checked, audited and applied,
each under its own lock. In `VaultFile` a name of the directory has what it names
(`now`) and what it named when the directory was last synchronised (`safe`); a power
cut leaves either, and a file whose data were not synchronised may be torn. A vault is
a number with a passphrase and the fields the migrations touch.

### SshLogin

A use of a login is a terminal or a transfer. Its key file, its broker's thread and the
askpass helper that ssh starts move on their own; `CleanUp`, `Join` and `RemoveKey` are
what ends a use, in that order. The broker reads a helper to its end before it looks at
its stop flag, as the code does.

### Connection, AgentClient, VidaCtl

`Connection` has the two tasks of a WebSocket, each of which writes before it looks at
its other sources again, with bounded buffers between them; per subscription the two
channels that drop their oldest item, `host` in the session host and `chan` in the
daemon, and the bridge behind them; the registry that keeps a prepared receiver until
the tab's stream starts; and the broadcast of events, which may skip some. `Output` and
`Exit` put an item into every `host`, `HostForwards` is the host's thread (one item for
any number of wake-ups) with the daemon's reader, and `lost` keeps what overflows
dropped. The socket between host and daemon holds nothing back. `AgentClient` has the
token and port files that daemons write when they come up and remove when they are
stopped, the one reading anew of a refused token, and the MCP server's calls over a
shared connection, repeated or not by their kind. `VidaCtl` runs commands that look a
host up, act on it and end in an exit code, while the owner renames and deletes hosts
and the gate asks for approval.

### TerminalTabs

`tasks` is the bag of tasks in progress and messages not yet handled, so that answers
overtake one another as the runtime lets them. `stream` is the push stream of a tab,
which iced starts once for a session and client; `registry` what the client library has
for it; `subs` and `fed` what a connection of the daemon has subscribed and whether the
first, full frame found a receiver. Connections break, the daemon dies with or without
its sessions, the vault is locked elsewhere. Locking and the answer to unlocking arrive
whole or not at all; resizing is in `TerminalView`; the end of a shell by itself is left
out, as is pressing Lock twice.

### The GUI's screens

`StartScreens`, `HostEditor`, `CredentialView`, `ApprovalPanel`, `SettingsScreens`,
`SftpTab` and `SftpSelection` have one action per message of `update` and one for the
daemon's side of each request. Requests under way are a bag, timers carry the token
they were made with, and the owner may do anything the screen offers at any time. What
is shown together with what it was computed from is kept where a property compares
them (the preview's file and passphrase, the host a credential is of, the remote
directory's number of changes). Languages, folder pickers, sections of the settings and
the look of lists are left out.

### TerminalView, TerminalSelection

A screen is a size and the number of outputs it has shown; a frame does not say its
size. `TerminalView` has the widget's state, the ordered queue of requests, each
session's terminal with its damage, and the frames on their way back. Two fields of a
terminal are there for a property only: the size it had at the last turn of its push loop
(`was`), and whether it has come back to that size since (`returned`). A picture is `clean`
when no row of it is of another screen, and `whole` when none is missing. In
`TerminalSelection` a line has the number it was written with and a version for each time
it was written again; the daemon keeps a history and the place of the view in it, and the
widget names rows by their place in what is left of the history and keeps what it has seen.

### Desktop and Services

The parts in them share no state, so that their product would only multiply their
states. Each behaviour is of one part, chosen at its start (`desk` or `part`), in the
variables `d1`, `d2`, ... or `v1`, `v2`, ..., which stand for that part's variables by
INSTANCE; the others keep one value for ever. A property of the sum says of each part
what that part's module defines, and the fair specification has each part's own
fairness. Every action of every part is taken. `MC_Desktop` and `MC_Services` give the
constants their values.

## 3. What is checked

Every passing run explores its whole state space; deadlock checking is off where
the bounds or the ends of a session stop the model.

| run | bounds | shows |
|---|---|---|
| push_both | capacity 4 as in the code, 7 sends, both receivers, fair | `NewestKept`, `NoPrematureEnd`, `ReceivedInOrder`: enough sends to overflow the queue and go on; `PollerCatchesUp` for `try_recv` |
| push_lost_wakeup (violation) | blocking receiver, 3 sends, fair | `CatchesUp` fails for the host's receiver |
| gate_approve | 1 agent, 2 owners, 1 dangerous command, 1 fault, 1 crash | `AuditBeforeDispatch`, `AtMostOnce`, `OneEnd`, `DangerNeedsConsent`; `ImplementsLedger`, the refinement |
| gate_close | 2 agents, 1 owner, 2 sessions, 1 host, 1 dangerous command | `OneAgentLogin`, `EndsWithItsSession` without faults and crashes |
| gate_relogin (violation) | 1 agent, 2 sessions, 1 crash | `OneAgentLogin` fails |
| sync_crash | 2 devices, 2 edits, 2 of: a restore, a failed save of the baseline, a crash at any step but inside a download | `NothingLost`, `SyncedMeansEqual`, `NoBlindReplacement` |
| sync_adverse | 2 devices, 1 edit, racing renames and conflict files, 2 of: any failing call, a restore, a deletion | `BaselineTrue` |
| host_restart | 1 daemon that starts again and again, 2 hosts, 1 terminal, 3 connections, 2 deaths or time-outs, fair | `LeavesEmpty`, `AdoptedHostStays`, `TerminalsReachable`, `NeedlessExits` |
| engine_live | 1 session, 2 connections and the main thread, channels of 2 items, 1 piece of output, 5 requests, fair | `NothingLeftBehind`, `LastWords`, `RequestsReturn`, `FollowersLearn` |
| tabs_restore | 2 tabs, 4 sessions, 3 connections; any one request and a break or a crash, or two requests and a crash, fair | `TabsAgree`: no session is shown by two tabs or meant for two; `ComesBackAsItWas`; `Recovers`, within these plans |
| desktop | the plans of `MC_Desktop`: two or three events of each kind, one or two faults, fair | `DesktopTypeOK`, the types of all nine parts; `TerminalIsTrue`, `DragsSelectTheirSpan`, `ScreensSettle` |
| services | the plans of `MC_Services`, fair | `AskersAreToldTheTruth`, `DeliveredWhole`, `NothingIsUndone`, `EveryoneReturns` |

What the properties of the two sums stand for:

| property | part and property of its module |
|---|---|
| `TerminalIsTrue` | view: `KeysAtBottom`, `ScreenSettles`; text: `NoWrongLine` |
| `DragsSelectTheirSpan` | files: `DragSelectsItsSpan` |
| `ScreensSettle` | sftp: `NothingHangs`; start, settings (synchronisation, preview, restoration, export), panel, credential and view: their liveness, that again and again nothing is under way, overdue, on show or behind; editor and settings: `SaveEnds`, that a save button is disabled for good only after a refused request |
| `AskersAreToldTheTruth` | client and caller: `WrittenOnce`, `SteadyCallsSucceed`, `OneRotationSurvived`; ctl: `CodesTellTheTruth`, `ActsOnTheHostMeant`; login and retry: `SecretsGo`, `HelpersAreAnswered` |
| `DeliveredWhole` | file: `AnsweredIsDurable`, `ReplacedIsKept`, `OldVaultsOpen`; notes: `ChangesAreAudited`; link and again: `PushesArrive`; screen: `LossOnlyByOverflow`, `FinalScreen` |
| `NothingIsUndone` | notes: `ChangesOneSection`; screen: `RowsGoOn` |
| `EveryoneReturns` | client, caller: calls end; link, again: `Served`; login, retry: closing returns; gate: every approval shown is resolved |

Each property of a run has a mutant in `PROJECT.json`. The sums' properties say several
things, so the modules keep further mutants, at least one for most of the properties in
this table, and with each of them the run finds the property violated.

What three of these say needs care, because the code does not do all one would like.

- `PushesArrive`: a tab hears its session in order and each item once, and what it does not
  hear was dropped by one of the two full channels of its subscription; the newest item is
  never dropped. "Once nothing is on its way" includes the host's channel, where an item can
  stay (`NothingLeftBehind` of `Connection` fails).
- `ScreenSettles`: the screen shown is the current one, without a row of another size or an
  older output, however often the window changed its size. It is all there except when a
  terminal came back, between two turns of its push loop, to the size it had at the first
  (`returned`): then rows, or all of it, may be missing until a whole screen is sent again
  (`ScreenIsWhole` fails).
- `NoWrongLine`: a copied row is the line that was selected. When lines leave a full history
  between the selection and the copy, it may be a later one, by at most as many lines as
  were lost (`SlidesNever` fails). The row a selection was begun at is copied with the text
  it had then or a newer one.

`FollowersLearn` of engine_live is of the same kind: when children are not in the way,
again and again every follower of a session that is over has heard of its end from its
channel, except where the end was left behind there by `recv` (`Stranded`), and no stream of
a session that was closed goes on. Nothing else a client, a child or another request does
keeps the end from its followers; that `recv` itself can is push_lost_wakeup, and
`EndIsTaken` fails for it.

Why the bounds are enough: the hazards need two of something (owners deciding about
one approval, agents opening one host, devices on one file, requests at one
session, tabs to restore, answers that overtake one another) and one failure; the
second failure or third participant adds no new kind of step. Capacity 3 in the
screen part makes the queue overflow within the bound on sends; `push_both` uses the
code's 4, and the theorems hold for every capacity from 3 on. `VaultSync` needs two
edits for a conflict and a restore or failure to go on from it. In `engine_live` five
requests let one connection open and subscribe while the other writes, closes and
lists; sessions wait for one another only through list_sessions, which keeps the
engine's lock whether its table has one entry or more; three items (the first screen, a
change, the end) overflow its channels of 2, and two of them before the host's thread runs
strand the second. `host_restart` needs a second
host for the first to be replaced after its death, and a third connection for a new
control connection while an old one is not yet closed. In `tabs_restore` four sessions
let both tabs get a new one, and three connections let a reconnection itself break.
`MaxBackups` is 2 in the file part: the rotation's loop has a first, a last and a step
that shifts. The rooms of `Connection` are 1, which makes every wait for room happen, and its
channels hold 2, so that the first screen, a frame and the end overflow each of the two; the
theorems hold for rooms and channels of every size. The second subscription (`Again`) is
followed over one frame. In the view part the window has three sizes and changes up to three
times, which is what it takes to leave a size, pass another and come back; in the text part
the history has two lines and up to three are written, so that it is full and loses some
under a selection, and a row is written again under one.

### Where the code and its documentation disagree

Each of these is a run that finds the property violated; `PROJECT.json` quotes the
sentence.

- push_lost_wakeup: `recv` discards the wake-ups of items it has not taken, so the
  last frames of a burst (or the end of the session) can stay in the session host's
  queue until the next send or the end of the sender.
- gate_relogin: a crash between starting and binding a session defeats the
  idempotence of `AgentOpenSshSession`.

### Further observations

The models have properties that fail and are not part of the runs. To see one, add it
to the configuration of the module's run, with the constants the table names; for a
part of a sum, name it there with the part's prefix (`View!InputAtBottom`).

| module | property | what happens |
|---|---|---|
| `ScreenPush` | `FinalStateArrives` | frames are incremental, so a dropped one takes rows with it that nobody sends again |
| `AgentGate` | `ReadonlyRejectsAll` | a session bound between the two look-ups of AgentExec is judged by the trust `Ask`, whatever its host's trust |
| `AgentGate` | `NoSilentEnd`, with `MaxFaults` 1 | when the audit line of a denial, expiry or cancellation cannot be written, the approval is gone and no event is broadcast |
| `HostNotes` | `AuditReadable`, `AuditInOrder` | a crash within an audit line leaves a file that cannot be read; two updates are audited in one order and applied in the other |
| `HostNotes` | `UpdatesOneSection`, with text that has a heading | the text breaks out of its section |
| `VaultSync` | `ReplacesWhatItExpected`, with `Races = {"overwrite"}` | upload's check and its rename are not one step |
| `VaultSync` | `SyncedMeansEqual`, with `Mishaps` of "edit", of "apply", of "cleanup" and "restore", or with `Races = {"copy"}` | ways in which a revision repeats or an old baseline comes back, after which vaults that differ pass as equal; the last after a restore whose clean-up failed, where "keep sync off" (`state.rs`, 254) lasts until the next unlock |
| `VaultSync` | `NoBlindReplacement`, with "take" in `CrashAt` | after a crash between a downloaded vault and its baseline the next synchronisation takes the vault for a local change |
| `VaultFile` | `FileOpens` | a download is written before it is decrypted; if it has another passphrase the file no longer opens with this one's (`state.rs`, 609) |
| `VaultFile` | `ReplacedIsSafe`, `BackupsDiffer` | the copy made by the rotation is never synchronised (`persist.rs`, 171); restores that fail fill the backups with one vault |
| `VaultFile` | `IdsStay` | `vault.rs`, 79, has ids that never change; a vault of version 1 or 2 gets new ones at every opening until it is saved |
| `SessionHost` | `TerminalsReachable` without its premise | a daemon dies while it starts a host; the next one starts another, and one of the two removes the socket of the other |
| `SessionHost` | `RememberedStays` | the exit rule checks the unlock cache and empties it in two critical sections (`session_host.rs`, 547): a passphrase remembered in between is dropped, against `src/docs/decisions.md`, 1054 |
| `SessionEngine` | `EveryRequestReturns` | a child that lets its terminal go and runs on, or takes no input, holds up its session, list_sessions and with that every later opening and closing |
| `SessionEngine` | `EveryStreamEnds` | a subscription made after the end of a session gets its screen and then nothing |
| `SessionEngine` | `EndIsTaken` | the host's thread of a subscription takes one item for any number of wake-ups, and nothing follows the end of the session: its follower does not hear of it until the session is closed |
| `SshLogin` | `KeysGoAtOnce`, `KeysStayWhileUsed` | a transfer's key that could not be written whole has no owner that removes it (`sftp.rs`, 73); a second session host removes the key files of the first (`session_host.rs`, 516) |
| `SshLogin` | `HelpersAreAnswered`, with `Inherits` | where accepted sockets are non-blocking like their listener (macOS), a helper that has not yet sent is refused (`ssh_auth.rs`, 44) |
| `Connection` | `NothingLeftBehind` | the host's thread throws wake-ups away with an item still in its channel: the newest frame, or the end, stays there until the session pushes again |
| `Connection` | `NeverJammed` | both ends write at once on full buffers, and neither reads |
| `Connection` | `NeverStale`, `NoLateStream` | on a second subscription the new bridge starts before the old one is aborted (`ws_server.rs`, 186); a stream that starts after its connection ended never ends (`vida-client/src/lib.rs`, 374) |
| `AgentClient` | `FilesLead`, `LoginOnce`; `OneRotationSurvived`, with a plan of `overlaps` 1 | of two daemons at once one removes the other's files, or each makes a token and the files name one of them; a repeated opening logs in again |
| `VidaCtl` | `StillMeant` | a host renamed between the look-up and the request is changed all the same |
| `TerminalTabs` | `LiveIsSubscribed` (`RefusedPlans`, `OvertakenPlans`), `RecoversAlways` (`StrandedPlans`), `PendingHasTabs` (`ClosedPlans`) | a tab marked live by an answer that was overtaken has no subscription; an SSH tab of a locked vault waits; a restoration stays due without tabs |
| `TerminalTabs` | `WaitingIsPending`, `Recovers`, with `LostAgainPlans` | the connection is lost again before the end of a restoration is handled: `TerminalReconnected` (`app.rs`, 3640) clears what is due since, and a tab that was opened meanwhile stays closed, because the cooldown lets nothing reconnect for it |
| `StartScreens` | `RefusedIsLocked` | unlocking sets vault and passphrase before `init_sync`, whose error is answered as a refusal (`state.rs`, 120) |
| `StartScreens` | `UnlockReconnects`, `ErrorsStay` | the unlock screen with a dead connection has no way back to connecting (`app.rs`, 1554); an older error's timer hides a newer one |
| `HostEditor` | `EditorTrust` | `update_host` answers with the summary of the last host (`state.rs`, 561), whichever was edited, and the trust goes to that one's id (`app.rs`, 2127), against `src/docs/decisions.md`, 1125; or the second request fails and the trust is lost |
| `HostEditor` | `FormsAreKept`, `SaveReturns`, `NotesStay`, `DraftsShown` | a late answer closes another form (`app.rs`, 2148); a refused save leaves the button disabled (`app.rs`, 2058), which `SaveEnds` shows to be the only way; notes written meanwhile are overwritten by the form's; a draft is not shown after a synchronisation |
| `CredentialView` | `ShowsItsOwn`, `OtherTextStays` | an answer is bound to the page active when it arrives (`app.rs`, 1848); other text is cleared between the look at the clipboard and the clearing (1887) |
| `ApprovalPanel` | `PendingIsShown`, `DisplayStays` | a list that was answered before a request arrived drops it until the next tick (`app.rs`, 1383); a new request takes the place of the one being read (1283) |
| `SettingsScreens` | `SaveReturns`, `PreviewIsCurrent`, `SyncedMeansSettled`, `LookIsSaved`, `FolderIsSet`, `LockedStaysClosed`, `BackupsSurvive` | a refused save leaves the button disabled (`app.rs`, 2490); late answers meet changed fields; handling one of two conflict files shows "synced"; an export is written in place (`app.rs`, 2731) |
| `SftpTab` | `StaysWhereAsked`, `OneDownload`, `DownloadsSelection`, `ShowsUploads` | older lists take the owner back; an upload's error frees downloads; names are joined to the path shown when the file chooser returns |
| `SftpSelection` | `SelectsWhatIsShown` | a drag over filtered rows selects the hidden ones between them |
| `TerminalView` | `ScreenIsWhole` | between two turns of the push loop the terminal goes to another size and returns: the widget's grid was emptied, and the whole screen it needs is not sent since it equals the last one that was (`push.rs`, 450), until the terminal writes again |
| `TerminalView` | `InputAtBottom`, `FitsWindow`, `ViewIsWhole` | an input method's commit does not scroll back (`src/docs/decisions.md`, 1021); the widget does not resize the terminal it is switched to (`widget.rs`, 555); partial frames carry bottom rows into a scrolled view (`push.rs`, 262) |
| `TerminalSelection` | `SlidesNever` | rows are numbered from the oldest line that is left (`push.rs`, 193): when lines leave a full history the selection names later ones |
| `TerminalSelection` | `NothingLeftOut` | rows that were never in view between two pictures are left out of the copy |

Others: the answer "reupload" to a missing remote file has no effect;
`ignore_conflict_file` leaves the baseline where the contract of
`ConflictFilesDetected` clears it; deleting the remote file lets a device that never
synced create it anew; a session that ended but was not closed keeps a host without a
daemon alive; a host whose parent dies before it calls getppid never exits; opening a
session whose registration fails leaves it running although an error was answered.

### Fairness

- `PushChannel!FairChannelSpec`: the sender finishes a send it began (straight-line code)
  and the receiving thread or task runs whenever it can. Nothing obliges the
  terminal to send or either side to stay.
- The gate part of services: strong fairness for the steps of a request in progress,
  because tokio's mutex serves its waiters in order, so a waiter gets it although it
  is taken again and again; weak fairness for the clock; strong fairness for a GUI
  that shows an overdue approval asking for the list, because it does so on a
  one-second timer for as long as it shows one (`vida-gui/src/app.rs`, 1005 and
  1445). Arrivals of requests, crashes and the owner's decisions are never assumed.
- `SessionHost!FairHostSpec`: weak fairness for the host's main thread, which sleeps 25 ms
  at most, and for the threads of its connections. Nothing obliges a daemon: that a
  needless host exits is the host's own doing.
- `SessionEngine!FairSpec`: weak fairness for each thread. No order among those who
  wait for a lock is assumed, and none is needed since the requests are finite. The push
  loop goes on by itself, the host's thread of a subscription once it is woken.
  Children are obliged to nothing; `RequestsReturn` and `FollowersLearn` have the
  premise that in the end no child is in the way (`Obliging`), which is the exact
  boundary between what holds and what `EveryRequestReturns` shows.
- `TerminalTabs!FairSpec`: weak fairness for the tasks and messages of each kind and
  for the streams, which the runtime polls; for `DaemonStarts`, since the daemon is kept
  running by its owner; and for `PatientRetry`, a user who sees the connection failed
  and nothing under way presses "connect" again. `Recovers` needs both: nothing in the
  GUI starts a daemon or tries for ever.
- The screens: weak fairness for the daemon's answers and for the handling of messages,
  and for timers (`CredentialView`, `TerminalView`'s redraw and blinking). In the settings
  each kind of task goes on by itself (`GoesOn`): a synchronisation is not held up by an
  export. The panel's
  tick is strongly fair, being a timer that other messages can hold up but not stop.
  The owner is obliged to nothing.
- `Connection`, `AgentClient`, `SshLogin`: weak fairness for each task or thread, and
  for a helper that was started; what returns in `Connection` does so without the threads of
  the host (`HostForwards` has no fairness). Nobody has to call, type or start a daemon.
- `VaultSync`, `VaultFile`, `HostNotes`, `VidaCtl`, `ScreenPush`, `SftpTab`,
  `SftpSelection` and `TerminalSelection` state no liveness: what they do runs only when
  somebody asks, and the way of a frame is that of `PushChannel`. `SftpTab` says in
  `NothingHangs`, an invariant, that whatever shows as busy has a request under way.

## 4. What is proved

The proofs are checked with TLAPS for every value of the constants, under the
assumptions named here. Each argument is an inductive invariant, which TLC checked on a
small instance before it was proved; the proof that a step preserves it has a lemma per
action, or per kind of change where several actions change the state alike.

Eight modules hold the proofs. `PushProofs` is about three components, `SessionProofs` and
`GuiProofs` about two each; `PartsProofs` is about five, which it reaches through plain instances:
`File!TypeOK` is `TypeOK` of `VaultFile` with the same constants and variables. What a
component supposes of its constants is an assumption of its own, or an operator
(`HostConstants`, `FileConstants`, ...) that the theorems have as a premise and that a run
assumes, of the component or of its instance.

`PushProofs` proves of `PushChannel` `ChannelTypeOK`, `NewestKept`, `NoPrematureEnd` and
`ReceivedInOrder`, for every capacity from 3 on. `NewestKept` needs only that a send
appends the next number. The argument for `NoPrematureEnd` is the inductive invariant
relating tokens and queue: while a receiver is between its drain and its pop the queue
is not empty unless the sender has gone, because every token has an item behind it that
only this receiver can pop and an overflow leaves a queue at capacity. `ReceivedInOrder`
follows from `NewestKept`, since the head of the queue is always beyond `got`.

Of `ScreenPush` it proves `TypeOK`, `LossOnlyByOverflow`, `FinalScreen` and
`RowsNeverGoBack` under `ScreenConstants` (the channel's assumptions and a bound on
the writes, which a run assumes of its instance), and that the composition implements `PushChannel`
(`ScreenUsesChannel`). `Ordered` is the heart: of each row, what the client shows is no
newer than the frames in the queue, these grow from the oldest on, and none is newer
than the terminal. So a frame that is painted late undoes nothing, and a frame skipped
because it equals the last one had all been sent (`LastInv`), even when the subscription
came between.

Of `Connection` it proves `TypeOK` and `PushesArrive`, under
`ConnectionConstants` (there is room in every queue and channel). A request is in one place only
(`Requests`); every approval is known to the window or on its way to it in the list or an
event, once the list has been handled, unless the receiver lagged (`Approvals`); and a
frame passes seven stations from the session to the tab, two of them the bounded channels
(`Pipe`): each station is in order, holds later frames than those before it, and together
with what the two channels dropped they hold every frame from the first one, which alone is
of the whole screen; and what was dropped was never the newest, since a channel that drops
takes a newer item in. When nothing is on its way the first station, the tab, has the
newest. `ConnectionConstants` puts no bound on the frames, so overflows are included for
every capacity. That the daemon's two queues to one socket keep this order rests on
there being one bridge per session, which a second subscription over the same connection
breaks; for such a session only what had arrived before is claimed (and `NeverStale`
fails, section 3).

`AgentGateProofs` proves `TypeOK`, `AuditBeforeDispatch`, `AtMostOnce` and `OneEnd`,
from the three assumptions of `AgentGate`. None is inductive by itself. `GateInv`
strengthens the type invariant (which says of each program counter what the request
knows) with `ExecInv(e)`: a command has at most one holder, which is a pending entry or
one request past its decision; where the holder stands determines what the audit file
has on it and whether it was sent. Every action either leaves a command alone, hands it
on, or ends it, and the step lemmas of the module follow that division.

For the others, `KnowsInv` adds what bindings and waiting requests remember of their
sessions: a binding names what its session is connected to, and a request past the
look-up of the trust has seen the trust it decides by, although sessions close and
trusts change while it waits. From it follows `DangerNeedsConsent`, under any faults and
crashes. `PendingBound` (an approval's session is bound) holds while no write fails
(`MaxFaults = 0`); with `MaxCrashes = 0` too, `EndsWithItsSession` and `OneAgentLogin`,
the latter by `LoginInv`: between the look for a session of a host and the binding of a
new one the agent keeps the mutex, so that no other finds none. These premises are the
runs'; gate_relogin shows what a crash does. `GateImplementsLedger` proves the
refinement with `LifeInv`, which says of each stage what the gate has of a command, so
that each step moves the stage as `ApprovalLedger` allows or leaves it.

`SessionProofs` proves of the engine `TypeOK`, `NothingLeftBehind` and `LastWords`, from
`EngineAssumption`. `EngineInv` has two parts that need each other. `Sane` relates the
fields of one session: which of its threads have ended, what is still under way between
them, and who holds its mutex. `ReqInv` ties a request's program counter to the locks: a
thread is among `readers` exactly while it has yet to lock or is writing, and a
session's mutex is kept by a request exactly between its look at the session and its
answer. A channel with a wake-up has an item (`Filled`), so that the host's thread finds
one when it is called up. That `close_session` finds the child it is to kill while a reader thread may be
on its way into `finalize_session` is settled by the mutex alone, and the invariant says
how.

Of the host it proves `HostTypeOK`, `LeavesEmpty`, `AdoptedHostStays` and, under the
premise `OneAfterTheOther`, `TerminalsReachable`, all under `HostConstants`. `ExitRule` is
the heart of `HostInv`: the four conditions are read one after the other while the
connections' threads go on, but only a connection can bring a terminal or a passphrase,
connections come only from the thread that is reading, and so what was seen at the first
look stays true up to the last. `Controlled` says that a daemon's connection is its own
and stays until it closes it, which with `ExitRule` gives `AdoptedHostStays`. `OneHost`
adds that of the hosts which have bound and not yet removed the socket file there is
one, the one the file names. Its premise (one daemon at a time, and none that ends
between removing a stale file and reaching its host) is what the code relies on; without
it the property fails (section 3).

`VaultSyncProofs` proves `TypeOK` and `BaselineTrue`, whatever fails, from the
assumptions of `VaultSync` (finitely many devices among them). `OpsInv` says of each
operation what it holds at which step. `HashInv` is the argument for the baseline: a
hash stands for one revision and one set of edits wherever it is found, since every
encryption has a fresh hash, which exists because only finitely many are in use.
`SyncedMeansEqual` has the premises that a folder only overwrites, that no write fails
between disk and memory (`SteadyWrites`) and that a restore forgets the old baseline
(`CleanRestores`); racing uploads, crashes and deletions are allowed. `AlignedInv` keeps
memory and disk together, `MatchedInv` says that where the baseline names the file in
the folder, a vault of its revision has the edits of that file. `NothingLost` and
`NoBlindReplacement` need a folder without racing writers and no death between a
download and its baseline (`QuietFolder`): `SafetyInv` follows every edit from a device
to the folder and from there to a device or a backup. Section 3 shows what can happen
without these premises.

`TerminalTabsProofs` proves `TabsAgree` and `ComesBackAsItWas` from `BoundsAssumption`,
for any number of tabs, sessions and connections, any plan and any faults. `Once` says
that a task that brings a session is in the bag once, `OneTabPerSession` that the
sessions shown and those on their way are all different, `Separate` that a restoration
gives each of its tabs another session; and `Meant` that what a restoration has found
out stays true until its message is handled: a session it replaces has ended, one it
gives is subscribed as long as its connection lives and, if new, has its first frame.
Tasks are records in a bag, so every step adds, removes or replaces one of them; the
lemmas `PostMoves` and `BecomeMoves` say so once, and the step lemmas need to look at
that task only.

`PartsProofs` proves of each of five parts its type correctness and its properties.

- `VaultFile` (`AnsweredIsDurable`, `ReplacedIsKept`, `OldVaultsOpen`), under
  `FileConstants`: there is place for a vault and for a backup, and the vaults found at
  the start were written by some version. `DurableInv` says of each step of a write what
  the directory has now and what a power cut would leave. `BackupsInv` follows the
  replaced vault down the backups: after t rotations it is among the first t, and the
  rotation under way always has a free place before the one it moves next. `FormInv` has
  every form a vault can have while it is opened and migrated.
- `HostNotes` (`ChangesAreAudited`), without any premise. An entry of the audit file,
  once begun, stays, also when a crash cuts it short and the next is written behind it;
  and a request past the auditing has one (`NotesInv`).
- `VidaCtl` (`CodesTellTheTruth`, `ActsOnTheHostMeant`), under `CtlConstants`. `Truthful`
  says what is so of a process at each point: nothing is done before it asks, the answer
  tells what was done, and the code what was answered.
- `AgentClient` (`WrittenOnce`, `SteadyCallsSucceed`, `OneRotationSurvived`), under
  `ClientConstants`. `Once` says where a write can be: in one queue, at one place of it,
  unless it was never sent or has been answered, and if it has been done then at the
  head, with nothing left but the answer. `Calm` says what holds for a call while nothing
  fails: the files lead to a daemon that is up, a token that was read is the file's, and
  from the second try on the shared connection is not one that broke, since a call that
  failed took it away. `OneRotationSurvived` has the premise that daemons do not
  overlap; `RotationInv` counts how often the token must have changed for a call to be
  where it is. A token that was taken away never comes back, so one that differs from the
  one read differs for good.
- `SshLogin` (`SecretsGo`, and with blocking sockets `HelpersAreAnswered`), under
  `LoginConstants`. `Stage` goes through the life of a terminal or transfer: a broker is
  stopped, and waited for, before the key file goes, and one that is gone was stopped, was
  late, or died with its process.

`GuiProofs` proves of `TerminalView` `TypeOK`, `KeysAtBottom` and `ScreenSettles`, under
`ViewConstants`, which says of the constants what sort of thing they are and nothing of
how often anything happens. `KeysInv` looks down the queue of requests: a key finds its
terminal at the bottom after those before it, and a terminal that they leave scrolled back is
the one the widget knows to be so, or has been left since. `SizeInv` says that the sizes asked
for and not yet served lead from the size the terminal has to the one its grid has. `ScreenInv`
says of the last picture the GUI has, or will have when the frames under way are in, that it
is of the current screen alone, and all of it unless the terminal has come back to a size
between two turns (`Carry`, for both), except while the terminal is still to be resized,
damaged as a whole or scrolled back; and that the frame sent last is painted last, so that a
frame not sent because it equals that one is on the screen already, if the grid kept it.

Of `TerminalSelection` it proves `TypeOK` and `NoWrongLine`, under `TextConstants`, which
says as little. `ViewsInv` puts the views in order: the lines lost grow from the grid
through the views under way to the daemon, the number of a row and the lines lost before the
view make the number of its line, and no later view has an older version of a line. `SelectInv` says of each row
seen in a selection that it is the line meant or one moved on by at most what has been lost
since it began, and that nothing under way or at the daemon has an older text of the line it
was begun at.

`ServicesProofs` carries these to what the runs of the two sums check. Of the services: `TypeOK`,
`AskersAreToldTheTruth` and `DeliveredWhole` of `Services`, the sum. A behaviour of the sum
stays in the part it begins with and is then one of that part's module, of which the
theorem is cited through an instance of the proof module (`Parts`, `Links`,
`Agains`). The gate is in the sum for its liveness alone. The premises of
`AskersHearTheTruth` (no overlapping daemons, blocking sockets) are what the run has. Of
the desktop it proves `TerminalIsTrue`, in the same way through the instance `Gui` and
with no premise but the assumptions of `Desktop` on the constants of its parts.

Only model-checked: of the desktop run `DesktopTypeOK` (but for the terminal's two
parts) and `DragsSelectTheirSpan`, of `NothingIsUndone` the half about the notes
(`ChangesOneSection`; the other, about the screen, is `RowsOnlyGoOn` of
`PushProofs`), and all liveness, which is out of the prover's reach.

## 5. What is not modelled, and the plan

Not modelled and not planned: encryption, key derivation and random numbers (functions
of data), glyphs, colours and the translation of single keys, argument parsing, schemas
and the text of answers, the wire formats, translations and configuration tables, the
danger rules' regular expressions, the development tool `vida-term-test`. The keyring
cache is used only by states that embed their engine, which only tests make; the running
daemon keeps the passphrase in the unlock cache of `SessionHost`.

Left out within what is modelled: column ranges within a row; openings that fail after
the spawn; a second failure inside one handler; changing the synchronised folder and
iCloud's status; the names of conflict backups; batches given to sftp and the parsing of
its lists; sections, languages and folder pickers of the settings; an exiting shell in
`TerminalTabs`.

Planned, in this order:

1. Proofs about the other screens, as `GuiProofs` has them about the terminal.
2. The vault lock composed with the GUI's tabs and an agent's opening: what a lock
   leaves running, and what an opening that was under way may still do.
3. The refinement of `SessionHost`'s calls by `SessionEngine`, so that what one call
   does there in a step is what the engine does in several.
