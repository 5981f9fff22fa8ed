---------------------------- MODULE ServicesProofs ----------------------------
(***************************************************************************)
(* What PartsProofs, PushProofs and GuiProofs show of the parts, for       *)
(* Services and Desktop: each part is that of the module its proofs are    *)
(* about, and a behaviour stays in the part it begins with.                *)
(***************************************************************************)
EXTENDS Services, Desktop, TLAPS

Parts == INSTANCE PartsProofs WITH
  now <- v1, safe <- v2, memory <- v3, cache <- v4, job <- v5, made <- v6, answered <- v7,
  tried <- v8, known <- v9, replaced <- v10, turns <- v11, cut <- v12, left <- v13,
  vault <- v1, disk <- v2, audit <- v3, requests <- v4, drafts <- v5,
  names <- v1, trust <- v2, locked <- v3, gate <- v4, edits <- v5, runs <- v6,
  files <- v1, daemons <- v2, links <- v3, shared <- v4, calls <- v5, logins <- v6,
  bound <- v7, did <- v8, rotated <- v9, steady <- v10, allowed <- v11,
  use <- v1, keys <- v2, torn <- v3, broker <- v4, helper <- v5, plan <- v6,
  Requests <- Updates, Names <- HostNames

\* The frames of a terminal, and a subscription with keys and events.
Links == INSTANCE PushProofs WITH
  wire <- v1, client <- v2, asked <- v3, tab <- v4, owner <- v5, daemon <- v6, bridges <- v7,
  pushq <- v8, events <- v9, shell <- v10, Subscribes <- 1,
  term <- v1, cursor <- v2, damage <- v3, last <- v4, ended <- v5, frames <- v6, grid <- v7,
  dropped <- v8, queue <- v9, tokens <- v10, sent <- v11, midSend <- v12, sender <- v13,
  receiver <- v14, rpc <- v15, got <- v16, polling <- v17

\* A session subscribed a second time.
Agains == INSTANCE PushProofs WITH
  wire <- v1, client <- v2, asked <- v3, tab <- v4, owner <- v5, daemon <- v6, bridges <- v7,
  pushq <- v8, events <- v9, shell <- v10, MaxFrames <- 1, MaxEvents <- 0,
  MaxKeys <- 0, Subscribes <- 2,
  term <- v1, cursor <- v2, damage <- v3, last <- v4, ended <- v5, frames <- v6, grid <- v7,
  dropped <- v8, queue <- v9, tokens <- v10, sent <- v11, midSend <- v12, sender <- v13,
  receiver <- v14, rpc <- v15, got <- v16, polling <- v17

\* The window that shows the terminals, and the text that is selected in one.
Gui == INSTANCE GuiProofs WITH
  window <- d1, active <- d2, widget <- d3, drawn <- d4, grids <- d5, up <- d6, terms <- d7,
  pushed <- d8, down <- d9, astray <- d10, typed <- d11, left <- d12,
  lines <- d1, offset <- d2, next <- d3, sent <- d4, views <- d5, grid <- d6, selection <- d7,
  pointer <- d8, last <- d9, picked <- d10, copied <- d11,
  Sessions <- Terminals, Rows <- ScreenRows

-----------------------------------------------------------------------------
(* The parts.                                                              *)

LEMMA PartStays == [Next]_vars => UNCHANGED part
  BY DEF Next, vars, Saving, Noting, Scripting, Calling, Connecting, ConnectingAgain, LoggingIn,
     Showing, Waiting

LEMMA PartSteps ==
  ASSUME [Next]_vars
  PROVE  /\ part = "file" => [File!Next]_(File!fileVars)
         /\ part = "notes" => [Notes!Next]_(Notes!vars)
         /\ part = "ctl" => [Ctl!Next]_(Ctl!vars)
         /\ part = "client" => [Client!Next]_(Client!linkVars)
         /\ part = "link" => [Link!Next]_(Link!vars)
         /\ part = "again" => [Again!Next]_(Again!vars)
         /\ part = "login" => [Login!Next]_(Login!vars)
         /\ part = "screen" => [Screen!Next]_(Screen!screenVars)
<1>1. CASE UNCHANGED vars
  BY <1>1 DEF vars, File!fileVars, Notes!vars, Ctl!vars, Client!linkVars, Link!vars, Again!vars,
     Login!vars, Screen!screenVars, Screen!sessionVars, Screen!chanVars
<1>2. CASE Next
  BY <1>2 DEF Next, Saving, Noting, Scripting, Calling, LoggingIn, Connecting, ConnectingAgain,
     Showing, Waiting
<1> QED
  BY <1>1, <1>2

\* The vault file.
LEMMA FilePart == Spec => [](part = "file") \/ []~(part = "file")
<1>1. part = "file" /\ [Next]_vars => (part = "file")'
  BY PartStays
<1>2. ~(part = "file") /\ [Next]_vars => ~(part = "file")'
  BY PartStays
<1> QED
  BY <1>1, <1>2, PTL DEF Spec

LEMMA FileBehaves == Spec /\ [](part = "file") => Parts!File!Spec
<1>1. File!Init <=> Parts!File!Init
  BY DEF File!Init, Parts!File!Init, File!Names, Parts!File!Names, File!NoFile,
     Parts!File!NoFile, File!Nothing, Parts!File!Nothing, File!VaultName, Parts!File!VaultName,
     File!Whole, Parts!File!Whole, File!NoSecret, Parts!File!NoSecret, File!Idle,
     Parts!File!Idle, File!TempName, Parts!File!TempName, File!None, Parts!File!None,
     File!NoForm, Parts!File!NoForm, File!Current, Parts!File!Current
<1>2. File!Next <=> Parts!File!Next
  BY DEF File!Next, Parts!File!Next, File!Asked, Parts!File!Asked, File!Steps, Parts!File!Steps,
     File!Fail, Parts!File!Fail, File!Kill, Parts!File!Kill, File!PowerCut, Parts!File!PowerCut,
     File!CreateVault, Parts!File!CreateVault, File!Download, Parts!File!Download,
     File!RestoreBackup, Parts!File!RestoreBackup, File!UnlockVault, Parts!File!UnlockVault,
     File!Lock, Parts!File!Lock, File!Expire, Parts!File!Expire, File!Edit, Parts!File!Edit,
     File!RemoveOldest, Parts!File!RemoveOldest, File!Shift, Parts!File!Shift, File!CopyBegins,
     Parts!File!CopyBegins, File!CopyEnds, Parts!File!CopyEnds, File!CreateTemp,
     Parts!File!CreateTemp, File!WriteTemp, Parts!File!WriteTemp, File!Rename,
     Parts!File!Rename, File!SyncDirectory, Parts!File!SyncDirectory, File!Answer,
     Parts!File!Answer, File!Idle, Parts!File!Idle, File!At, Parts!File!At, File!Use,
     Parts!File!Use, File!ghostVars, Parts!File!ghostVars, File!Restarted, Parts!File!Restarted,
     File!VaultName, Parts!File!VaultName, File!Fresh, Parts!File!Fresh, File!Nothing,
     Parts!File!Nothing, File!Names, Parts!File!Names, File!Remains, Parts!File!Remains,
     File!NoSecret, Parts!File!NoSecret, File!NoFile, Parts!File!NoFile, File!Begin,
     Parts!File!Begin, File!NoForm, Parts!File!NoForm, File!Opens, Parts!File!Opens,
     File!Opened, Parts!File!Opened, File!Goto, Parts!File!Goto, File!FirstShift,
     Parts!File!FirstShift, File!JobVars, Parts!File!JobVars, File!Torn, Parts!File!Torn,
     File!TempName, Parts!File!TempName, File!Written, Parts!File!Written, File!DirectorySynced,
     Parts!File!DirectorySynced, File!Migrated, Parts!File!Migrated, File!None, Parts!File!None,
     File!Whole, Parts!File!Whole, File!Current, Parts!File!Current, File!Migrate1,
     Parts!File!Migrate1, File!Migrate2, Parts!File!Migrate2, File!Migrate3,
     Parts!File!Migrate3, File!Migrate4, Parts!File!Migrate4, File!Migrate5,
     Parts!File!Migrate5, File!Migrate6, Parts!File!Migrate6
<1>3. Init /\ part = "file" => Parts!File!Init
  BY <1>1 DEF Init
<1>4. part = "file" /\ [Next]_vars => [Parts!File!Next]_(Parts!File!fileVars)
  BY <1>2, PartSteps DEF File!fileVars, Parts!File!fileVars
<1> QED
  BY <1>3, <1>4, PTL DEF Spec, Parts!File!Spec

\* The notes.
LEMMA NotesPart == Spec => [](part = "notes") \/ []~(part = "notes")
<1>1. part = "notes" /\ [Next]_vars => (part = "notes")'
  BY PartStays
<1>2. ~(part = "notes") /\ [Next]_vars => ~(part = "notes")'
  BY PartStays
<1> QED
  BY <1>1, <1>2, PTL DEF Spec

LEMMA NotesBehaves == Spec /\ [](part = "notes") => Parts!Notes!Spec
<1>1. Notes!Init <=> Parts!Notes!Init
  BY DEF Notes!Init, Parts!Notes!Init, Notes!Nothing, Parts!Notes!Nothing
<1>2. Notes!Next <=> Parts!Notes!Next
  <2>1. \A ls : Notes!Current(ls) = Parts!Notes!Current(ls)
    BY DEF Notes!Current, Parts!Notes!Current, Notes!Trimmed, Parts!Notes!Trimmed,
       Notes!Default, Parts!Notes!Default, Notes!Blank, Parts!Notes!Blank, Notes!Heading,
       Parts!Notes!Heading, Notes!Line, Parts!Notes!Line, Notes!Min, Parts!Notes!Min, Notes!Max,
       Parts!Notes!Max
  <2>2. \A ls, s, text, replace :
          Notes!Update(ls, s, text, replace) = Parts!Notes!Update(ls, s, text, replace)
    BY DEF Notes!Update, Parts!Notes!Update, Notes!Heading, Parts!Notes!Heading, Notes!EndOf,
       Parts!Notes!EndOf, Notes!Trimmed, Parts!Notes!Trimmed, Notes!WithoutTail,
       Parts!Notes!WithoutTail, Notes!Blank, Parts!Notes!Blank, Notes!IsHeading,
       Parts!Notes!IsHeading, Notes!Line, Parts!Notes!Line, Notes!Min, Parts!Notes!Min,
       Notes!Max, Parts!Notes!Max
  <2> QED
    BY <2>1, <2>2 DEF Notes!Next, Parts!Notes!Next, Notes!Check, Parts!Notes!Check,
       Notes!AuditBegins, Parts!Notes!AuditBegins, Notes!AuditEnds, Parts!Notes!AuditEnds,
       Notes!Apply, Parts!Notes!Apply, Notes!ApplyFails, Parts!Notes!ApplyFails, Notes!Announce,
       Parts!Notes!Announce, Notes!DeleteHost, Parts!Notes!DeleteHost, Notes!Lock,
       Parts!Notes!Lock, Notes!Unlock, Parts!Notes!Unlock, Notes!Crash, Parts!Notes!Crash,
       Notes!At, Parts!Notes!At, Notes!ValidDraft, Parts!Notes!ValidDraft, Notes!Moved,
       Parts!Notes!Moved, Notes!Ready, Parts!Notes!Ready
<1>3. Init /\ part = "notes" => Parts!Notes!Init
  BY <1>1 DEF Init
<1>4. part = "notes" /\ [Next]_vars => [Parts!Notes!Next]_(Parts!Notes!vars)
  BY <1>2, PartSteps DEF Notes!vars, Parts!Notes!vars
<1> QED
  BY <1>3, <1>4, PTL DEF Spec, Parts!Notes!Spec

\* The commands of vidactl.
LEMMA CtlPart == Spec => [](part = "ctl") \/ []~(part = "ctl")
<1>1. part = "ctl" /\ [Next]_vars => (part = "ctl")'
  BY PartStays
<1>2. ~(part = "ctl") /\ [Next]_vars => ~(part = "ctl")'
  BY PartStays
<1> QED
  BY <1>1, <1>2, PTL DEF Spec

LEMMA CtlBehaves == Spec /\ [](part = "ctl") => Parts!Ctl!Spec
<1>1. Ctl!Init <=> Parts!Ctl!Init
  BY DEF Ctl!Init, Parts!Ctl!Init, Ctl!Idle, Parts!Ctl!Idle, Ctl!NoHost, Parts!Ctl!NoHost
<1>2. Ctl!Next <=> Parts!Ctl!Next
  BY DEF Ctl!Next, Parts!Ctl!Next, Ctl!Start, Parts!Ctl!Start, Ctl!NotConnected,
     Parts!Ctl!NotConnected, Ctl!List, Parts!Ctl!List, Ctl!Pick, Parts!Ctl!Pick, Ctl!Act,
     Parts!Ctl!Act, Ctl!Exec, Parts!Ctl!Exec, Ctl!Decide, Parts!Ctl!Decide, Ctl!Finish,
     Parts!Ctl!Finish, Ctl!Cut, Parts!Ctl!Cut, Ctl!Rename, Parts!Ctl!Rename, Ctl!Lock,
     Parts!Ctl!Lock, Ctl!Idle, Parts!Ctl!Idle, Ctl!AboutHost, Parts!Ctl!AboutHost, Ctl!NoHost,
     Parts!Ctl!NoHost, Ctl!Ended, Parts!Ctl!Ended, Ctl!Connection, Parts!Ctl!Connection,
     Ctl!Daemon, Parts!Ctl!Daemon, Ctl!Hosts, Parts!Ctl!Hosts, Ctl!Matching, Parts!Ctl!Matching,
     Ctl!NotFound, Parts!Ctl!NotFound, Ctl!Ambiguous, Parts!Ctl!Ambiguous, Ctl!OK, Parts!Ctl!OK,
     Ctl!Answered, Parts!Ctl!Answered, Ctl!CodeOf, Parts!Ctl!CodeOf, Ctl!ById, Parts!Ctl!ById,
     Ctl!ByName, Parts!Ctl!ByName, Ctl!NeedsApproval, Parts!Ctl!NeedsApproval, Ctl!Rejected,
     Parts!Ctl!Rejected, Ctl!Cardinality, Parts!Ctl!Cardinality
<1>3. Init /\ part = "ctl" => Parts!Ctl!Init
  BY <1>1 DEF Init
<1>4. part = "ctl" /\ [Next]_vars => [Parts!Ctl!Next]_(Parts!Ctl!vars)
  BY <1>2, PartSteps DEF Ctl!vars, Parts!Ctl!vars
<1> QED
  BY <1>3, <1>4, PTL DEF Spec, Parts!Ctl!Spec

\* The calls.
LEMMA ClientPart == Spec => [](part = "client") \/ []~(part = "client")
<1>1. part = "client" /\ [Next]_vars => (part = "client")'
  BY PartStays
<1>2. ~(part = "client") /\ [Next]_vars => ~(part = "client")'
  BY PartStays
<1> QED
  BY <1>1, <1>2, PTL DEF Spec

LEMMA ClientBehaves == Spec /\ [](part = "client") => Parts!Client!Spec
<1>1. Client!Init <=> Parts!Client!Init
  BY DEF Client!Init, Parts!Client!Init, Client!None, Parts!Client!None, Client!NoDaemon,
     Parts!Client!NoDaemon, Client!Links, Parts!Client!Links, Client!NoLink,
     Parts!Client!NoLink, Client!Nobody, Parts!Client!Nobody, Client!NoCall,
     Parts!Client!NoCall, Client!Tries, Parts!Client!Tries
<1>2. Client!Next <=> Parts!Client!Next
  BY DEF Client!Next, Parts!Client!Next, Client!DaemonSteps, Parts!Client!DaemonSteps,
     Client!Links, Parts!Client!Links, Client!ServeSteps, Parts!Client!ServeSteps,
     Client!Refuse, Parts!Client!Refuse, Client!Break, Parts!Client!Break, Client!CallSteps,
     Parts!Client!CallSteps, Client!Kinds, Parts!Client!Kinds, Client!Arrive,
     Parts!Client!Arrive, Client!Start, Parts!Client!Start, Client!CreateToken,
     Parts!Client!CreateToken, Client!Listen, Parts!Client!Listen, Client!Cleanup,
     Parts!Client!Cleanup, Client!Gone, Parts!Client!Gone, Client!Tries, Parts!Client!Tries,
     Client!Execute, Parts!Client!Execute, Client!Register, Parts!Client!Register,
     Client!Answer, Parts!Client!Answer, Client!Use, Parts!Client!Use, Client!Unsteady,
     Parts!Client!Unsteady, Client!callVars, Parts!Client!callVars, Client!UseShared,
     Parts!Client!UseShared, Client!ReadToken, Parts!Client!ReadToken, Client!ReadPort,
     Parts!Client!ReadPort, Client!Dial, Parts!Client!Dial, Client!Reread, Parts!Client!Reread,
     Client!Send, Parts!Client!Send, Client!Lost, Parts!Client!Lost, Client!Becomes,
     Parts!Client!Becomes, Client!NoCall, Parts!Client!NoCall, Client!Up, Parts!Client!Up,
     Client!Alive, Parts!Client!Alive, Client!TokensWritten, Parts!Client!TokensWritten,
     Client!None, Parts!Client!None, Client!Rotated, Parts!Client!Rotated, Client!Locked,
     Parts!Client!Locked, Client!serveVars, Parts!Client!serveVars, Client!End,
     Parts!Client!End, Client!Failed, Parts!Client!Failed, Client!outer, Parts!Client!outer,
     Client!Busy, Parts!Client!Busy, Client!Nobody, Parts!Client!Nobody, Client!Unreached,
     Parts!Client!Unreached, Client!NoLink, Parts!Client!NoLink, Client!Rereads,
     Parts!Client!Rereads, Client!Dropped, Parts!Client!Dropped, Client!Retried,
     Parts!Client!Retried, Client!Invalidated, Parts!Client!Invalidated
<1>3. Init /\ part = "client" => Parts!Client!Init
  BY <1>1 DEF Init
<1>4. part = "client" /\ [Next]_vars => [Parts!Client!Next]_(Parts!Client!linkVars)
  BY <1>2, PartSteps DEF Client!linkVars, Parts!Client!linkVars
<1> QED
  BY <1>3, <1>4, PTL DEF Spec, Parts!Client!Spec

\* The first connection.
LEMMA LinkPart == Spec => [](part = "link") \/ []~(part = "link")
<1>1. part = "link" /\ [Next]_vars => (part = "link")'
  BY PartStays
<1>2. ~(part = "link") /\ [Next]_vars => ~(part = "link")'
  BY PartStays
<1> QED
  BY <1>1, <1>2, PTL DEF Spec

LEMMA LinkBehaves == Spec /\ [](part = "link") => Links!Link!Spec
<1>1. Link!Init <=> Links!Link!Init
  BY DEF Link!Init, Links!Link!Init, Link!Waited, Links!Link!Waited
<1>2. Link!Next <=> Links!Link!Next
  BY DEF Link!Next, Links!Link!Next, Link!Connected, Links!Link!Connected, Link!Receive,
     Links!Link!Receive, Link!TakeRequest, Links!Link!TakeRequest, Link!WriteRequest,
     Links!Link!WriteRequest, Link!TaskEnds, Links!Link!TaskEnds, Link!Waited,
     Links!Link!Waited, Link!Ask, Links!Link!Ask, Link!Subscribe, Links!Link!Subscribe,
     Link!SubscribeAgain, Links!Link!SubscribeAgain, Link!Unsubscribe, Links!Link!Unsubscribe,
     Link!StreamStarts, Links!Link!StreamStarts, Link!Type, Links!Link!Type, Link!Handle,
     Links!Link!Handle, Link!Swap, Links!Link!Swap, Link!TakePush, Links!Link!TakePush,
     Link!TakeEvent, Links!Link!TakeEvent, Link!WriteDown, Links!Link!WriteDown,
     Link!ConnectionEnds, Links!Link!ConnectionEnds, Link!BridgeTakes, Links!Link!BridgeTakes,
     Link!BridgeSends, Links!Link!BridgeSends, Link!Output, Links!Link!Output, Link!Exit,
     Links!Link!Exit, Link!Announce, Links!Link!Announce, Link!Break, Links!Link!Break,
     Link!Dispatched, Links!Link!Dispatched, Link!SendersDropped, Links!Link!SendersDropped,
     Link!Queued, Links!Link!Queued, Link!Prepared, Links!Link!Prepared, Link!Unregistered,
     Links!Link!Unregistered, Link!LiveBridges, Links!Link!LiveBridges, Link!Note,
     Links!Link!Note, Link!Answer, Links!Link!Answer, Link!NewBridge, Links!Link!NewBridge,
     Link!Pushed, Links!Link!Pushed, Link!HostForwards, Links!Link!HostForwards,
     Link!Kept, Links!Link!Kept, Link!Dropped, Links!Link!Dropped, Link!Overflown, Links!Link!Overflown,
     Link!Aborted, Links!Link!Aborted
<1>3. Init /\ part = "link" => Links!Link!Init
  BY <1>1 DEF Init
<1>4. part = "link" /\ [Next]_vars => [Links!Link!Next]_(Links!Link!vars)
  BY <1>2, PartSteps DEF Link!vars, Links!Link!vars
<1> QED
  BY <1>3, <1>4, PTL DEF Spec, Links!Link!Spec

\* The second connection.
LEMMA AgainPart == Spec => [](part = "again") \/ []~(part = "again")
<1>1. part = "again" /\ [Next]_vars => (part = "again")'
  BY PartStays
<1>2. ~(part = "again") /\ [Next]_vars => ~(part = "again")'
  BY PartStays
<1> QED
  BY <1>1, <1>2, PTL DEF Spec

LEMMA AgainBehaves == Spec /\ [](part = "again") => Agains!Link!Spec
<1>1. Again!Init <=> Agains!Link!Init
  BY DEF Again!Init, Agains!Link!Init, Again!Waited, Agains!Link!Waited
<1>2. Again!Next <=> Agains!Link!Next
  BY DEF Again!Next, Agains!Link!Next, Again!Connected, Agains!Link!Connected, Again!Receive,
     Agains!Link!Receive, Again!TakeRequest, Agains!Link!TakeRequest, Again!WriteRequest,
     Agains!Link!WriteRequest, Again!TaskEnds, Agains!Link!TaskEnds, Again!Waited,
     Agains!Link!Waited, Again!Ask, Agains!Link!Ask, Again!Subscribe, Agains!Link!Subscribe,
     Again!SubscribeAgain, Agains!Link!SubscribeAgain, Again!Unsubscribe,
     Agains!Link!Unsubscribe, Again!StreamStarts, Agains!Link!StreamStarts, Again!Type,
     Agains!Link!Type, Again!Handle, Agains!Link!Handle, Again!Swap, Agains!Link!Swap,
     Again!TakePush, Agains!Link!TakePush, Again!TakeEvent, Agains!Link!TakeEvent,
     Again!WriteDown, Agains!Link!WriteDown, Again!ConnectionEnds, Agains!Link!ConnectionEnds,
     Again!BridgeTakes, Agains!Link!BridgeTakes, Again!BridgeSends, Agains!Link!BridgeSends,
     Again!Output, Agains!Link!Output, Again!Exit, Agains!Link!Exit, Again!Announce,
     Agains!Link!Announce, Again!Break, Agains!Link!Break, Again!Dispatched,
     Agains!Link!Dispatched, Again!SendersDropped, Agains!Link!SendersDropped, Again!Queued,
     Agains!Link!Queued, Again!Prepared, Agains!Link!Prepared, Again!Unregistered,
     Agains!Link!Unregistered, Again!LiveBridges, Agains!Link!LiveBridges, Again!Note,
     Agains!Link!Note, Again!Answer, Agains!Link!Answer, Again!NewBridge, Agains!Link!NewBridge,
     Again!Pushed, Agains!Link!Pushed, Again!HostForwards, Agains!Link!HostForwards,
     Again!Kept, Agains!Link!Kept, Again!Dropped, Agains!Link!Dropped, Again!Overflown, Agains!Link!Overflown,
     Again!Aborted, Agains!Link!Aborted
<1>3. Init /\ part = "again" => Agains!Link!Init
  BY <1>1 DEF Init
<1>4. part = "again" /\ [Next]_vars => [Agains!Link!Next]_(Agains!Link!vars)
  BY <1>2, PartSteps DEF Again!vars, Agains!Link!vars
<1> QED
  BY <1>3, <1>4, PTL DEF Spec, Agains!Link!Spec

\* The logins.
LEMMA LoginPart == Spec => [](part = "login") \/ []~(part = "login")
<1>1. part = "login" /\ [Next]_vars => (part = "login")'
  BY PartStays
<1>2. ~(part = "login") /\ [Next]_vars => ~(part = "login")'
  BY PartStays
<1> QED
  BY <1>1, <1>2, PTL DEF Spec

LEMMA LoginBehaves == Spec /\ [](part = "login") => Parts!Login!Spec
<1>1. Login!Init <=> Parts!Login!Init
  BY DEF Login!Init, Parts!Login!Init, Login!Idle, Parts!Login!Idle, Login!NoBroker,
     Parts!Login!NoBroker, Login!NoHelper, Parts!Login!NoHelper
<1>2. Login!Next <=> Parts!Login!Next
  BY DEF Login!Next, Parts!Login!Next, Login!Prepare, Parts!Login!Prepare, Login!PrepareFails,
     Parts!Login!PrepareFails, Login!StartBroker, Parts!Login!StartBroker, Login!Spawn,
     Parts!Login!Spawn, Login!StartFails, Parts!Login!StartFails, Login!Over, Parts!Login!Over,
     Login!Join, Parts!Login!Join, Login!RemoveKey, Parts!Login!RemoveKey, Login!Die,
     Parts!Login!Die, Login!HostStarts, Parts!Login!HostStarts, Login!Accept,
     Parts!Login!Accept, Login!Read, Parts!Login!Read, Login!Deadline, Parts!Login!Deadline,
     Login!BrokerEnds, Parts!Login!BrokerEnds, Login!Ask, Parts!Login!Ask, Login!HelperConnects,
     Parts!Login!HelperConnects, Login!HelperSends, Parts!Login!HelperSends, Login!HelperFails,
     Parts!Login!HelperFails, Login!HelperDies, Parts!Login!HelperDies, Login!At,
     Parts!Login!At, Login!Goes, Parts!Login!Goes, Login!CleanUp, Parts!Login!CleanUp,
     Login!Busy, Parts!Login!Busy
<1>3. Init /\ part = "login" => Parts!Login!Init
  BY <1>1 DEF Init
<1>4. part = "login" /\ [Next]_vars => [Parts!Login!Next]_(Parts!Login!vars)
  BY <1>2, PartSteps DEF Login!vars, Parts!Login!vars
<1> QED
  BY <1>3, <1>4, PTL DEF Spec, Parts!Login!Spec

\* The frames.
LEMMA ScreenPart == Spec => [](part = "screen") \/ []~(part = "screen")
<1>1. part = "screen" /\ [Next]_vars => (part = "screen")'
  BY PartStays
<1>2. ~(part = "screen") /\ [Next]_vars => ~(part = "screen")'
  BY PartStays
<1> QED
  BY <1>1, <1>2, PTL DEF Spec

LEMMA ScreenBehaves == Spec /\ [](part = "screen") => Links!Spec
<1>1. Screen!Init <=> Links!Init
  BY DEF Screen!Init, Links!Init, Screen!Blank, Links!Blank, Screen!ChannelInit,
     Links!ChannelInit
<1>2. Screen!Next <=> Links!Next
  BY DEF Screen!Next, Links!Next, Screen!Write, Links!Write, Screen!Subscribe, Links!Subscribe,
     Screen!Tick, Links!Tick, Screen!Finalize, Links!Finalize, Screen!Notified, Links!Notified,
     Screen!Client, Links!Client, Screen!chanVars, Links!chanVars, Screen!subscribed,
     Links!subscribed, Screen!Send, Links!Send, Screen!Lines, Links!Lines, Screen!sessionVars,
     Links!sessionVars, Screen!Paint, Links!Paint, Screen!Polled, Links!Polled, Screen!Drained,
     Links!Drained, Screen!FoundNothing, Links!FoundNothing, Screen!Queued, Links!Queued,
     Screen!Pop, Links!Pop, Screen!Drain, Links!Drain, Screen!Poll, Links!Poll,
     Screen!PopNothing, Links!PopNothing, Screen!Notify, Links!Notify, Screen!Push, Links!Push
<1>3. Init /\ part = "screen" => Links!Init
  BY <1>1 DEF Init
<1>4. part = "screen" /\ [Next]_vars => [Links!Next]_(Links!screenVars)
  BY <1>2, PartSteps DEF Screen!screenVars, Links!screenVars, Screen!sessionVars,
     Links!sessionVars, Screen!chanVars, Links!chanVars
<1> QED
  BY <1>3, <1>4, PTL DEF Spec, Links!Spec

-----------------------------------------------------------------------------
(* What the proofs of the parts suppose of the constants.                  *)

LEMMA PartsConstants ==
  /\ Parts!File!FileConstants /\ Parts!Ctl!CtlConstants
  /\ Parts!Client!ClientConstants /\ Parts!Login!LoginConstants
<1>1. Parts!File!FileConstants
  BY FileAssumption DEF File!FileConstants, Parts!File!FileConstants, File!Current,
     Parts!File!Current, File!WrittenBy, Parts!File!WrittenBy
<1>2. Parts!Ctl!CtlConstants
  BY CtlAssumption DEF Ctl!CtlConstants, Parts!Ctl!CtlConstants, Ctl!IsFiniteSet,
     Parts!Ctl!IsFiniteSet
<1>3. Parts!Client!ClientConstants
  BY ClientAssumption DEF Client!ClientConstants, Parts!Client!ClientConstants, Client!Bounds,
     Parts!Client!Bounds
<1>4. Parts!Login!LoginConstants
  BY LoginAssumption DEF Login!LoginConstants, Parts!Login!LoginConstants, Login!Logins,
     Parts!Login!Logins
<1> QED
  BY <1>1, <1>2, <1>3, <1>4

\* What the module of the channel assumes of its constants.
LEMMA ChannelAssumptions ==
  (Capacity \in Nat /\ Capacity >= 3) /\ Pollings \subseteq BOOLEAN /\ MaxSends \in Nat
  BY ScreenAssumption DEF Screen!ScreenConstants

LEMMA OthersConstants ==
  Links!Link!ConnectionConstants /\ Agains!Link!ConnectionConstants /\ Links!ScreenConstants
<1>1. Links!Link!ConnectionConstants
  BY LinksAssumption DEF Link!ConnectionConstants, Links!Link!ConnectionConstants
<1>2. Agains!Link!ConnectionConstants
  BY LinksAssumption DEF Again!ConnectionConstants, Agains!Link!ConnectionConstants
<1>3. Links!ScreenConstants
  BY ScreenAssumption DEF Screen!ScreenConstants, Links!ScreenConstants
<1> QED
  BY <1>1, <1>2, <1>3

-----------------------------------------------------------------------------
(* The parts of the desktop.                                               *)

LEMMA DeskStays == [DesktopNext]_desktopVars => UNCHANGED desk
  BY DEF DesktopNext, desktopVars, Starting, Editing, Revealing, Approving, Configuring,
     Transferring, Selecting, Viewing, Copying

LEMMA DeskSteps ==
  ASSUME [DesktopNext]_desktopVars
  PROVE  /\ desk = "view" => [View!Next]_(View!viewVars)
         /\ desk = "text" => [Text!Next]_(Text!selectionVars)
<1>1. CASE UNCHANGED desktopVars
  BY <1>1 DEF desktopVars, View!viewVars, Text!selectionVars
<1>2. CASE DesktopNext
  BY <1>2 DEF DesktopNext, Starting, Editing, Revealing, Approving, Configuring, Transferring,
     Selecting, Viewing, Copying
<1> QED
  BY <1>1, <1>2

\* The window.
LEMMA ViewPart == DesktopSpec => [](desk = "view") \/ []~(desk = "view")
<1>1. desk = "view" /\ [DesktopNext]_desktopVars => (desk = "view")'
  BY DeskStays
<1>2. ~(desk = "view") /\ [DesktopNext]_desktopVars => ~(desk = "view")'
  BY DeskStays
<1> QED
  BY <1>1, <1>2, PTL DEF DesktopSpec

LEMMA ViewBehaves == DesktopSpec /\ [](desk = "view") => Gui!View!Spec
<1>1. View!Init <=> Gui!View!Init
  BY DEF View!Init, Gui!View!Init, View!None, Gui!View!None, View!NewWidget, Gui!View!NewWidget,
     View!Undrawn, Gui!View!Undrawn, View!NewGrid, Gui!View!NewGrid, View!Closed,
     Gui!View!Closed, View!NoLines, Gui!View!NoLines, View!Blank, Gui!View!Blank,
     View!NewTerm, Gui!View!NewTerm
<1>2. View!Next <=> Gui!View!Next
  BY DEF View!Next, Gui!View!Next, View!OpenTerminal, Gui!View!OpenTerminal, View!Output,
     Gui!View!Output, View!Tick, Gui!View!Tick, View!None, Gui!View!None, View!SwitchTab,
     Gui!View!SwitchTab, View!ResizeWindow, Gui!View!ResizeWindow, View!Wheel, Gui!View!Wheel,
     View!Blink, Gui!View!Blink, View!Redraw, Gui!View!Redraw, View!TypeKeys, Gui!View!TypeKeys,
     View!Commit, Gui!View!Commit, View!Serve, Gui!View!Serve, View!Receive, Gui!View!Receive,
     View!Open, Gui!View!Open, View!Use, Gui!View!Use, View!NewTerm, Gui!View!NewTerm,
     View!Left, Gui!View!Left, View!NewWidget, Gui!View!NewWidget, View!Undrawn,
     Gui!View!Undrawn, View!guiVars, Gui!View!guiVars, View!Frame, Gui!View!Frame, View!Lines,
     Gui!View!Lines, View!pushVars, Gui!View!pushVars, View!Widget, Gui!View!Widget,
     View!Touched, Gui!View!Touched, View!Scroll, Gui!View!Scroll, View!Quiet, Gui!View!Quiet,
     View!KeyChanged, Gui!View!KeyChanged, View!Drawing, Gui!View!Drawing, View!SizeChanged,
     Gui!View!SizeChanged, View!Resized, Gui!View!Resized, View!Input, Gui!View!Input,
     View!Text, Gui!View!Text, View!Full, Gui!View!Full, View!Applied, Gui!View!Applied,
     View!Blank, Gui!View!Blank, View!NewGrid, Gui!View!NewGrid, View!Painted, Gui!View!Painted,
     View!Sized, Gui!View!Sized, View!Turned, Gui!View!Turned, View!Closed, Gui!View!Closed
<1>3. DesktopInit /\ desk = "view" => Gui!View!Init
  BY <1>1 DEF DesktopInit
<1>4. desk = "view" /\ [DesktopNext]_desktopVars => [Gui!View!Next]_(Gui!View!viewVars)
  BY <1>2, DeskSteps DEF View!viewVars, Gui!View!viewVars
<1> QED
  BY <1>3, <1>4, PTL DEF DesktopSpec, Gui!View!Spec

\* The selection.
LEMMA TextPart == DesktopSpec => [](desk = "text") \/ []~(desk = "text")
<1>1. desk = "text" /\ [DesktopNext]_desktopVars => (desk = "text")'
  BY DeskStays
<1>2. ~(desk = "text") /\ [DesktopNext]_desktopVars => ~(desk = "text")'
  BY DeskStays
<1> QED
  BY <1>1, <1>2, PTL DEF DesktopSpec

LEMMA TextBehaves == DesktopSpec /\ [](desk = "text") => Gui!Text!Spec
<1>1. Text!Init <=> Gui!Text!Init
  BY DEF Text!Init, Gui!Text!Init, Text!View, Gui!Text!View, Text!NoSelection,
     Gui!Text!NoSelection, Text!NotCopied, Gui!Text!NotCopied, Text!Above, Gui!Text!Above,
     Text!Line, Gui!Text!Line, Text!Missing, Gui!Text!Missing
<1>2. Text!Next <=> Gui!Text!Next
  BY DEF Text!Next, Gui!Text!Next, Text!Write, Gui!Text!Write, Text!Rewrite, Gui!Text!Rewrite,
     Text!Tick, Gui!Text!Tick, Text!Receive, Gui!Text!Receive, Text!Notice, Gui!Text!Notice,
     Text!Release, Gui!Text!Release, Text!Copy, Gui!Text!Copy, Text!Key, Gui!Text!Key,
     Text!Press, Gui!Text!Press, Text!Move, Gui!Text!Move, Text!Wheel, Gui!Text!Wheel, Text!Use,
     Gui!Text!Use, Text!Above, Gui!Text!Above, Text!Lower, Gui!Text!Lower, Text!widgetVars,
     Gui!Text!widgetVars, Text!View, Gui!Text!View, Text!Seen, Gui!Text!Seen, Text!daemonVars,
     Gui!Text!daemonVars, Text!Upper, Gui!Text!Upper, Text!Text, Gui!Text!Text,
     Text!NoSelection, Gui!Text!NoSelection, Text!InView, Gui!Text!InView, Text!Missing,
     Gui!Text!Missing, Text!Line, Gui!Text!Line, Text!LostIn, Gui!Text!LostIn
<1>3. DesktopInit /\ desk = "text" => Gui!Text!Init
  BY <1>1 DEF DesktopInit
<1>4. desk = "text" /\ [DesktopNext]_desktopVars => [Gui!Text!Next]_(Gui!Text!selectionVars)
  BY <1>2, DeskSteps DEF Text!selectionVars, Gui!Text!selectionVars
<1> QED
  BY <1>3, <1>4, PTL DEF DesktopSpec, Gui!Text!Spec

\* What the proofs of the parts suppose of the constants.
LEMMA DeskConstants ==
  Gui!View!ViewConstants /\ Gui!Text!TextConstants
<1>1. Gui!View!ViewConstants
  BY ViewAssumption DEF View!ViewConstants, Gui!View!ViewConstants, View!None, Gui!View!None,
     View!ViewKinds, Gui!View!ViewKinds
<1>2. Gui!Text!TextConstants
  BY TextAssumption DEF Text!TextConstants, Gui!Text!TextConstants, Text!TextKinds,
     Gui!Text!TextKinds
<1> QED
  BY <1>1, <1>2

-----------------------------------------------------------------------------
(* The theorems.                                                           *)

\* The variables of each part keep their types.
THEOREM PartsTypeCorrect ==
  Spec => []TypeOK
<1>1. Spec => [](part = "file" => File!TypeOK)
  <2>1. Parts!File!TypeOK => File!TypeOK
    BY DEF File!TypeOK, Parts!File!TypeOK, File!Names, Parts!File!Names, File!FileRecords,
       Parts!File!FileRecords, File!Held, Parts!File!Held, File!NoSecret, Parts!File!NoSecret,
       File!VaultName, Parts!File!VaultName, File!TempName, Parts!File!TempName, File!Formats,
       Parts!File!Formats, File!Current, Parts!File!Current
  <2> QED
    BY <2>1, PartsConstants, Parts!FileTypes, FilePart, FileBehaves, PTL
<1>2. Spec => [](part = "notes" => Notes!TypeOK)
  <2>1. Parts!Notes!TypeOK => Notes!TypeOK
    BY DEF Notes!TypeOK, Parts!Notes!TypeOK
  <2> QED
    BY <2>1, Parts!NotesTypeCorrect, NotesPart, NotesBehaves, PTL
<1>3. Spec => [](part = "ctl" => Ctl!TypeOK)
  <2>1. Parts!Ctl!TypeOK => Ctl!TypeOK
    BY DEF Ctl!TypeOK, Parts!Ctl!TypeOK, Ctl!OK, Parts!Ctl!OK, Ctl!Connection,
       Parts!Ctl!Connection, Ctl!Daemon, Parts!Ctl!Daemon, Ctl!NotFound, Parts!Ctl!NotFound,
       Ctl!Ambiguous, Parts!Ctl!Ambiguous, Ctl!NeedsApproval, Parts!Ctl!NeedsApproval,
       Ctl!Rejected, Parts!Ctl!Rejected
  <2> QED
    BY <2>1, PartsConstants, Parts!CtlTypeCorrect, CtlPart, CtlBehaves, PTL
<1>4. Spec => [](part = "client" => Client!TypeOK)
  <2>1. Parts!Client!TypeOK => Client!TypeOK
    BY DEF Client!TypeOK, Parts!Client!TypeOK, Client!None, Parts!Client!None, Client!Links,
       Parts!Client!Links, Client!Nobody, Parts!Client!Nobody, Client!Told, Parts!Client!Told,
       Client!Kinds, Parts!Client!Kinds, Client!Tries, Parts!Client!Tries
  <2> QED
    BY <2>1, PartsConstants, Parts!ClientTypeCorrect, ClientPart, ClientBehaves, PTL
<1>5. Spec => [](part = "link" => Link!TypeOK)
  <2>1. Links!Link!TypeOK => Link!TypeOK
    BY DEF Link!TypeOK, Links!Link!TypeOK, Link!Waited, Links!Link!Waited, Link!Frames,
       Links!Link!Frames
  <2> QED
    BY <2>1, ChannelAssumptions, OthersConstants, Links!ConnectionTypes, LinkPart, LinkBehaves,
       PTL
<1>6. Spec => [](part = "again" => Again!TypeOK)
  <2>1. Agains!Link!TypeOK => Again!TypeOK
    BY DEF Again!TypeOK, Agains!Link!TypeOK, Again!Waited, Agains!Link!Waited, Again!Frames,
       Agains!Link!Frames
  <2> QED
    BY <2>1, ChannelAssumptions, OthersConstants, Agains!ConnectionTypes, AgainPart,
       AgainBehaves, PTL
<1>7. Spec => [](part = "login" => Login!TypeOK)
  <2>1. Parts!Login!TypeOK => Login!TypeOK
    BY DEF Login!TypeOK, Parts!Login!TypeOK
  <2> QED
    BY <2>1, PartsConstants, Parts!LoginTypeCorrect, LoginPart, LoginBehaves, PTL
<1>8. Spec => [](part = "screen" => Screen!TypeOK)
  <2>1. Links!TypeOK => Screen!TypeOK
    BY DEF Screen!TypeOK, Links!TypeOK, Screen!Queued, Links!Queued, Screen!Frames,
       Links!Frames, Screen!ChannelTypeOK, Links!ChannelTypeOK, Screen!ReceiverPC,
       Links!ReceiverPC
  <2> QED
    BY <2>1, ChannelAssumptions, OthersConstants, Links!ScreenTypes, ScreenPart, ScreenBehaves,
       PTL
<1> QED
  BY <1>1, <1>2, <1>3, <1>4, <1>5, <1>6, <1>7, <1>8, PTL DEF TypeOK

\* Whoever asks the daemon is told the truth and served once, for any number of calls,
\* daemons, commands, hosts, terminals and transfers.  What a call is told of a changed token
\* supposes that no daemon starts beside another, and what a helper is told that accepted
\* sockets are blocking: README.md, section 3, says what happens otherwise.
THEOREM AskersHearTheTruth ==
  ASSUME ~Inherits, \A p \in CallPlans : p.overlaps = 0
  PROVE  Spec => []AskersAreToldTheTruth
<1>0. ~Inherits /\ \A p \in CallPlans : p.overlaps = 0
  OBVIOUS
<1>1. Spec => [](part = "client" => Client!WrittenOnce /\ Client!SteadyCallsSucceed /\ Client!OneRotationSurvived)
  <2>1. Parts!Client!WrittenOnce => Client!WrittenOnce
    BY DEF Client!WrittenOnce, Parts!Client!WrittenOnce
  <2>2. Parts!Client!SteadyCallsSucceed => Client!SteadyCallsSucceed
    BY DEF Client!SteadyCallsSucceed, Parts!Client!SteadyCallsSucceed
  <2>3. Parts!Client!OneRotationSurvived => Client!OneRotationSurvived
    BY DEF Client!OneRotationSurvived, Parts!Client!OneRotationSurvived
  <2> QED
    BY <2>1, <2>2, <2>3, <1>0, PartsConstants, Parts!WritesHappenOnce,
       Parts!SteadyCallsGoThrough, Parts!RestartsAreSurvived, ClientPart, ClientBehaves, PTL
<1>2. Spec => [](part = "ctl" => Ctl!CodesTellTheTruth /\ Ctl!ActsOnTheHostMeant)
  <2>1. Parts!Ctl!CodesTellTheTruth => Ctl!CodesTellTheTruth
    BY DEF Ctl!CodesTellTheTruth, Parts!Ctl!CodesTellTheTruth, Ctl!OK, Parts!Ctl!OK,
       Ctl!NeedsApproval, Parts!Ctl!NeedsApproval
  <2>2. Parts!Ctl!ActsOnTheHostMeant => Ctl!ActsOnTheHostMeant
    BY DEF Ctl!ActsOnTheHostMeant, Parts!Ctl!ActsOnTheHostMeant, Ctl!NoHost, Parts!Ctl!NoHost
  <2> QED
    BY <2>1, <2>2, PartsConstants, Parts!CodesStayTrue, Parts!HostsAreMeant, CtlPart,
       CtlBehaves, PTL
<1>3. Spec => [](part = "login" => Login!SecretsGo /\ Login!HelpersAreAnswered)
  <2>1. Parts!Login!SecretsGo => Login!SecretsGo
    BY DEF Login!SecretsGo, Parts!Login!SecretsGo
  <2>2. Parts!Login!HelpersAreAnswered => Login!HelpersAreAnswered
    BY DEF Login!HelpersAreAnswered, Parts!Login!HelpersAreAnswered, Login!Busy,
       Parts!Login!Busy
  <2> QED
    BY <2>1, <2>2, <1>0, PartsConstants, Parts!SecretsGoWithTheirUse, Parts!HelpersGetAnswers,
       LoginPart, LoginBehaves, PTL
<1> QED
  BY <1>1, <1>2, <1>3, PTL DEF AskersAreToldTheTruth

\* What was answered, recorded or printed is there, whatever is killed, fails or loses power
\* in between, and what is pushed is missed only where a channel overflows, for any number of
\* vaults, backups, notes, frames and rows, and channels and queues of any length.
THEOREM AnswersAreDeliveredWhole ==
  Spec => []DeliveredWhole
<1>1. Spec => [](part = "file" => File!AnsweredIsDurable /\ File!ReplacedIsKept /\ File!OldVaultsOpen)
  <2>1. Parts!File!AnsweredIsDurable => File!AnsweredIsDurable
    BY DEF File!AnsweredIsDurable, Parts!File!AnsweredIsDurable, File!Nothing,
       Parts!File!Nothing, File!VaultName, Parts!File!VaultName, File!None, Parts!File!None,
       File!NoSecret, Parts!File!NoSecret, File!NoForm, Parts!File!NoForm, File!Current,
       Parts!File!Current
  <2>2. Parts!File!ReplacedIsKept => File!ReplacedIsKept
    BY DEF File!ReplacedIsKept, Parts!File!ReplacedIsKept, File!Nothing, Parts!File!Nothing,
       File!Backups, Parts!File!Backups, File!VaultName, Parts!File!VaultName, File!None,
       Parts!File!None, File!NoSecret, Parts!File!NoSecret, File!NoForm, Parts!File!NoForm,
       File!Current, Parts!File!Current
  <2>3. Parts!File!OldVaultsOpen => File!OldVaultsOpen
    BY DEF File!OldVaultsOpen, Parts!File!OldVaultsOpen, File!Nothing, Parts!File!Nothing,
       File!Current, Parts!File!Current, File!None, Parts!File!None, File!NoSecret,
       Parts!File!NoSecret, File!NoForm, Parts!File!NoForm
  <2> QED
    BY <2>1, <2>2, <2>3, PartsConstants, Parts!AnswersLast, Parts!ReplacedVaultStays,
       Parts!AllFormsOpen, FilePart, FileBehaves, PTL
<1>2. Spec => [](part = "notes" => Notes!ChangesAreAudited)
  <2>1. Parts!Notes!ChangesAreAudited => Notes!ChangesAreAudited
    BY DEF Notes!ChangesAreAudited, Parts!Notes!ChangesAreAudited
  <2> QED
    BY <2>1, Parts!ChangesStayAudited, NotesPart, NotesBehaves, PTL
<1>3. Spec => [](part = "link" => Link!PushesArrive)
  <2>1. Links!Link!PushesArrive => Link!PushesArrive
    BY DEF Link!PushesArrive, Links!Link!PushesArrive, Link!LostAtMost, Links!Link!LostAtMost,
       Link!Heard, Links!Link!Heard, Link!Places, Links!Link!Places, Link!Place, Links!Link!Place,
       Link!Quiet, Links!Link!Quiet, Link!LiveBridges, Links!Link!LiveBridges
  <2> QED
    BY <2>1, ChannelAssumptions, OthersConstants, Links!OnlyOverflowsMiss, LinkPart, LinkBehaves,
       PTL
<1>4. Spec => [](part = "again" => Again!PushesArrive)
  <2>1. Agains!Link!PushesArrive => Again!PushesArrive
    BY DEF Again!PushesArrive, Agains!Link!PushesArrive, Again!LostAtMost, Agains!Link!LostAtMost,
       Again!Heard, Agains!Link!Heard, Again!Places, Agains!Link!Places, Again!Place, Agains!Link!Place,
       Again!Quiet, Agains!Link!Quiet, Again!LiveBridges, Agains!Link!LiveBridges
  <2> QED
    BY <2>1, ChannelAssumptions, OthersConstants, Agains!OnlyOverflowsMiss, AgainPart, AgainBehaves,
       PTL
<1>5. Spec => [](part = "screen" => Screen!LossOnlyByOverflow /\ Screen!FinalScreen)
  <2>1. Links!LossOnlyByOverflow => Screen!LossOnlyByOverflow
    BY DEF Screen!LossOnlyByOverflow, Links!LossOnlyByOverflow, Screen!subscribed,
       Links!subscribed, Screen!UpToDate, Links!UpToDate, Screen!Queued, Links!Queued
  <2>2. Links!FinalScreen => Screen!FinalScreen
    BY DEF Screen!FinalScreen, Links!FinalScreen, Screen!subscribed, Links!subscribed
  <2> QED
    BY <2>1, <2>2, ChannelAssumptions, OthersConstants, Links!NoRowLost, Links!ShowsFinalScreen,
       ScreenPart, ScreenBehaves, PTL
<1> QED
  BY <1>1, <1>2, <1>3, <1>4, <1>5, PTL DEF DeliveredWhole

\* The terminal shows and sends what it should, for any number of terminals, sizes, frames
\* and lines, and whatever happens how often: keys find the terminal at its bottom; once all
\* is quiet what is shown is the current screen, and all of it unless the terminal had come
\* back to a size unseen by its push loop; and a copied row is the line that was selected or,
\* when lines have left a full history since, one at most as many lines on.
THEOREM TerminalStaysTrue == DesktopSpec => []TerminalIsTrue
<1>1. DesktopSpec => [](desk = "view" => View!KeysAtBottom /\ View!ScreenSettles)
  <2>1. Gui!View!KeysAtBottom => View!KeysAtBottom
    BY DEF View!KeysAtBottom, Gui!View!KeysAtBottom
  <2>2. Gui!View!ScreenSettles => View!ScreenSettles
    BY DEF View!ScreenSettles, Gui!View!ScreenSettles, View!Quiet, Gui!View!Quiet, View!Open,
       Gui!View!Open, View!None, Gui!View!None, View!Blank, Gui!View!Blank
  <2> QED
    BY <2>1, <2>2, DeskConstants, Gui!KeysFindTheBottom, Gui!ScreensAreWhole, ViewPart,
       ViewBehaves, PTL
<1>2. DesktopSpec => [](desk = "text" => Text!NoWrongLine)
  <2>1. Gui!Text!NoWrongLine => Text!NoWrongLine
    BY DEF Text!NoWrongLine, Gui!Text!NoWrongLine, Text!Missing, Gui!Text!Missing, Text!Line,
       Gui!Text!Line, Text!Expected, Gui!Text!Expected, Text!LostMeanwhile, Gui!Text!LostMeanwhile
  <2> QED
    BY <2>1, DeskConstants, Gui!CopiesAreRight, TextPart, TextBehaves, PTL
<1> QED
  BY <1>1, <1>2, PTL DEF TerminalIsTrue

===============================================================================
