------------------------------ MODULE Connection ------------------------------
(***************************************************************************)
(* One WebSocket between the desktop window and the daemon                 *)
(* (vida-client lib.rs, ws_server.rs handle_connection).                   *)
(*                                                                         *)
(* Each end is one task that waits for several things at once but writes   *)
(* to the socket before it looks at any of them again: while it writes it  *)
(* does not read.  Answers, frames and approval events share the way down. *)
(* A subscription has two channels that drop their oldest item when they   *)
(* are full, one in the host of the sessions and one in the daemon (push.rs, *)
(* session_host.rs); from the second a bridge task carries the frames to   *)
(* the connection's bounded queue.  In the client a registry hands what    *)
(* arrives to the stream of the terminal's tab, and keeps a prepared       *)
(* receiver for a tab whose stream is not running yet.                     *)
(*                                                                         *)
(* The window lists the approvals, opens one terminal, subscribes to it    *)
(* and types; the session, the agent and the network do what they like.    *)
(***************************************************************************)
EXTENDS Integers, Sequences, FiniteSets

CONSTANTS
  WireRoom,   \* messages that fit in one direction of the socket
  QueueRoom,  \* push_rx, 16 in the code
  EventRoom,  \* the broadcast channel of approval events, 64 in the code
  ChannelRoom, \* PUSH_CHANNEL_CAPACITY, 4 in the code
  MaxFrames,  \* bound on the frames of the session
  MaxEvents,  \* bound on the approvals announced
  MaxKeys,    \* bound on the keys typed
  Subscribes  \* requests that subscribe on this connection: 1, or 2 with "again"

VARIABLES
  wire,     \* the socket
  client,   \* the client's task
  asked,    \* what the window waits for, and how it ended
  tab,      \* the registry's entries for the session, and the tab's stream
  owner,    \* the same for approval events
  daemon,   \* the connection's task
  bridges,  \* one per subscription made, with its two channels: host and chan
  pushq,    \* push_tx .. push_rx
  events,   \* the connection's broadcast receiver
  shell     \* the session and the agent, as far as they are heard here

\* The bounds.
ConnectionConstants ==
  /\ {WireRoom, QueueRoom, EventRoom, ChannelRoom} \subseteq Nat \ {0}
  /\ {MaxFrames, MaxEvents, MaxKeys} \subseteq Nat
  /\ Subscribes \in {1, 2}

vars == <<wire, client, asked, tab, owner, daemon, bridges, pushq, events, shell>>

Waited == {"list", "open", "sub", "again"}

Note(k, x) == [kind |-> k, n |-> x, full |-> FALSE]
Answer(r)  == Note(r, 0)

Init ==
  /\ wire = [up |-> <<"auth">>, down |-> <<>>, open |-> TRUE]
  /\ client = [pc |-> "auth", text |-> "none", queue |-> <<>>, pending |-> {}, typed |-> 0]
  /\ asked = [r \in Waited |-> "no"]
  /\ tab = [sender |-> FALSE, prepared |-> FALSE, taken |-> FALSE, late |-> FALSE,
            ended |-> FALSE, got |-> <<>>]
  /\ owner = [sender |-> FALSE, got |-> {}]
  /\ daemon = [pc |-> "select", owner |-> FALSE, out |-> <<>>]
  /\ bridges = <<>>
  /\ pushq = <<>>
  /\ events = [waiting |-> <<>>, lagged |-> FALSE]
  /\ shell = [frames |-> 0, exited |-> FALSE, told |-> FALSE, announced |-> 0, lost |-> {}]

-----------------------------------------------------------------------------
(* The client's task.                                                      *)

\* connect_to_role: the first answer ends the handshake; the registry is made
\* with the owner's stream already prepared.
Connected ==
  /\ client.pc = "auth" /\ wire.down # <<>>
  /\ wire' = [wire EXCEPT !.down = Tail(@)]
  /\ client' = [client EXCEPT !.pc = "select"]
  /\ owner' = [owner EXCEPT !.sender = TRUE]
  /\ UNCHANGED <<asked, tab, daemon, bridges, pushq, events, shell>>

\* An answer goes to whoever waits for it, a frame or the end of the session
\* to the session's sender if it has one, an event to the owner's.
Dispatched(m) ==
  /\ client' = [client EXCEPT !.pending = @ \ {m.kind}]
  /\ asked' = [r \in Waited |-> IF r = m.kind /\ r \in client.pending THEN "ok" ELSE asked[r]]
  /\ tab' = IF m.kind \in {"frame", "closed"} /\ tab.sender
            THEN [tab EXCEPT !.got = Append(@, m)] ELSE tab
  /\ owner' = IF m.kind = "list" THEN [owner EXCEPT !.got = @ \cup 1 .. m.n]
              ELSE IF m.kind = "event" /\ owner.sender THEN [owner EXCEPT !.got = @ \cup {m.n}]
              ELSE owner

Receive ==
  /\ client.pc = "select" /\ wire.down # <<>>
  /\ wire' = [wire EXCEPT !.down = Tail(@)]
  /\ Dispatched(Head(wire.down))
  /\ UNCHANGED <<daemon, bridges, pushq, events, shell>>

TakeRequest ==
  /\ client.pc = "select" /\ client.queue # <<>>
  /\ client' = [client EXCEPT !.pc = "writing", !.text = Head(client.queue),
                              !.queue = Tail(@), !.pending = @ \cup {Head(client.queue)}]
  /\ UNCHANGED <<wire, asked, tab, owner, daemon, bridges, pushq, events, shell>>

\* The socket takes the text when there is room for it.
WriteRequest ==
  /\ client.pc = "writing" /\ wire.open /\ Len(wire.up) < WireRoom
  /\ wire' = [wire EXCEPT !.up = Append(@, client.text)]
  /\ client' = [client EXCEPT !.pc = "select", !.text = "none"]
  /\ UNCHANGED <<asked, tab, owner, daemon, bridges, pushq, events, shell>>

\* Mutant: the task ends and leaves the senders in the registry.
SendersStay == UNCHANGED <<tab, owner>>

\* Without a sender in the registry the stream that listens ends.
Unregistered == [tab EXCEPT !.sender = FALSE, !.prepared = FALSE, !.ended = tab.taken]

\* close_push_subscriptions.
SendersDropped ==
  /\ tab' = Unregistered
  /\ owner' = [owner EXCEPT !.sender = FALSE]

\* A read or a write failed: the answers still waited for and the requests
\* still queued are dropped, so every caller gets an error.
TaskEnds ==
  /\ client.pc # "ended" /\ ~wire.open
  /\ client' = [client EXCEPT !.pc = "ended", !.text = "none", !.queue = <<>>, !.pending = {}]
  /\ asked' = [r \in Waited |-> IF asked[r] = "asked" THEN "error" ELSE asked[r]]
  /\ SendersDropped
  /\ UNCHANGED <<wire, daemon, bridges, pushq, events, shell>>

-----------------------------------------------------------------------------
(* The window.                                                             *)

\* send and send_queued: with the task gone the request fails at once.
Queued(r) ==
  IF client.pc = "ended"
  THEN /\ asked' = [q \in Waited |-> IF q = r THEN "error" ELSE asked[q]]
       /\ UNCHANGED client
  ELSE /\ asked' = [q \in Waited |-> IF q = r THEN "asked" ELSE asked[q]]
       /\ client' = [client EXCEPT !.queue = Append(@, r)]

Ask(r) ==
  /\ client.pc # "auth" /\ asked[r] = "no" /\ r \in {"list", "open"}
  /\ Queued(r)
  /\ UNCHANGED <<wire, tab, owner, daemon, bridges, pushq, events, shell>>

\* Mutant: the receiver is made only when the tab's stream starts.
NotPrepared == UNCHANGED tab

\* prepare_subscription does nothing when there is a sender already.
Prepared ==
  tab' = IF tab.sender THEN tab ELSE [tab EXCEPT !.sender = TRUE, !.prepared = TRUE]

\* open_and_subscribe after OpenLocalSession was answered.
Subscribe ==
  /\ asked["open"] = "ok" /\ asked["sub"] = "no"
  /\ Prepared
  /\ Queued("sub")
  /\ UNCHANGED <<wire, owner, daemon, bridges, pushq, events, shell>>

\* The tab's session is subscribed once more over the same connection.
SubscribeAgain ==
  /\ Subscribes = 2 /\ tab.taken /\ asked["again"] = "no"
  /\ Prepared
  /\ Queued("again")
  /\ UNCHANGED <<wire, owner, daemon, bridges, pushq, events, shell>>

\* unsubscribe, when SubscribeSession failed.
Unsubscribe ==
  /\ "error" \in {asked["sub"], asked["again"]} /\ tab.sender /\ ~tab.late
  /\ tab' = Unregistered
  /\ UNCHANGED <<wire, client, asked, owner, daemon, bridges, pushq, events, shell>>

\* The tab is shown and its stream starts: subscribe takes the prepared
\* receiver, or makes a channel of its own, even in a registry that is dead.
StreamStarts ==
  /\ asked["sub"] = "ok" /\ ~tab.taken
  /\ tab' = IF tab.prepared THEN [tab EXCEPT !.prepared = FALSE, !.taken = TRUE]
            ELSE [tab EXCEPT !.sender = TRUE, !.taken = TRUE, !.got = <<>>,
                             !.late = client.pc = "ended"]
  /\ UNCHANGED <<wire, client, asked, owner, daemon, bridges, pushq, events, shell>>

Type ==
  /\ tab.taken /\ client.typed < MaxKeys /\ client.pc # "ended"
  /\ client' = [client EXCEPT !.queue = Append(@, "key"), !.typed = @ + 1]
  /\ UNCHANGED <<wire, asked, tab, owner, daemon, bridges, pushq, events, shell>>

-----------------------------------------------------------------------------
(* The connection's task in the daemon.                                    *)

LiveBridges == {b \in DOMAIN bridges : bridges[b].on}

\* subscribe_session makes a channel that holds a frame of the whole screen, and nothing
\* more if the session is already over.
NewBridge ==
  [on |-> TRUE, hold |-> <<>>, chan |-> <<>>, wake |-> TRUE,
   host |-> <<[kind |-> "frame", n |-> shell.frames, full |-> TRUE]>>]

\* handle_message, then the bridge of a subscription; the answer is written
\* afterwards.  The bridge that a new one replaces is aborted in a later step.
Handle ==
  /\ daemon.pc = "select" /\ wire.up # <<>>
  /\ wire' = [wire EXCEPT !.up = Tail(@)]
  /\ LET r == Head(wire.up)
         again == r \in {"sub", "again"} /\ LiveBridges # {}
     IN /\ daemon' = [pc |-> IF again THEN "swap" ELSE "writing", owner |-> TRUE,
                      out |-> <<IF r = "list" THEN Note(r, shell.announced) ELSE Answer(r)>>]
        /\ bridges' = IF r \in {"sub", "again"} THEN Append(bridges, NewBridge) ELSE bridges
  /\ UNCHANGED <<client, asked, tab, owner, pushq, events, shell>>

\* old.abort(): what the old bridge was about to pass on is gone with it.
Aborted == [on |-> FALSE, hold |-> <<>>, chan |-> <<>>, wake |-> FALSE, host |-> <<>>]
Swap ==
  /\ daemon.pc = "swap"
  /\ bridges' = [b \in DOMAIN bridges |->
       IF b < Len(bridges) THEN Aborted ELSE bridges[b]]
  /\ daemon' = [daemon EXCEPT !.pc = "writing"]
  /\ UNCHANGED <<wire, client, asked, tab, owner, pushq, events, shell>>

\* The end of a session is written after its last frame.
TakePush ==
  /\ daemon.pc = "select" /\ pushq # <<>>
  /\ daemon' = [daemon EXCEPT !.pc = "writing", !.out = <<Head(pushq)>>]
  /\ pushq' = Tail(pushq)
  /\ UNCHANGED <<wire, client, asked, tab, owner, bridges, events, shell>>

\* Events are for an authenticated owner; before that they are dropped.
TakeEvent ==
  /\ daemon.pc = "select" /\ events.waiting # <<>>
  /\ events' = [events EXCEPT !.waiting = Tail(@)]
  /\ daemon' = IF daemon.owner
               THEN [daemon EXCEPT !.pc = "writing",
                                   !.out = <<Note("event", Head(events.waiting))>>]
               ELSE daemon
  /\ UNCHANGED <<wire, client, asked, tab, owner, bridges, pushq, shell>>

WriteDown ==
  /\ daemon.pc = "writing" /\ wire.open /\ Len(wire.down) < WireRoom
  /\ wire' = [wire EXCEPT !.down = Append(@, Head(daemon.out))]
  /\ daemon' = [daemon EXCEPT !.pc = "select", !.out = <<>>]
  /\ UNCHANGED <<client, asked, tab, owner, bridges, pushq, events, shell>>

\* The loop ends: every bridge is aborted, the session stays.
ConnectionEnds ==
  /\ daemon.pc \notin {"swap", "ended"} /\ ~wire.open
  /\ daemon' = [daemon EXCEPT !.pc = "ended", !.out = <<>>]
  /\ bridges' = <<>>
  /\ pushq' = <<>>
  /\ events' = [events EXCEPT !.waiting = <<>>]
  /\ UNCHANGED <<wire, client, asked, tab, owner, shell>>

\* A bridge polls its channel, and waits while the queue is full.
BridgeTakes(b) ==
  /\ b \in LiveBridges /\ bridges[b].hold = <<>> /\ bridges[b].chan # <<>>
  /\ bridges' = [bridges EXCEPT ![b].hold = <<Head(bridges[b].chan)>>, ![b].chan = Tail(@)]
  /\ UNCHANGED <<wire, client, asked, tab, owner, daemon, pushq, events, shell>>

BridgeSends(b) ==
  /\ b \in LiveBridges /\ bridges[b].hold # <<>> /\ Len(pushq) < QueueRoom
  /\ pushq' = Append(pushq, Head(bridges[b].hold))
  /\ bridges' = [bridges EXCEPT ![b].hold = <<>>]
  /\ UNCHANGED <<wire, client, asked, tab, owner, daemon, events, shell>>

-----------------------------------------------------------------------------
(* The session, the agent and the network.  The session and the agent go on *)
(* after the connection is lost, but nothing here hears them.               *)

\* Mutant: a full channel keeps what it has and drops what comes.
NewestGoes(q, m) == IF Len(q) < ChannelRoom THEN Append(q, m) ELSE q

\* send_drop_oldest: the channel after one more item, and what that costs.
Kept(q, m) == Append(IF Len(q) < ChannelRoom THEN q ELSE Tail(q), m)
Dropped(q) == IF Len(q) < ChannelRoom THEN {} ELSE {Head(q)}

\* The host's thread of a subscription sleeps until it is woken, forgets every wake-up it
\* has and takes one item (recv), so that others may stay behind; the daemon's reader puts
\* it in the second channel.  The socket between the two holds nothing back.
HostForwards(b) ==
  /\ b \in LiveBridges /\ bridges[b].wake /\ bridges[b].host # <<>>
  /\ bridges' = [bridges EXCEPT ![b].wake = FALSE, ![b].host = Tail(@),
                                ![b].chan = Kept(@, Head(bridges[b].host))]
  /\ shell' = [shell EXCEPT !.lost = @ \cup Dropped(bridges[b].chan)]
  /\ UNCHANGED <<wire, client, asked, tab, owner, daemon, pushq, events>>

\* Every subscription alive gets what the session pushes; lost is what overflows cost them.
Pushed(m) ==
  bridges' = [b \in DOMAIN bridges |->
                IF bridges[b].on THEN [bridges[b] EXCEPT !.wake = TRUE, !.host = Kept(@, m)]
                ELSE bridges[b]]
Overflown == UNION {Dropped(bridges[b].host) : b \in LiveBridges}

Output ==
  /\ wire.open /\ shell.frames < MaxFrames /\ ~shell.exited /\ asked["open"] # "no"
  /\ shell' = [shell EXCEPT !.frames = @ + 1, !.lost = @ \cup Overflown]
  /\ Pushed(Note("frame", shell.frames + 1))
  /\ UNCHANGED <<wire, client, asked, tab, owner, daemon, pushq, events>>

Exit ==
  /\ wire.open /\ ~shell.exited /\ asked["open"] # "no"
  /\ shell' = [shell EXCEPT !.exited = TRUE, !.told = LiveBridges # {},
                            !.lost = @ \cup Overflown]
  /\ Pushed(Note("closed", shell.frames))
  /\ UNCHANGED <<wire, client, asked, tab, owner, daemon, pushq, events>>

\* A full broadcast channel loses its oldest event for this receiver.
Announce ==
  /\ wire.open /\ shell.announced < MaxEvents
  /\ shell' = [shell EXCEPT !.announced = @ + 1]
  /\ events' = IF daemon.pc = "ended" THEN events
               ELSE IF Len(events.waiting) < EventRoom
                    THEN [events EXCEPT !.waiting = Append(@, shell.announced + 1)]
                    ELSE [waiting |-> Append(Tail(events.waiting), shell.announced + 1),
                          lagged |-> TRUE]
  /\ UNCHANGED <<wire, client, asked, tab, owner, daemon, bridges, pushq>>

Break ==
  /\ wire.open
  /\ wire' = [up |-> <<>>, down |-> <<>>, open |-> FALSE]
  /\ UNCHANGED <<client, asked, tab, owner, daemon, bridges, pushq, events, shell>>

-----------------------------------------------------------------------------
ClientTask == Connected \/ Receive \/ TakeRequest \/ WriteRequest \/ TaskEnds
DaemonTask == Handle \/ Swap \/ TakePush \/ TakeEvent \/ WriteDown \/ ConnectionEnds
BridgeTask(b) == BridgeTakes(b) \/ BridgeSends(b)

Next ==
  \/ Connected \/ Receive \/ TakeRequest \/ WriteRequest \/ TaskEnds
  \/ \E r \in Waited : Ask(r)
  \/ Subscribe \/ SubscribeAgain \/ Unsubscribe \/ StreamStarts \/ Type
  \/ Handle \/ Swap \/ TakePush \/ TakeEvent \/ WriteDown \/ ConnectionEnds
  \/ \E b \in 1 .. Subscribes : BridgeTakes(b)
  \/ \E b \in 1 .. Subscribes : BridgeSends(b)
  \/ \E b \in 1 .. Subscribes : HostForwards(b)
  \/ Output \/ Exit \/ Announce \/ Break

Spec == Init /\ [][Next]_vars

\* The tasks and the bridges are scheduled, and the window's event loop starts the stream
\* of a tab it shows.  The threads of the host are not needed.
FairSpec ==
  /\ Spec
  /\ WF_vars(ClientTask) /\ WF_vars(DaemonTask) /\ WF_vars(StreamStarts)
  /\ \A b \in 1 .. Subscribes : WF_vars(BridgeTask(b))

-----------------------------------------------------------------------------
Frames == [kind : {"frame", "closed"}, n : 0 .. MaxFrames, full : BOOLEAN]

\* The variables keep their types and the bounded queues their bounds.
TypeOK ==
  /\ wire.open \in BOOLEAN /\ Len(wire.up) <= WireRoom /\ Len(wire.down) <= WireRoom
  /\ client.pc \in {"auth", "select", "writing", "ended"}
  /\ asked \in [Waited -> {"no", "asked", "ok", "error"}]
  /\ \A i \in DOMAIN tab.got : tab.got[i] \in Frames
  /\ owner.got \subseteq 1 .. MaxEvents
  /\ daemon.pc \in {"select", "swap", "writing", "ended"} /\ Len(daemon.out) <= 1
  /\ Len(bridges) <= Subscribes /\ Len(pushq) <= QueueRoom
  /\ Len(events.waiting) <= EventRoom
  /\ \A b \in DOMAIN bridges : Len(bridges[b].host) <= ChannelRoom /\ Len(bridges[b].chan) <= ChannelRoom

\* Where a frame, or the end of the session, comes among all that is pushed.
Place(m) == IF m.kind = "closed" THEN m.n + 1 ELSE m.n
Places(S) == {Place(m) : m \in S}
Heard(s) == {s[i] : i \in DOMAIN s}

\* Each item is heard at most once and in order, the end of the session last; from the
\* frame of the whole screen on, whatever is not heard was dropped by an overflow.
LostAtMost(s, lost) ==
  /\ \A i, j \in DOMAIN s : i < j => Place(s[i]) < Place(s[j])
  /\ \A i \in DOMAIN s : \E m \in Heard(s) \cup lost :
       m.full /\ m.n .. Place(s[i]) \subseteq Places(Heard(s) \cup lost)

\* Nothing of what the session or the agent pushed is on its way.
Quiet ==
  /\ wire.open /\ wire.down = <<>> /\ pushq = <<>> /\ events.waiting = <<>>
  /\ daemon.pc = "select"
  /\ \A b \in LiveBridges :
       bridges[b].hold = <<>> /\ bridges[b].chan = <<>> /\ bridges[b].host = <<>>

\* A living connection loses nothing but what overflows.  A tab hears its session in order
\* and each item once, although its stream starts only after frames have arrived, and what
\* it does not hear was dropped, the oldest first, by one of the two full channels of its
\* subscription.  The newest item is never dropped: when nothing is on its way the tab has
\* heard the last frame, and the end of a session it was subscribed to.  Every approval is
\* in the list the window asked for or in an event it received, unless the broadcast
\* channel overflowed.  An item that the host's thread left behind (NothingLeftBehind) is on
\* its way; for a session subscribed twice over one connection, see NeverStale.
PushesArrive ==
  /\ asked["again"] = "no" => LostAtMost(tab.got, shell.lost)
  /\ Quiet => /\ asked["sub"] = "ok" /\ asked["again"] = "no" /\ ~tab.late =>
                   tab.got # <<>> /\ tab.got[Len(tab.got)].n = shell.frames
                   /\ (shell.told => tab.got[Len(tab.got)].kind = "closed")
              /\ asked["list"] = "ok" /\ ~events.lagged => owner.got = 1 .. shell.announced

\* Both ends write and neither reads.
Jammed ==
  /\ wire.open /\ client.pc = "writing" /\ daemon.pc = "writing"
  /\ Len(wire.up) = WireRoom /\ Len(wire.down) = WireRoom

\* Nobody waits for ever: every request is answered or fails, and the stream
\* of a tab ends when its connection is gone, whatever was queued, half written
\* or under way; only both ends writing at once can prevent it.
Served ==
  \/ Jammed
  \/ /\ \A r \in Waited : asked[r] # "asked"
     /\ tab.taken /\ ~tab.late /\ ~wire.open => tab.ended
WaitersEnd == <>[]Served

\* (Observation.) While a new bridge takes over from the old one, what the old one still
\* held can follow the new frame of the whole screen; if the session falls silent then, the
\* window keeps showing the older screen.
NeverStale == \A i \in 2 .. Len(tab.got) : tab.got[i].n >= tab.got[i - 1].n

\* (Observation.) An item can stay in the host's channel with nothing to wake its thread.
NothingLeftBehind == \A b \in LiveBridges : bridges[b].host # <<>> => bridges[b].wake

\* (Observation.) The two ends can be stuck in their writes.
NeverJammed == ~Jammed

\* (Observation.) A stream that starts after its connection ended never ends.
NoLateStream == ~tab.late
===============================================================================
