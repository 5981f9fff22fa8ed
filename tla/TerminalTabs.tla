----------------------------- MODULE TerminalTabs -----------------------------
(***************************************************************************)
(* The terminal tabs of the desktop application and their way back after a *)
(* lost connection, a locked vault or a restart (vida-gui: app.rs), with   *)
(* the client library under them (vida-client: lib.rs) and the connections *)
(* of the daemon (vida-daemon: ws_server.rs).                              *)
(*                                                                         *)
(* The application handles one message at a time; each handler may start   *)
(* tasks, whose requests run beside it and which end in another message.   *)
(* `tasks' is the bag of both: a task in progress, a message not yet       *)
(* handled.  Messages of different tasks are handled in any order.         *)
(*                                                                         *)
(* Every tab has a stream: it takes the receiver the client library has    *)
(* for its session, and reports when the library drops the sender.  iced   *)
(* starts a stream when its tab, session or client is new and never again. *)
(***************************************************************************)
EXTENDS Integers, FiniteSets, Bags

CONSTANTS
  Tabs,         \* places for terminal tabs
  MaxSessions,  \* bound on the sessions at a time, those still referred to included
  MaxClients,   \* bound on the connections at a time, those still referred to included
  Plans         \* bounds: what the user may do and how often, which faults there are

AllWishes ==
  {"local", "ssh", "close", "lock", "refresh", "fail", "quit", "retry", "elsewhere"}

ASSUME BoundsAssumption ==
  /\ Tabs \subseteq Nat /\ {MaxSessions, MaxClients} \subseteq Nat
  /\ \A p \in Plans :
       /\ DOMAIN p = {"wishes", "requests", "drops", "crashes", "lost"}
       /\ p.wishes \subseteq AllWishes
       /\ {p.requests, p.drops, p.crashes, p.lost} \subseteq Nat

Sessions == 1..MaxSessions
Clients  == 1..MaxClients

VARIABLES
  \* the application
  screen,     \* "failure", "unlock", "unlocking" (its button disabled) or "main"
  guiLocked,  \* vault_locked
  tab,        \* terminal_sessions: the session of a tab, of which kind, if closed
  client,     \* ws_client, 0 for none
  pending,    \* terminal_restore_pending
  resume,     \* terminal_resume_without_unlock
  inFlight,   \* terminal_reconnect_in_flight
  opening,    \* terminal_opening
  cooling,    \* terminal_reconnect_cooldown has not passed
  wanted,     \* pending_vault_action: an SSH terminal to open after unlocking
  first,      \* initial_terminal_open_pending
  tasks,      \* tasks in progress and messages not yet handled
  stream,     \* the push stream of each tab
  \* the client library: the sender it has for a session of a connection
  registry,
  \* the daemon
  up,         \* it runs
  locked,     \* its vault is locked
  shells,     \* the sessions that exist
  alive,      \* the connections that are open
  subs,       \* the sessions each connection has subscribed
  fed,        \* those whose first, full frame found a receiver
  \* bounds
  plan,       \* what may happen
  used        \* what has happened of it

guiVars    == <<screen, guiLocked, tab, client, pending, resume, inFlight, opening,
                cooling, wanted, first>>
libVars    == <<stream, registry>>
daemonVars == <<up, locked, shells, alive, subs, fed>>
bounds     == <<plan, used>>
tabVars    == <<guiVars, tasks, libVars, daemonVars, bounds>>

\* The value does not matter: an identity, a place.
OneOf(S) == CHOOSE x \in S : TRUE
NoTab    == [sid |-> 0, ssh |-> FALSE, closed |-> FALSE]
NoStream == [sid |-> 0, c |-> 0, st |-> "none"]

Open(tb)   == {t \in Tabs : tb[t].sid # 0}
Shown(tb)  == {tb[t].sid : t \in Open(tb)}
Closed(tb) == {[sid |-> tb[t].sid, ssh |-> tb[t].ssh] : t \in {u \in Open(tb) : tb[u].closed}}

-----------------------------------------------------------------------------
(* Tasks and messages.                                                     *)

Task(kind, c) == [kind |-> kind, c |-> c, at |-> "none", sid |-> 0, flag |-> FALSE,
                  now |-> [sid |-> 0, ssh |-> FALSE], todo |-> {}, done |-> {}]

Running == BagToSet(tasks)
Post(new) == tasks' = tasks (+) SetToBag(new)
Become(k, new) == tasks' = (tasks (-) SetToBag({k})) (+) SetToBag(new)

OpenTask(ssh) == {[Task("open", client) EXCEPT !.at = "open", !.flag = ssh]}

\* restore_terminal_sessions, for the tabs tb: all that are closed.
RestoreTasks(tb, c) ==
  IF Closed(tb) = {} \/ c = 0 THEN {}
  ELSE {[Task("restore", c) EXCEPT !.at = "subscribe", !.todo = Closed(tb)]}

-----------------------------------------------------------------------------
(* The client library and the streams.                                     *)

\* The streams str after a handler: iced starts those whose identity is new.
Restream(str) ==
  stream' = [t \in Tabs |->
    IF tab'[t].sid = 0 \/ client' = 0 THEN NoStream
    ELSE IF str[t].sid = tab'[t].sid /\ str[t].c = client' THEN str[t]
    ELSE [sid |-> tab'[t].sid, c |-> client', st |-> "new"]]

\* Streams whose senders are dropped: they will end.
Cut(c, sids) ==
  [t \in Tabs |-> IF stream[t].c = c /\ stream[t].sid \in sids /\ stream[t].st = "on"
                  THEN [stream[t] EXCEPT !.st = "cut"] ELSE stream[t]]

\* unsubscribe: the sender and a receiver nobody took are dropped.
Unregistered(c, sids) ==
  [x \in Clients |-> IF x # c THEN registry[x]
                     ELSE [s \in Sessions |-> IF s \in sids THEN "none" ELSE registry[x][s]]]

\* Mutant: nothing waits for the first frame.
PreparedLater(c, s) == registry

\* prepare_subscription: a sender with a receiver to be taken, unless there is one.
Prepared(c, s) ==
  IF registry[c][s] = "none" THEN [registry EXCEPT ![c][s] = "prepared"] ELSE registry

\* A receiver for session s waits or is being read.
Heard(reg, c, s) ==
  \/ reg[c][s] = "prepared"
  \/ reg[c][s] = "taken"
     /\ \E t \in Tabs : stream[t].sid = s /\ stream[t].c = c /\ stream[t].st = "on"

\* SubscribeSession: the daemon subscribes and sends a full frame.
Subscribed(c, s) ==
  /\ registry' = Prepared(c, s)
  /\ subs' = subs \cup {<<c, s>>}
  /\ fed' = IF Heard(registry', c, s) THEN fed \cup {<<c, s>>} ELSE fed

\* Mutant: the bridges of a connection outlive it.
SocketsEndBridgesStay(cs) ==
  /\ alive' = alive \ cs
  /\ registry' = [c \in Clients |->
                    IF c \in cs THEN [s \in Sessions |-> "none"] ELSE registry[c]]
  /\ stream' = [t \in Tabs |-> IF stream[t].c \in cs /\ stream[t].st = "on"
                               THEN [stream[t] EXCEPT !.st = "cut"] ELSE stream[t]]
  /\ UNCHANGED <<subs, fed>>

\* The sockets of these connections end: close_push_subscriptions, and in the daemon
\* the bridges of their subscriptions are aborted.
SocketsEnd(cs) ==
  /\ alive' = alive \ cs
  /\ subs' = {x \in subs : x[1] \notin cs}
  /\ fed' = {x \in fed : x[1] \notin cs}
  /\ registry' = [c \in Clients |->
                    IF c \in cs THEN [s \in Sessions |-> "none"] ELSE registry[c]]
  /\ stream' = [t \in Tabs |-> IF stream[t].c \in cs /\ stream[t].st = "on"
                               THEN [stream[t] EXCEPT !.st = "cut"] ELSE stream[t]]

\* A stream takes the prepared receiver or makes a sender of its own; in the
\* registry of a connection that has ended that sender is never dropped.
StreamStarts(t) ==
  /\ stream[t].st = "new"
  /\ IF stream[t].c \in alive
     THEN /\ registry' = [registry EXCEPT ![stream[t].c][stream[t].sid] = "taken"]
          /\ stream' = [stream EXCEPT ![t].st = "on"]
     ELSE stream' = [stream EXCEPT ![t].st = "deaf"] /\ UNCHANGED registry
  /\ UNCHANGED <<guiVars, tasks, daemonVars, bounds>>

\* (Bound: no two ends of streams of one session wait to be handled.)
StreamEnds(t) ==
  /\ stream[t].st = "cut"
  /\ \A k \in Running : k.kind = "gone" => k.sid # stream[t].sid
  /\ stream' = [stream EXCEPT ![t].st = "ended"]
  /\ Post({[Task("gone", 0) EXCEPT !.sid = stream[t].sid]})
  /\ UNCHANGED <<guiVars, registry, daemonVars, bounds>>

-----------------------------------------------------------------------------
(* The requests of a task, each with its answer.  An identity that nothing *)
(* refers to any more is taken for the next connection or session.         *)

UsedClients == {client} \cup {stream[t].c : t \in Tabs} \cup {k.c : k \in Running}
UsedSessions ==
  shells \cup {tab[t].sid : t \in Tabs} \cup {stream[t].sid : t \in Tabs}
  \cup UNION {{k.sid, k.now.sid} \cup {x.sid : x \in k.todo}
              \cup UNION {{m.old, m.new} : m \in k.done} : k \in Running}

\* connect_for_role: a socket and its authentication.
Connect(k) ==
  /\ k.kind = "connect"
  /\ IF up
     THEN /\ Clients \ UsedClients # {}
          /\ LET c == OneOf(Clients \ UsedClients) IN
            /\ alive' = alive \cup {c}
            /\ registry' = [registry EXCEPT ![c] = [s \in Sessions |-> "none"]]
            /\ subs' = {x \in subs : x[1] # c}
            /\ fed' = {x \in fed : x[1] # c}
            /\ Become(k, {Task("connected", c)})
     ELSE /\ Become(k, {Task(IF k.flag THEN "reconnectFailed" ELSE "wserror", 0)})
          /\ UNCHANGED <<alive, registry, subs, fed>>
  /\ UNCHANGED <<guiVars, stream, up, locked, shells, bounds>>

\* vault_status and list_hosts.
Ask(k) ==
  /\ \/ k.kind = "status"
        /\ Become(k, {IF k.c \in alive THEN [Task("checked", 0) EXCEPT !.flag = locked]
                      ELSE Task("wserror", 0)})
     \/ k.kind = "list"
        /\ Become(k, {IF k.c \in alive /\ ~locked THEN Task("hosts", 0)
                      ELSE Task("wserror", 0)})
  /\ UNCHANGED <<guiVars, libVars, daemonVars, bounds>>

\* unlock: the passphrase is right.
Unlock(k) ==
  /\ k.kind = "unlock"
  /\ locked' = (locked /\ k.c \notin alive)
  /\ Become(k, {Task(IF k.c \in alive THEN "unlocked" ELSE "unlockFailed", 0)})
  /\ UNCHANGED <<guiVars, libVars, up, shells, alive, subs, fed, bounds>>

\* The daemon closes sessions: their streams get SessionClosed at most, and the
\* client library has no sender for them any more.
CloseQueued(k) ==
  /\ \/ k.kind = "close" /\ Become(k, {})
     \/ k.kind = "lock" /\ k.at = "close" /\ Become(k, {[k EXCEPT !.at = "lock", !.todo = {}]})
  /\ IF k.c \in alive
     THEN /\ shells' = shells \ {x.sid : x \in k.todo}
          /\ subs' = {x \in subs : x[2] \in shells'}
          /\ fed' = fed \cap subs'
     ELSE UNCHANGED <<shells, subs, fed>>
  /\ UNCHANGED <<guiVars, libVars, up, locked, alive, bounds>>

Lock(k) ==
  /\ k.kind = "lock" /\ k.at = "lock"
  /\ locked' = (locked \/ k.c \in alive)
  /\ Become(k, {Task(IF k.c \in alive THEN "locked" ELSE "wserror", 0)})
  /\ UNCHANGED <<guiVars, libVars, up, shells, alive, subs, fed, bounds>>

\* OpenSession and OpenSshSession; the latter needs the unlocked vault.
OpenSession(k, ssh, next, failed) ==
  IF k.c \in alive /\ (ssh => ~locked)
  THEN /\ Sessions \ UsedSessions # {}
       /\ LET s == OneOf(Sessions \ UsedSessions)
          IN /\ shells' = shells \cup {s}
             /\ registry' = [c \in Clients |-> [registry[c] EXCEPT ![s] = "none"]]
             /\ Become(k, {[next EXCEPT !.sid = s]})
       /\ UNCHANGED <<subs, fed, stream>>
  ELSE Become(k, {failed}) /\ UNCHANGED <<shells, subs, fed, registry, stream>>

\* SubscribeSession, and unsubscribe when it fails.
SubscribeSession(k, s, next, failed) ==
  IF k.c \in alive /\ s \in shells
  THEN Subscribed(k.c, s) /\ Become(k, {next}) /\ UNCHANGED <<shells, stream>>
  ELSE /\ registry' = Unregistered(k.c, {s})
       /\ stream' = Cut(k.c, {s})
       /\ Become(k, {failed})
       /\ UNCHANGED <<shells, subs, fed>>

\* open_and_subscribe and open_ssh_and_subscribe.
OpenAndSubscribe(k) ==
  /\ k.kind = "open"
  /\ \/ /\ k.at = "open"
        /\ OpenSession(k, k.flag, [k EXCEPT !.at = "subscribe"], Task("setupError", 0))
     \/ /\ k.at = "subscribe"
        /\ SubscribeSession(k, k.sid,
             [Task("opened", 0) EXCEPT !.now = [sid |-> k.sid, ssh |-> k.flag]],
             Task("setupError", 0))
  /\ UNCHANGED <<guiVars, up, locked, alive, bounds>>

\* restore_terminal_sessions: subscribe to each session, or open another in place
\* of one that does not exist any more; anything else ends the attempt.
Mapping(k, x, s) ==
  LET rest == k.todo \ {x}
      done == k.done \cup {[old |-> x.sid, new |-> s]}
  IN IF rest = {} THEN [Task("restored", k.c) EXCEPT !.done = done]
     ELSE [Task("restore", k.c) EXCEPT !.at = "subscribe", !.todo = rest, !.done = done]

\* Mutant: a new session is opened for every tab, without asking for the old one.
RestoreReopens(k) ==
  /\ k.at = "subscribe"
  /\ \E x \in k.todo : Become(k, {[k EXCEPT !.at = "open", !.now = x]})
  /\ UNCHANGED <<shells, subs, fed, registry, stream>>

RestoreSubscribes(k) ==
  /\ k.at = "subscribe"
  /\ \E x \in k.todo :
       SubscribeSession(k, x.sid, Mapping(k, x, x.sid),
                        IF k.c \in alive THEN [k EXCEPT !.at = "open", !.now = x]
                        ELSE Task("reconnectFailed", 0))

RestoreOpens(k) ==
  \/ /\ k.at = "open"
     /\ OpenSession(k, k.now.ssh, [k EXCEPT !.at = "again"], Task("reconnectFailed", 0))
  \/ /\ k.at = "again"
     /\ SubscribeSession(k, k.sid, Mapping(k, k.now, k.sid), Task("reconnectFailed", 0))

Restore(k) ==
  /\ k.kind = "restore"
  /\ RestoreSubscribes(k) \/ RestoreOpens(k)
  /\ UNCHANGED <<guiVars, up, locked, alive, bounds>>

\* The two-second timer of a failed reconnection.
Timer(k) ==
  /\ k.kind = "timer"
  /\ Become(k, {Task("retry", 0)})
  /\ UNCHANGED <<guiVars, libVars, daemonVars, bounds>>

-----------------------------------------------------------------------------
(* The handlers of update.                                                 *)

Received(k, kind) == k.kind = kind

\* WsConnected: a restoration keeps the reconnection in flight until it ends.
WsConnected(k) ==
  /\ Received(k, "connected")
  /\ inFlight' = (inFlight /\ pending)
  /\ client' = k.c
  /\ Become(k, {Task("status", k.c)})
  /\ UNCHANGED <<screen, guiLocked, tab, pending, resume, opening, cooling, wanted, first>>
  /\ Restream(stream)
  /\ UNCHANGED <<registry, daemonVars, bounds>>

WsError(k) ==
  /\ Received(k, "wserror")
  /\ inFlight' = FALSE
  /\ screen' = "failure"
  /\ Become(k, {})
  /\ UNCHANGED <<guiLocked, tab, client, pending, resume, opening, cooling, wanted, first,
                 libVars, daemonVars, bounds>>

\* RetryConnection and TerminalReconnectRetry, `rest' being what else is posted.
RetryFrom(k) ==
  LET new == IF inFlight THEN {} ELSE {[Task("connect", 0) EXCEPT !.flag = pending]}
  IN /\ IF k = {} THEN Post(new) ELSE Become(CHOOSE x \in k : TRUE, new)
     /\ inFlight' = TRUE
     /\ UNCHANGED <<screen, guiLocked, tab, client, pending, resume, opening, cooling, wanted,
                    first, libVars, daemonVars>>

TerminalReconnectRetry(k) == Received(k, "retry") /\ RetryFrom({k}) /\ UNCHANGED bounds

\* DaemonChecked: after a crash of the daemon the sessions are restored although
\* its vault is locked.
DaemonChecked(k) ==
  /\ Received(k, "checked")
  /\ guiLocked' = k.flag
  /\ \/ /\ k.flag /\ resume /\ pending /\ Open(tab) # {}
        /\ screen' = "main"
        /\ Become(k, RestoreTasks(tab, client))
     \/ /\ k.flag /\ ~(resume /\ pending /\ Open(tab) # {})
        /\ screen' = "unlock"
        /\ Become(k, {})
     \/ /\ ~k.flag
        /\ Become(k, {Task("list", client)})
        /\ UNCHANGED screen
  /\ UNCHANGED <<tab, client, pending, resume, inFlight, opening, cooling, wanted, first,
                 libVars, daemonVars, bounds>>

\* HostsLoaded: the main screen, and what waited for it.
HostsLoaded(k) ==
  LET local == ~pending /\ first /\ Open(tab) = {} /\ ~opening
      ssh   == wanted /\ ~opening /\ ~local
  IN /\ Received(k, "hosts")
     /\ guiLocked' = FALSE
     /\ screen' = "main"
     /\ first' = FALSE
     /\ wanted' = FALSE
     /\ opening' = (opening \/ local \/ ssh)
     /\ Become(k, (IF pending THEN RestoreTasks(tab, client) ELSE {})
                  \cup (IF local \/ ssh THEN OpenTask(ssh) ELSE {}))
     /\ UNCHANGED <<tab, client, pending, resume, inFlight, cooling, libVars, daemonVars,
                    bounds>>

\* TerminalOpened: on another screen than the main one the session is closed again.
TerminalOpened(k) ==
  /\ Received(k, "opened")
  /\ opening' = FALSE
  /\ \/ /\ screen # "main"
        /\ registry' = Unregistered(client, {k.now.sid})
        /\ stream' = Cut(client, {k.now.sid})
        /\ Become(k, {[Task("close", client) EXCEPT !.todo = {k.now}]})
        /\ UNCHANGED tab
     \/ /\ screen = "main"
        /\ Tabs \ Open(tab) # {}
        /\ tab' = [tab EXCEPT ![OneOf(Tabs \ Open(tab))] =
                     [sid |-> k.now.sid, ssh |-> k.now.ssh, closed |-> FALSE]]
        /\ client' = client
        /\ Become(k, {})
        /\ Restream(stream)
        /\ UNCHANGED registry
  /\ UNCHANGED <<screen, guiLocked, client, pending, resume, inFlight, cooling, wanted,
                 first, daemonVars, bounds>>

TerminalSetupError(k) ==
  /\ Received(k, "setupError")
  /\ opening' = FALSE
  /\ Become(k, {})
  /\ UNCHANGED <<screen, guiLocked, tab, client, pending, resume, inFlight, cooling, wanted,
                 first, libVars, daemonVars, bounds>>

\* TerminalDisconnected: the connection is gone, and with it every open tab; the
\* reconnection starts unless one has started within the cooldown.
TerminalDisconnected(k) ==
  /\ Received(k, "gone")
  /\ \/ /\ \A t \in Open(tab) : tab[t].sid = k.sid => tab[t].closed
        /\ Become(k, {})
        /\ UNCHANGED <<tab, pending, resume, inFlight, cooling>>
     \/ /\ \E t \in Open(tab) : tab[t].sid = k.sid /\ ~tab[t].closed
        /\ tab' = [t \in Tabs |-> [tab[t] EXCEPT !.closed = tab[t].sid # 0]]
        /\ pending' = TRUE
        /\ resume' = TRUE
        /\ cooling' = TRUE
        /\ inFlight' = (inFlight \/ ~cooling)
        /\ Become(k, IF cooling THEN {} ELSE {[Task("connect", 0) EXCEPT !.flag = TRUE]})
  /\ UNCHANGED <<screen, guiLocked, client, opening, wanted, first, libVars, daemonVars,
                 bounds>>

\* Mutant: the session is looked up among those closed, not by its number.
MarkedWhereClosed(done) ==
  [t \in Tabs |-> IF tab[t].sid # 0 /\ tab[t].closed
                  THEN [tab[t] EXCEPT !.sid = (CHOOSE m \in done : TRUE).new, !.closed = FALSE]
                  ELSE tab[t]]

\* mark_terminal_reconnected, for each mapping of a session.
Reconnected(done) ==
  [t \in Tabs |-> IF tab[t].sid # 0 /\ \E m \in done : m.old = tab[t].sid
                  THEN [tab[t] EXCEPT !.sid = (CHOOSE m \in done : m.old = tab[t].sid).new,
                                      !.closed = FALSE]
                  ELSE tab[t]]

\* TerminalReconnected.
TerminalReconnected(k) ==
  /\ Received(k, "restored")
  /\ client' = k.c
  /\ cooling' = FALSE /\ pending' = FALSE /\ resume' = FALSE /\ inFlight' = FALSE
  /\ tab' = Reconnected(k.done)
  /\ Become(k, {})
  /\ UNCHANGED <<screen, guiLocked, opening, wanted, first>>
  /\ Restream(stream)
  /\ UNCHANGED <<registry, daemonVars, bounds>>

\* Mutant: the failed attempt stays in flight.
ReconnectFailedInFlight(k) ==
  /\ Received(k, "reconnectFailed")
  /\ opening' = FALSE
  /\ screen' = "failure"
  /\ Become(k, {Task("timer", 0)})
  /\ UNCHANGED <<guiLocked, tab, client, pending, resume, inFlight, cooling, wanted, first,
                 libVars, daemonVars, bounds>>

TerminalReconnectFailed(k) ==
  /\ Received(k, "reconnectFailed")
  /\ inFlight' = FALSE
  /\ opening' = FALSE
  /\ screen' = "failure"
  /\ Become(k, {Task("timer", 0)})
  /\ UNCHANGED <<guiLocked, tab, client, pending, resume, cooling, wanted, first,
                 libVars, daemonVars, bounds>>

VaultLocked(k) ==
  /\ Received(k, "locked")
  /\ opening' = FALSE
  /\ guiLocked' = TRUE
  /\ wanted' = FALSE
  /\ screen' = "unlock"
  /\ Become(k, {})
  /\ UNCHANGED <<tab, client, pending, resume, inFlight, cooling, first,
                 libVars, daemonVars, bounds>>

\* UnlockSuccess and UnlockFailed.
UnlockEnds(k) ==
  /\ \/ /\ Received(k, "unlocked") /\ guiLocked' = FALSE /\ Become(k, {Task("list", client)})
        /\ UNCHANGED screen
     \/ /\ Received(k, "unlockFailed") /\ Become(k, {}) /\ UNCHANGED guiLocked
        /\ screen' = IF screen = "unlocking" THEN "unlock" ELSE screen
  /\ UNCHANGED <<tab, client, pending, resume, inFlight, opening, cooling, wanted,
                 first, libVars, daemonVars, bounds>>

-----------------------------------------------------------------------------
(* The user.                                                               *)

Spend(what, n) ==
  /\ used[what] + n <= plan[what]
  /\ used' = [used EXCEPT ![what] = @ + n]
  /\ UNCHANGED plan

Wish(w) == w \in plan.wishes /\ Spend("requests", 1)

\* OpenLocalTerminal and OpenSshTerminal; there is place for a tab.
OpenTerminal(ssh) ==
  /\ Wish(IF ssh THEN "ssh" ELSE "local")
  /\ screen = "main" /\ ~opening /\ client # 0
  /\ Cardinality(Open(tab)) + Cardinality({k \in Running : k.kind \in {"open", "opened"}})
       < Cardinality(Tabs)
  /\ \/ /\ ssh /\ guiLocked
        /\ wanted' = TRUE
        /\ screen' = "unlock"
        /\ UNCHANGED <<opening, tasks>>
     \/ /\ ~(ssh /\ guiLocked)
        /\ opening' = TRUE
        /\ Post(OpenTask(ssh))
        /\ UNCHANGED <<wanted, screen>>
  /\ UNCHANGED <<guiLocked, tab, client, pending, resume, inFlight, cooling, first,
                 libVars, daemonVars>>

\* CloseTab, with close_terminal_session.
CloseTab(t) ==
  /\ Wish("close")
  /\ screen = "main" /\ tab[t].sid # 0 /\ client # 0
  /\ registry' = Unregistered(client, {tab[t].sid})
  /\ tab' = [tab EXCEPT ![t] = NoTab]
  /\ stream' = [stream EXCEPT ![t] = NoStream]
  /\ Post({[Task("close", client) EXCEPT
              !.todo = {[sid |-> tab[t].sid, ssh |-> tab[t].ssh]}]})
  /\ UNCHANGED <<screen, guiLocked, client, pending, resume, inFlight, opening, cooling,
                 wanted, first, daemonVars>>

\* LockVault, with suspend_all_terminal_sessions; while tabs wait to be restored it
\* is a reconnection.
LockVault ==
  /\ Wish("lock")
  /\ screen = "main" /\ client # 0
  /\ \/ /\ pending
        /\ RetryFrom({})
     \/ /\ ~pending
        /\ resume' = FALSE
        /\ tab' = [t \in Tabs |-> [tab[t] EXCEPT !.closed = tab[t].sid # 0]]
        /\ cooling' = FALSE
        /\ pending' = (Open(tab) # {})
        /\ inFlight' = FALSE
        /\ registry' = Unregistered(client, Shown(tab))
        /\ stream' = Cut(client, Shown(tab))
        /\ Post({[Task("lock", client) EXCEPT !.at = "close",
                    !.todo = {[sid |-> tab[t].sid, ssh |-> tab[t].ssh] : t \in Open(tab)}]})
        /\ UNCHANGED <<screen, guiLocked, client, opening, wanted, first, daemonVars>>

\* UnlockVault.
UnlockVault ==
  /\ screen = "unlock" /\ client # 0
  /\ screen' = "unlocking"
  /\ Post({Task("unlock", client)})
  /\ UNCHANGED <<guiLocked, tab, client, pending, resume, inFlight, opening, cooling, wanted,
                 first, libVars, daemonVars, bounds>>

\* An edit of the hosts, after which they are listed anew.
Refresh ==
  /\ Wish("refresh")
  /\ screen = "main" /\ client # 0
  /\ Post({Task("list", client)})
  /\ UNCHANGED <<guiVars, libVars, daemonVars>>

\* Another request of the user that the daemon refuses.
Refused ==
  /\ Wish("fail")
  /\ screen = "main" /\ client # 0
  /\ Post({Task("wserror", 0)})
  /\ UNCHANGED <<guiVars, libVars, daemonVars>>

\* RetryConnection, pressed once nothing else is under way, or earlier.
RetryConnection ==
  /\ screen = "failure"
  /\ RetryFrom({})

PatientRetry   == Running = {} /\ RetryConnection /\ UNCHANGED bounds
ImpatientRetry == Wish("retry") /\ RetryConnection

\* The application quits and is started again: restore_persisted_terminal_layout.
Relaunch ==
  /\ Wish("quit")
  /\ screen' = "failure"
  /\ guiLocked' = TRUE
  /\ tab' = [t \in Tabs |-> [tab[t] EXCEPT !.closed = tab[t].sid # 0]]
  /\ client' = 0
  /\ pending' = (Open(tab) # {})
  /\ resume' = FALSE /\ inFlight' = FALSE /\ opening' = FALSE /\ cooling' = FALSE
  /\ wanted' = FALSE /\ first' = TRUE
  /\ tasks' = SetToBag({Task("connect", 0)})
  /\ stream' = [t \in Tabs |-> NoStream]
  /\ registry' = [c \in Clients |-> [s \in Sessions |-> "none"]]
  /\ alive' = {} /\ subs' = {} /\ fed' = {}
  /\ UNCHANGED <<up, locked, shells>>

-----------------------------------------------------------------------------
(* The daemon and the rest.                                                *)

ConnectionBreaks(c) ==
  /\ Spend("drops", 1)
  /\ c \in alive
  /\ SocketsEnd({c})
  /\ UNCHANGED <<guiVars, tasks, up, locked, shells>>

\* The daemon crashes; the session host keeps the sessions, or some of them.
DaemonDies ==
  /\ up /\ up' = FALSE
  /\ SocketsEnd(alive)
  /\ \E S \in SUBSET shells :
       /\ used.crashes < plan.crashes /\ used.lost + Cardinality(S) <= plan.lost
       /\ used' = [used EXCEPT !.crashes = @ + 1, !.lost = @ + Cardinality(S)]
       /\ shells' = shells \ S
  /\ UNCHANGED <<guiVars, tasks, locked, plan>>

\* It is started again, with the passphrase the session host remembers or without.
DaemonStarts ==
  /\ ~up /\ up' = TRUE
  /\ locked' \in BOOLEAN
  /\ UNCHANGED <<guiVars, tasks, libVars, shells, alive, subs, fed, bounds>>

\* Another owner locks the vault.
LockedElsewhere ==
  /\ Wish("elsewhere")
  /\ up /\ ~locked
  /\ locked' = TRUE
  /\ UNCHANGED <<guiVars, tasks, libVars, up, shells, alive, subs, fed>>

\* The cooldown of ten seconds passes.
Cool ==
  /\ cooling
  /\ cooling' = FALSE
  /\ UNCHANGED <<screen, guiLocked, tab, client, pending, resume, inFlight, opening, wanted,
                 first, tasks, libVars, daemonVars, bounds>>

-----------------------------------------------------------------------------
TaskKinds == {"connect", "status", "list", "unlock", "close", "lock", "open", "restore", "timer"}
MessageKinds ==
  {"connected", "wserror", "retry", "checked", "hosts", "opened", "setupError", "gone",
   "restored", "reconnectFailed", "locked", "unlocked", "unlockFailed"}

Init ==
  /\ screen = "failure" /\ guiLocked = TRUE
  /\ tab = [t \in Tabs |-> NoTab]
  /\ client = 0
  /\ pending = FALSE /\ resume = FALSE /\ inFlight = FALSE /\ opening = FALSE
  /\ cooling = FALSE /\ wanted = FALSE /\ first = TRUE
  /\ tasks = SetToBag({Task("connect", 0)})
  /\ stream = [t \in Tabs |-> NoStream]
  /\ registry = [c \in Clients |-> [s \in Sessions |-> "none"]]
  /\ up = TRUE /\ locked \in BOOLEAN
  /\ shells = {} /\ alive = {} /\ subs = {} /\ fed = {}
  /\ plan \in Plans
  /\ used = [requests |-> 0, drops |-> 0, crashes |-> 0, lost |-> 0]

Perform(k) ==
  \/ Connect(k) \/ Ask(k) \/ Unlock(k) \/ CloseQueued(k) \/ Lock(k)
  \/ OpenAndSubscribe(k) \/ Restore(k) \/ Timer(k)

Handle(k) ==
  \/ WsConnected(k) \/ WsError(k) \/ TerminalReconnectRetry(k) \/ DaemonChecked(k)
  \/ HostsLoaded(k) \/ TerminalOpened(k) \/ TerminalSetupError(k) \/ TerminalDisconnected(k)
  \/ TerminalReconnected(k) \/ TerminalReconnectFailed(k) \/ VaultLocked(k) \/ UnlockEnds(k)

User ==
  \/ \E ssh \in BOOLEAN : OpenTerminal(ssh)
  \/ \E t \in Tabs : CloseTab(t)
  \/ LockVault \/ UnlockVault \/ Refresh \/ Refused \/ PatientRetry \/ ImpatientRetry
  \/ Relaunch

World ==
  \/ \E c \in Clients : ConnectionBreaks(c)
  \/ DaemonDies \/ DaemonStarts \/ LockedElsewhere \/ Cool

Next ==
  \/ \E k \in Running : Perform(k) \/ Handle(k)
  \/ \E t \in Tabs : StreamStarts(t) \/ StreamEnds(t)
  \/ User \/ World

Spec == Init /\ [][Next]_tabVars

\* The tasks run, the handlers answer, the daemon is kept running by its owner,
\* and a user who sees the connection failed and nothing happening tries again.
FairSpec ==
  /\ Spec
  /\ \A kind \in TaskKinds : WF_tabVars(\E k \in Running : k.kind = kind /\ Perform(k))
  /\ \A kind \in MessageKinds : WF_tabVars(\E k \in Running : k.kind = kind /\ Handle(k))
  /\ \A t \in Tabs : WF_tabVars(StreamStarts(t)) /\ WF_tabVars(StreamEnds(t))
  /\ WF_tabVars(DaemonStarts) /\ WF_tabVars(PatientRetry)

-----------------------------------------------------------------------------
(* Properties.                                                             *)

SessionRecords == [sid : Sessions \cup {0}, ssh : BOOLEAN]
Steps == {"none", "open", "subscribe", "again", "close", "lock"}
TaskRecords ==
  [kind : TaskKinds \cup MessageKinds, c : Clients \cup {0}, at : Steps,
   sid : Sessions \cup {0}, flag : BOOLEAN, now : SessionRecords,
   todo : SUBSET SessionRecords, done : SUBSET [old : Sessions, new : Sessions]]

TypeOK ==
  /\ screen \in {"failure", "unlock", "unlocking", "main"}
  /\ {guiLocked, pending, resume, inFlight, opening, cooling, wanted, first, up, locked}
       \subseteq BOOLEAN
  /\ tab \in [Tabs -> [sid : Sessions \cup {0}, ssh : BOOLEAN, closed : BOOLEAN]]
  /\ client \in Clients \cup {0}
  /\ Running \subseteq TaskRecords /\ \A k \in Running : tasks[k] \in Nat \ {0}
  /\ stream \in [Tabs -> [sid : Sessions \cup {0}, c : Clients \cup {0},
                          st : {"none", "new", "on", "cut", "ended", "deaf"}]]
  /\ registry \in [Clients -> [Sessions -> {"none", "prepared", "taken"}]]
  /\ shells \subseteq Sessions /\ alive \subseteq Clients
  /\ subs \subseteq alive \X Sessions /\ fed \subseteq subs

\* A tab gets another session in place of its own only when that has ended: a shell
\* that survived is never replaced (restore_terminal_sessions).
ReplacesOnlyGone ==
  \A t \in Tabs : tab[t].sid # 0 /\ tab'[t].sid \notin {0, tab[t].sid} => tab[t].sid \notin shells

\* A tab that comes back on the connection in use has its session subscribed there,
\* and the first, full frame of a session that is new to it found a receiver.
ReturnsSubscribed ==
  \A t \in Tabs :
    LET new == tab'[t]
    IN tab[t].closed /\ new.sid # 0 /\ ~new.closed /\ client' \in alive /\ new.sid \in shells
       => /\ <<client', new.sid>> \in subs
          /\ new.sid # tab[t].sid => <<client', new.sid>> \in fed

\* A restoration gives a tab back what it had: its own session while that lives, and
\* everything the session prints from then on.
ComesBackAsItWas == [][ReplacesOnlyGone /\ ReturnsSubscribed]_tabVars

\* The sessions that a task has opened and that no tab has yet.
Coming(k) ==
  (IF k.kind \in {"open", "restore"} THEN {k.sid} \ {0} ELSE {})
  \cup (IF k.kind = "opened" THEN {k.now.sid} ELSE {})
  \cup {m.new : m \in {n \in k.done : n.new # n.old}}

\* A session is shown by one tab or on its way to one, not both and not twice.
OneTabPerSession ==
  /\ \A t, u \in Open(tab) : t # u => tab[t].sid # tab[u].sid
  /\ \A k \in Running : Coming(k) \cap Shown(tab) = {}
  /\ \A k, j \in Running : k # j => Coming(k) \cap Coming(j) = {}

\* The variables keep their types, and whatever overlaps (a restoration with an opening,
\* two restorations), no session comes to be shown by two tabs and none that a task has
\* opened is meant for two (restore_terminal_sessions and mark_terminal_reconnected of
\* app.rs, and the handlers of TerminalOpened and TerminalDisconnected).
TabsAgree == TypeOK /\ OneTabPerSession

Waiting(t) == tab[t].sid # 0 /\ tab[t].closed

\* A terminal over SSH is to be opened anew but the vault is locked.
CannotReopen ==
  \E t \in Tabs : Waiting(t) /\ tab[t].ssh /\ tab[t].sid \notin shells /\ locked

\* A tab that lost its session or its connection comes back or is closed, or the user
\* is asked for the passphrase, or cannot be helped without it.  (With LostAgainPlans
\* of MC_TerminalTabs it fails like WaitingIsPending below.)
Recovers ==
  \A t \in Tabs : Waiting(t) ~> \/ ~Waiting(t) \/ screen \in {"unlock", "unlocking"}
                                \/ CannotReopen

\* Observed to fail, with the plans MC_TerminalTabs has for them:

\* A tab that has lost its session is due to be restored.  The end of a restoration
\* clears what is due (app.rs, 3640) although a connection lost meanwhile has made more
\* tabs wait, a new one among them.
WaitingIsPending == \A t \in Tabs : Waiting(t) => pending

\* When nothing is under way, what looks live is subscribed on the connection in use.
Settled == Running = {} /\ \A t \in Tabs : stream[t].st \notin {"new", "cut"}
LiveIsSubscribed ==
  Settled => \A t \in Open(tab) : ~tab[t].closed => <<client, tab[t].sid>> \in subs

\* A tab comes back, or the user is asked for the passphrase.
RecoversAlways ==
  \A t \in Tabs : Waiting(t) ~> \/ ~Waiting(t) \/ screen \in {"unlock", "unlocking"}

\* A restoration is due only while there is a tab to restore.
PendingHasTabs == pending => Open(tab) # {}
=============================================================================
