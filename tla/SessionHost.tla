----------------------------- MODULE SessionHost -----------------------------
(***************************************************************************)
(* The detached process that owns the terminals and the remembered master  *)
(* passphrase, and the daemons that find it, start it and call it          *)
(* (vida-daemon/src/session_host.rs).                                      *)
(*                                                                         *)
(* Daemon and host meet in two places: the socket file, which either side  *)
(* removes by name without looking whose it is, and the connections to the *)
(* listener behind it.  The host's main thread is a loop over accept and   *)
(* the four conditions of its exit rule, which it reads one after the      *)
(* other; every accepted connection has a thread of its own.               *)
(***************************************************************************)
EXTENDS Naturals

CONSTANTS
  Daemons,    \* daemon processes, one after the other unless Overlap
  Hosts,      \* host processes that may be started
  Terminals,   \* terminals that may be opened
  Nil,
  NumConns,   \* bound on connections at one time
  Overlap,    \* may a daemon start while another runs
  DieAt,      \* where a daemon may end: subset of DaemonPCs
  CallsTimeOut, \* may a call take longer than the daemon waits
  MaxMishaps, \* bound on the deaths of daemons and hosts and on timeouts
  MaxCaches   \* bound on requests to remember the passphrase

DaemonPCs == {"off", "probe", "unlink", "spawn", "wait", "pinged", "reading", "up", "calling"}
HostPCs   == {"none", "unlink", "bind", "parent", "accept", "sessions", "cache", "wipe",
              "remove", "close", "gone"}
ConnIds     == 1..NumConns
Calls     == {"open", "close", "cache", "clear"}
Orphaned  == "orphaned"   \* the parent of a process whose parent died

HostConstants ==
  /\ NumConns \in Nat /\ MaxMishaps \in Nat /\ MaxCaches \in Nat
  /\ Overlap \in BOOLEAN /\ CallsTimeOut \in BOOLEAN
  /\ DieAt \subseteq DaemonPCs \ {"off"}
  /\ Nil \notin Hosts \cup Daemons \cup ConnIds /\ Nil # "ok"
  /\ Orphaned \notin Daemons
ASSUME HostAssumption == HostConstants

VARIABLES
  sock,     \* the host whose listener session-host.sock names, Nil without the file
  daemon,   \* per daemon: [pc, control]; control is its long connection
  host,     \* per host: [pc, parent, orig, idle, sessions, cache]
  conn,     \* per connection: [state, host, live, req, resp]
  wish,     \* what the user last asked for: the passphrase remembered or forgotten
  used,     \* sessions ever opened
  mishaps, caches   \* counters for the bounds

hostVars == <<sock, daemon, host, conn, wish, used, mishaps, caches>>

\* A connection is live while the daemon's end is open.
FreeConn == [state |-> "free", host |-> Nil, live |-> FALSE, req |-> Nil, resp |-> Nil]
Offline  == [pc |-> "off", control |-> Nil]

HostInit ==
  /\ sock = Nil
  /\ daemon = [d \in Daemons |-> Offline]
  /\ host = [h \in Hosts |-> [pc |-> "none", parent |-> Nil, orig |-> Nil, idle |-> FALSE,
                              sessions |-> {}, cache |-> "none"]]
  /\ conn = [c \in ConnIds |-> FreeConn]
  /\ wish = "forget" /\ used = {}
  /\ mishaps = 0 /\ caches = 0

DaemonAt(d, pc) == daemon[d].pc = pc
HostAt(h, pc)   == host[h].pc = pc
Running(h)      == host[h].pc \notin {"none", "gone"}
\* The kernel accepts a connection on behalf of a listener until it is closed.
Listening       == { h \in Hosts : Running(h) /\ host[h].pc \notin {"unlink", "bind"} }
Mishap == mishaps < MaxMishaps /\ mishaps' = mishaps + 1

-----------------------------------------------------------------------------
(* A daemon finds or starts the host: SessionHostClient::connect_or_spawn. *)

HasConn  == \E c \in ConnIds : conn[c].state = "free"
NextConn == CHOOSE c \in ConnIds : conn[c].state = "free"

\* Connects to the socket and writes a request; a write that fails because the
\* host has gone is the read that fails next.
Connect(d, pc, req) ==
  /\ sock \in Listening /\ HasConn
  /\ conn' = [conn EXCEPT ![NextConn] = [state |-> "backlog", host |-> sock, live |-> TRUE,
                                         req |-> req, resp |-> Nil]]
  /\ daemon' = [daemon EXCEPT ![d] = [pc |-> pc, control |-> NextConn]]
Unavailable == sock \notin Listening

StartDaemon(d) ==
  /\ DaemonAt(d, "off")
  /\ Overlap \/ \A x \in Daemons : DaemonAt(x, "off")
  /\ daemon' = [daemon EXCEPT ![d].pc = "probe"]
  /\ UNCHANGED <<sock, host, conn, wish, used, mishaps, caches>>

\* Mutant: a daemon always starts a host of its own.
ProbeNothing(d) ==
  /\ DaemonAt(d, "probe")
  /\ daemon' = [daemon EXCEPT ![d].pc = "unlink"]
  /\ UNCHANGED <<sock, host, conn, wish, used, mishaps, caches>>

\* The first probe: a live host is asked for its version, without one the
\* daemon starts one.
Probe(d) ==
  /\ DaemonAt(d, "probe")
  /\ \/ Connect(d, "pinged", "ping")
     \/ Unavailable /\ daemon' = [daemon EXCEPT ![d].pc = "unlink"] /\ UNCHANGED conn
  /\ UNCHANGED <<sock, host, wish, used, mishaps, caches>>

\* A socket file nobody listens to is removed; whose it is is not looked at again.
RemoveStale(d) ==
  /\ DaemonAt(d, "unlink")
  /\ sock' = Nil
  /\ daemon' = [daemon EXCEPT ![d].pc = "spawn"]
  /\ UNCHANGED <<host, conn, wish, used, mishaps, caches>>

Spawn(d, h) ==
  /\ DaemonAt(d, "spawn") /\ HostAt(h, "none")
  /\ host' = [host EXCEPT ![h].pc = "unlink", ![h].parent = d]
  /\ daemon' = [daemon EXCEPT ![d].pc = "wait"]
  /\ UNCHANGED <<sock, conn, wish, used, mishaps, caches>>

\* The probe is repeated for three seconds, after which the daemon gives up.
ProbeAgain(d) ==
  /\ DaemonAt(d, "wait")
  /\ Connect(d, "pinged", "ping")
  /\ UNCHANGED <<sock, host, wish, used, mishaps, caches>>

Closing(c) == [conn EXCEPT ![c].live = FALSE]

\* A daemon that exits, or fails to start, leaves its children to init and
\* closes its end of its connection.
Ends(d) ==
  /\ daemon' = [daemon EXCEPT ![d] = Offline]
  /\ host' = [h \in Hosts |-> IF host[h].parent = d THEN [host[h] EXCEPT !.parent = Orphaned]
                              ELSE host[h]]
  /\ conn' = IF daemon[d].control = Nil THEN conn ELSE Closing(daemon[d].control)

\* The answer to the ping makes the connection the control connection;
\* try_unlock_cached then asks for the passphrase on it.
Pinged(d) ==
  LET c == daemon[d].control IN
  /\ DaemonAt(d, "pinged") /\ conn[c].resp = "ok"
  /\ conn' = [conn EXCEPT ![c].resp = Nil, ![c].req = "read"]
  /\ daemon' = [daemon EXCEPT ![d].pc = "reading"]
  /\ UNCHANGED <<sock, host, wish, used, mishaps, caches>>

ReadCache(d) ==
  LET c == daemon[d].control IN
  /\ DaemonAt(d, "reading") /\ conn[c].resp # Nil
  /\ conn' = [conn EXCEPT ![c].resp = Nil]
  /\ daemon' = [daemon EXCEPT ![d].pc = "up"]
  /\ UNCHANGED <<sock, host, wish, used, mishaps, caches>>

\* Nobody answers any more: the host has closed the connection.
Broken(c) == conn[c].state = "closed"

\* While the daemon starts, that is the end of it.
StartFails(d) ==
  /\ daemon[d].pc \in {"pinged", "reading"}
  /\ Broken(daemon[d].control)
  /\ Ends(d)
  /\ UNCHANGED <<sock, wish, used, mishaps, caches>>

\* The daemon is killed or interrupted by the user; or, while it waits for the
\* host to listen or for the answer to its ping, gives up.
Die(d) ==
  /\ daemon[d].pc \in DieAt
  /\ Mishap
  /\ Ends(d)
  /\ UNCHANGED <<sock, wish, used, caches>>

-----------------------------------------------------------------------------
(* Calls.  The control mutex lets one through at a time.                    *)

Wish(kind) == CASE kind = "cache" -> "remember" [] kind = "clear" -> "forget" [] OTHER -> wish

\* exchange: on the control connection, or on a new one when it was dropped.
\* Unlocking with a remember time caches, locking or unlocking without one clears.
Call(d, kind) ==
  /\ DaemonAt(d, "up")
  /\ kind = "open" => used # Terminals
  /\ IF kind = "cache" THEN caches < MaxCaches /\ caches' = caches + 1 ELSE UNCHANGED caches
  /\ \/ /\ daemon[d].control # Nil
        /\ conn' = [conn EXCEPT ![daemon[d].control].req = kind]
        /\ daemon' = [daemon EXCEPT ![d].pc = "calling"]
     \/ daemon[d].control = Nil /\ Connect(d, "calling", kind)
  /\ wish' = Wish(kind)
  /\ UNCHANGED <<sock, host, used, mishaps>>

Returns(d) ==
  LET c == daemon[d].control IN
  /\ DaemonAt(d, "calling") /\ conn[c].resp # Nil
  /\ conn' = [conn EXCEPT ![c].resp = Nil]
  /\ daemon' = [daemon EXCEPT ![d].pc = "up"]
  /\ UNCHANGED <<sock, host, wish, used, mishaps, caches>>

\* A failed read drops the connection and is an error to the caller; lock and
\* unlock log it and go on.
CallFails(d) ==
  LET c == daemon[d].control IN
  /\ DaemonAt(d, "calling")
  /\ \/ Broken(c) /\ UNCHANGED mishaps
     \/ CallsTimeOut /\ Mishap
  /\ conn' = Closing(c)
  /\ daemon' = [daemon EXCEPT ![d] = [pc |-> "up", control |-> Nil]]
  /\ UNCHANGED <<sock, host, wish, used, caches>>

-----------------------------------------------------------------------------
(* The host's main thread: run_host.                                        *)

HostGoto(h, pc) == host' = [host EXCEPT ![h].pc = pc]
OnlyHost == UNCHANGED <<daemon, wish, used, mishaps, caches>>

\* Whatever is at the path goes.
HostUnlinks(h) ==
  /\ HostAt(h, "unlink")
  /\ sock' = Nil /\ HostGoto(h, "bind")
  /\ UNCHANGED conn /\ OnlyHost

\* bind fails when another host has bound the path in between.
Bind(h) ==
  /\ HostAt(h, "bind")
  /\ \/ sock = Nil /\ sock' = h /\ HostGoto(h, "parent")
     \/ sock # Nil /\ HostGoto(h, "gone") /\ UNCHANGED sock
  /\ UNCHANGED conn /\ OnlyHost

\* getppid, the parent whose end the loop waits for.
NoteParent(h) ==
  /\ HostAt(h, "parent")
  /\ host' = [host EXCEPT ![h].pc = "accept", ![h].orig = host[h].parent]
  /\ UNCHANGED <<sock, conn>> /\ OnlyHost

Backlog(h) == { c \in ConnIds : conn[c].state = "backlog" /\ conn[c].host = h }
OpenTo(h)    == { c \in ConnIds : conn[c].state = "open" /\ conn[c].host = h }

Accept(h) ==
  /\ HostAt(h, "accept")
  /\ \E c \in Backlog(h) : conn' = [conn EXCEPT ![c].state = "open"]
  /\ UNCHANGED <<sock, host>> /\ OnlyHost

\* Mutant: the connections are not looked at.
QuietIgnoresConnections(h) ==
  /\ HostAt(h, "accept") /\ Backlog(h) = {}
  /\ host' = [host EXCEPT ![h].pc = "sessions", ![h].idle = host[h].parent # host[h].orig]
  /\ UNCHANGED <<sock, conn>> /\ OnlyHost

\* Nobody to accept: parent_changed and no_connections.  The parent changes once,
\* so reading the two together loses no outcome.
Quiet(h) ==
  /\ HostAt(h, "accept") /\ Backlog(h) = {}
  /\ host' = [host EXCEPT ![h].pc = "sessions",
                          ![h].idle = host[h].parent # host[h].orig /\ OpenTo(h) = {}]
  /\ UNCHANGED <<sock, conn>> /\ OnlyHost

\* Mutant: only remembering keeps a host alive, not its terminals.
LookPastSessions(h) ==
  /\ HostAt(h, "sessions") /\ HostGoto(h, "cache")
  /\ UNCHANGED <<sock, conn>> /\ OnlyHost

\* no_sessions
LookAtSessions(h) ==
  /\ HostAt(h, "sessions")
  /\ host' = [host EXCEPT ![h].pc = "cache", ![h].idle = @ /\ host[h].sessions = {}]
  /\ UNCHANGED <<sock, conn>> /\ OnlyHost

\* Mutant: an expired passphrase counts as one.
LookAtExpired(h) ==
  /\ HostAt(h, "cache")
  /\ \/ host[h].cache # "none" /\ HostGoto(h, "accept")
     \/ host[h].cache = "none" /\ HostGoto(h, "wipe")
  /\ UNCHANGED <<sock, conn>> /\ OnlyHost

\* no_unlock_cache, with the cache's lock taken and released
LookAtCache(h) ==
  /\ HostAt(h, "cache")
  /\ \/ host[h].cache = "valid" /\ HostGoto(h, "accept")
     \/ host[h].cache # "valid" /\ HostGoto(h, "wipe")
  /\ UNCHANGED <<sock, conn>> /\ OnlyHost

\* The lock is taken again and whatever is in the cache now is dropped; then the
\* decision falls.
Wipe(h) ==
  /\ HostAt(h, "wipe")
  /\ host' = [host EXCEPT ![h].cache = "none",
                          ![h].pc = IF host[h].idle THEN "remove" ELSE "accept"]
  /\ UNCHANGED <<sock, conn>> /\ OnlyHost

\* remove_file takes whatever file has the name.
HostRemoves(h) ==
  /\ HostAt(h, "remove")
  /\ sock' = Nil /\ HostGoto(h, "close")
  /\ UNCHANGED conn /\ OnlyHost

\* The process is gone: its connections break, its terminals and its memory end.
Gone(h) ==
  /\ host' = [host EXCEPT ![h].pc = "gone", ![h].sessions = {}, ![h].cache = "none"]
  /\ conn' = [c \in ConnIds |-> IF conn[c].host # h THEN conn[c]
                                ELSE IF conn[c].live THEN [conn[c] EXCEPT !.state = "closed"]
                                ELSE FreeConn]

HostExits(h) ==
  /\ HostAt(h, "close")
  /\ Gone(h)
  /\ UNCHANGED sock /\ OnlyHost

HostKilled(h) ==
  /\ Running(h)
  /\ Mishap
  /\ Gone(h)
  /\ UNCHANGED <<sock, daemon, wish, used, caches>>

\* The passphrase's time is over.
Expire(h) ==
  /\ host[h].cache = "valid"
  /\ host' = [host EXCEPT ![h].cache = "expired"]
  /\ UNCHANGED <<sock, conn>> /\ OnlyHost

-----------------------------------------------------------------------------
(* A connection's thread: handle_connection and dispatch.                   *)

\* The response is written, or the connection ends because nobody reads it.
Answered(c, resp) ==
  conn' = [conn EXCEPT ![c] = IF conn[c].live THEN [conn[c] EXCEPT !.req = Nil, !.resp = resp]
                              ELSE FreeConn]

Forget(c, h) ==
  /\ conn[c].req = "clear"
  /\ host' = [host EXCEPT ![h].cache = "none"]
  /\ Answered(c, "ok")
  /\ UNCHANGED used

Remember(c, h) ==
  /\ conn[c].req = "cache"
  /\ host' = [host EXCEPT ![h].cache = "valid"]
  /\ Answered(c, "ok")
  /\ UNCHANGED used

\* A passphrase past its time is dropped and not given out.
Recall(c, h) ==
  /\ conn[c].req = "read"
  /\ \/ host[h].cache = "valid" /\ Answered(c, "passphrase") /\ UNCHANGED host
     \/ host[h].cache # "valid" /\ Answered(c, "nothing")
          /\ host' = [host EXCEPT ![h].cache = "none"]
  /\ UNCHANGED used

OpenTerminal(c, h) ==
  /\ conn[c].req = "open"
  /\ \E s \in Terminals \ used :
       host' = [host EXCEPT ![h].sessions = @ \cup {s}] /\ used' = used \cup {s}
  /\ Answered(c, "ok")

CloseTerminal(c, h) ==
  /\ conn[c].req = "close"
  /\ \E s \in host[h].sessions : host' = [host EXCEPT ![h].sessions = @ \ {s}]
  /\ Answered(c, "ok")
  /\ UNCHANGED used

Serve(c) ==
  /\ conn[c].state = "open"
  /\ LET h == conn[c].host IN
       \/ Forget(c, h) \/ Remember(c, h) \/ Recall(c, h)
       \/ OpenTerminal(c, h) \/ CloseTerminal(c, h)
       \/ /\ \/ conn[c].req = "ping"
             \/ conn[c].req = "open" /\ used = Terminals
             \/ conn[c].req = "close" /\ host[h].sessions = {}
          /\ Answered(c, "ok")
          /\ UNCHANGED <<host, used>>
  /\ UNCHANGED <<sock, daemon, wish, mishaps, caches>>

\* Mutant: what was asked on a connection stays behind for the next.
ConnEndsInPart(c) ==
  /\ ~conn[c].live
  /\ conn[c].state \in {"open", "closed"}
  /\ conn' = [conn EXCEPT ![c].state = "free"]
  /\ UNCHANGED <<sock, daemon, host, wish, used, mishaps, caches>>

\* The end of the stream ends the thread; a connection broken by the host is
\* forgotten once the daemon has closed its end, too.
ConnEnds(c) ==
  /\ ~conn[c].live
  /\ \/ conn[c].state = "open" /\ conn[c].req = Nil
     \/ conn[c].state = "closed"
  /\ conn' = [conn EXCEPT ![c] = FreeConn]
  /\ UNCHANGED <<sock, daemon, host, wish, used, mishaps, caches>>

-----------------------------------------------------------------------------
DaemonStep(d) ==
  \/ Probe(d) \/ RemoveStale(d) \/ \E h \in Hosts : Spawn(d, h)
  \/ ProbeAgain(d) \/ Pinged(d) \/ ReadCache(d) \/ StartFails(d)
  \/ Returns(d)

HostStep(h) ==
  \/ HostUnlinks(h) \/ Bind(h) \/ NoteParent(h)
  \/ Accept(h) \/ Quiet(h) \/ LookAtSessions(h) \/ LookAtCache(h) \/ Wipe(h)
  \/ HostRemoves(h) \/ HostExits(h)

ConnStep(c) == Serve(c) \/ ConnEnds(c)

HostNext ==
  \/ \E d \in Daemons :
       \/ StartDaemon(d) \/ DaemonStep(d) \/ Die(d)
       \/ \E kind \in Calls : Call(d, kind)
       \/ CallFails(d)
  \/ \E h \in Hosts : HostStep(h) \/ HostKilled(h) \/ Expire(h)
  \/ \E c \in ConnIds : ConnStep(c)

HostSpec == HostInit /\ [][HostNext]_hostVars

\* The host's threads are scheduled by the operating system, and it sleeps no
\* longer than 25 ms.  Nothing obliges a daemon or a user.
FairHostSpec ==
  /\ HostSpec
  /\ \A h \in Hosts : WF_hostVars(HostStep(h))
  /\ \A c \in ConnIds : WF_hostVars(ConnStep(c))

-----------------------------------------------------------------------------
DaemonStates == [pc : DaemonPCs, control : ConnIds \cup {Nil}]

HostStates == [pc : HostPCs, parent : Daemons \cup {Nil, Orphaned},
               orig : Daemons \cup {Nil, Orphaned}, idle : BOOLEAN,
               sessions : SUBSET Terminals, cache : {"none", "valid", "expired"}]

ConnStates == [state : {"free", "backlog", "open", "closed"}, host : Hosts \cup {Nil},
               live : BOOLEAN, req : Calls \cup {"ping", "read", Nil},
               resp : {"ok", "passphrase", "nothing", Nil}]

HostTypeOK ==
  /\ sock \in Hosts \cup {Nil}
  /\ daemon \in [Daemons -> DaemonStates]
  /\ host \in [Hosts -> HostStates]
  /\ conn \in [ConnIds -> ConnStates]
  /\ \A c \in ConnIds : conn[c].state = "free" => conn[c] = FreeConn
  /\ wish \in {"remember", "forget"}
  /\ used \subseteq Terminals
  /\ mishaps \in Nat /\ caches \in Nat

Leaving(h) == host[h].pc \in {"remove", "close"}

\* A host that has decided to exit has no terminal, no remembered passphrase that
\* is still good and nobody talking to it, although it looked at the four one
\* after the other while connections were served.
LeavesEmpty ==
  \A h \in Hosts : Leaving(h) =>
    host[h].sessions = {} /\ host[h].cache # "valid" /\ OpenTo(h) = {}

\* A daemon whose ping was answered keeps its host: the long control connection
\* stops an empty host that is in use from exiting.
AdoptedHostStays ==
  \A d \in Daemons :
    DaemonAt(d, "up") /\ daemon[d].control # Nil /\ ~Broken(daemon[d].control)
      => ~Leaving(conn[daemon[d].control].host)

\* Terminals are where the next daemon looks for them: the socket file names the
\* host that owns them.
TerminalsReachable == \A h \in Hosts : host[h].sessions # {} => sock = h

\* Once nothing asked of the hosts is under way, none of them knows a passphrase
\* the user wanted forgotten last.
LockForgets ==
  wish = "forget" /\ (\A c \in ConnIds : conn[c].req \notin {"cache", "clear"})
    => \A h \in Hosts : host[h].cache # "valid"

\* A remembered passphrase whose time is not over is dropped only when somebody
\* asked for it, or with the process.
RememberedStays ==
  [][\A h \in Hosts : host[h].cache = "valid" /\ host'[h].cache = "none" =>
       \/ host'[h].pc = "gone"
       \/ \E c \in ConnIds : conn[c].req = "clear" /\ conn'[c].req # "clear"]_hostVars

\* A host nobody needs.
Needless(h) ==
  /\ Running(h) /\ host[h].parent = Orphaned
  /\ host[h].sessions = {} /\ host[h].cache # "valid"
  /\ \A c \in ConnIds : conn[c].host # h

\* A host that stays needless exits: no background process is left behind.
NeedlessExits == \A h \in Hosts : ~<>[]Needless(h)
=============================================================================
