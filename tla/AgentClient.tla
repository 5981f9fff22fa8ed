------------------------------ MODULE AgentClient ------------------------------
(***************************************************************************)
(* How a program reaches the daemon: the files by which the daemon is      *)
(* found (vida-daemon: ws_server.rs), the connection and its one retry of  *)
(* a refused token (vida-client: lib.rs), and the MCP server, whose tool   *)
(* calls run side by side over one shared connection, take it away from    *)
(* each other when a call fails, and are made again or not by what they do *)
(* (vida-mcp-cli: main.rs).                                                *)
(*                                                                         *)
(* Daemons are killed, stopped and started again; a connection breaks with *)
(* requests under way; the daemon refuses a request (a locked vault).      *)
(***************************************************************************)
EXTENDS Integers, Sequences, FiniteSets

CONSTANTS
  Calls,    \* tool calls, 1..n
  Daemons,  \* processes of the daemon there may be, 1..n
  Plans     \* bounds: how many calls there are, and how often each other thing may happen

None == 0
Kinds == {"read", "open", "write"}
Tries == 1..2
Links == Calls \X Tries   \* a connection is named after the call that makes it
Told == {"", "ok", "unreachable", "unauthorised", "unconfirmed", "failed"}
Bounds == [calls : Nat, kills : Nat, stops : Nat, overlaps : Nat, breaks : Nat, refusals : Nat]

\* What the proofs about this module suppose of its constants.
ClientConstants ==
  Calls \subseteq Nat \ {0} /\ Daemons \subseteq Nat \ {0} /\ Plans \subseteq Bounds

VARIABLES
  files,    \* what daemon.token, agent.token and daemon.port say
  daemons,  \* the daemon's processes
  links,    \* connections, with the requests sent on them
  shared,   \* the connection the MCP server keeps
  calls,    \* tool calls
  logins,   \* logins to the host
  bound,    \* the open session is bound to the host
  did,      \* how often the daemon did what a call asks
  rotated,  \* how often the agents' token changed since a call was made, up to 3
  steady,   \* nothing has failed or changed since a call was made
  left      \* bounds

linkVars == <<files, daemons, links, shared, calls, logins, bound, did, rotated, steady, left>>

Nobody == <<None, 1>>
NoLink == [daemon |-> None, state |-> "none", queue |-> <<>>, step |-> "idle"]
NoCall == [pc |-> "idle", kind |-> "read", try |-> 1, token |-> None, daemon |-> None,
           again |-> FALSE, link |-> Nobody, told |-> ""]
NoDaemon == [pc |-> "none", token |-> None]

Use(what) == left[what] > 0 /\ left' = [left EXCEPT ![what] = @ - 1]

Init ==
  /\ left \in Plans
  /\ files = [owner |-> None, agent |-> None, port |-> None]
  /\ daemons = [d \in Daemons |-> NoDaemon]
  /\ links = [k \in Links |-> NoLink]
  /\ shared = Nobody /\ calls = [c \in Calls |-> NoCall]
  /\ logins = 0 /\ bound = FALSE
  /\ did = [c \in Calls |-> 0] /\ rotated = [c \in Calls |-> 0]
  /\ steady = [c \in Calls |-> FALSE]

-----------------------------------------------------------------------------
(* The daemon comes and goes.                                              *)

Busy(c) == calls[c].pc \notin {"idle", "done"}
Unsteady == steady' = [c \in Calls |-> steady[c] /\ ~Busy(c)]
\* The calls under way see the agents' token come or go.
Rotated ==
  rotated' = [c \in Calls |->
    IF Busy(c) /\ files'.agent # files.agent /\ rotated[c] < 3 THEN rotated[c] + 1 ELSE rotated[c]]
Up == {d \in Daemons : daemons[d].pc = "listening"}
Alive == {d \in Daemons : daemons[d].pc \in {"reads", "tokened", "listening", "leaving"}}
callVars == <<shared, calls, logins, bound, did>>

\* A daemon is started by hand; nothing keeps a second one from starting.
Start(d) ==
  /\ daemons[d].pc = "none" /\ \A e \in Daemons : e < d => daemons[e].pc # "none"
  /\ \/ Alive = {} /\ UNCHANGED left
     \/ Alive # {} /\ Use("overlaps")
  /\ daemons' = [daemons EXCEPT ![d] = [pc |-> "reads", token |-> files.owner]]
  /\ Unsteady
  /\ UNCHANGED <<files, links, callVars, rotated>>

\* load_or_create_token: an old token is used again; the agents' token follows from it.
TokensWritten(d) ==
  LET token == IF daemons[d].token = None THEN d ELSE daemons[d].token
  IN [files EXCEPT !.owner = IF daemons[d].token = None THEN d ELSE @, !.agent = token]

CreateToken(d) ==
  /\ daemons[d].pc = "reads"
  /\ files' = TokensWritten(d)
  /\ daemons' = [daemons EXCEPT ![d] = [pc |-> "tokened", token |-> IF @.token = None THEN d ELSE @.token]]
  /\ Unsteady /\ Rotated
  /\ UNCHANGED <<links, callVars, left>>

\* start: a port of its own each time.
Listen(d) ==
  /\ daemons[d].pc = "tokened"
  /\ files' = [files EXCEPT !.port = d]
  /\ daemons' = [daemons EXCEPT ![d].pc = "listening"]
  /\ Unsteady
  /\ UNCHANGED <<links, callVars, rotated, left>>

\* cleanup_token, when the daemon is told to stop.
Cleanup(d) ==
  /\ daemons[d].pc = "listening" /\ Use("stops")
  /\ files' = [owner |-> None, agent |-> None, port |-> None]
  /\ daemons' = [daemons EXCEPT ![d].pc = "leaving"]
  /\ Unsteady /\ Rotated
  /\ UNCHANGED <<links, callVars>>

\* The process ends; it may have been killed at any moment, with the files left.
Gone(d) ==
  /\ \/ daemons[d].pc = "leaving" /\ UNCHANGED left
     \/ daemons[d].pc \in {"reads", "tokened", "listening"} /\ Use("kills")
  /\ daemons' = [daemons EXCEPT ![d].pc = "gone"]
  /\ links' = [k \in Links |-> IF links[k].daemon = d /\ links[k].state # "none"
                               THEN [links[k] EXCEPT !.state = "broken", !.step = "idle", !.queue = <<>>]
                               ELSE links[k]]
  /\ Unsteady
  /\ UNCHANGED <<files, callVars, rotated>>

\* A connection breaks; what the daemon has read of it, it still does.
Break(k) ==
  /\ links[k].state = "open" /\ Use("breaks")
  /\ links' = [links EXCEPT ![k].state = "broken"]
  /\ Unsteady
  /\ UNCHANGED <<files, daemons, callVars, rotated>>

-----------------------------------------------------------------------------
(* The daemon's side of a connection: one request at a time, in order.     *)

serveVars == <<files, daemons, shared, calls, rotated, left>>

\* A request waiting for the agent's lock waits for a login under way on another connection.
Locked(k) == \E j \in Links \ {k} : links[j].step = "login" /\ links[j].daemon = links[k].daemon

Execute(k) ==
  /\ links[k].queue # <<>> /\ links[k].step = "idle"
  /\ LET c == Head(links[k].queue)
     IN \/ /\ calls[c].kind = "read"
           /\ links' = [links EXCEPT ![k].step = "ok"] /\ UNCHANGED <<logins, bound, did>>
        \/ /\ calls[c].kind = "write" /\ did' = [did EXCEPT ![c] = @ + 1]
           /\ links' = [links EXCEPT ![k].step = "ok"] /\ UNCHANGED <<logins, bound>>
        \/ /\ calls[c].kind = "open" /\ ~Locked(k) /\ bound
           /\ links' = [links EXCEPT ![k].step = "ok"] /\ UNCHANGED <<logins, bound, did>>
        \/ /\ calls[c].kind = "open" /\ ~Locked(k) /\ ~bound
           /\ links' = [links EXCEPT ![k].step = "login"] /\ logins' = logins + 1
           /\ UNCHANGED <<bound, did>>
  /\ UNCHANGED <<serveVars, steady>>

Register(k) ==
  /\ links[k].step = "login"
  /\ links' = [links EXCEPT ![k].step = "ok"] /\ bound' = TRUE
  /\ UNCHANGED <<serveVars, logins, did, steady>>

\* The vault is locked, the session is gone.
Refuse(k) ==
  /\ links[k].queue # <<>> /\ links[k].step = "idle" /\ Use("refusals")
  /\ links' = [links EXCEPT ![k].step = "error"]
  /\ Unsteady
  /\ UNCHANGED <<files, daemons, callVars, rotated>>

-----------------------------------------------------------------------------
(* A tool call.                                                            *)

outer == <<files, daemons, logins, bound, did, rotated, left>>
Becomes(c, call) == calls' = [calls EXCEPT ![c] = call]
End(c, told) == Becomes(c, [NoCall EXCEPT !.pc = "done", !.kind = calls[c].kind, !.told = told])

\* connect() failed: before the first try nothing has been sent.
Unreached(c, told) == End(c, IF calls[c].try = 1 THEN told ELSE "failed")

\* Calls are numbered in the order in which they are made.
Arrive(c, kind) ==
  /\ Use("calls") /\ calls[c].pc = "idle" /\ \A b \in Calls : b < c => calls[b].pc # "idle"
  /\ Becomes(c, [NoCall EXCEPT !.pc = "start", !.kind = kind])
  /\ steady' = [steady EXCEPT ![c] = \E d \in Up : files = [owner |-> files.owner, agent |-> daemons[d].token, port |-> d]]
  /\ UNCHANGED <<files, daemons, logins, bound, did, rotated, links, shared>>

UseShared(c) ==
  /\ calls[c].pc = "start" /\ shared # Nobody
  /\ Becomes(c, [calls[c] EXCEPT !.pc = "send", !.link = shared])
  /\ UNCHANGED <<outer, links, shared, steady>>

\* read_role_token
ReadToken(c) ==
  /\ calls[c].pc = "start" /\ shared = Nobody
  /\ IF files.agent = None THEN Unreached(c, "unreachable")
     ELSE Becomes(c, [calls[c] EXCEPT !.pc = "port", !.token = files.agent])
  /\ UNCHANGED <<outer, links, shared, steady>>

ReadPort(c) ==
  /\ calls[c].pc = "port"
  /\ IF files.port = None THEN Unreached(c, "unreachable")
     ELSE Becomes(c, [calls[c] EXCEPT !.pc = "dial", !.daemon = files.port])
  /\ UNCHANGED <<outer, links, shared, steady>>

\* connect_to_role: the connection and the daemon's answer to the token.
Dial(c) ==
  /\ calls[c].pc = "dial"
  /\ LET d == calls[c].daemon
         k == <<c, calls[c].try>>
     IN \/ /\ daemons[d].pc \notin {"listening", "leaving"}
           /\ Unreached(c, "unreachable") /\ UNCHANGED <<links, shared>>
        \/ /\ daemons[d].pc \in {"listening", "leaving"} /\ daemons[d].token # calls[c].token
           /\ Becomes(c, [calls[c] EXCEPT !.pc = "refused"]) /\ UNCHANGED <<links, shared>>
        \/ /\ daemons[d].pc \in {"listening", "leaving"} /\ daemons[d].token = calls[c].token
           /\ links' = [links EXCEPT ![k] = [NoLink EXCEPT !.daemon = d, !.state = "open"]]
           /\ shared' = k
           /\ Becomes(c, [calls[c] EXCEPT !.pc = "send", !.token = None, !.daemon = None, !.again = FALSE, !.link = k])
  /\ UNCHANGED <<outer, steady>>

\* Mutant: a refused token is an error at once.
NeverReread(c) == FALSE

\* connect_for_role: once more, if the file says something else by now.
Rereads(c) == ~calls[c].again /\ files.agent \notin {None, calls[c].token}

Reread(c) ==
  /\ calls[c].pc = "refused"
  /\ IF Rereads(c)
     THEN Becomes(c, [calls[c] EXCEPT !.pc = "port", !.token = files.agent, !.daemon = None, !.again = TRUE])
     ELSE Unreached(c, "unauthorised")
  /\ UNCHANGED <<outer, links, shared, steady>>

\* Mutant: writes are made again like reads.
AllRetried == Kinds

\* What may be made again: reads, and opening, which the daemon makes idempotent.
Retried == {"read", "open"}

\* Mutant: the connection that failed is kept.
KeepShared(c) == shared

\* invalidate_client takes whatever connection is there now.
Invalidated(c) == Nobody

Failed(c) ==
  IF calls[c].kind \notin Retried THEN shared' = Invalidated(c) /\ End(c, "unconfirmed")
  ELSE IF calls[c].try = 2 THEN UNCHANGED shared /\ End(c, "failed")
  ELSE shared' = Invalidated(c) /\ Becomes(c, [NoCall EXCEPT !.pc = "start", !.kind = calls[c].kind, !.try = 2])

Send(c) ==
  /\ calls[c].pc = "send"
  /\ LET k == calls[c].link
     IN IF links[k].state = "broken" THEN Failed(c) /\ UNCHANGED links
        ELSE /\ links' = [links EXCEPT ![k].queue = Append(@, c)]
             /\ Becomes(c, [calls[c] EXCEPT !.pc = "waits"])
             /\ UNCHANGED shared
  /\ UNCHANGED <<outer, steady>>

\* The daemon answers the request it is at, into a connection that may have broken.
Answer(k) ==
  /\ links[k].step \in {"ok", "error"}
  /\ LET c == Head(links[k].queue)
         heard == links[k].state = "open" /\ calls[c].pc = "waits" /\ calls[c].link = k
     IN /\ links' = [links EXCEPT ![k].step = "idle", ![k].queue = Tail(@)]
        /\ IF ~heard THEN UNCHANGED <<calls, shared>>
           ELSE IF links[k].step = "ok" THEN End(c, "ok") /\ UNCHANGED shared
           ELSE Failed(c)
  /\ UNCHANGED <<outer, steady>>

\* Mutant: requests under way outlive the connection.
NeverLost(c) == FALSE

\* The pending requests go with the connection's task.
Dropped(c) == links[calls[c].link].state = "broken"

Lost(c) ==
  /\ calls[c].pc = "waits" /\ Dropped(c)
  /\ Failed(c)
  /\ UNCHANGED <<outer, links, steady>>

-----------------------------------------------------------------------------
DaemonSteps(d) == Start(d) \/ CreateToken(d) \/ Listen(d) \/ Cleanup(d) \/ Gone(d)
ServeSteps(k) == Execute(k) \/ Register(k) \/ Answer(k)
CallSteps(c) == UseShared(c) \/ ReadToken(c) \/ ReadPort(c) \/ Dial(c) \/ Reread(c) \/ Send(c) \/ Lost(c)

Next ==
  \/ \E d \in Daemons : DaemonSteps(d)
  \/ \E k \in Links : ServeSteps(k) \/ Refuse(k) \/ Break(k)
  \/ \E c \in Calls : CallSteps(c) \/ \E kind \in Kinds : Arrive(c, kind)

Spec == Init /\ [][Next]_linkVars

\* The client's task and the daemon's tasks run; nobody has to call or to start a daemon.
FairSpec ==
  /\ Spec
  /\ \A k \in Links : WF_linkVars(ServeSteps(k))
  /\ \A c \in Calls : WF_linkVars(CallSteps(c))

-----------------------------------------------------------------------------
(* Properties.                                                             *)

TypeOK ==
  /\ \A d \in Daemons : daemons[d].pc \in {"none", "reads", "tokened", "listening", "leaving", "gone"}
                        /\ daemons[d].token \in {None} \cup Daemons
  /\ {files.owner, files.agent, files.port} \subseteq {None} \cup Daemons
  /\ \A k \in Links : links[k].daemon \in {None} \cup Daemons /\ links[k].queue \in Seq(Calls)
                      /\ links[k].state \in {"none", "open", "broken"}
                      /\ links[k].step \in {"idle", "login", "ok", "error"}
  /\ shared \in {Nobody} \cup Links
  /\ \A c \in Calls : calls[c].told \in Told /\ calls[c].kind \in Kinds /\ calls[c].try \in Tries
  /\ logins \in Nat /\ bound \in BOOLEAN

\* What a call writes is done at most once, whatever breaks under it, is retried or is done
\* late; and a call that was told it did not reach the daemon never has it done (main.rs of
\* vida-mcp-cli, 77 to 78: "a lost response does not prove that the daemon failed to
\* dispatch the command").
WrittenOnce ==
  \A c \in Calls : did[c] <= 1 /\ (calls[c].told \in {"unreachable", "unauthorised"} => did[c] = 0)

\* A call that reads succeeds if a daemon was up when it was made and nothing has failed or
\* changed since, whatever state an earlier failure left the shared connection in and
\* whatever other calls do to it.
SteadyCallsSucceed ==
  \A c \in Calls : calls[c].kind = "read" /\ calls[c].pc = "done" /\ steady[c] => calls[c].told = "ok"

\* Where one daemon follows another, no call fails for its token unless the token changed
\* three times while it was made: a restart, which takes the token away and makes another,
\* is made good (lib.rs of vida-client, 208 to 211).
OneRotationSurvived ==
  \A c \in Calls : calls[c].told = "unauthorised" => rotated[c] >= 3

\* Every call ends.
Ongoing(c) == calls[c].pc \notin {"idle", "done"}
CallsEnd == \A c \in Calls : Ongoing(c) ~> ~Ongoing(c)

\* When no daemon is coming or going, the files lead to one that is up.  (It fails when two
\* run at once: the first takes the files of the second away, or each makes a token.)
FilesLead ==
  Alive = Up /\ Up # {} => files.port \in Up /\ files.agent = daemons[files.port].token

\* One login for a host.  (It fails when the daemon dies between the login and the binding:
\* the call that is made again logs in again.)
LoginOnce == logins <= 1
=============================================================================
