---------------------------- MODULE SessionEngine ----------------------------
(***************************************************************************)
(* The terminals of a session host (vida-daemon/src/pty/mod.rs): the       *)
(* engine's lock, one mutex, one child process and three threads per       *)
(* session, and the connections whose requests take the locks.             *)
(*                                                                         *)
(* A session ends in one of two ways: its child ends, so that the reader   *)
(* comes to the end of the terminal and finalizes the session, which stays *)
(* in the table; or a request closes it.  The locks inside a session       *)
(* (term, io, cleanup, subscribers) are only taken with the session's      *)
(* mutex held and need no state of their own.                              *)
(***************************************************************************)
EXTENDS Naturals

CONSTANTS
  Sessions,    \* sessions that may be opened
  Conns,       \* connections, each with a thread that serves its requests
  Main,        \* the host's main thread, which lists the sessions
  Reader,      \* stands for a session's reader as the holder of its mutex
  None,
  Room,        \* PUSH_CHANNEL_CAPACITY: the items a subscription's channel holds
  MaxOutput,   \* bound on the pieces of output of a child
  MaxRequests  \* bound on the requests of all threads

Threads == Conns \cup {Main}
Kinds   == {"open", "use", "input", "subscribe", "list", "close"}

ASSUME EngineAssumption ==
  /\ Main \notin Conns /\ Reader \notin Threads
  /\ None \notin Threads \cup {Reader} \cup Sessions \cup Kinds
  /\ Room \in Nat \ {0} /\ MaxOutput \in Nat /\ MaxRequests \in Nat

VARIABLES
  table,     \* sessions in the engine's table
  readers,   \* threads that hold the engine's lock for reading
  writer,    \* the thread that holds it for writing, or None
  ses,       \* per session: its mutex, child, threads and subscribers
  req,       \* per thread: its request, with the sessions it has yet to lock
  asked      \* counter for the bound

vars == <<table, readers, writer, ses, req, asked>>

Empty == [held |-> 0, wake |-> FALSE]

Idle == [pc |-> "idle", kind |-> None, on |-> None, todo |-> {}]

\* tty: the child has the terminal open; reads: it takes its input.
\* sent: pieces of output in the terminal; piped: in the reader's channel.
\* dirty: something the push loop has not sent.
\* subs: connections subscribed before the end; told: those SessionClosed was sent to;
\* heard: those whose thread has taken it from their channel.
\* chan: per connection, the items in its channel and whether it has a wake-up; the end of
\* the session is the last item there ever is.
Unopened == [child |-> "none", tty |-> FALSE, reads |-> FALSE, wrote |-> 0, sent |-> 0,
             piped |-> 0, mutex |-> None, closed |-> FALSE, secret |-> FALSE, dirty |-> FALSE,
             reader |-> "none", pump |-> "none", push |-> "none",
             subs |-> {}, told |-> {}, heard |-> {},
             chan |-> [t \in Conns |-> Empty]]

Init ==
  /\ table = {}
  /\ readers = {} /\ writer = None
  /\ ses = [s \in Sessions |-> Unopened]
  /\ req = [t \in Threads |-> Idle]
  /\ asked = 0

\* The session is no longer referred to: its senders are dropped.
Dropped(s) ==
  /\ s \notin table
  /\ ses[s].reader = "done" /\ ses[s].pump = "done" /\ ses[s].push = "done"
  /\ \A t \in Threads : req[t].on # s \/ req[t].pc = "stream"

\* send_drop_oldest: the channel after one more item.
Sent(c) == [held |-> IF c.held < Room THEN c.held + 1 ELSE Room, wake |-> TRUE]
SentTo(ts, chan) == [t \in Conns |-> IF t \in ts THEN Sent(chan[t]) ELSE chan[t]]

-----------------------------------------------------------------------------
(* The child process and its end of the terminal.                           *)

Child(s, step) ==
  /\ ses[s].child = "running"
  /\ ses' = [ses EXCEPT ![s] = step]
  /\ UNCHANGED <<table, readers, writer, req, asked>>

ChildWrites(s) ==
  /\ ses[s].tty /\ ses[s].wrote < MaxOutput
  /\ Child(s, [ses[s] EXCEPT !.wrote = @ + 1, !.sent = @ + 1])

\* The child stops taking its input, or takes it again.
ChildPauses(s)  == ses[s].tty /\ Child(s, [ses[s] EXCEPT !.reads = ~@])

\* A child that lets its terminal go and runs on.
ChildLingers(s) == ses[s].tty /\ Child(s, [ses[s] EXCEPT !.tty = FALSE])

ChildExits(s) == Child(s, [ses[s] EXCEPT !.child = "exited", !.tty = FALSE])

-----------------------------------------------------------------------------
(* The threads of a session.                                                *)

ThreadStep == UNCHANGED <<table, readers, writer, req, asked>>

\* A piece of output goes to the pump; without a pump the reader gives up.
Read(s) ==
  /\ ses[s].reader = "read" /\ ses[s].sent > 0
  /\ ses' = [ses EXCEPT ![s] =
       IF ses[s].pump = "run" THEN [ses[s] EXCEPT !.sent = @ - 1, !.piped = @ + 1]
       ELSE [ses[s] EXCEPT !.sent = @ - 1, !.reader = "done"]]
  /\ ThreadStep

\* The end of the terminal.
ReadEnds(s) ==
  /\ ses[s].reader = "read" /\ ses[s].sent = 0 /\ ~ses[s].tty
  /\ ses' = [ses EXCEPT ![s].reader = "join"]
  /\ ThreadStep

\* Takes the session's mutex for one piece, unless the session is closed.
Pump(s) ==
  /\ ses[s].pump = "run" /\ ses[s].piped > 0 /\ ses[s].mutex = None
  /\ ses' = [ses EXCEPT ![s] = IF ses[s].closed THEN [ses[s] EXCEPT !.pump = "done"]
                               ELSE [ses[s] EXCEPT !.piped = @ - 1, !.dirty = TRUE]]
  /\ ThreadStep

\* The reader has dropped its end of the channel.
PumpEnds(s) ==
  /\ ses[s].pump = "run" /\ ses[s].piped = 0 /\ ses[s].reader # "read"
  /\ ses' = [ses EXCEPT ![s].pump = "done"]
  /\ ThreadStep

\* A turn of push_loop that finds something new: a frame for every subscriber.
Push(s) ==
  /\ ses[s].push = "run" /\ ses[s].mutex = None /\ ~ses[s].closed /\ ses[s].dirty
  /\ ses' = [ses EXCEPT ![s] = [ses[s] EXCEPT !.dirty = FALSE,
                                              !.chan = SentTo(ses[s].subs, ses[s].chan)]]
  /\ ThreadStep

\* Mutant: the push loop goes on.
PushGoesOn(s) ==
  /\ ses[s].push = "run" /\ ses[s].mutex = None /\ ses[s].closed
  /\ UNCHANGED vars

\* The push loop looks at the session every 16 ms.
PushEnds(s) ==
  /\ ses[s].push = "run" /\ ses[s].mutex = None /\ ses[s].closed
  /\ ses' = [ses EXCEPT ![s].push = "done"]
  /\ ThreadStep

\* Mutant: the reader does not wait for the pump.
JoinNothing(s) ==
  /\ ses[s].reader = "join"
  /\ ses' = [ses EXCEPT ![s].reader = "finalize"]
  /\ ThreadStep

Join(s) ==
  /\ ses[s].reader = "join" /\ ses[s].pump = "done"
  /\ ses' = [ses EXCEPT ![s].reader = "finalize"]
  /\ ThreadStep

\* finalize_session up to the wait for the child, which keeps the mutex.
Finalize(s) ==
  /\ ses[s].reader = "finalize" /\ ses[s].mutex = None
  /\ ses' = [ses EXCEPT ![s] =
       IF ses[s].closed THEN [ses[s] EXCEPT !.reader = "done"]
       ELSE [ses[s] EXCEPT !.closed = TRUE, !.mutex = Reader, !.reader = "wait"]]
  /\ ThreadStep

\* Mutant: the secrets are left to the session's end.
FinalizedKeepsSecret(s) ==
  /\ ses[s].reader = "wait" /\ ses[s].child = "exited"
  /\ ses' = [ses EXCEPT ![s] = [ses[s] EXCEPT !.child = "reaped", !.told = ses[s].subs,
                                              !.chan = SentTo(ses[s].subs, ses[s].chan),
                                              !.mutex = None, !.reader = "done"]]
  /\ ThreadStep

\* The child is reaped, the secrets go, and SessionClosed with the final screen goes into
\* the channel of every subscriber.
Finalized(s) ==
  /\ ses[s].reader = "wait" /\ ses[s].child = "exited"
  /\ ses' = [ses EXCEPT ![s] = [ses[s] EXCEPT !.child = "reaped", !.secret = FALSE,
                                              !.told = ses[s].subs,
                                              !.chan = SentTo(ses[s].subs, ses[s].chan),
                                              !.mutex = None, !.reader = "done"]]
  /\ ThreadStep

-----------------------------------------------------------------------------
(* Requests.  Each takes the engine's lock, then the mutex of the session   *)
(* or sessions it is about.                                                 *)

Ask(t, kind, s) ==
  /\ req[t] = Idle
  /\ asked < MaxRequests /\ asked' = asked + 1
  /\ t = Main => kind = "list"
  /\ req' = [req EXCEPT ![t] = [pc |-> "lock", kind |-> kind,
                                on |-> IF kind = "list" THEN None ELSE s, todo |-> {}]]
  /\ UNCHANGED <<table, readers, writer, ses>>

Done(t) == req' = [req EXCEPT ![t] = Idle]

\* Opening keeps the engine's lock from the start of the child to the table.
Open(t) ==
  LET s == req[t].on IN
  /\ req[t].pc = "lock" /\ req[t].kind = "open"
  /\ readers = {} /\ writer = None
  /\ IF ses[s].child # "none" THEN UNCHANGED <<table, ses>>
     ELSE /\ table' = table \cup {s}
          /\ ses' = [ses EXCEPT ![s] = [Unopened EXCEPT !.child = "running", !.tty = TRUE,
                       !.reads = TRUE, !.secret = TRUE, !.dirty = TRUE, !.reader = "read", !.pump = "run",
                       !.push = "run"]]
  /\ Done(t)
  /\ UNCHANGED <<readers, writer, asked>>

\* A reading request; a session that is not in the table is an error.
LockRead(t) ==
  /\ req[t].pc = "lock" /\ req[t].kind \in {"use", "input", "subscribe", "list"}
  /\ writer = None
  /\ LET wanted == IF req[t].kind = "list" THEN table ELSE {req[t].on} \cap table IN
       IF wanted = {} THEN Done(t) /\ UNCHANGED readers
       ELSE /\ readers' = readers \cup {t}
            /\ req' = [req EXCEPT ![t].pc = "mutex", ![t].todo = wanted]
  /\ UNCHANGED <<table, writer, ses, asked>>

Unlock(t) == Done(t) /\ readers' = readers \ {t}

\* list_sessions takes the mutexes one after the other; resizing, scrolling and
\* reading the screen take one, and the first two change what the screen shows.
Look(t) ==
  /\ req[t].pc = "mutex" /\ req[t].kind \in {"use", "list"}
  /\ \E s \in req[t].todo :
       /\ ses[s].mutex = None
       /\ \/ UNCHANGED ses
          \/ req[t].kind = "use" /\ ~ses[s].closed /\ ses' = [ses EXCEPT ![s].dirty = TRUE]
       /\ IF req[t].todo = {s} THEN Unlock(t)
          ELSE req' = [req EXCEPT ![t].todo = @ \ {s}] /\ UNCHANGED readers
  /\ UNCHANGED <<table, writer, asked>>

\* session_input keeps the mutex while it writes to the terminal.
Input(t) ==
  /\ req[t].pc = "mutex" /\ req[t].kind = "input"
  /\ LET s == req[t].on IN
       /\ ses[s].mutex = None
       /\ IF ses[s].closed THEN Unlock(t) /\ UNCHANGED ses
          ELSE /\ ses' = [ses EXCEPT ![s].mutex = t]
               /\ req' = [req EXCEPT ![t].pc = "write"] /\ UNCHANGED readers
  /\ UNCHANGED <<table, writer, asked>>

\* The write ends when the child takes the input or is gone.
Written(t) ==
  /\ req[t].pc = "write"
  /\ LET s == req[t].on IN
       /\ ses[s].reads \/ ~ses[s].tty
       /\ ses' = [ses EXCEPT ![s].mutex = None]
  /\ Unlock(t)
  /\ UNCHANGED <<table, writer, asked>>

\* Every subscriber gets the screen; one of a session that has ended nothing else.
Subscribe(t) ==
  /\ req[t].pc = "mutex" /\ req[t].kind = "subscribe"
  /\ LET s == req[t].on IN
       /\ ses[s].mutex = None
       /\ ses' = [ses EXCEPT ![s] =
            [ses[s] EXCEPT !.chan = SentTo({t}, ses[s].chan),
                           !.subs = IF ses[s].closed THEN @ ELSE @ \cup {t}]]
  /\ req' = [req EXCEPT ![t].pc = "stream", ![t].todo = {}]
  /\ readers' = readers \ {t}
  /\ UNCHANGED <<table, writer, asked>>

\* recv, and what it took is written to the connection: it is called up by a wake-up, throws
\* all others away and takes one item.
Forward(t) ==
  /\ req[t].pc = "stream"
  /\ LET s == req[t].on
         c == ses[s].chan[t]
     IN /\ c.wake
        /\ ses' = [ses EXCEPT ![s] =
             [ses[s] EXCEPT !.chan = [@ EXCEPT ![t] = [held |-> c.held - 1, wake |-> FALSE]],
                            !.heard = IF c.held = 1 THEN @ \cup ({t} \cap ses[s].told) ELSE @]]
  /\ UNCHANGED <<table, readers, writer, req, asked>>

\* recv returns None: the connection ends, and makes room for another.
StreamEnds(t) ==
  /\ req[t].pc = "stream" /\ Dropped(req[t].on) /\ ~ses[req[t].on].chan[t].wake
  /\ Done(t)
  /\ UNCHANGED <<table, readers, writer, ses, asked>>

\* Mutant: closing takes the lock like a reader.
LockWriteAmongReaders(t) ==
  /\ req[t].pc = "lock" /\ req[t].kind = "close"
  /\ writer = None
  /\ IF req[t].on \notin table THEN Done(t) /\ UNCHANGED <<table, writer>>
     ELSE /\ table' = table \ {req[t].on} /\ writer' = t
          /\ req' = [req EXCEPT ![t].pc = "mutex"]
  /\ UNCHANGED <<readers, ses, asked>>

\* close_session takes the session out of the table first.
LockWrite(t) ==
  /\ req[t].pc = "lock" /\ req[t].kind = "close"
  /\ readers = {} /\ writer = None
  /\ IF req[t].on \notin table THEN Done(t) /\ UNCHANGED <<table, writer>>
     ELSE /\ table' = table \ {req[t].on} /\ writer' = t
          /\ req' = [req EXCEPT ![t].pc = "mutex"]
  /\ UNCHANGED <<readers, ses, asked>>

\* A session that has been finalized is only removed.
Close(t) ==
  /\ req[t].pc = "mutex" /\ req[t].kind = "close"
  /\ LET s == req[t].on IN
       /\ ses[s].mutex = None
       /\ IF ses[s].closed THEN Done(t) /\ writer' = None /\ UNCHANGED ses
          ELSE /\ ses' = [ses EXCEPT ![s].closed = TRUE, ![s].mutex = t]
               /\ req' = [req EXCEPT ![t].pc = "kill"] /\ UNCHANGED writer
  /\ UNCHANGED <<table, readers, asked>>

\* Mutant: the child is waited for, but not killed.
KillNothing(t) ==
  /\ req[t].pc = "kill"
  /\ req' = [req EXCEPT ![t].pc = "wait"]
  /\ UNCHANGED <<table, readers, writer, ses, asked>>

\* A hang-up, and a kill if the child is there after a while.
Kill(t) ==
  LET s == req[t].on IN
  /\ req[t].pc = "kill"
  /\ ses' = [ses EXCEPT ![s].child = "exited", ![s].tty = FALSE]
  /\ req' = [req EXCEPT ![t].pc = "wait"]
  /\ UNCHANGED <<table, readers, writer, asked>>

Closed(t) ==
  LET s == req[t].on IN
  /\ req[t].pc = "wait" /\ ses[s].child = "exited"
  /\ ses' = [ses EXCEPT ![s] = [ses[s] EXCEPT !.child = "reaped", !.secret = FALSE,
                                              !.mutex = None]]
  /\ Done(t) /\ writer' = None
  /\ UNCHANGED <<table, readers, asked>>

-----------------------------------------------------------------------------
ReaderStep(s)  == Read(s) \/ ReadEnds(s) \/ Join(s) \/ Finalize(s) \/ Finalized(s)
PumpStep(s)    == Pump(s) \/ PumpEnds(s)
PushStep(s)    == Push(s) \/ PushEnds(s)
SessionStep(s) == ReaderStep(s) \/ PumpStep(s) \/ PushStep(s)

RequestStep(t) ==
  \/ Open(t) \/ LockRead(t) \/ Look(t) \/ Input(t) \/ Written(t) \/ Subscribe(t)
  \/ Forward(t) \/ StreamEnds(t) \/ LockWrite(t) \/ Close(t) \/ Kill(t) \/ Closed(t)

Next ==
  \/ \E s \in Sessions :
       \/ ChildWrites(s) \/ ChildPauses(s) \/ ChildLingers(s) \/ ChildExits(s)
       \/ SessionStep(s)
  \/ \E t \in Threads :
       \/ RequestStep(t)
       \/ \E kind \in Kinds, s \in Sessions : Ask(t, kind, s)

Spec == Init /\ [][Next]_vars

\* Threads are scheduled.  Nothing obliges a child or a client, and no order is
\* assumed among those who wait for a lock: with finitely many requests nobody is
\* overtaken for ever.
FairSpec ==
  /\ Spec
  /\ \A s \in Sessions : WF_vars(ReaderStep(s)) /\ WF_vars(PumpStep(s)) /\ WF_vars(PushStep(s))
  /\ \A t \in Threads : WF_vars(RequestStep(t))

-----------------------------------------------------------------------------
Channels == [Conns -> [held : 0..Room, wake : BOOLEAN]]
SessionStates ==
  [child : {"none", "running", "exited", "reaped"}, tty : BOOLEAN, reads : BOOLEAN,
   wrote : 0..MaxOutput, sent : 0..MaxOutput, piped : 0..MaxOutput,
   mutex : Threads \cup {Reader, None}, closed : BOOLEAN, secret : BOOLEAN,
   reader : {"none", "read", "join", "finalize", "wait", "done"},
   pump : {"none", "run", "done"}, push : {"none", "run", "done"},
   dirty : BOOLEAN, subs : SUBSET Conns, told : SUBSET Conns, heard : SUBSET Conns,
   chan : Channels]

RequestStates ==
  [pc : {"idle", "lock", "mutex", "write", "stream", "kill", "wait"},
   kind : Kinds \cup {None}, on : Sessions \cup {None}, todo : SUBSET Sessions]

TypeOK ==
  /\ table \subseteq Sessions
  /\ readers \subseteq Threads /\ writer \in Threads \cup {None}
  /\ writer # None => readers = {}
  /\ ses \in [Sessions -> SessionStates]
  /\ req \in [Threads -> RequestStates]
  /\ asked \in 0..MaxRequests

\* A session that is over, in whichever of the two ways, has left no zombie and no
\* key or askpass broker behind, by the time its mutex is free again.
NothingLeftBehind ==
  \A s \in Sessions : ses[s].closed /\ ses[s].mutex = None =>
    ses[s].child = "reaped" /\ ~ses[s].secret

\* Whoever hears that a session is over has been sent everything its child wrote:
\* the last words of a failed ssh are on the final screen.
LastWords ==
  \A s \in Sessions : ses[s].told # {} => ses[s].sent = 0 /\ ses[s].piped = 0

\* A child that is in the way: it runs on without its terminal, or has it and takes
\* no input.
Stubborn(s) == ses[s].child = "running" /\ ~(ses[s].tty /\ ses[s].reads)

Waiting(t)  == req[t].pc \notin {"idle", "stream"}
Obliging    == <>[](\A s \in Sessions : ~Stubborn(s))

\* Only a stubborn child can hold up a request, of its session or of another: when
\* none is there any more, every request returns.
RequestsReturn == Obliging => \A t \in Threads : Waiting(t) ~> ~Waiting(t)

Follows(t, s) == req[t].pc = "stream" /\ req[t].on = s

\* The end of the session lies in the channel and nothing calls its receiver up any more: it
\* threw the wake-up away with an earlier one (CatchesUp of PushChannel fails).
Stranded(t, s) == t \in ses[s].told \ ses[s].heard /\ ~ses[s].chan[t].wake

\* A follower that has yet to hear of the end of its session.
Unaware(t, s) == Follows(t, s) /\ t \in ses[s].subs \ ses[s].heard /\ ses[s].closed

\* Whoever follows a session that is then over hears of it from its channel, unless the end
\* of the session was left behind there by the receiver (push.rs, 108 to 112); and in no case
\* for longer than until the session is closed: then every stream of it ends, so that it no
\* longer counts as a connection that keeps the host from leaving.
FollowersLearn ==
  Obliging => []<>(\A t \in Conns, s \in Sessions :
    /\ Unaware(t, s) => Stranded(t, s)
    /\ ses[s].closed /\ s \notin table => ~Follows(t, s))

\* A request is never held up, whatever children do.
EveryRequestReturns == \A t \in Threads : Waiting(t) ~> ~Waiting(t)

\* The end of a session is never left behind.  (It fails: the receiver takes one item for any
\* number of wake-ups, and nothing follows the end.)
EndIsTaken == Obliging => \A t \in Conns, s \in Sessions : Stranded(t, s) ~> ~Stranded(t, s)

\* A session that was over when it was subscribed to is no exception.  (It fails: such a
\* subscriber gets the screen and no more.)
EveryStreamEnds ==
  Obliging => \A t \in Conns, s \in Sessions :
    Follows(t, s) /\ ses[s].closed ~> t \in ses[s].heard \/ ~Follows(t, s)
=============================================================================
