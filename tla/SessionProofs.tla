----------------------------- MODULE SessionProofs -----------------------------
(***************************************************************************)
(* Proofs about the terminals of a session host and about the host itself: *)
(* SessionEngine, for any number of sessions, connections, pieces of       *)
(* output and requests, and SessionHost, for any number of daemons, hosts  *)
(* and connections.                                                        *)
(***************************************************************************)
EXTENDS SessionEngine, SessionHost, TLAPS

-----------------------------------------------------------------------------
(* What is true of a session between two steps.                             *)

\* A channel with a wake-up has an item.
Filled(chan) == \A t \in Conns : chan[t].wake => chan[t].held > 0

Sane(r) ==
  /\ r.child = "none" => r = Unopened
  /\ r.child # "none" => r.reader # "none" /\ r.pump # "none"
  /\ r.reader \in {"wait", "done"} => r.closed
  /\ r.sent + r.piped <= r.wrote
  /\ r.mutex = Reader <=> r.reader = "wait"
  /\ r.closed /\ r.mutex = None => r.child = "reaped" /\ ~r.secret
  /\ r.reader \in {"join", "finalize", "wait"} => r.sent = 0 /\ ~r.tty
  /\ r.reader = "finalize" => r.pump = "done"
  /\ r.reader = "wait" => r.piped = 0
  /\ r.pump = "done" /\ ~r.closed => r.piped = 0 /\ r.reader \in {"join", "finalize"}
  /\ r.told # {} => r.reader = "done" /\ r.sent = 0 /\ r.piped = 0 /\ ~r.tty
  /\ Filled(r.chan)

\* What is true of a thread: which of the engine's locks it holds follows from
\* where its request stands, and three places hold a session's mutex.
ReqInv(t) ==
  LET q == req[t] IN
  /\ t \in readers <=> q.pc = "write" \/ (q.pc = "mutex" /\ q.kind # "close")
  /\ writer = t <=> q.kind = "close" /\ q.pc \in {"mutex", "kill", "wait"}
  /\ q.kind = None <=> q.pc = "idle"
  /\ q.kind \notin {None, "list"} => q.on \in Sessions
  /\ q.pc = "write" => q.kind = "input"
  /\ q.pc = "stream" => q.kind = "subscribe"
  /\ q.pc = "mutex" /\ q.kind = "use" => q.todo \subseteq {q.on}
  /\ q.pc \in {"kill", "wait"} => q.kind = "close"
  /\ q.pc = "mutex" /\ q.kind # "list" => ses[q.on].child # "none"
  /\ q.pc \in {"write", "kill", "wait"} => ses[q.on].mutex = t
  /\ q.pc = "write" => ~ses[q.on].closed
  /\ t = Main => q.kind \in {None, "list"}

EngineInv ==
  /\ TypeOK
  /\ \A s \in Sessions : Sane(ses[s])
  /\ \A s \in table : ses[s].child # "none"
  /\ \A t \in Threads : ReqInv(t)

-----------------------------------------------------------------------------
(* Lemmas about a change of one session or of one request.                  *)

\* Replacing one session's record leaves the others as they are.
LEMMA SesChange ==
  ASSUME ses \in [Sessions -> SessionStates], NEW s \in Sessions, NEW r \in SessionStates,
         ses' = [ses EXCEPT ![s] = r]
  PROVE  /\ ses' \in [Sessions -> SessionStates]
         /\ ses'[s] = r
         /\ \A x \in Sessions : x # s => ses'[x] = ses[x]
OBVIOUS

\* A step of a session's threads or child, which leaves the session's mutex and
\* its closed flag alone unless no request holds the mutex, preserves EngineInv if
\* the new session is sane.
LEMMA SessionChange ==
  ASSUME EngineInv, NEW s \in Sessions, NEW r \in SessionStates, Sane(r),
         ses' = [ses EXCEPT ![s] = r],
         ses[s].mutex \in Threads => r.mutex = ses[s].mutex /\ r.closed = ses[s].closed,
         r.child = "none" => ses[s].child = "none",
         ThreadStep
  PROVE  EngineInv'
<1>1. /\ ses' \in [Sessions -> SessionStates]
      /\ ses'[s] = r
      /\ \A x \in Sessions : x # s => ses'[x] = ses[x]
  BY SesChange DEF EngineInv, TypeOK
<1>2. TypeOK'
  BY <1>1 DEF EngineInv, TypeOK, ThreadStep
<1>3. \A x \in Sessions : Sane(ses'[x])
  BY <1>1 DEF EngineInv
<1>a. \A x \in table' : ses'[x].child # "none"
  BY <1>1 DEF EngineInv, ThreadStep, TypeOK
<1>4. ASSUME NEW t \in Threads PROVE ReqInv(t)'
  <2>1. ReqInv(t)
    BY DEF EngineInv
  <2>a. req[t].pc = "mutex" /\ req[t].kind # "list" => ses'[req[t].on].child # "none"
    BY <1>1, <2>1, EngineAssumption DEF ReqInv, Kinds
  <2>2. ASSUME req[t].pc \in {"write", "kill", "wait"}
        PROVE  /\ ses'[req[t].on].mutex = ses[req[t].on].mutex
               /\ ses'[req[t].on].closed = ses[req[t].on].closed
    <3>1. req[t].on \in Sessions /\ ses[req[t].on].mutex = t
      BY <2>1, <2>2, EngineAssumption DEF ReqInv, Kinds
    <3>2. QED
      BY <1>1, <3>1
  <2>3. QED
    BY <2>1, <2>2, <2>a DEF ReqInv, ThreadStep
<1>5. QED
  BY <1>2, <1>3, <1>a, <1>4 DEF EngineInv

\* A step of a request preserves EngineInv if the locks and mutexes of the other
\* threads are as before and the new request fits its locks.
LEMMA RequestChange ==
  ASSUME EngineInv, NEW t \in Threads, NEW q \in RequestStates,
         req' = [req EXCEPT ![t] = q],
         table' \subseteq Sessions,
         readers' \subseteq Threads, writer' \in Threads \cup {None},
         writer' # None => readers' = {},
         asked' \in 0..MaxRequests,
         ses' \in [Sessions -> SessionStates],
         \A s \in Sessions : Sane(ses'[s]),
         \A s \in table' : ses'[s].child # "none",
         \A s \in Sessions : ses'[s].child = "none" => ses[s].child = "none",
         \A x \in Threads : x # t => (x \in readers' <=> x \in readers) /\ (writer' = x <=> writer = x),
         \A s \in Sessions : ses[s].mutex \in Threads \ {t} =>
           ses'[s].mutex = ses[s].mutex /\ ses'[s].closed = ses[s].closed,
         ReqInv(t)'
  PROVE  EngineInv'
<1>1. req' \in [Threads -> RequestStates] /\ \A x \in Threads : x # t => req'[x] = req[x]
  BY DEF EngineInv, TypeOK
<1>2. TypeOK'
  BY <1>1 DEF TypeOK
<1>3. ASSUME NEW x \in Threads, x # t PROVE ReqInv(x)'
  <2>1. ReqInv(x) /\ req'[x] = req[x]
    BY <1>1, <1>3 DEF EngineInv
  <2>a. req[x].pc = "mutex" /\ req[x].kind # "list" => ses'[req[x].on].child # "none"
    BY <2>1, EngineAssumption DEF ReqInv, Kinds
  <2>2. ASSUME req[x].pc \in {"write", "kill", "wait"}
        PROVE  /\ ses'[req[x].on].mutex = ses[req[x].on].mutex
               /\ ses'[req[x].on].closed = ses[req[x].on].closed
    <3>1. req[x].on \in Sessions /\ ses[req[x].on].mutex = x
      BY <2>1, <2>2, EngineAssumption DEF ReqInv, Kinds
    <3>2. QED
      BY <1>3, <3>1
  <2>3. QED
    BY <1>3, <2>1, <2>2, <2>a DEF ReqInv
<1>4. QED
  BY <1>2, <1>3 DEF EngineInv

\* The same when no session changes.
LEMMA RequestOnly ==
  ASSUME EngineInv, NEW t \in Threads, NEW q \in RequestStates,
         req' = [req EXCEPT ![t] = q], ses' = ses,
         table' \subseteq table,
         readers' \subseteq Threads, writer' \in Threads \cup {None},
         writer' # None => readers' = {},
         asked' \in 0..MaxRequests,
         \A x \in Threads : x # t => (x \in readers' <=> x \in readers) /\ (writer' = x <=> writer = x),
         ReqInv(t)'
  PROVE  EngineInv'
<1>1. /\ ses' \in [Sessions -> SessionStates] /\ \A s \in Sessions : Sane(ses'[s])
      /\ table' \subseteq Sessions /\ \A s \in table' : ses'[s].child # "none"
      /\ \A s \in Sessions : ses'[s].child = "none" => ses[s].child = "none"
  BY DEF EngineInv, TypeOK
<1>2. \A s \in Sessions : ses[s].mutex \in Threads \ {t} =>
        ses'[s].mutex = ses[s].mutex /\ ses'[s].closed = ses[s].closed
  OBVIOUS
<1>3. QED
  BY <1>1, <1>2, RequestChange

\* The idle request.
LEMMA IdleType == Idle \in RequestStates
BY DEF Idle, RequestStates

\* The channels of a new session, and after an item was sent.
LEMMA NoItems ==
  [t \in Conns |-> Empty] \in Channels /\ Filled([t \in Conns |-> Empty])
BY EngineAssumption DEF Channels, Filled, Empty

LEMMA ItemSent ==
  ASSUME NEW c \in [held : 0..Room, wake : BOOLEAN]
  PROVE  Sent(c) \in [held : 0..Room, wake : BOOLEAN] /\ Sent(c).held > 0
BY EngineAssumption DEF Sent

LEMMA ItemsSent ==
  ASSUME NEW chan \in Channels, Filled(chan), NEW ts
  PROVE  SentTo(ts, chan) \in Channels /\ Filled(SentTo(ts, chan))
<1>1. ASSUME NEW t \in Conns
      PROVE  /\ SentTo(ts, chan)[t] \in [held : 0..Room, wake : BOOLEAN]
             /\ SentTo(ts, chan)[t].wake => SentTo(ts, chan)[t].held > 0
  <2>1. chan[t] \in [held : 0..Room, wake : BOOLEAN] /\ (chan[t].wake => chan[t].held > 0)
    BY DEF Channels, Filled
  <2>2. SentTo(ts, chan)[t] = IF t \in ts THEN Sent(chan[t]) ELSE chan[t]
    BY DEF SentTo
  <2>3. QED
    BY <2>1, <2>2, ItemSent
<1>2. SentTo(ts, chan) = [t \in Conns |-> SentTo(ts, chan)[t]]
  BY DEF SentTo
<1>3. QED
  BY <1>1, <1>2 DEF Channels, Filled

\* And after one was taken.
LEMMA ItemTaken ==
  ASSUME NEW chan \in Channels, NEW t \in Conns, chan[t].wake, Filled(chan)
  PROVE  LET rest == [chan EXCEPT ![t] = [held |-> chan[t].held - 1, wake |-> FALSE]]
         IN rest \in Channels /\ Filled(rest)
<1>1. chan[t].held - 1 \in 0..Room
  BY EngineAssumption DEF Channels, Filled
<1>2. QED
  BY <1>1 DEF Channels, Filled

-----------------------------------------------------------------------------
(* The initial state, and the steps of children and sessions.               *)

LEMMA InitInv == Init => EngineInv
<1> SUFFICES ASSUME Init PROVE EngineInv
  OBVIOUS
<1>1. Unopened \in SessionStates
  BY NoItems, EngineAssumption DEF Unopened, SessionStates
<1>2. Sane(Unopened)
  BY NoItems, EngineAssumption DEF Unopened, Sane
<1>3. TypeOK
  BY <1>1, IdleType, EngineAssumption DEF Init, TypeOK
<1>4. \A t \in Threads : ReqInv(t)
  BY EngineAssumption DEF Init, ReqInv, Idle
<1>5. QED
  BY <1>2, <1>3, <1>4 DEF Init, EngineInv

LEMMA ChildInv ==
  ASSUME EngineInv, NEW s \in Sessions,
         ChildWrites(s) \/ ChildPauses(s) \/ ChildLingers(s) \/ ChildExits(s)
  PROVE  EngineInv'
<1>1. ses[s] \in SessionStates /\ Sane(ses[s]) /\ MaxOutput \in Nat
  BY EngineAssumption DEF EngineInv, TypeOK
<1>2. CASE ChildWrites(s)
  <2> DEFINE r == [ses[s] EXCEPT !.wrote = @ + 1, !.sent = @ + 1]
  <2> HIDE DEF r
  <2>0. ses[s].wrote + 1 \in 0..MaxOutput /\ ses[s].sent + 1 \in 0..MaxOutput
    BY <1>1, <1>2 DEF ChildWrites, SessionStates, Sane
  <2>1. r \in SessionStates
    BY <1>1, <2>0 DEF SessionStates, r
  <2>2. Sane(r)
    BY <1>1, <1>2 DEF ChildWrites, Child, SessionStates, Sane, r
  <2>3. QED
    BY <1>1, <1>2, <2>1, <2>2, SessionChange DEF ChildWrites, Child, ThreadStep, SessionStates, r
<1>3. CASE ChildPauses(s)
  <2> DEFINE r == [ses[s] EXCEPT !.reads = ~@]
  <2>1. r \in SessionStates /\ Sane(r)
    BY <1>1, <1>3 DEF ChildPauses, Child, SessionStates, Sane
  <2>2. QED
    <3>1. ses' = [ses EXCEPT ![s] = r] /\ ThreadStep
      BY <1>3 DEF ChildPauses, Child, ThreadStep
    <3>2. r.mutex = ses[s].mutex /\ r.closed = ses[s].closed /\ r.child = ses[s].child
      BY <1>1 DEF SessionStates
    <3> HIDE DEF r
    <3>3. QED
      BY <2>1, <3>1, <3>2, SessionChange
<1>4. CASE ChildLingers(s)
  <2> DEFINE r == [ses[s] EXCEPT !.tty = FALSE]
  <2>1. r \in SessionStates /\ Sane(r)
    BY <1>1, <1>4 DEF ChildLingers, Child, SessionStates, Sane
  <2>2. QED
    BY <1>1, <1>4, <2>1, SessionChange DEF ChildLingers, Child, ThreadStep, SessionStates
<1>5. CASE ChildExits(s)
  <2> DEFINE r == [ses[s] EXCEPT !.child = "exited", !.tty = FALSE]
  <2>1. r \in SessionStates /\ Sane(r)
    BY <1>1, <1>5 DEF ChildExits, Child, SessionStates, Sane
  <2>2. QED
    BY <1>1, <1>5, <2>1, SessionChange DEF ChildExits, Child, ThreadStep, SessionStates
<1>6. QED
  BY <1>2, <1>3, <1>4, <1>5

\* The reader, the pump and the push loop.
LEMMA SessionInv ==
  ASSUME EngineInv, NEW s \in Sessions, SessionStep(s)
  PROVE  EngineInv'
<1>1. ses[s] \in SessionStates /\ Sane(ses[s])
  BY DEF EngineInv, TypeOK
<1>0. /\ ses[s].child = "none" => ses[s].reader = "none" /\ ses[s].pump = "none" /\ ses[s].push = "none"
      /\ ses[s].sent + ses[s].piped <= MaxOutput
      /\ ses[s].reader = "wait" => ses[s].mutex = Reader /\ Reader \notin Threads
  BY <1>1, EngineAssumption DEF Unopened, Sane, SessionStates
<1>2. CASE Read(s)
  <2> DEFINE r == IF ses[s].pump = "run" THEN [ses[s] EXCEPT !.sent = @ - 1, !.piped = @ + 1]
                 ELSE [ses[s] EXCEPT !.sent = @ - 1, !.reader = "done"]
  <2>0. /\ ses[s].sent - 1 \in 0..MaxOutput
        /\ ses[s].pump = "run" => ses[s].piped + 1 \in 0..MaxOutput
        /\ ses[s].sent - 1 + ses[s].piped + 1 <= ses[s].wrote
        /\ ses[s].sent - 1 + ses[s].piped <= ses[s].wrote
    BY <1>0, <1>1, <1>2, EngineAssumption DEF Read, SessionStates, Sane
  <2> HIDE DEF r
  <2>a. ASSUME ses[s].pump = "run" PROVE r \in SessionStates /\ Sane(r)
    <3>1. r = [ses[s] EXCEPT !.sent = @ - 1, !.piped = @ + 1]
      BY <2>a DEF r
    <3>2. r \in SessionStates
      BY <1>1, <2>0, <2>a, <3>1 DEF SessionStates
    <3>3. Sane(r)
      BY <1>0, <1>1, <1>2, <2>0, <2>a, <3>1 DEF Read, SessionStates, Sane
    <3>4. QED
      BY <3>2, <3>3
  <2>b. ASSUME ses[s].pump # "run" PROVE r \in SessionStates /\ Sane(r)
    <3>1. r = [ses[s] EXCEPT !.sent = @ - 1, !.reader = "done"]
      BY <2>b DEF r
    <3>2. r \in SessionStates
      BY <1>1, <2>0, <3>1 DEF SessionStates
    <3>3. Sane(r)
      BY <1>0, <1>1, <1>2, <2>0, <2>b, <3>1 DEF Read, SessionStates, Sane
    <3>4. QED
      BY <3>2, <3>3
  <2>1. r \in SessionStates /\ Sane(r)
    BY <2>a, <2>b
  <2>2. ses' = [ses EXCEPT ![s] = r]
    BY <1>2 DEF Read, r
  <2>3. r.mutex = ses[s].mutex /\ r.closed = ses[s].closed /\ r.child = ses[s].child
    BY <1>1, <2>a, <2>b DEF SessionStates, r
  <2>4. QED
    BY <1>2, <2>1, <2>2, <2>3, SessionChange DEF Read
<1>3. CASE ReadEnds(s)
  <2> DEFINE r == [ses[s] EXCEPT !.reader = "join"]
  <2>1. r \in SessionStates /\ Sane(r)
    BY <1>0, <1>1, <1>3, EngineAssumption DEF ReadEnds, SessionStates, Sane
  <2>2. QED
    BY <1>0, <1>1, <1>3, <2>1, EngineAssumption, SessionChange DEF ReadEnds, SessionStates
<1>4. CASE Join(s)
  <2> DEFINE r == [ses[s] EXCEPT !.reader = "finalize"]
  <2>1. r \in SessionStates /\ Sane(r)
    BY <1>0, <1>1, <1>4, EngineAssumption DEF Join, SessionStates, Sane
  <2>2. QED
    BY <1>0, <1>1, <1>4, <2>1, EngineAssumption, SessionChange DEF Join, SessionStates
<1>5. CASE Finalize(s)
  <2> DEFINE r == IF ses[s].closed THEN [ses[s] EXCEPT !.reader = "done"]
                 ELSE [ses[s] EXCEPT !.closed = TRUE, !.mutex = Reader, !.reader = "wait"]
  <2>1. r \in SessionStates /\ Sane(r)
    BY <1>0, <1>1, <1>5, EngineAssumption DEF Finalize, SessionStates, Sane
  <2>2. ses' = [ses EXCEPT ![s] = r] /\ ses[s].mutex = None
    BY <1>5 DEF Finalize
  <2>3. r.child = ses[s].child
    BY <1>1 DEF SessionStates
  <2> HIDE DEF r
  <2>4. QED
    BY <1>5, <2>1, <2>2, <2>3, EngineAssumption, SessionChange DEF Finalize
<1>6. CASE Finalized(s)
  <2> DEFINE ch == SentTo(ses[s].subs, ses[s].chan)
             r == [ses[s] EXCEPT !.child = "reaped", !.secret = FALSE, !.told = ses[s].subs,
                             !.chan = ch, !.mutex = None, !.reader = "done"]
  <2>0. ch \in Channels /\ Filled(ch)
    BY <1>1, ItemsSent DEF SessionStates, Sane
  <2>3. ses' = [ses EXCEPT ![s] = r] /\ ThreadStep /\ ses[s].reader = "wait" /\ ses[s].child = "exited"
    BY <1>6 DEF Finalized
  <2> HIDE DEF ch
  <2>1. r \in SessionStates /\ Sane(r)
    BY <1>0, <1>1, <2>0, <2>3, EngineAssumption DEF SessionStates, Sane
  <2>2. r.child = "reaped" /\ ses[s].mutex \notin Threads
    BY <1>0, <1>1, <2>3 DEF SessionStates
  <2> HIDE DEF r
  <2>4. QED
    BY <2>1, <2>2, <2>3, SessionChange
<1>7. CASE Pump(s)
  <2>0. ses[s].pump = "run" /\ ses[s].piped > 0 /\ ses[s].mutex = None /\ ThreadStep
    BY <1>7 DEF Pump
  <2>1. CASE ses[s].closed
    <3> DEFINE r == [ses[s] EXCEPT !.pump = "done"]
    <3>1. ses' = [ses EXCEPT ![s] = r]
      BY <1>7, <2>1 DEF Pump
    <3>2. r \in SessionStates /\ Sane(r)
      BY <1>0, <1>1, <2>0, <2>1, EngineAssumption DEF SessionStates, Sane
    <3>3. r.child = ses[s].child /\ ses[s].mutex \notin Threads
      BY <1>1, <2>0, EngineAssumption DEF SessionStates
    <3> HIDE DEF r
    <3>4. QED
      BY <2>0, <3>1, <3>2, <3>3, SessionChange
  <2>2. CASE ~ses[s].closed
    <3> DEFINE r == [ses[s] EXCEPT !.piped = @ - 1, !.dirty = TRUE]
    <3>1. ses' = [ses EXCEPT ![s] = r]
      BY <1>7, <2>2 DEF Pump
    <3>5. ses[s].piped - 1 \in 0..MaxOutput /\ ses[s].sent + (ses[s].piped - 1) <= ses[s].wrote
      BY <1>1, <2>0, EngineAssumption DEF SessionStates, Sane
    <3>2. r \in SessionStates
      BY <1>1, <3>5 DEF SessionStates
    <3>6. Sane(r)
      BY <1>0, <1>1, <2>0, <2>2, <3>5, EngineAssumption DEF SessionStates, Sane
    <3>3. r.child = ses[s].child /\ ses[s].mutex \notin Threads
      BY <1>1, <2>0, EngineAssumption DEF SessionStates
    <3> HIDE DEF r
    <3>4. QED
      BY <2>0, <3>1, <3>2, <3>3, <3>6, SessionChange
  <2>3. QED
    BY <2>1, <2>2
<1>8. CASE PumpEnds(s)
  <2> DEFINE r == [ses[s] EXCEPT !.pump = "done"]
  <2>1. r \in SessionStates /\ Sane(r)
    BY <1>0, <1>1, <1>8, EngineAssumption DEF PumpEnds, SessionStates, Sane
  <2>2. QED
    BY <1>0, <1>1, <1>8, <2>1, EngineAssumption, SessionChange DEF PumpEnds, SessionStates
<1>9. CASE PushEnds(s)
  <2> DEFINE r == [ses[s] EXCEPT !.push = "done"]
  <2>1. r \in SessionStates /\ Sane(r)
    BY <1>0, <1>1, <1>9, EngineAssumption DEF PushEnds, SessionStates, Sane
  <2>2. QED
    BY <1>0, <1>1, <1>9, <2>1, EngineAssumption, SessionChange DEF PushEnds, SessionStates
<1>10. CASE Push(s)
  <2> DEFINE ch == SentTo(ses[s].subs, ses[s].chan)
             r == [ses[s] EXCEPT !.dirty = FALSE, !.chan = ch]
  <2>0. ch \in Channels /\ Filled(ch)
    BY <1>1, ItemsSent DEF SessionStates, Sane
  <2>3. ses' = [ses EXCEPT ![s] = r] /\ ThreadStep /\ ses[s].push = "run"
    BY <1>10 DEF Push
  <2> HIDE DEF ch
  <2>1. r \in SessionStates /\ Sane(r)
    BY <1>0, <1>1, <2>0, <2>3, EngineAssumption DEF SessionStates, Sane
  <2>2. QED
    BY <1>0, <1>1, <2>1, <2>3, EngineAssumption, SessionChange DEF SessionStates
<1>11. QED
  BY <1>2, <1>3, <1>4, <1>5, <1>6, <1>7, <1>8, <1>9, <1>10
  DEF SessionStep, ReaderStep, PumpStep, PushStep

-----------------------------------------------------------------------------
(* The steps of requests.                                                   *)

\* What the invariant gives a step of thread t.
LEMMA ThreadFacts ==
  ASSUME EngineInv, NEW t \in Threads
  PROVE  /\ req[t] \in RequestStates /\ ReqInv(t) /\ t # None /\ t # Reader
         /\ None \notin Kinds /\ None \notin Sessions /\ None \notin Threads
         /\ table \subseteq Sessions /\ readers \subseteq Threads
         /\ writer \in Threads \cup {None} /\ (writer # None => readers = {})
         /\ \A s \in table : ses[s].child # "none"
         /\ asked \in 0..MaxRequests
         /\ req \in [Threads -> RequestStates]
BY EngineAssumption DEF EngineInv, TypeOK

LEMMA AskInv ==
  ASSUME EngineInv, NEW t \in Threads, NEW kind \in Kinds, NEW s \in Sessions, Ask(t, kind, s)
  PROVE  EngineInv'
<1> DEFINE q == [pc |-> "lock", kind |-> kind, on |-> IF kind = "list" THEN None ELSE s, todo |-> {}]
<1>1. q \in RequestStates
  BY DEF RequestStates
<1>2. req' = [req EXCEPT ![t] = q] /\ req'[t] = q
  BY ThreadFacts DEF Ask
<1>3. ReqInv(t)'
  BY <1>2, ThreadFacts DEF Ask, ReqInv, Idle, Kinds
<1>4. asked' \in 0..MaxRequests
  BY ThreadFacts, EngineAssumption DEF Ask
<1>5. QED
  BY <1>1, <1>2, <1>3, <1>4, ThreadFacts, RequestOnly DEF Ask

LEMMA OpenInv ==
  ASSUME EngineInv, NEW t \in Threads, Open(t)
  PROVE  EngineInv'
<1>0. Done(t)
  BY DEF Open
<1> DEFINE s == req[t].on
           r == [Unopened EXCEPT !.child = "running", !.tty = TRUE, !.reads = TRUE,
                   !.secret = TRUE, !.dirty = TRUE, !.reader = "read", !.pump = "run",
                   !.push = "run"]
<1>1. s \in Sessions
  BY ThreadFacts DEF Open, ReqInv, Kinds
<1>2. r \in SessionStates /\ Sane(r)
  <2>1. Unopened \in SessionStates
    BY NoItems, EngineAssumption DEF Unopened, SessionStates
  <2>2. /\ Unopened.sent = 0 /\ Unopened.piped = 0 /\ Unopened.wrote = 0 /\ Unopened.told = {}
        /\ Unopened.mutex = None /\ ~Unopened.closed /\ Filled(Unopened.chan)
    BY NoItems DEF Unopened
  <2>3. r \in SessionStates
    BY <2>1 DEF SessionStates
  <2>4. /\ r.child = "running" /\ r.reader = "read" /\ r.pump = "run" /\ r.sent = 0 /\ r.piped = 0
        /\ r.wrote = 0 /\ r.told = {} /\ r.mutex = None /\ ~r.closed /\ Filled(r.chan)
    BY <2>1, <2>2 DEF SessionStates
  <2> HIDE DEF r
  <2>5. Sane(r)
    BY <2>4, EngineAssumption DEF Sane
  <2>6. QED
    BY <2>3, <2>5
<1>3. req' = [req EXCEPT ![t] = Idle] /\ req'[t] = Idle /\ Idle \in RequestStates
  BY <1>0, ThreadFacts, IdleType DEF Done
<1>4. ReqInv(t)'
  BY <1>3, ThreadFacts DEF Open, ReqInv, Idle
<1>5. CASE ses[s].child # "none"
  <2>1. table' = table /\ ses' = ses /\ readers' = readers /\ writer' = writer /\ asked' = asked
    BY <1>5 DEF Open
  <2>2. QED
    BY <1>3, <1>4, <2>1, ThreadFacts, RequestOnly
<1>6. CASE ses[s].child = "none"
  <2>1. table' = table \cup {s} /\ ses' = [ses EXCEPT ![s] = r]
    BY <1>6 DEF Open
  <2>2. ses \in [Sessions -> SessionStates] /\ \A x \in Sessions : Sane(ses[x])
    BY DEF EngineInv, TypeOK
  <2>3. /\ ses' \in [Sessions -> SessionStates]
        /\ ses'[s] = r
        /\ \A x \in Sessions : x # s => ses'[x] = ses[x]
    BY <1>1, <1>2, <2>1, <2>2, SesChange
  <2>4. \A x \in Sessions : Sane(ses'[x])
    BY <1>2, <2>2, <2>3
  <2>5. ses[s].mutex = None
    BY <1>1, <1>6, <2>2 DEF Sane, Unopened
  <2>6. \A x \in Sessions : ses[x].mutex \in Threads \ {t} =>
          ses'[x].mutex = ses[x].mutex /\ ses'[x].closed = ses[x].closed
    BY <2>3, <2>5, ThreadFacts
  <2>7. /\ table' \subseteq Sessions /\ \A x \in table' : ses'[x].child # "none"
        /\ \A x \in Sessions : ses'[x].child = "none" => ses[x].child = "none"
    <3>1. r.child = "running"
      BY DEF Unopened
    <3>2. QED
      BY <1>1, <2>1, <2>3, <3>1, ThreadFacts
  <2>8. /\ readers' = readers /\ writer' = writer /\ asked' = asked
    BY DEF Open
  <2>9. QED
    BY <1>3, <1>4, <2>3, <2>4, <2>6, <2>7, <2>8, ThreadFacts, RequestChange
<1>7. QED
  BY <1>5, <1>6

LEMMA LockReadInv ==
  ASSUME EngineInv, NEW t \in Threads, LockRead(t)
  PROVE  EngineInv'
<1> DEFINE wanted == IF req[t].kind = "list" THEN table ELSE {req[t].on} \cap table
           q      == [req[t] EXCEPT !.pc = "mutex", !.todo = wanted]
<1>1. wanted \in SUBSET Sessions
  BY ThreadFacts
<1>2. CASE wanted = {}
  <2>1. req' = [req EXCEPT ![t] = Idle] /\ req'[t] = Idle /\ Idle \in RequestStates
    BY <1>2, ThreadFacts, IdleType DEF LockRead, Done
  <2>2. readers' = readers
    BY <1>2 DEF LockRead
  <2>3. ReqInv(t)'
    BY <2>1, <2>2, ThreadFacts DEF LockRead, ReqInv, Idle
  <2>4. QED
    BY <2>1, <2>2, <2>3, ThreadFacts, RequestOnly DEF LockRead
<1>3. CASE wanted # {}
  <2>1. req' = [req EXCEPT ![t] = q] /\ readers' = readers \cup {t}
    BY <1>3 DEF LockRead
  <2>2. q \in RequestStates /\ req'[t] = q
    BY <1>1, <2>1, ThreadFacts DEF RequestStates
  <2>3. q.pc = "mutex" /\ q.kind = req[t].kind /\ q.on = req[t].on
    BY ThreadFacts DEF RequestStates
  <2>a. q.kind # "list" => ses'[q.on].child # "none"
    BY <1>3, <2>3, ThreadFacts DEF LockRead
  <2>4. ReqInv(t)'
    BY <2>1, <2>2, <2>3, <2>a, ThreadFacts DEF LockRead, ReqInv, Kinds
  <2>5. QED
    BY <2>1, <2>2, <2>4, ThreadFacts, RequestOnly DEF LockRead
<1>4. QED
  BY <1>2, <1>3

\* Giving back the engine's lock and with it the request.
LEMMA UnlockFacts ==
  ASSUME EngineInv, NEW t \in Threads, Unlock(t), writer' = writer, writer # t
  PROVE  /\ req' = [req EXCEPT ![t] = Idle] /\ req'[t] = Idle /\ Idle \in RequestStates
         /\ readers' = readers \ {t}
         /\ ReqInv(t)'
<1>1. /\ req' = [req EXCEPT ![t] = Idle] /\ req'[t] = Idle /\ Idle \in RequestStates
      /\ readers' = readers \ {t}
  BY ThreadFacts, IdleType DEF Unlock, Done
<1>2. QED
  BY <1>1, ThreadFacts DEF ReqInv, Idle

LEMMA LookInv ==
  ASSUME EngineInv, NEW t \in Threads, Look(t)
  PROVE  EngineInv'
<1>1. writer # t
  BY ThreadFacts DEF Look, ReqInv
<1>2. PICK s \in req[t].todo :
        /\ \/ UNCHANGED ses
           \/ req[t].kind = "use" /\ ~ses[s].closed /\ ses' = [ses EXCEPT ![s].dirty = TRUE]
        /\ IF req[t].todo = {s} THEN Unlock(t)
           ELSE req' = [req EXCEPT ![t].todo = @ \ {s}] /\ UNCHANGED readers
  BY DEF Look
<1>3. UNCHANGED <<table, writer, asked>>
  BY DEF Look
<1>4. /\ ses' \in [Sessions -> SessionStates]
      /\ \A x \in Sessions : Sane(ses'[x])
      /\ \A x \in Sessions : /\ ses'[x].child = ses[x].child /\ ses'[x].mutex = ses[x].mutex
                             /\ ses'[x].closed = ses[x].closed
  <2>1. ses \in [Sessions -> SessionStates] /\ \A x \in Sessions : Sane(ses[x])
    BY DEF EngineInv, TypeOK
  <2>2. CASE UNCHANGED ses
    BY <2>1, <2>2
  <2>3. CASE ~UNCHANGED ses
    <3> DEFINE r == [ses[s] EXCEPT !.dirty = TRUE]
    <3>1. s \in Sessions /\ ses' = [ses EXCEPT ![s] = r] /\ ~ses[s].closed
      BY <1>2, <2>1, <2>3, ThreadFacts DEF RequestStates
    <3>0. ses[s].child # "none"
      <4>1. req[t].kind = "use" /\ req[t].pc = "mutex"
        BY <1>2, <2>3 DEF Look
      <4>2. req[t].on = s
        BY <1>2, <4>1, ThreadFacts DEF ReqInv
      <4>3. QED
        BY <4>1, <4>2, ThreadFacts DEF ReqInv
    <3>a. ses[s] \in SessionStates /\ Sane(ses[s])
      BY <2>1, <3>1
    <3>2. r \in SessionStates
      BY <3>a DEF SessionStates
    <3>3. Sane(r)
      BY <3>a, <3>0, <3>1 DEF SessionStates, Sane
    <3>4. r.child = ses[s].child /\ r.mutex = ses[s].mutex /\ r.closed = ses[s].closed
      BY <2>1, <3>1 DEF SessionStates
    <3> HIDE DEF r
    <3>5. /\ ses' \in [Sessions -> SessionStates]
          /\ ses'[s] = r
          /\ \A x \in Sessions : x # s => ses'[x] = ses[x]
      BY <2>1, <3>1, <3>2, SesChange
    <3>6. QED
      BY <2>1, <3>3, <3>4, <3>5
  <2>4. QED
    BY <2>2, <2>3
<1>5. \A x \in table' : ses'[x].child # "none"
  BY <1>3, <1>4, ThreadFacts
<1>6. CASE req[t].todo = {s}
  BY <1>1, <1>2, <1>3, <1>4, <1>5, <1>6, ThreadFacts, UnlockFacts, RequestChange
<1>7. CASE req[t].todo # {s}
  <2> DEFINE q == [req[t] EXCEPT !.todo = @ \ {s}]
  <2>1. req' = [req EXCEPT ![t] = q] /\ readers' = readers
    BY <1>2, <1>7, ThreadFacts
  <2>2. q \in RequestStates /\ req'[t] = q
    BY <2>1, ThreadFacts DEF RequestStates
  <2>3. q.pc = req[t].pc /\ q.kind = req[t].kind /\ q.on = req[t].on
    BY ThreadFacts DEF RequestStates
  <2>4. ReqInv(t)'
    <3>1. q.kind \notin {None, "list"} => q.on \in Sessions
      BY <2>3, ThreadFacts DEF ReqInv
    <3>2. q.pc = "mutex"
      BY <2>3 DEF Look
    <3>3. QED
      BY <1>3, <1>4, <2>1, <2>2, <2>3, <3>1, <3>2, ThreadFacts DEF ReqInv, Kinds
  <2>5. QED
    BY <1>3, <1>4, <1>5, <2>1, <2>2, <2>4, ThreadFacts, RequestChange
<1>8. QED
  BY <1>6, <1>7

LEMMA InputInv ==
  ASSUME EngineInv, NEW t \in Threads, Input(t)
  PROVE  EngineInv'
<1> DEFINE s == req[t].on
           q == [req[t] EXCEPT !.pc = "write"]
           r == [ses[s] EXCEPT !.mutex = t]
<1>0. /\ s \in Sessions /\ ses[s].mutex = None /\ ses[s].child # "none"
      /\ req[t].pc = "mutex" /\ req[t].kind = "input"
      /\ table' = table /\ writer' = writer /\ asked' = asked
  BY ThreadFacts DEF Input, ReqInv, Kinds
<1>1. writer # t
  BY <1>0, ThreadFacts DEF ReqInv
<1>2. CASE ses[s].closed
  <2>1. Unlock(t) /\ ses' = ses
    BY <1>2 DEF Input
  <2>2. QED
    BY <1>0, <1>1, <2>1, ThreadFacts, UnlockFacts, RequestOnly
<1>3. CASE ~ses[s].closed
  <2>1. ses' = [ses EXCEPT ![s] = r] /\ req' = [req EXCEPT ![t] = q] /\ readers' = readers
    BY <1>3 DEF Input
  <2>2. ses \in [Sessions -> SessionStates] /\ \A x \in Sessions : Sane(ses[x])
    BY DEF EngineInv, TypeOK
  <2>3. r \in SessionStates
    BY <1>0, <2>2 DEF SessionStates
  <2>5. Sane(r)
    BY <1>0, <1>3, <2>2, ThreadFacts DEF Sane, SessionStates
  <2>6. /\ ses' \in [Sessions -> SessionStates]
        /\ ses'[s] = r
        /\ \A x \in Sessions : x # s => ses'[x] = ses[x]
    BY <1>0, <2>1, <2>2, <2>3, SesChange
  <2>7. \A x \in Sessions : Sane(ses'[x])
    BY <2>2, <2>5, <2>6
  <2>8. \A x \in Sessions : ses[x].mutex \in Threads \ {t} =>
          ses'[x].mutex = ses[x].mutex /\ ses'[x].closed = ses[x].closed
    BY <1>0, <2>6, ThreadFacts
  <2>9. q \in RequestStates /\ req'[t] = q
    BY <2>1, ThreadFacts DEF RequestStates
  <2>10. q.pc = "write" /\ q.kind = "input" /\ q.on = s /\ r.mutex = t /\ r.closed = ses[s].closed
    BY <1>0, <2>2, ThreadFacts DEF RequestStates, SessionStates
  <2>11. ReqInv(t)'
    BY <1>0, <1>3, <2>1, <2>6, <2>9, <2>10, ThreadFacts DEF ReqInv
  <2>12. /\ table' \subseteq Sessions /\ \A x \in table' : ses'[x].child # "none"
         /\ \A x \in Sessions : ses'[x].child = "none" => ses[x].child = "none"
    BY <1>0, <2>2, <2>6, ThreadFacts DEF SessionStates
  <2>13. QED
    BY <1>0, <2>1, <2>6, <2>7, <2>8, <2>9, <2>11, <2>12, ThreadFacts, RequestChange
<1>4. QED
  BY <1>2, <1>3

LEMMA WrittenInv ==
  ASSUME EngineInv, NEW t \in Threads, Written(t)
  PROVE  EngineInv'
<1> DEFINE s == req[t].on
           r == [ses[s] EXCEPT !.mutex = None]
<1>1. /\ s \in Sessions /\ ses[s].mutex = t /\ ~ses[s].closed /\ writer # t
      /\ table' = table /\ writer' = writer /\ asked' = asked
      /\ ses' = [ses EXCEPT ![s] = r]
  BY ThreadFacts DEF Written, ReqInv, Kinds
<1>2. Unlock(t)
  BY DEF Written
<1>3. ses \in [Sessions -> SessionStates] /\ \A x \in Sessions : Sane(ses[x])
  BY DEF EngineInv, TypeOK
<1>4. ses[s].child # "none"
  BY <1>1, <1>3, ThreadFacts DEF Sane, Unopened
<1>5. r \in SessionStates /\ r.child = ses[s].child
  BY <1>1, <1>3 DEF SessionStates
<1>6. Sane(r)
  BY <1>1, <1>3, <1>4, EngineAssumption, ThreadFacts DEF Sane, SessionStates
<1> HIDE DEF r
<1>7. /\ ses' \in [Sessions -> SessionStates]
      /\ ses'[s] = r
      /\ \A x \in Sessions : x # s => ses'[x] = ses[x]
  BY <1>1, <1>3, <1>5, SesChange
<1>8. /\ \A x \in Sessions : Sane(ses'[x])
      /\ \A x \in Sessions : ses[x].mutex \in Threads \ {t} =>
           ses'[x].mutex = ses[x].mutex /\ ses'[x].closed = ses[x].closed
      /\ \A x \in Sessions : ses'[x].child = "none" => ses[x].child = "none"
  BY <1>1, <1>3, <1>5, <1>6, <1>7
<1>9. table' \subseteq Sessions /\ \A x \in table' : ses'[x].child # "none"
  BY <1>1, <1>8, ThreadFacts
<1>10. QED
  BY <1>1, <1>2, <1>7, <1>8, <1>9, ThreadFacts, UnlockFacts, RequestChange

LEMMA SubscribeInv ==
  ASSUME EngineInv, NEW t \in Threads, Subscribe(t)
  PROVE  EngineInv'
<1> DEFINE s == req[t].on
           q == [req[t] EXCEPT !.pc = "stream", !.todo = {}]
           r == [ses[s] EXCEPT !.chan = SentTo({t}, ses[s].chan),
                               !.subs = IF ses[s].closed THEN @ ELSE @ \cup {t}]
<1>1. /\ s \in Sessions /\ ses[s].mutex = None /\ ses[s].child # "none" /\ writer # t
      /\ req[t].kind = "subscribe"
      /\ t \in Conns
      /\ table' = table /\ writer' = writer /\ asked' = asked
      /\ readers' = readers \ {t} /\ req' = [req EXCEPT ![t] = q]
  BY ThreadFacts DEF Subscribe, ReqInv, Kinds, Threads
<1>2. ses \in [Sessions -> SessionStates] /\ \A x \in Sessions : Sane(ses[x])
  BY DEF EngineInv, TypeOK
<1>3. ses' = [ses EXCEPT ![s] = r]
  BY DEF Subscribe
<1>a. /\ ses[s] \in SessionStates /\ Sane(ses[s])
      /\ SentTo({t}, ses[s].chan) \in Channels /\ Filled(SentTo({t}, ses[s].chan))
  BY <1>1, <1>2, ItemsSent DEF Sane, SessionStates
<1>4. r \in SessionStates /\ r.child = ses[s].child
  BY <1>1, <1>a DEF SessionStates
<1>5. Sane(r)
  BY <1>1, <1>a DEF Sane, SessionStates
<1> HIDE DEF r
<1>6. q \in RequestStates /\ q.pc = "stream" /\ q.kind = "subscribe" /\ q.on = s
  <2>1. req[t] \in RequestStates /\ req[t].kind = "subscribe"
    BY <1>1, ThreadFacts
  <2>2. QED
    BY <2>1 DEF RequestStates
<1> HIDE DEF q
<1>7. req'[t] = q
  BY <1>1, ThreadFacts
<1>8. ReqInv(t)'
  <2>1. t \notin readers' /\ writer' # t /\ t # Main /\ None # "subscribe"
    BY <1>1, EngineAssumption DEF Kinds
  <2>2. QED
    BY <1>1, <1>6, <1>7, <2>1 DEF ReqInv
<1>9. /\ ses' \in [Sessions -> SessionStates]
      /\ ses'[s] = r
      /\ \A x \in Sessions : x # s => ses'[x] = ses[x]
  BY <1>1, <1>2, <1>3, <1>4, SesChange
<1>10. /\ \A x \in Sessions : Sane(ses'[x])
       /\ \A x \in Sessions : ses[x].mutex \in Threads \ {t} =>
            ses'[x].mutex = ses[x].mutex /\ ses'[x].closed = ses[x].closed
       /\ \A x \in Sessions : ses'[x].child = "none" => ses[x].child = "none"
  BY <1>1, <1>2, <1>4, <1>5, <1>9, ThreadFacts
<1>11. table' \subseteq Sessions /\ \A x \in table' : ses'[x].child # "none"
  BY <1>1, <1>10, ThreadFacts
<1>12. QED
  BY <1>1, <1>6, <1>7, <1>8, <1>9, <1>10, <1>11, ThreadFacts, RequestChange

LEMMA ForwardInv ==
  ASSUME EngineInv, NEW t \in Threads, Forward(t)
  PROVE  EngineInv'
<1> DEFINE s == req[t].on
           c == ses[s].chan[t]
           ch == [ses[s].chan EXCEPT ![t] = [held |-> c.held - 1, wake |-> FALSE]]
           r == [ses[s] EXCEPT !.chan = ch,
                               !.heard = IF c.held = 1 THEN @ \cup ({t} \cap ses[s].told) ELSE @]
<1>1. /\ s \in Sessions /\ t \in Conns /\ c.wake /\ ses' = [ses EXCEPT ![s] = r]
      /\ ThreadStep
  BY ThreadFacts DEF Forward, ThreadStep, ReqInv, Kinds, Threads
<1>2. ses[s] \in SessionStates /\ Sane(ses[s])
  BY <1>1 DEF EngineInv, TypeOK
<1>3. ses[s].chan \in Channels /\ Filled(ses[s].chan) /\ ses[s].told \subseteq Conns
  BY <1>2 DEF Sane, SessionStates
<1>4. ch \in Channels /\ Filled(ch)
  BY <1>1, <1>3, ItemTaken
<1>5. ses[s].child # "none"
  BY <1>1, <1>2, EngineAssumption DEF Sane, Unopened, Empty
<1> HIDE DEF ch
<1>6. r \in SessionStates /\ Sane(r)
  BY <1>1, <1>2, <1>3, <1>4, <1>5 DEF Sane, SessionStates
<1>7. r.mutex = ses[s].mutex /\ r.closed = ses[s].closed /\ r.child = ses[s].child
  BY <1>2 DEF SessionStates
<1> HIDE DEF r
<1>8. QED
  BY <1>1, <1>6, <1>7, SessionChange

LEMMA StreamEndsInv ==
  ASSUME EngineInv, NEW t \in Threads, StreamEnds(t)
  PROVE  EngineInv'
<1>1. /\ req' = [req EXCEPT ![t] = Idle] /\ req'[t] = Idle /\ Idle \in RequestStates
      /\ table' = table /\ readers' = readers /\ writer' = writer /\ ses' = ses /\ asked' = asked
      /\ req[t].pc = "stream"
  BY ThreadFacts, IdleType DEF StreamEnds, Done
<1>2. ReqInv(t)'
  BY <1>1, ThreadFacts DEF ReqInv, Idle
<1>3. QED
  BY <1>1, <1>2, ThreadFacts, RequestOnly

LEMMA LockWriteInv ==
  ASSUME EngineInv, NEW t \in Threads, LockWrite(t)
  PROVE  EngineInv'
<1> DEFINE q == [req[t] EXCEPT !.pc = "mutex"]
<1>1. /\ req[t].pc = "lock" /\ req[t].kind = "close" /\ readers = {} /\ writer = None
      /\ readers' = readers /\ ses' = ses /\ asked' = asked
  BY DEF LockWrite
<1>2. CASE req[t].on \notin table
  <2>1. req' = [req EXCEPT ![t] = Idle] /\ table' = table /\ writer' = writer
    BY <1>2 DEF LockWrite, Done
  <2>2. req'[t] = Idle /\ Idle \in RequestStates
    BY <2>1, ThreadFacts, IdleType
  <2>3. ReqInv(t)'
    BY <1>1, <2>1, <2>2, ThreadFacts DEF ReqInv, Idle
  <2>4. QED
    BY <1>1, <2>1, <2>2, <2>3, ThreadFacts, RequestOnly
<1>3. CASE req[t].on \in table
  <2>1. req' = [req EXCEPT ![t] = q] /\ table' = table \ {req[t].on} /\ writer' = t
    BY <1>3 DEF LockWrite
  <2>2. q \in RequestStates /\ q.pc = "mutex" /\ q.kind = "close" /\ q.on = req[t].on
    BY <1>1, ThreadFacts DEF RequestStates
  <2> HIDE DEF q
  <2>3. req'[t] = q
    BY <2>1, ThreadFacts
  <2>4. ses'[q.on].child # "none"
    BY <1>1, <1>3, <2>2, ThreadFacts
  <2>5. ReqInv(t)'
    BY <1>1, <2>1, <2>2, <2>3, <2>4, ThreadFacts DEF ReqInv
  <2>6. QED
    BY <1>1, <2>1, <2>2, <2>3, <2>5, ThreadFacts, RequestOnly
<1>4. QED
  BY <1>2, <1>3

\* The steps of close_session with the engine's lock held for writing: one session
\* may change, whose mutex is free or held by the thread.
LEMMA WriterChange ==
  ASSUME EngineInv, NEW t \in Threads, NEW q \in RequestStates, NEW r \in SessionStates,
         writer = t, req[t].on \in Sessions,
         ses[req[t].on].mutex \notin Threads \ {t},
         Sane(r), r.child = "none" => ses[req[t].on].child = "none",
         req' = [req EXCEPT ![t] = q], ses' = [ses EXCEPT ![req[t].on] = r],
         UNCHANGED <<table, readers, asked>>, writer' \in {t, None},
         q = Idle => writer' = None,
         q # Idle => /\ writer' = t /\ q.kind = "close" /\ q.on = req[t].on
                     /\ q.pc \in {"kill", "wait"} /\ r.mutex = t
  PROVE  EngineInv'
<1> DEFINE s == req[t].on
<1>1. ses \in [Sessions -> SessionStates] /\ \A x \in Sessions : Sane(ses[x])
  BY DEF EngineInv, TypeOK
<1>2. /\ ses' \in [Sessions -> SessionStates]
      /\ ses'[s] = r
      /\ \A x \in Sessions : x # s => ses'[x] = ses[x]
  BY <1>1, SesChange
<1>3. req'[t] = q
  BY ThreadFacts
<1>4. readers = {} /\ t \notin readers'
  BY ThreadFacts
<1>5. ReqInv(t)'
  <2>1. CASE q = Idle
    BY <1>3, <1>4, <2>1, ThreadFacts DEF ReqInv, Idle
  <2>2. CASE q # Idle
    BY <1>2, <1>3, <1>4, <2>2, ThreadFacts DEF ReqInv
  <2>3. QED
    BY <2>1, <2>2
<1>6. /\ \A x \in Sessions : Sane(ses'[x])
      /\ \A x \in Sessions : ses[x].mutex \in Threads \ {t} =>
           ses'[x].mutex = ses[x].mutex /\ ses'[x].closed = ses[x].closed
      /\ \A x \in Sessions : ses'[x].child = "none" => ses[x].child = "none"
  BY <1>1, <1>2
<1>7. table' \subseteq Sessions /\ \A x \in table' : ses'[x].child # "none"
  BY <1>6, ThreadFacts
<1>8. /\ \A x \in Threads : x # t => (x \in readers' <=> x \in readers) /\ (writer' = x <=> writer = x)
      /\ writer' \in Threads \cup {None} /\ readers' = {} /\ asked' \in 0..MaxRequests
  BY <1>4, ThreadFacts
<1>9. QED
  BY <1>2, <1>4, <1>5, <1>6, <1>7, <1>8, RequestChange

LEMMA CloseInv ==
  ASSUME EngineInv, NEW t \in Threads, Close(t)
  PROVE  EngineInv'
<1> DEFINE s == req[t].on
           q == [req[t] EXCEPT !.pc = "kill"]
           r == [ses[s] EXCEPT !.closed = TRUE, !.mutex = t]
<1>1. /\ s \in Sessions /\ ses[s].mutex = None /\ ses[s].child # "none" /\ writer = t
      /\ req[t].kind = "close" /\ UNCHANGED <<table, readers, asked>>
  BY ThreadFacts DEF Close, ReqInv, Kinds
<1>2. ses[s] \in SessionStates /\ Sane(ses[s]) /\ ses \in [Sessions -> SessionStates]
  BY <1>1 DEF EngineInv, TypeOK
<1>3. CASE ses[s].closed
  <2>1. req' = [req EXCEPT ![t] = Idle] /\ writer' = None /\ ses' = ses
    BY <1>3 DEF Close, Done
  <2>2. ses' = [ses EXCEPT ![s] = ses[s]]
    BY <1>2, <2>1
  <2>3. QED
    BY <1>1, <1>2, <2>1, <2>2, IdleType, ThreadFacts, WriterChange
<1>4. CASE ~ses[s].closed
  <2>1. req' = [req EXCEPT ![t] = q] /\ writer' = t
    BY <1>1, <1>4 DEF Close
  <2>2. ses' = [ses EXCEPT ![s] = r]
    <3>1. ses' = [ses EXCEPT ![s].closed = TRUE, ![s].mutex = t]
      BY <1>4 DEF Close
    <3>2. QED
      BY <1>1, <1>2, <3>1
  <2>3. r \in SessionStates /\ r.mutex = t /\ r.child = ses[s].child
    BY <1>1, <1>2 DEF SessionStates
  <2>4. Sane(r)
    BY <1>1, <1>2, <1>4, ThreadFacts DEF Sane, SessionStates
  <2>5. q \in RequestStates /\ q.pc = "kill" /\ q.kind = "close" /\ q.on = s /\ q # Idle
    BY <1>1, ThreadFacts DEF RequestStates, Idle
  <2> HIDE DEF q, r
  <2>6. QED
    BY <1>1, <2>1, <2>2, <2>3, <2>4, <2>5, ThreadFacts, WriterChange
<1>5. QED
  BY <1>3, <1>4

LEMMA KillInv ==
  ASSUME EngineInv, NEW t \in Threads, Kill(t)
  PROVE  EngineInv'
<1> DEFINE s == req[t].on
           q == [req[t] EXCEPT !.pc = "wait"]
           r == [ses[s] EXCEPT !.child = "exited", !.tty = FALSE]
<1>1. /\ s \in Sessions /\ ses[s].mutex = t /\ writer = t
      /\ req[t].kind = "close" /\ UNCHANGED <<table, readers, writer, asked>>
      /\ req' = [req EXCEPT ![t] = q]
  BY ThreadFacts DEF Kill, ReqInv, Kinds
<1>2. ses[s] \in SessionStates /\ Sane(ses[s]) /\ ses \in [Sessions -> SessionStates]
  BY <1>1 DEF EngineInv, TypeOK
<1>3. ses' = [ses EXCEPT ![s] = r]
  <2>1. ses' = [ses EXCEPT ![s].child = "exited", ![s].tty = FALSE]
    BY DEF Kill
  <2>2. QED
    BY <1>1, <1>2, <2>1
<1>4. ses[s].child # "none"
  BY <1>1, <1>2, ThreadFacts DEF Sane, Unopened
<1>5. r \in SessionStates /\ r.mutex = t /\ r.child = "exited"
  BY <1>1, <1>2 DEF SessionStates
<1>6. Sane(r)
  BY <1>1, <1>2, <1>4, ThreadFacts DEF Sane, SessionStates
<1>7. q \in RequestStates /\ q.pc = "wait" /\ q.kind = "close" /\ q.on = s /\ q # Idle
  BY <1>1, ThreadFacts DEF RequestStates, Idle
<1> HIDE DEF q, r
<1>8. QED
  BY <1>1, <1>3, <1>5, <1>6, <1>7, ThreadFacts, WriterChange

LEMMA ClosedInv ==
  ASSUME EngineInv, NEW t \in Threads, Closed(t)
  PROVE  EngineInv'
<1> DEFINE s == req[t].on
           r == [ses[s] EXCEPT !.child = "reaped", !.secret = FALSE, !.mutex = None]
<1>1. /\ s \in Sessions /\ ses[s].mutex = t /\ writer = t
      /\ UNCHANGED <<table, readers, asked>> /\ writer' = None
      /\ req' = [req EXCEPT ![t] = Idle] /\ ses' = [ses EXCEPT ![s] = r]
  BY ThreadFacts DEF Closed, Done, ReqInv, Kinds
<1>2. ses[s] \in SessionStates /\ Sane(ses[s])
  BY <1>1 DEF EngineInv, TypeOK
<1>3. ses[s].child # "none"
  BY <1>1, <1>2, ThreadFacts DEF Sane, Unopened
<1>4. r \in SessionStates /\ r.child = "reaped"
  BY <1>1, <1>2 DEF SessionStates
<1>5. Sane(r)
  BY <1>1, <1>2, <1>3, EngineAssumption, ThreadFacts DEF Sane, SessionStates
<1> HIDE DEF r
<1>6. QED
  BY <1>1, <1>4, <1>5, IdleType, ThreadFacts, WriterChange

-----------------------------------------------------------------------------
(* The theorems.                                                            *)

LEMMA NextInv == EngineInv /\ [Next]_vars => EngineInv'
<1> SUFFICES ASSUME EngineInv, [Next]_vars PROVE EngineInv'
  OBVIOUS
<1>1. CASE UNCHANGED vars
  BY <1>1 DEF vars, EngineInv, TypeOK, ReqInv
<1>2. ASSUME NEW s \in Sessions, ChildWrites(s) \/ ChildPauses(s) \/ ChildLingers(s) \/ ChildExits(s)
      PROVE  EngineInv'
  BY <1>2, ChildInv
<1>3. ASSUME NEW s \in Sessions, SessionStep(s) PROVE EngineInv'
  BY <1>3, SessionInv
<1>4. ASSUME NEW t \in Threads, RequestStep(t) PROVE EngineInv'
  BY <1>4, OpenInv, LockReadInv, LookInv, InputInv, WrittenInv, SubscribeInv, ForwardInv, StreamEndsInv,
     LockWriteInv, CloseInv, KillInv, ClosedInv DEF RequestStep
<1>5. ASSUME NEW t \in Threads, NEW kind \in Kinds, NEW s \in Sessions, Ask(t, kind, s)
      PROVE  EngineInv'
  BY <1>5, AskInv
<1>6. QED
  BY <1>1, <1>2, <1>3, <1>4, <1>5 DEF Next

\* The engine's lock, the sessions' mutexes and the bookkeeping of every thread fit
\* together in every state.
THEOREM EngineInvariant == Spec => []EngineInv
BY InitInv, NextInv, PTL DEF Spec

\* The engine's lock is never held for writing and for reading at the same time,
\* and every state is well typed, for any number of sessions, connections and
\* requests.
THEOREM EngineTypeCorrect == Spec => []TypeOK
<1>1. EngineInv => TypeOK
  BY DEF EngineInv
<1>2. QED
  BY <1>1, EngineInvariant, PTL

\* However its end by the reader and its closing by a request meet, a session that
\* is over has left no zombie and no secret by the time its mutex is free.
THEOREM LeavesNothingBehind == Spec => []NothingLeftBehind
<1>1. EngineInv => NothingLeftBehind
  BY DEF EngineInv, NothingLeftBehind, Sane
<1>2. QED
  BY <1>1, EngineInvariant, PTL

\* Whoever is told of the end of a session was sent everything its child wrote.
THEOREM LastWordsSent == Spec => []LastWords
<1>1. EngineInv => LastWords
  BY DEF EngineInv, LastWords, Sane
<1>2. QED
  BY <1>1, EngineInvariant, PTL

-----------------------------------------------------------------------------
(* The invariant.                                                           *)

\* What the exit rule has seen stays so until the decision: while the main thread
\* does not accept, a host without connections gets none, and without connections
\* neither a terminal nor a passphrase.
ExitRule ==
  \A h \in Hosts :
    /\ host[h].pc \in {"remove", "close"} => host[h].idle
    /\ host[h].idle =>
         /\ host[h].pc \in {"sessions", "cache", "wipe", "remove", "close"} =>
              \A c \in ConnIds : conn[c].state = "open" => conn[c].host # h
         /\ host[h].pc \in {"cache", "wipe", "remove", "close"} => host[h].sessions = {}
         /\ host[h].pc \in {"wipe", "remove", "close"} => host[h].cache # "valid"

\* A host without a listener has no connections and no terminals.
Reached ==
  /\ \A c \in ConnIds : conn[c].state # "free" => conn[c].host \in Hosts
  /\ \A c \in ConnIds : conn[c].state \in {"backlog", "open"} =>
       host[conn[c].host].pc \notin {"none", "unlink", "bind", "gone"}
  /\ \A h \in Hosts : host[h].pc \in {"none", "unlink", "bind", "gone"} => host[h].sessions = {}

\* Every daemon has its control connection to itself, and once it is answered the
\* connection is one the host has accepted.
Controlled ==
  /\ \A c \in ConnIds : conn[c].resp # Nil => conn[c].state \in {"open", "closed"}
  /\ \A d \in Daemons :
       /\ daemon[d].pc \in {"pinged", "reading", "calling"} => daemon[d].control # Nil
       /\ daemon[d].control # Nil => conn[daemon[d].control].live
       /\ daemon[d].control # Nil /\ daemon[d].pc \in {"reading", "up"} =>
            conn[daemon[d].control].state \in {"open", "closed"}
  /\ \A d, e \in Daemons : d # e /\ daemon[d].control = daemon[e].control => daemon[d].control = Nil

HostInv == HostTypeOK /\ ExitRule /\ Reached /\ Controlled

\* Of the hosts that run and are not about to be gone, the socket file names the only
\* one, or its daemon waits for it.
OneHost ==
  /\ \A d, e \in Daemons : daemon[d].pc # "off" /\ daemon[e].pc # "off" => d = e
  /\ \A h \in Hosts :
       /\ host[h].pc \in {"parent", "accept", "sessions", "cache", "wipe", "remove"} => sock = h
       /\ host[h].pc = "close" => sock # h
       /\ host[h].pc \in {"unlink", "bind"} =>
            /\ \E d \in Daemons : daemon[d].pc = "wait"
            /\ \A x \in Hosts : x # h => host[x].pc \in {"none", "close", "gone"}
  /\ \A d \in Daemons : daemon[d].pc \in {"unlink", "spawn"} =>
       \A h \in Hosts : host[h].pc \in {"none", "close", "gone"}

-----------------------------------------------------------------------------
(* Lemmas about the ways in which a step changes the state.                 *)

Unheard == {"none", "unlink", "bind", "gone"}

\* Replacing one record leaves the others as they are.
LEMMA DaemonChange ==
  ASSUME daemon \in [Daemons -> DaemonStates], NEW d \in Daemons,
         NEW r \in DaemonStates,
         daemon' = [daemon EXCEPT ![d] = r]
  PROVE  /\ daemon' \in [Daemons -> DaemonStates] /\ daemon'[d] = r
         /\ \A x \in Daemons : x # d => daemon'[x] = daemon[x]
OBVIOUS

LEMMA HostChange ==
  ASSUME host \in [Hosts -> HostStates], NEW h \in Hosts, NEW r \in HostStates,
         host' = [host EXCEPT ![h] = r]
  PROVE  /\ host' \in [Hosts -> HostStates] /\ host'[h] = r
         /\ \A x \in Hosts : x # h => host'[x] = host[x]
OBVIOUS

LEMMA ConnChange ==
  ASSUME conn \in [ConnIds -> ConnStates], NEW c \in ConnIds,
         NEW r \in ConnStates,
         conn' = [conn EXCEPT ![c] = r]
  PROVE  /\ conn' \in [ConnIds -> ConnStates] /\ conn'[c] = r
         /\ \A x \in ConnIds : x # c => conn'[x] = conn[x]
OBVIOUS

LEMMA FreeType == FreeConn \in ConnStates /\ ~FreeConn.live /\ FreeConn.state = "free" /\ FreeConn.resp = Nil
BY DEF FreeConn, ConnStates

\* A connection without a number is Nil.
LEMMA NoneIsNoConn ==
  ASSUME HostConstants
  PROVE  Nil \notin ConnIds
BY DEF HostConstants

\* The connection a daemon takes is free.
LEMMA NextConnFree ==
  ASSUME HostTypeOK, HasConn
  PROVE  NextConn \in ConnIds /\ conn[NextConn].state = "free" /\ ~conn[NextConn].live
<1>1. NextConn \in ConnIds /\ conn[NextConn].state = "free"
  BY DEF HasConn, NextConn
<1>2. conn[NextConn] = FreeConn
  BY <1>1 DEF HostTypeOK
<1>3. QED
  BY <1>1, <1>2, FreeType

\* What the invariant says about one daemon, one host and one connection.
LEMMA Typed ==
  ASSUME HostInv
  PROVE  /\ daemon \in [Daemons -> DaemonStates] /\ host \in [Hosts -> HostStates]
         /\ conn \in [ConnIds -> ConnStates]
         /\ \A c \in ConnIds : conn[c].state = "free" => conn[c] = FreeConn /\ ~conn[c].live
         /\ sock \in Hosts \cup {Nil} /\ wish \in {"remember", "forget"}
         /\ used \subseteq Terminals /\ mishaps \in Nat /\ caches \in Nat
BY FreeType DEF HostInv, HostTypeOK

\* A daemon connects to the listening host.
LEMMA Connected ==
  ASSUME HostConstants, HostInv, NEW d \in Daemons, NEW pc \in {"pinged", "calling"},
         NEW q \in Calls \cup {"ping"},
         Connect(d, pc, q), UNCHANGED <<sock, host, used, mishaps>>,
         wish' \in {"remember", "forget"}, caches' \in Nat
  PROVE  HostInv'
<1> DEFINE c == NextConn
           r == [state |-> "backlog", host |-> sock, live |-> TRUE, req |-> q, resp |-> Nil]
           x == [pc |-> pc, control |-> c]
<1>1. /\ HasConn /\ sock \in Hosts /\ host[sock].pc \notin Unheard
      /\ conn' = [conn EXCEPT ![c] = r] /\ daemon' = [daemon EXCEPT ![d] = x]
  BY DEF Connect, Listening, Running, Unheard
<1>2. c \in ConnIds /\ conn[c].state = "free" /\ ~conn[c].live /\ c # Nil
  BY <1>1, NextConnFree, NoneIsNoConn DEF HostInv
<1> HIDE DEF c
<1>3. r \in ConnStates /\ r.state = "backlog" /\ r.host = sock /\ r.live /\ r.resp = Nil
  BY <1>1 DEF ConnStates
<1>4. x \in DaemonStates /\ x.pc = pc /\ x.control = c
  BY <1>2 DEF DaemonStates, DaemonPCs
<1> HIDE DEF r, x
<1>5. /\ conn' \in [ConnIds -> ConnStates] /\ conn'[c] = r
      /\ \A y \in ConnIds : y # c => conn'[y] = conn[y]
  BY <1>1, <1>2, <1>3, Typed, ConnChange
<1>6. /\ daemon' \in [Daemons -> DaemonStates] /\ daemon'[d] = x
      /\ \A y \in Daemons : y # d => daemon'[y] = daemon[y]
  BY <1>1, <1>4, Typed, DaemonChange
<1>7. HostTypeOK'
  BY <1>3, <1>5, <1>6, Typed DEF HostTypeOK
<1>8. ExitRule'
  BY <1>3, <1>5 DEF HostInv, ExitRule
<1>9. Reached'
  BY <1>1, <1>3, <1>5 DEF HostInv, Reached, Unheard
<1>10. Controlled'
  <2>1. \A y \in ConnIds : conn'[y].resp # Nil => conn'[y].state \in {"open", "closed"}
    BY <1>3, <1>5 DEF HostInv, Controlled
  <2>2. \A y \in Daemons : daemon[y].control # Nil => daemon[y].control \in ConnIds /\ daemon[y].control # c
    BY <1>2, Typed DEF HostInv, Controlled, DaemonStates
  <2>3. QED
    BY <1>2, <1>3, <1>4, <1>5, <1>6, <2>1, <2>2 DEF HostInv, Controlled
<1>11. QED
  BY <1>7, <1>8, <1>9, <1>10 DEF HostInv

\* A daemon sends on its control connection, or takes an answer from it.
LEMMA Exchanged ==
  ASSUME HostConstants, HostInv, NEW d \in Daemons, NEW c \in ConnIds,
         daemon[d].control = c,
         NEW r \in ConnStates, r.state = conn[c].state, r.host = conn[c].host, r.live = conn[c].live,
         r.resp \in {Nil, conn[c].resp},
         conn' = [conn EXCEPT ![c] = r],
         NEW pc \in {"reading", "up", "calling"},
         pc \in {"reading", "up"} => conn[c].state \in {"open", "closed"},
         daemon' = [daemon EXCEPT ![d].pc = pc],
         UNCHANGED <<sock, host, used, mishaps>>,
         wish' \in {"remember", "forget"}, caches' \in Nat
  PROVE  HostInv'
<1> DEFINE x == [daemon[d] EXCEPT !.pc = pc]
<1>1. x \in DaemonStates /\ x.pc = pc /\ x.control = c /\ daemon' = [daemon EXCEPT ![d] = x]
  BY Typed DEF DaemonStates, DaemonPCs
<1> HIDE DEF x
<1>2. /\ conn' \in [ConnIds -> ConnStates] /\ conn'[c] = r
      /\ \A y \in ConnIds : y # c => conn'[y] = conn[y]
  BY Typed, ConnChange
<1>3. /\ daemon' \in [Daemons -> DaemonStates] /\ daemon'[d] = x
      /\ \A y \in Daemons : y # d => daemon'[y] = daemon[y]
  BY <1>1, Typed, DaemonChange
<1>4. c # Nil /\ conn[c].live /\ conn[c].state # "free"
  BY NoneIsNoConn, Typed DEF HostInv, Controlled
<1>5. \A y \in ConnIds : /\ conn'[y].state = conn[y].state /\ conn'[y].host = conn[y].host
                         /\ conn'[y].live = conn[y].live
  BY <1>2
<1>6. HostTypeOK'
  BY <1>2, <1>3, <1>4, Typed DEF HostTypeOK
<1>7. ExitRule'
  BY <1>5 DEF HostInv, ExitRule
<1>8. Reached'
  BY <1>5 DEF HostInv, Reached
<1>9. Controlled'
  <2>1. \A y \in ConnIds : conn'[y].resp # Nil => conn'[y].state \in {"open", "closed"}
    BY <1>2, <1>5 DEF HostInv, Controlled
  <2>2. \A y \in Daemons : daemon[y].control # Nil => daemon[y].control \in ConnIds
    BY Typed DEF DaemonStates
  <2>3. QED
    BY <1>1, <1>3, <1>4, <1>5, <2>1, <2>2 DEF HostInv, Controlled
<1>10. QED
  BY <1>6, <1>7, <1>8, <1>9 DEF HostInv

\* A daemon gives up its control connection; hosts change their parent at most.
LEMMA Disconnected ==
  ASSUME HostInv, NEW d \in Daemons, NEW pc \in {"off", "up"},
         daemon' = [daemon EXCEPT ![d] = [pc |-> pc, control |-> Nil]],
         conn' = IF daemon[d].control = Nil THEN conn ELSE Closing(daemon[d].control),
         host' \in [Hosts -> HostStates],
         \A h \in Hosts : /\ host'[h].pc = host[h].pc /\ host'[h].idle = host[h].idle
                          /\ host'[h].sessions = host[h].sessions /\ host'[h].cache = host[h].cache,
         UNCHANGED <<sock, wish, used, caches>>, mishaps' \in Nat
  PROVE  HostInv'
<1> DEFINE x == [pc |-> pc, control |-> Nil]
<1>1. x \in DaemonStates /\ x.pc = pc /\ x.control = Nil
  BY DEF DaemonStates, DaemonPCs
<1> HIDE DEF x
<1>2. /\ daemon' \in [Daemons -> DaemonStates] /\ daemon'[d] = x
      /\ \A y \in Daemons : y # d => daemon'[y] = daemon[y]
  BY <1>1, Typed, DaemonChange DEF x
<1>3. /\ conn' \in [ConnIds -> ConnStates]
      /\ \A y \in ConnIds : /\ conn'[y].state = conn[y].state /\ conn'[y].host = conn[y].host
                            /\ conn'[y].resp = conn[y].resp
                            /\ conn'[y].live = conn[y].live \/ (y = daemon[d].control /\ ~conn'[y].live)
      /\ \A y \in ConnIds : conn'[y].state = "free" => conn'[y] = FreeConn
  <2>1. CASE daemon[d].control = Nil
    BY <2>1, Typed
  <2>2. CASE daemon[d].control # Nil
    <3> DEFINE c == daemon[d].control
               r == [conn[c] EXCEPT !.live = FALSE]
    <3>1. c \in ConnIds /\ conn[c].live /\ conn[c].state # "free"
      BY <2>2, Typed DEF HostInv, Controlled, DaemonStates
    <3>2. conn' = [conn EXCEPT ![c] = r]
      BY <2>2, <3>1, Typed DEF Closing
    <3>3. /\ r \in ConnStates /\ r.state = conn[c].state /\ r.host = conn[c].host
          /\ r.resp = conn[c].resp /\ ~r.live
      BY <3>1, Typed DEF ConnStates
    <3> HIDE DEF r
    <3>4. /\ conn' \in [ConnIds -> ConnStates] /\ conn'[c] = r
          /\ \A y \in ConnIds : y # c => conn'[y] = conn[y]
      BY <3>1, <3>2, <3>3, Typed, ConnChange
    <3>5. QED
      BY <3>1, <3>3, <3>4, Typed
  <2>3. QED
    BY <2>1, <2>2
<1>4. HostTypeOK'
  BY <1>2, <1>3, Typed DEF HostTypeOK
<1>5. ExitRule'
  BY <1>3 DEF HostInv, ExitRule
<1>6. Reached'
  <2>1. \A y \in ConnIds : conn'[y].state # "free" => conn'[y].host \in Hosts
    BY <1>3 DEF HostInv, Reached
  <2>2. QED
    BY <1>3, <2>1 DEF HostInv, Reached
<1>7. Controlled'
  <2>1. \A y \in Daemons : daemon[y].control # Nil =>
          /\ daemon[y].control \in ConnIds
          /\ y # d => daemon[y].control # daemon[d].control
    BY Typed DEF HostInv, Controlled, DaemonStates
  <2>2. \A y \in ConnIds : conn'[y].resp # Nil => conn'[y].state \in {"open", "closed"}
    BY <1>3 DEF HostInv, Controlled
  <2>3. QED
    BY <1>1, <1>2, <1>3, <2>1, <2>2 DEF HostInv, Controlled
<1>8. QED
  BY <1>4, <1>5, <1>6, <1>7 DEF HostInv

\* A step of a host's main thread that leaves the connections alone.
LEMMA MainStep ==
  ASSUME HostInv, NEW h \in Hosts, NEW r \in HostStates,
         host' = [host EXCEPT ![h] = r], sock' \in Hosts \cup {Nil}, UNCHANGED conn, OnlyHost,
         r.pc \in {"remove", "close"} => r.idle,
         r.idle /\ r.pc \in {"sessions", "cache", "wipe", "remove", "close"} =>
           \A c \in ConnIds : conn[c].state = "open" => conn[c].host # h,
         r.idle /\ r.pc \in {"cache", "wipe", "remove", "close"} => r.sessions = {},
         r.idle /\ r.pc \in {"wipe", "remove", "close"} => r.cache # "valid",
         r.pc \in Unheard => r.sessions = {} /\ host[h].pc \in Unheard
  PROVE  HostInv'
<1>1. /\ host' \in [Hosts -> HostStates] /\ host'[h] = r
      /\ \A x \in Hosts : x # h => host'[x] = host[x]
  BY Typed, HostChange
<1>2. HostTypeOK'
  BY <1>1, Typed DEF HostTypeOK, OnlyHost
<1>3. ExitRule'
  BY <1>1 DEF HostInv, ExitRule
<1>4. Reached'
  BY <1>1 DEF HostInv, Reached, Unheard
<1>5. Controlled'
  BY DEF HostInv, Controlled, OnlyHost
<1>6. QED
  BY <1>2, <1>3, <1>4, <1>5 DEF HostInv

\* The end of a host breaks its connections.
LEMMA GoneInv ==
  ASSUME HostInv, NEW h \in Hosts, Gone(h), UNCHANGED <<sock, daemon, wish, used, caches>>,
         mishaps' \in Nat
  PROVE  HostInv'
<1> DEFINE r == [host[h] EXCEPT !.pc = "gone", !.sessions = {}, !.cache = "none"]
<1>1. r \in HostStates /\ r.pc = "gone" /\ r.sessions = {}
  BY Typed DEF HostStates, HostPCs
<1>2. host' = [host EXCEPT ![h] = r]
  BY Typed DEF Gone
<1> HIDE DEF r
<1>3. /\ host' \in [Hosts -> HostStates] /\ host'[h] = r
      /\ \A x \in Hosts : x # h => host'[x] = host[x]
  BY <1>1, <1>2, Typed, HostChange
<1>4. ASSUME NEW c \in ConnIds
      PROVE  /\ conn'[c] \in ConnStates
             /\ conn[c].host # h => conn'[c] = conn[c]
             /\ conn[c].host = h /\ ~conn[c].live => conn'[c] = FreeConn
             /\ conn[c].host = h /\ conn[c].live =>
                  /\ conn'[c].state = "closed" /\ conn'[c].host = h /\ conn'[c].live
                  /\ conn'[c].resp = conn[c].resp
  <2>1. conn'[c] = IF conn[c].host # h THEN conn[c]
                   ELSE IF conn[c].live THEN [conn[c] EXCEPT !.state = "closed"] ELSE FreeConn
    BY DEF Gone
  <2>2. conn[c] \in ConnStates
    BY Typed
  <2>3. QED
    BY <2>1, <2>2, FreeType DEF ConnStates
<1>5. conn' \in [ConnIds -> ConnStates]
  <2>1. conn' = [c \in ConnIds |-> conn'[c]]
    BY DEF Gone
  <2>2. QED
    BY <1>4, <2>1
<1>6. \A c \in ConnIds : conn'[c].state = "free" => conn'[c] = FreeConn
  BY <1>4, Typed
<1>7. HostTypeOK'
  BY <1>3, <1>5, <1>6, Typed DEF HostTypeOK
<1>8. \A c \in ConnIds : conn'[c].state \in {"backlog", "open"} => conn'[c] = conn[c] /\ conn[c].host # h
  BY <1>4, FreeType
<1>9. ExitRule'
  BY <1>1, <1>3, <1>8 DEF HostInv, ExitRule
<1>10. Reached'
  <2>1. \A c \in ConnIds : conn'[c].state # "free" => conn'[c].host \in Hosts
    BY <1>4, FreeType DEF HostInv, Reached
  <2>2. QED
    BY <1>1, <1>3, <1>8, <2>1 DEF HostInv, Reached
<1>11. Controlled'
  <2>1. \A c \in ConnIds : conn'[c].resp # Nil => conn'[c].state \in {"open", "closed"}
    BY <1>4, FreeType DEF HostInv, Controlled
  <2>2. ASSUME NEW d \in Daemons, daemon[d].control # Nil
        PROVE  /\ conn'[daemon[d].control].live
               /\ daemon[d].pc \in {"reading", "up"} =>
                    conn'[daemon[d].control].state \in {"open", "closed"}
    <3>1. daemon[d].control \in ConnIds
      BY <2>2, Typed DEF DaemonStates
    <3>2. QED
      BY <1>4, <2>2, <3>1 DEF HostInv, Controlled
  <2>3. QED
    BY <2>1, <2>2 DEF HostInv, Controlled
<1>12. QED
  BY <1>7, <1>9, <1>10, <1>11 DEF HostInv

\* A step of a connection's thread: the connection is served or freed, and while it is
\* open its host's terminals and passphrase may change.
LEMMA ConnThread ==
  ASSUME HostInv, NEW c \in ConnIds, NEW r \in ConnStates, conn' = [conn EXCEPT ![c] = r],
         \/ r = FreeConn /\ ~conn[c].live
         \/ r.state = "open" /\ conn[c].state = "open" /\ r.host = conn[c].host /\ r.live = conn[c].live,
         \/ host' = host
         \/ conn[c].state = "open" /\ \E x \in HostStates :
              /\ host' = [host EXCEPT ![conn[c].host] = x]
              /\ x.pc = host[conn[c].host].pc /\ x.idle = host[conn[c].host].idle,
         used' \subseteq Terminals, UNCHANGED <<sock, daemon, wish, mishaps, caches>>
  PROVE  HostInv'
<1>1. /\ conn' \in [ConnIds -> ConnStates] /\ conn'[c] = r
      /\ \A y \in ConnIds : y # c => conn'[y] = conn[y]
  BY Typed, ConnChange
<1>2. /\ host' \in [Hosts -> HostStates]
      /\ \A x \in Hosts : /\ host'[x].pc = host[x].pc /\ host'[x].idle = host[x].idle
                          /\ host'[x] = host[x] \/ (conn[c].state = "open" /\ conn[c].host = x)
  <2>1. CASE host' = host
    BY <2>1, Typed
  <2>2. CASE conn[c].state = "open" /\ \E x \in HostStates :
               /\ host' = [host EXCEPT ![conn[c].host] = x]
               /\ x.pc = host[conn[c].host].pc /\ x.idle = host[conn[c].host].idle
    <3>1. conn[c].host \in Hosts
      BY <2>2 DEF HostInv, Reached
    <3>2. PICK x \in HostStates : /\ host' = [host EXCEPT ![conn[c].host] = x]
                                  /\ x.pc = host[conn[c].host].pc /\ x.idle = host[conn[c].host].idle
      BY <2>2
    <3>3. QED
      BY <2>2, <3>1, <3>2, Typed
  <2>3. QED
    BY <2>1, <2>2
<1>3. HostTypeOK'
  BY <1>1, <1>2, Typed DEF HostTypeOK
<1>4. \A y \in ConnIds : conn'[y].state \in {"backlog", "open"} =>
        conn[y].state = conn'[y].state /\ conn[y].host = conn'[y].host
  BY <1>1, FreeType
<1>5. ExitRule'
  BY <1>2, <1>4 DEF HostInv, ExitRule
<1>6. Reached'
  <2>1. \A y \in ConnIds : conn'[y].state # "free" => conn'[y].host \in Hosts
    BY <1>1, FreeType DEF HostInv, Reached
  <2>2. QED
    BY <1>2, <1>4, <2>1 DEF HostInv, Reached
<1>7. Controlled'
  <2>1. \A y \in ConnIds : conn'[y].resp # Nil => conn'[y].state \in {"open", "closed"}
    BY <1>1, FreeType DEF HostInv, Controlled
  <2>2. \A d \in Daemons : daemon[d].control # Nil =>
          daemon[d].control \in ConnIds /\ conn[daemon[d].control].live
    BY Typed DEF HostInv, Controlled, DaemonStates
  <2>3. QED
    BY <1>1, <2>1, <2>2 DEF HostInv, Controlled
<1>8. QED
  BY <1>3, <1>5, <1>6, <1>7 DEF HostInv

-----------------------------------------------------------------------------
(* The steps.                                                               *)

LEMMA InitHost == HostInit => HostInv
<1> SUFFICES ASSUME HostInit PROVE HostInv
  OBVIOUS
<1>1. HostTypeOK
  BY FreeType DEF HostInit, HostTypeOK, DaemonStates, HostStates, Offline,
     DaemonPCs, HostPCs
<1>2. ExitRule
  BY DEF HostInit, ExitRule
<1>3. Reached
  BY FreeType DEF HostInit, Reached
<1>4. Controlled
  BY FreeType DEF HostInit, Controlled, Offline
<1>5. QED
  BY <1>1, <1>2, <1>3, <1>4 DEF HostInv

\* StartDaemon, RemoveStale, and the unsuccessful half of Probe only move a daemon on.
LEMMA OnlyDaemonPC ==
  ASSUME HostInv, NEW d \in Daemons, NEW pc \in {"probe", "unlink", "spawn", "wait"},
         daemon' = [daemon EXCEPT ![d].pc = pc],
         sock' \in Hosts \cup {Nil}, host' = host, conn' = conn, UNCHANGED <<wish, used, mishaps, caches>>
  PROVE  HostInv'
<1> DEFINE x == [daemon[d] EXCEPT !.pc = pc]
<1>1. /\ x \in DaemonStates /\ x.pc = pc /\ x.control = daemon[d].control
      /\ daemon' = [daemon EXCEPT ![d] = x]
  BY Typed DEF DaemonStates, DaemonPCs
<1> HIDE DEF x
<1>2. /\ daemon' \in [Daemons -> DaemonStates] /\ daemon'[d] = x
      /\ \A y \in Daemons : y # d => daemon'[y] = daemon[y]
  BY <1>1, Typed, DaemonChange
<1>3. HostTypeOK'
  BY <1>2, Typed DEF HostTypeOK
<1>4. ExitRule' /\ Reached'
  BY DEF HostInv, ExitRule, Reached
<1>5. Controlled'
  <2>1. \A y \in Daemons : daemon'[y].control = daemon[y].control
    BY <1>1, <1>2
  <2>2. \A y \in Daemons : daemon'[y].pc \in {"pinged", "reading", "calling", "up"} => daemon'[y] = daemon[y]
    BY <1>1, <1>2
  <2>3. QED
    BY <2>1, <2>2 DEF HostInv, Controlled
<1>6. QED
  BY <1>3, <1>4, <1>5 DEF HostInv

LEMMA ProbeInv ==
  ASSUME HostConstants, HostInv, NEW d \in Daemons, Probe(d)
  PROVE  HostInv'
<1>1. UNCHANGED <<sock, host, wish, used, mishaps, caches>>
  BY DEF Probe
<1>2. CASE Connect(d, "pinged", "ping")
  BY <1>1, <1>2, Typed, Connected
<1>3. CASE ~Connect(d, "pinged", "ping")
  BY <1>1, <1>3, Typed, OnlyDaemonPC DEF Probe
<1>4. QED
  BY <1>2, <1>3

LEMMA SpawnInv ==
  ASSUME HostInv, NEW d \in Daemons, NEW h \in Hosts, Spawn(d, h)
  PROVE  HostInv'
<1> DEFINE r == [host[h] EXCEPT !.pc = "unlink", !.parent = d]
           x == [daemon[d] EXCEPT !.pc = "wait"]
<1>1. /\ host[h].pc = "none" /\ host' = [host EXCEPT ![h] = r] /\ daemon' = [daemon EXCEPT ![d] = x]
      /\ UNCHANGED <<sock, conn, wish, used, mishaps, caches>>
  BY Typed DEF Spawn, HostAt
<1>2. r \in HostStates /\ r.pc = "unlink" /\ r.sessions = host[h].sessions
  BY Typed DEF HostStates, HostPCs
<1>3. x \in DaemonStates /\ x.pc = "wait" /\ x.control = daemon[d].control
  BY Typed DEF DaemonStates, DaemonPCs
<1> HIDE DEF r, x
<1>4. /\ host' \in [Hosts -> HostStates] /\ host'[h] = r
      /\ \A y \in Hosts : y # h => host'[y] = host[y]
  BY <1>1, <1>2, Typed, HostChange
<1>5. /\ daemon' \in [Daemons -> DaemonStates] /\ daemon'[d] = x
      /\ \A y \in Daemons : y # d => daemon'[y] = daemon[y]
  BY <1>1, <1>3, Typed, DaemonChange
<1>6. HostTypeOK'
  BY <1>1, <1>4, <1>5, Typed DEF HostTypeOK
<1>7. ExitRule' /\ Reached'
  BY <1>1, <1>2, <1>4 DEF HostInv, ExitRule, Reached
<1>8. Controlled'
  BY <1>1, <1>3, <1>5 DEF HostInv, Controlled
<1>9. QED
  BY <1>6, <1>7, <1>8 DEF HostInv

LEMMA AnswerInv ==
  ASSUME HostConstants, HostInv, NEW d \in Daemons,
         Pinged(d) \/ ReadCache(d) \/ Returns(d)
  PROVE  HostInv'
<1> DEFINE c == daemon[d].control
<1>1. /\ c \in ConnIds /\ conn[c].state \in {"open", "closed"}
  <2>1. daemon[d].pc \in {"pinged", "reading", "calling"} /\ conn[c].resp # Nil
    BY DEF Pinged, ReadCache, Returns, DaemonAt, HostConstants
  <2>2. daemon[d] \in DaemonStates /\ c # Nil
    BY <2>1, Typed DEF HostInv, Controlled
  <2>3. c \in ConnIds
    BY <2>2 DEF DaemonStates
  <2>4. QED
    BY <2>1, <2>3 DEF HostInv, Controlled
<1>2. CASE Pinged(d)
  <2> DEFINE r == [conn[c] EXCEPT !.resp = Nil, !.req = "read"]
  <2>1. /\ conn' = [conn EXCEPT ![c] = r] /\ daemon' = [daemon EXCEPT ![d].pc = "reading"]
        /\ UNCHANGED <<sock, host, wish, used, mishaps, caches>>
    BY <1>1, <1>2, Typed DEF Pinged
  <2>2. r \in ConnStates /\ r.state = conn[c].state /\ r.host = conn[c].host /\ r.live = conn[c].live
        /\ r.resp = Nil
    BY <1>1, Typed DEF ConnStates
  <2> HIDE DEF r
  <2>3. QED
    BY <1>1, <2>1, <2>2, Typed, Exchanged
<1>3. CASE ReadCache(d) \/ Returns(d)
  <2> DEFINE r == [conn[c] EXCEPT !.resp = Nil]
  <2>1. /\ conn' = [conn EXCEPT ![c] = r] /\ daemon' = [daemon EXCEPT ![d].pc = "up"]
        /\ UNCHANGED <<sock, host, wish, used, mishaps, caches>>
    BY <1>1, <1>3, Typed DEF ReadCache, Returns
  <2>2. r \in ConnStates /\ r.state = conn[c].state /\ r.host = conn[c].host /\ r.live = conn[c].live
        /\ r.resp = Nil
    BY <1>1, Typed DEF ConnStates
  <2> HIDE DEF r
  <2>3. QED
    BY <1>1, <2>1, <2>2, Typed, Exchanged
<1>4. QED
  BY <1>2, <1>3

LEMMA EndsInv ==
  ASSUME HostInv, NEW d \in Daemons, StartFails(d) \/ Die(d)
  PROVE  HostInv'
<1>1. Ends(d) /\ UNCHANGED <<sock, wish, used, caches>> /\ mishaps' \in Nat
  BY Typed DEF StartFails, Die, Mishap
<1>2. /\ host' \in [Hosts -> HostStates]
      /\ \A h \in Hosts : /\ host'[h].pc = host[h].pc /\ host'[h].idle = host[h].idle
                          /\ host'[h].sessions = host[h].sessions /\ host'[h].cache = host[h].cache
  <2>1. host' = [h \in Hosts |-> IF host[h].parent = d THEN [host[h] EXCEPT !.parent = Orphaned]
                                 ELSE host[h]]
    BY <1>1 DEF Ends
  <2>2. ASSUME NEW h \in Hosts
        PROVE  /\ host'[h] \in HostStates
               /\ host'[h].pc = host[h].pc /\ host'[h].idle = host[h].idle
               /\ host'[h].sessions = host[h].sessions /\ host'[h].cache = host[h].cache
    <3>1. host[h] \in HostStates
      BY Typed
    <3>2. QED
      BY <2>1, <3>1 DEF HostStates
  <2>3. QED
    BY <2>1, <2>2
<1>3. /\ daemon' = [daemon EXCEPT ![d] = [pc |-> "off", control |-> Nil]]
      /\ conn' = IF daemon[d].control = Nil THEN conn ELSE Closing(daemon[d].control)
  BY <1>1 DEF Ends, Offline
<1>4. QED
  BY <1>1, <1>2, <1>3, Disconnected

LEMMA CallInv ==
  ASSUME HostConstants, HostInv, NEW d \in Daemons, NEW kind \in Calls, Call(d,
         kind)
  PROVE  HostInv'
<1>1. UNCHANGED <<sock, host, used, mishaps>> /\ daemon[d].pc = "up"
  BY DEF Call, DaemonAt
<1>2. wish' \in {"remember", "forget"} /\ caches' \in Nat
  BY Typed DEF Call, Wish
<1>3. CASE daemon[d].control # Nil
  <2> DEFINE c == daemon[d].control
             r == [conn[c] EXCEPT !.req = kind]
  <2>1. c \in ConnIds /\ conn[c].state \in {"open", "closed"}
    BY <1>1, <1>3, Typed DEF HostInv, Controlled, DaemonStates
  <2>2. conn' = [conn EXCEPT ![c] = r] /\ daemon' = [daemon EXCEPT ![d].pc = "calling"]
    BY <1>3, <2>1, Typed DEF Call
  <2>3. r \in ConnStates /\ r.state = conn[c].state /\ r.host = conn[c].host /\ r.live = conn[c].live
        /\ r.resp = conn[c].resp
    BY <2>1, Typed DEF ConnStates
  <2> HIDE DEF r
  <2>4. QED
    BY <1>1, <1>2, <2>1, <2>2, <2>3, Exchanged
<1>4. CASE daemon[d].control = Nil
  BY <1>1, <1>2, <1>4, Connected DEF Call
<1>5. QED
  BY <1>3, <1>4

LEMMA CallFailsInv ==
  ASSUME HostInv, NEW d \in Daemons, CallFails(d)
  PROVE  HostInv'
<1>1. daemon[d].control # Nil
  BY DEF HostInv, Controlled, CallFails, DaemonAt
<1>2. /\ UNCHANGED <<sock, host, wish, used, caches>> /\ mishaps' \in Nat
      /\ conn' = Closing(daemon[d].control)
      /\ daemon' = [daemon EXCEPT ![d] = [pc |-> "up", control |-> Nil]]
  BY Typed DEF CallFails, Mishap
<1>3. QED
  BY <1>1, <1>2, Typed, Disconnected

LEMMA MainInv ==
  ASSUME HostInv, NEW h \in Hosts,
         \/ HostUnlinks(h) \/ Bind(h) \/ NoteParent(h) \/ Quiet(h) \/ LookAtSessions(h)
         \/ LookAtCache(h) \/ Wipe(h) \/ HostRemoves(h)
  PROVE  HostInv'
<1>1. host[h] \in HostStates
  BY Typed
<1>2. CASE HostUnlinks(h)
  <2> DEFINE r == [host[h] EXCEPT !.pc = "bind"]
  <2>1. r \in HostStates /\ r.pc = "bind" /\ r.idle = host[h].idle /\ r.sessions = host[h].sessions
    BY <1>1 DEF HostStates, HostPCs
  <2>2. host' = [host EXCEPT ![h] = r] /\ host[h].pc = "unlink" /\ sock' = Nil /\ conn' = conn /\ OnlyHost
    BY <1>2, Typed DEF HostUnlinks, HostGoto, HostAt
  <2> HIDE DEF r
  <2>3. QED
    BY <2>1, <2>2, MainStep DEF HostInv, Reached, Unheard
<1>3. CASE Bind(h)
  <2>1. PICK pc \in {"parent", "gone"} : HostGoto(h, pc)
    BY <1>3 DEF Bind
  <2> DEFINE r == [host[h] EXCEPT !.pc = pc]
  <2>2. r \in HostStates /\ r.pc = pc /\ r.sessions = host[h].sessions
    BY <1>1 DEF HostStates, HostPCs
  <2>3. /\ host' = [host EXCEPT ![h] = r] /\ host[h].pc = "bind"
        /\ sock' \in Hosts \cup {Nil} /\ conn' = conn /\ OnlyHost
    BY <1>3, <2>1, Typed DEF Bind, HostGoto, HostAt
  <2> HIDE DEF r
  <2>4. QED
    BY <2>2, <2>3, MainStep DEF HostInv, Reached, Unheard
<1>4. CASE NoteParent(h)
  <2> DEFINE r == [host[h] EXCEPT !.pc = "accept", !.orig = host[h].parent]
  <2>1. r \in HostStates /\ r.pc = "accept"
    BY <1>1 DEF HostStates, HostPCs
  <2>2. host' = [host EXCEPT ![h] = r] /\ sock' \in Hosts \cup {Nil} /\ conn' = conn /\ OnlyHost
    BY <1>4, Typed DEF NoteParent
  <2> HIDE DEF r
  <2>3. QED
    BY <2>1, <2>2, MainStep DEF Unheard
<1>5. CASE Quiet(h)
  <2> DEFINE i == host[h].parent # host[h].orig /\ OpenTo(h) = {}
             r == [host[h] EXCEPT !.pc = "sessions", !.idle = i]
  <2>1. r \in HostStates /\ r.pc = "sessions" /\ r.idle = i
    BY <1>1 DEF HostStates, HostPCs
  <2>2. host' = [host EXCEPT ![h] = r] /\ sock' \in Hosts \cup {Nil} /\ conn' = conn /\ OnlyHost
    BY <1>5, Typed DEF Quiet
  <2>3. i => \A c \in ConnIds : conn[c].state = "open" => conn[c].host # h
    BY DEF OpenTo
  <2> HIDE DEF r, i
  <2>4. QED
    BY <2>1, <2>2, <2>3, MainStep DEF Unheard
<1>6. CASE LookAtSessions(h)
  <2> DEFINE i == host[h].idle /\ host[h].sessions = {}
             r == [host[h] EXCEPT !.pc = "cache", !.idle = i]
  <2>1. r \in HostStates /\ r.pc = "cache" /\ r.idle = i /\ r.sessions = host[h].sessions
    BY <1>1 DEF HostStates, HostPCs
  <2>2. /\ host' = [host EXCEPT ![h] = r] /\ sock' \in Hosts \cup {Nil} /\ conn' = conn /\ OnlyHost
        /\ host[h].pc = "sessions"
    BY <1>6, Typed DEF LookAtSessions, HostAt
  <2>3. i => host[h].sessions = {} /\ \A c \in ConnIds : conn[c].state = "open" => conn[c].host # h
    BY <2>2 DEF HostInv, ExitRule
  <2> HIDE DEF r, i
  <2>4. QED
    BY <2>1, <2>2, <2>3, MainStep DEF Unheard
<1>7. CASE LookAtCache(h)
  <2>1. PICK pc \in {"accept", "wipe"} : HostGoto(h, pc) /\ (pc = "wipe" => host[h].cache # "valid")
    BY <1>7 DEF LookAtCache
  <2> DEFINE r == [host[h] EXCEPT !.pc = pc]
  <2>2. /\ r \in HostStates /\ r.pc = pc /\ r.idle = host[h].idle /\ r.sessions = host[h].sessions
        /\ r.cache = host[h].cache
    BY <1>1 DEF HostStates, HostPCs
  <2>3. /\ host' = [host EXCEPT ![h] = r] /\ host[h].pc = "cache"
        /\ sock' \in Hosts \cup {Nil} /\ conn' = conn /\ OnlyHost
    BY <1>7, <2>1, Typed DEF LookAtCache, HostGoto, HostAt
  <2> HIDE DEF r
  <2>4. QED
    BY <2>1, <2>2, <2>3, MainStep DEF HostInv, ExitRule, Unheard
<1>8. CASE Wipe(h)
  <2> DEFINE pc == IF host[h].idle THEN "remove" ELSE "accept"
             r == [host[h] EXCEPT !.cache = "none", !.pc = pc]
  <2>1. /\ r \in HostStates /\ r.pc = pc /\ r.idle = host[h].idle /\ r.sessions = host[h].sessions
        /\ r.cache = "none"
    BY <1>1 DEF HostStates, HostPCs
  <2>2. /\ host' = [host EXCEPT ![h] = r] /\ host[h].pc = "wipe"
        /\ sock' \in Hosts \cup {Nil} /\ conn' = conn /\ OnlyHost
    BY <1>8, Typed DEF Wipe, HostAt
  <2> HIDE DEF r
  <2>3. QED
    BY <2>1, <2>2, MainStep DEF HostInv, ExitRule, Unheard
<1>9. CASE HostRemoves(h)
  <2> DEFINE r == [host[h] EXCEPT !.pc = "close"]
  <2>1. /\ r \in HostStates /\ r.pc = "close" /\ r.idle = host[h].idle /\ r.sessions = host[h].sessions
        /\ r.cache = host[h].cache
    BY <1>1 DEF HostStates, HostPCs
  <2>2. /\ host' = [host EXCEPT ![h] = r] /\ host[h].pc = "remove"
        /\ sock' \in Hosts \cup {Nil} /\ conn' = conn /\ OnlyHost
    BY <1>9, Typed DEF HostRemoves, HostGoto, HostAt
  <2> HIDE DEF r
  <2>3. QED
    BY <2>1, <2>2, MainStep DEF HostInv, ExitRule, Unheard
<1>10. QED
  BY <1>2, <1>3, <1>4, <1>5, <1>6, <1>7, <1>8, <1>9

LEMMA ExpireInv ==
  ASSUME HostInv, NEW h \in Hosts, Expire(h)
  PROVE  HostInv'
<1> DEFINE r == [host[h] EXCEPT !.cache = "expired"]
<1>1. /\ r \in HostStates /\ r.pc = host[h].pc /\ r.idle = host[h].idle
      /\ r.sessions = host[h].sessions /\ r.cache = "expired"
  BY Typed DEF HostStates
<1>2. /\ host' = [host EXCEPT ![h] = r] /\ sock' \in Hosts \cup {Nil} /\ conn' = conn /\ OnlyHost
  BY Typed DEF Expire
<1> HIDE DEF r
<1>3. QED
  BY <1>1, <1>2, MainStep DEF HostInv, ExitRule, Reached, Unheard

\* The main thread accepts a connection only while it is not about to exit.
LEMMA AcceptInv ==
  ASSUME HostInv, NEW h \in Hosts, Accept(h)
  PROVE  HostInv'
<1>1. host[h].pc = "accept" /\ host' = host /\ sock' = sock /\ OnlyHost
  BY DEF Accept, HostAt
<1>2. PICK c \in ConnIds : /\ conn[c].state = "backlog" /\ conn[c].host = h
                           /\ conn' = [conn EXCEPT ![c].state = "open"]
  BY DEF Accept, Backlog
<1> DEFINE r == [conn[c] EXCEPT !.state = "open"]
<1>3. /\ r \in ConnStates /\ r.state = "open" /\ r.host = h /\ r.live = conn[c].live
      /\ r.resp = conn[c].resp /\ conn' = [conn EXCEPT ![c] = r]
  BY <1>2, Typed DEF ConnStates
<1> HIDE DEF r
<1>4. /\ conn' \in [ConnIds -> ConnStates] /\ conn'[c] = r
      /\ \A x \in ConnIds : x # c => conn'[x] = conn[x]
  BY <1>3, Typed, ConnChange
<1>5. HostTypeOK'
  BY <1>1, <1>3, <1>4, Typed DEF HostTypeOK, OnlyHost
<1>6. ExitRule'
  BY <1>1, <1>3, <1>4 DEF HostInv, ExitRule
<1>7. Reached'
  BY <1>1, <1>3, <1>4 DEF HostInv, Reached
<1>8. Controlled'
  <2>1. \A d \in Daemons : daemon[d].control # Nil => daemon[d].control \in ConnIds
    BY Typed DEF DaemonStates
  <2>2. QED
    BY <1>1, <1>2, <1>3, <1>4, <2>1 DEF HostInv, Controlled, OnlyHost
<1>9. QED
  BY <1>5, <1>6, <1>7, <1>8 DEF HostInv

\* Every answer leaves the connection open, or frees it when nobody listens.
LEMMA AnsweredFacts ==
  ASSUME HostInv, NEW c \in ConnIds, conn[c].state = "open",
         NEW resp \in {"ok", "passphrase", "nothing"}, Answered(c, resp)
  PROVE  \E r \in ConnStates :
           /\ conn' = [conn EXCEPT ![c] = r]
           /\ \/ r = FreeConn /\ ~conn[c].live
              \/ r.state = "open" /\ r.host = conn[c].host /\ r.live = conn[c].live
<1>1. CASE ~conn[c].live
  BY <1>1, FreeType DEF Answered
<1>2. CASE conn[c].live
  <2> DEFINE r == [conn[c] EXCEPT !.req = Nil, !.resp = resp]
  <2>1. r \in ConnStates /\ r.state = "open" /\ r.host = conn[c].host /\ r.live = conn[c].live
    BY Typed DEF ConnStates
  <2>2. conn' = [conn EXCEPT ![c] = r]
    BY <1>2 DEF Answered
  <2>3. QED
    BY <2>1, <2>2
<1>3. QED
  BY <1>1, <1>2

\* What a request does to its host.
LEMMA ServedHost ==
  ASSUME HostInv, NEW c \in ConnIds, Serve(c)
  PROVE  LET h == conn[c].host IN
         /\ conn[c].state = "open" /\ h \in Hosts /\ UNCHANGED <<sock, daemon, wish, mishaps, caches>>
         /\ host[h] \in HostStates
         /\ \E resp \in {"ok", "passphrase", "nothing"} : Answered(c, resp)
         /\ used' \subseteq Terminals
         /\ \/ host' = host
            \/ \E x \in {"none", "valid"} : host' = [host EXCEPT ![h].cache = x]
            \/ \E S \in SUBSET Terminals : host' = [host EXCEPT ![h].sessions = S]
<1> DEFINE h == conn[c].host
<1>1. /\ conn[c].state = "open" /\ h \in Hosts /\ UNCHANGED <<sock, daemon, wish, mishaps, caches>>
      /\ host[h] \in HostStates
  BY Typed DEF Serve, HostInv, Reached
<1>2. /\ \E resp \in {"ok", "passphrase", "nothing"} : Answered(c, resp)
      /\ used' \subseteq Terminals
      /\ \/ host' = host
         \/ \E x \in {"none", "valid"} : host' = [host EXCEPT ![h].cache = x]
         \/ \E S \in SUBSET Terminals : host' = [host EXCEPT ![h].sessions = S]
  <2>1. CASE Forget(c, h)
    BY <2>1, Typed DEF Forget
  <2>2. CASE Remember(c, h)
    BY <2>2, Typed DEF Remember
  <2>3. CASE Recall(c, h)
    BY <2>3, Typed DEF Recall
  <2>4. CASE OpenTerminal(c, h)
    <3>1. PICK s \in Terminals \ used :
            host' = [host EXCEPT ![h].sessions = @ \cup {s}] /\ used' = used \cup {s}
      BY <2>4 DEF OpenTerminal
    <3>2. host[h].sessions \cup {s} \in SUBSET Terminals
      BY <1>1 DEF HostStates
    <3>3. host' = [host EXCEPT ![h].sessions = host[h].sessions \cup {s}]
      BY <3>1
    <3>4. Answered(c, "ok")
      BY <2>4 DEF OpenTerminal
    <3>5. QED
      BY <3>1, <3>2, <3>3, <3>4, Typed
  <2>5. CASE CloseTerminal(c, h)
    <3>1. PICK s \in host[h].sessions : host' = [host EXCEPT ![h].sessions = @ \ {s}]
      BY <2>5 DEF CloseTerminal
    <3>2. host[h].sessions \ {s} \in SUBSET Terminals
      BY <1>1 DEF HostStates
    <3>3. Answered(c, "ok") /\ used' = used
      BY <2>5 DEF CloseTerminal
    <3>4. host' = [host EXCEPT ![h].sessions = host[h].sessions \ {s}]
      BY <3>1
    <3>5. QED
      BY <3>2, <3>3, <3>4, Typed
  <2>6. CASE Answered(c, "ok") /\ UNCHANGED <<host, used>>
    BY <2>6, Typed
  <2>7. QED
    BY <2>1, <2>2, <2>3, <2>4, <2>5, <2>6 DEF Serve
<1>3. QED
  BY <1>1, <1>2

LEMMA ServeInv ==
  ASSUME HostInv, NEW c \in ConnIds, Serve(c)
  PROVE  HostInv'
<1> DEFINE h == conn[c].host
<1>1. /\ conn[c].state = "open" /\ h \in Hosts /\ UNCHANGED <<sock, daemon, wish, mishaps, caches>>
      /\ host[h] \in HostStates
  BY ServedHost
<1>2. /\ \E resp \in {"ok", "passphrase", "nothing"} : Answered(c, resp)
      /\ used' \subseteq Terminals
      /\ \/ host' = host
         \/ \E x \in {"none", "valid"} : host' = [host EXCEPT ![h].cache = x]
         \/ \E S \in SUBSET Terminals : host' = [host EXCEPT ![h].sessions = S]
  BY ServedHost
<1>3. \/ host' = host
      \/ \E x \in HostStates : host' = [host EXCEPT ![h] = x] /\ x.pc = host[h].pc /\ x.idle = host[h].idle
  <2>1. ASSUME NEW x \in {"none", "valid"}, host' = [host EXCEPT ![h].cache = x]
        PROVE  \E y \in HostStates : host' = [host EXCEPT ![h] = y] /\ y.pc = host[h].pc /\ y.idle = host[h].idle
    <3> DEFINE y == [host[h] EXCEPT !.cache = x]
    <3>1. y \in HostStates /\ y.pc = host[h].pc /\ y.idle = host[h].idle
      BY <1>1 DEF HostStates
    <3>2. host' = [host EXCEPT ![h] = y]
      BY <2>1
    <3>3. QED
      BY <3>1, <3>2
  <2>2. ASSUME NEW S \in SUBSET Terminals, host' = [host EXCEPT ![h].sessions = S]
        PROVE  \E y \in HostStates : host' = [host EXCEPT ![h] = y] /\ y.pc = host[h].pc /\ y.idle = host[h].idle
    <3> DEFINE y == [host[h] EXCEPT !.sessions = S]
    <3>1. y \in HostStates /\ y.pc = host[h].pc /\ y.idle = host[h].idle
      BY <1>1 DEF HostStates
    <3>2. host' = [host EXCEPT ![h] = y]
      BY <2>2
    <3>3. QED
      BY <3>1, <3>2
  <2>3. QED
    BY <1>2, <2>1, <2>2
<1>4. PICK r \in ConnStates :
        /\ conn' = [conn EXCEPT ![c] = r]
        /\ \/ r = FreeConn /\ ~conn[c].live
           \/ r.state = "open" /\ r.host = conn[c].host /\ r.live = conn[c].live
  BY <1>1, <1>2, AnsweredFacts
<1>5. QED
  BY <1>1, <1>2, <1>3, <1>4, ConnThread

LEMMA ConnEndsInv ==
  ASSUME HostInv, NEW c \in ConnIds, ConnEnds(c)
  PROVE  HostInv'
BY FreeType, Typed, ConnThread DEF ConnEnds

LEMMA NextHost ==
  ASSUME HostConstants, HostInv, [HostNext]_hostVars
  PROVE  HostInv'
<1> SUFFICES ASSUME HostInv, [HostNext]_hostVars PROVE HostInv'
  OBVIOUS
<1>1. CASE UNCHANGED hostVars
  BY <1>1 DEF hostVars, HostInv, HostTypeOK, ExitRule, Reached, Controlled
<1>2. ASSUME NEW d \in Daemons, StartDaemon(d) PROVE HostInv'
  BY <1>2, Typed, OnlyDaemonPC DEF StartDaemon
<1>3. ASSUME NEW d \in Daemons, DaemonStep(d) PROVE HostInv'
  <2>1. CASE RemoveStale(d)
    BY <2>1, Typed, OnlyDaemonPC DEF RemoveStale
  <2>2. CASE ProbeAgain(d)
    BY <2>2, Typed, Connected DEF ProbeAgain
  <2>3. QED
    BY <1>3, <2>1, <2>2, ProbeInv, SpawnInv, AnswerInv, EndsInv DEF DaemonStep
<1>4. ASSUME NEW d \in Daemons, Die(d) PROVE HostInv'
  BY <1>4, EndsInv
<1>5. ASSUME NEW d \in Daemons, NEW kind \in Calls, Call(d, kind) PROVE HostInv'
  BY <1>5, CallInv
<1>6. ASSUME NEW d \in Daemons, CallFails(d) PROVE HostInv'
  BY <1>6, CallFailsInv
<1>7. ASSUME NEW h \in Hosts, HostStep(h) \/ HostKilled(h) PROVE HostInv'
  <2>1. CASE HostExits(h)
    BY <2>1, Typed, GoneInv DEF HostExits, OnlyHost
  <2>2. CASE HostKilled(h)
    BY <2>2, Typed, GoneInv DEF HostKilled, Mishap
  <2>3. QED
    BY <1>7, <2>1, <2>2, AcceptInv, MainInv DEF HostStep
<1>8. ASSUME NEW h \in Hosts, Expire(h) PROVE HostInv'
  BY <1>8, ExpireInv
<1>9. ASSUME NEW c \in ConnIds, ConnStep(c) PROVE HostInv'
  BY <1>9, ServeInv, ConnEndsInv DEF ConnStep
<1>10. QED
  BY <1>1, <1>2, <1>3, <1>4, <1>5, <1>6, <1>7, <1>8, <1>9 DEF HostNext

THEOREM HostInvariant ==
  ASSUME HostConstants
  PROVE  HostSpec => []HostInv
BY InitHost, NextHost, PTL DEF HostSpec

\* Every state of daemons, hosts and connections is well typed.
THEOREM HostTypeCorrect ==
  ASSUME HostConstants
  PROVE  HostSpec => []HostTypeOK
<1>1. HostInv => HostTypeOK
  BY DEF HostInv
<1>2. QED
  BY <1>1, HostInvariant, PTL

\* A host that has decided to exit is empty, whatever its connections did between its
\* four looks, for any number of daemons that overlap and die anywhere.
THEOREM HostLeavesEmpty ==
  ASSUME HostConstants
  PROVE  HostSpec => []LeavesEmpty
<1>1. HostInv => LeavesEmpty
  BY DEF HostInv, ExitRule, LeavesEmpty, Leaving, OpenTo
<1>2. QED
  BY <1>1, HostInvariant, PTL

\* A host does not exit under a daemon that has its answer.
THEOREM HostStays ==
  ASSUME HostConstants
  PROVE  HostSpec => []AdoptedHostStays
<1>1. ASSUME HostInv PROVE AdoptedHostStays
  <2> SUFFICES ASSUME NEW d \in Daemons, daemon[d].pc = "up", daemon[d].control # Nil,
                      conn[daemon[d].control].state # "closed"
               PROVE  ~Leaving(conn[daemon[d].control].host)
    BY DEF AdoptedHostStays, DaemonAt, Broken
  <2>1. daemon[d].control \in ConnIds /\ conn[daemon[d].control].state = "open"
    BY <1>1, Typed DEF HostInv, Controlled, DaemonStates
  <2>2. QED
    BY <1>1, <2>1 DEF HostInv, ExitRule, Reached, Leaving
<1>2. QED
  BY <1>1, HostInvariant, PTL

-----------------------------------------------------------------------------
(* Daemons one after the other that do not end while they start a host.     *)

OneAfterTheOther == ~Overlap /\ DieAt \cap {"unlink", "spawn", "wait"} = {}

Owning == {"parent", "accept", "sessions", "cache", "wipe", "remove"}

\* A step that leaves the socket file, and by which a host goes on or is gone and a
\* daemon that starts no host starts none.
LEMMA OneHostKept ==
  ASSUME OneHost, UNCHANGED sock,
         \A h \in Hosts : \/ host'[h].pc = host[h].pc
                          \/ host[h].pc \in Owning /\ host'[h].pc \in Owning
                          \/ host'[h].pc = "gone",
         \A d \in Daemons : \/ daemon'[d].pc = daemon[d].pc
                            \/ daemon[d].pc \notin {"off", "wait"} /\ daemon'[d].pc \notin {"unlink", "spawn"}
                            \/ daemon[d].pc = "unlink" /\ daemon'[d].pc = "spawn"
  PROVE  OneHost'
BY DEF OneHost, Owning

\* What the steps that change a host's stage leave alone.
LEMMA OneHostMain ==
  ASSUME HostConstants, HostInv, OneHost, NEW h \in Hosts,
         HostStep(h) \/ HostKilled(h)
  PROVE  OneHost'
<1>1. UNCHANGED daemon
  BY DEF HostStep, HostUnlinks, Bind, NoteParent, Accept, Quiet,
     LookAtSessions, LookAtCache, Wipe,
         HostRemoves, HostExits, HostKilled, OnlyHost
<1>2. CASE HostUnlinks(h)
  BY <1>1, <1>2, Typed DEF OneHost, HostUnlinks, HostGoto, HostAt,
     HostConstants
<1>3. CASE Bind(h) /\ sock = Nil /\ sock' = h /\ HostGoto(h, "parent")
  BY <1>1, <1>3, Typed DEF OneHost, Bind, HostGoto, HostAt, HostConstants
<1>4. CASE HostRemoves(h)
  BY <1>1, <1>4, Typed DEF OneHost, HostRemoves, HostGoto, HostAt,
     HostConstants
<1>5. CASE /\ UNCHANGED sock
           /\ \A x \in Hosts : \/ host'[x].pc = host[x].pc
                               \/ host[x].pc \in Owning /\ host'[x].pc \in Owning
                               \/ host'[x].pc = "gone"
  BY <1>1, <1>5, OneHostKept
<1>6. ASSUME \/ HostGoto(h, "gone") /\ Bind(h) /\ UNCHANGED sock
             \/ NoteParent(h) \/ Accept(h) \/ Quiet(h) \/ LookAtSessions(h) \/ LookAtCache(h)
             \/ Wipe(h) \/ HostExits(h) \/ HostKilled(h)
      PROVE  OneHost'
  <2>1. UNCHANGED sock
    BY <1>6 DEF NoteParent, Accept, Quiet, LookAtSessions,
       LookAtCache, Wipe, HostExits, HostKilled
  <2>2. CASE HostGoto(h, "gone")
    BY <1>5, <2>1, <2>2, Typed DEF HostGoto
  <2>3. CASE NoteParent(h)
    BY <1>5, <2>1, <2>3, Typed DEF NoteParent, HostAt, Owning
  <2>4. CASE Accept(h)
    BY <1>5, <2>1, <2>4 DEF Accept
  <2>5. CASE Quiet(h)
    BY <1>5, <2>1, <2>5, Typed DEF Quiet, HostAt, Owning
  <2>6. CASE LookAtSessions(h)
    BY <1>5, <2>1, <2>6, Typed DEF LookAtSessions, HostAt, Owning
  <2>7. CASE LookAtCache(h)
    <3>1. PICK pc \in {"accept", "wipe"} : HostGoto(h, pc)
      BY <2>7 DEF LookAtCache
    <3>2. host[h].pc = "cache"
      BY <2>7 DEF LookAtCache, HostAt
    <3>3. QED
      BY <1>5, <2>1, <3>1, <3>2, Typed DEF HostGoto, Owning
  <2>8. CASE Wipe(h)
    BY <1>5, <2>1, <2>8, Typed DEF Wipe, HostAt, Owning
  <2>9. CASE HostExits(h) \/ HostKilled(h)
    <3>1. host' = [host EXCEPT ![h].pc = "gone", ![h].sessions = {}, ![h].cache = "none"]
      BY <2>9 DEF HostExits, HostKilled, Gone
    <3>2. host'[h].pc = "gone" /\ \A x \in Hosts : x # h => host'[x] = host[x]
      BY <3>1, Typed DEF HostStates
    <3>3. QED
      BY <1>5, <2>1, <3>2
  <2>10. QED
    BY <1>6, <2>2, <2>3, <2>4, <2>5, <2>6, <2>7, <2>8, <2>9
<1>7. QED
  BY <1>2, <1>3, <1>4, <1>6 DEF HostStep, Bind

LEMMA OneHostDaemon ==
  ASSUME HostConstants, HostInv, OneHost, OneAfterTheOther, NEW d \in Daemons,
         \/ StartDaemon(d) \/ DaemonStep(d) \/ Die(d) \/ CallFails(d)
         \/ \E kind \in Calls : Call(d, kind)
  PROVE  OneHost'
<1>1. CASE StartDaemon(d)
  BY <1>1, Typed DEF OneHost, OneAfterTheOther, StartDaemon, DaemonAt
<1>2. CASE Probe(d)
  <2>1. CASE Connect(d, "pinged", "ping")
    BY <1>2, <2>1, Typed, OneHostKept DEF Probe, Connect, DaemonAt
  <2>2. CASE Unavailable /\ daemon' = [daemon EXCEPT ![d].pc = "unlink"]
    <3>1. \A h \in Hosts : host[h].pc \in {"none", "close", "gone"}
      <4> SUFFICES ASSUME NEW h \in Hosts PROVE host[h].pc \in {"none", "close", "gone"}
        OBVIOUS
      <4>1. host[h].pc \notin Owning
        BY <2>2 DEF OneHost, Unavailable, Listening, Running, Owning
      <4>2. host[h].pc \notin {"unlink", "bind"}
        BY <1>2 DEF OneHost, Probe, DaemonAt
      <4>3. QED
        BY <4>1, <4>2, Typed DEF HostStates, HostPCs, Owning
    <3>2. QED
      BY <1>2, <2>2, <3>1, Typed DEF OneHost, Probe, DaemonAt
  <2>3. QED
    BY <1>2, <2>1, <2>2 DEF Probe
<1>3. CASE RemoveStale(d)
  BY <1>3, Typed DEF OneHost, RemoveStale, DaemonAt, HostConstants
<1>4. ASSUME NEW h \in Hosts, Spawn(d, h) PROVE OneHost'
  BY <1>4, Typed DEF OneHost, Spawn, DaemonAt, HostAt
<1>5. CASE ProbeAgain(d)
  <2>1. sock \in Hosts /\ host[sock].pc \notin {"none", "gone", "unlink", "bind"}
    BY <1>5 DEF ProbeAgain, Connect, Listening, Running
  <2>2. \A h \in Hosts : host[h].pc \notin {"unlink", "bind"}
    BY <2>1 DEF OneHost
  <2>3. QED
    BY <1>5, <2>2, Typed DEF OneHost, ProbeAgain, Connect, DaemonAt
<1>6. ASSUME Ends(d), UNCHANGED sock, daemon[d].pc \notin {"off", "unlink", "spawn", "wait"}
      PROVE  OneHost'
  <2>1. \A h \in Hosts : host'[h].pc = host[h].pc
    BY <1>6, Typed DEF Ends, HostStates
  <2>2. QED
    BY <1>6, <2>1, Typed, OneHostKept DEF Ends, Offline
<1>7. CASE StartFails(d) \/ Die(d)
  BY <1>6, <1>7 DEF StartFails, Die, OneAfterTheOther, HostConstants
<1>8. CASE Pinged(d) \/ ReadCache(d) \/ Returns(d) \/ CallFails(d) \/ \E kind \in Calls : Call(d, kind)
  <2>1. /\ UNCHANGED <<sock, host>> /\ daemon[d].pc \in {"pinged", "reading", "calling", "up"}
        /\ \E pc \in {"reading", "up", "calling"} :
             \/ daemon' = [daemon EXCEPT ![d].pc = pc]
             \/ \E c \in ConnIds \cup {Nil} : daemon' = [daemon EXCEPT ![d] = [pc |-> pc, control |-> c]]
    <3>1. CASE Pinged(d) \/ ReadCache(d) \/ Returns(d) \/ CallFails(d)
      BY <3>1 DEF Pinged, ReadCache, Returns, CallFails, DaemonAt
    <3>2. ASSUME NEW kind \in Calls, Call(d, kind)
          PROVE  /\ UNCHANGED <<sock, host>> /\ daemon[d].pc = "up"
                 /\ \/ daemon' = [daemon EXCEPT ![d].pc = "calling"]
                    \/ NextConn \in ConnIds /\ daemon' = [daemon EXCEPT ![d] = [pc |-> "calling", control |-> NextConn]]
      BY <3>2, NextConnFree DEF Call, Connect, DaemonAt, HostInv
    <3>3. QED
      BY <1>8, <3>1, <3>2
  <2>2. \A x \in Daemons : \/ daemon'[x].pc = daemon[x].pc
                           \/ daemon[x].pc \notin {"off", "wait"} /\ daemon'[x].pc \notin {"unlink", "spawn"}
    <3>1. PICK pc \in {"reading", "up", "calling"} :
            \/ daemon' = [daemon EXCEPT ![d].pc = pc]
            \/ \E c \in ConnIds \cup {Nil} : daemon' = [daemon EXCEPT ![d] = [pc |-> pc, control |-> c]]
      BY <2>1
    <3>2. daemon'[d].pc = pc /\ \A x \in Daemons : x # d => daemon'[x] = daemon[x]
      BY <3>1, Typed DEF DaemonStates
    <3>3. QED
      BY <2>1, <3>2
  <2>3. QED
    BY <2>1, <2>2, OneHostKept
<1>9. QED
  BY <1>1, <1>2, <1>3, <1>4, <1>5, <1>7, <1>8 DEF DaemonStep

LEMMA NextOneHost ==
  ASSUME HostConstants, OneAfterTheOther, HostInv, OneHost, [HostNext]_hostVars
  PROVE  OneHost'
<1>1. CASE UNCHANGED hostVars
  BY <1>1 DEF hostVars, OneHost
<1>2. ASSUME NEW h \in Hosts, Expire(h) PROVE OneHost'
  BY <1>2, Typed, OneHostKept DEF Expire, OnlyHost
<1>3. ASSUME NEW c \in ConnIds, ConnStep(c) PROVE OneHost'
  <2>1. UNCHANGED <<sock, daemon>> /\ \A h \in Hosts : host'[h].pc = host[h].pc
    <3>1. CASE ConnEnds(c)
      BY <3>1 DEF ConnEnds
    <3>2. CASE Serve(c)
      <4> DEFINE h == conn[c].host
      <4>1. /\ UNCHANGED <<sock, daemon>>
            /\ \/ host' = host
               \/ \E x \in {"none", "valid"} : host' = [host EXCEPT ![h].cache = x]
               \/ \E S \in SUBSET Terminals : host' = [host EXCEPT ![h].sessions = S]
        BY <3>2, ServedHost
      <4>2. ASSUME NEW x \in {"none", "valid"}, host' = [host EXCEPT ![h].cache = x]
            PROVE  \A y \in Hosts : host'[y].pc = host[y].pc
        BY <4>2, Typed DEF HostStates
      <4>3. ASSUME NEW S \in SUBSET Terminals, host' = [host EXCEPT ![h].sessions = S]
            PROVE  \A y \in Hosts : host'[y].pc = host[y].pc
        BY <4>3, Typed DEF HostStates
      <4>4. QED
        BY <4>1, <4>2, <4>3
    <3>3. QED
      BY <1>3, <3>1, <3>2 DEF ConnStep
  <2>2. QED
    BY <2>1, OneHostKept
<1>4. QED
  BY <1>1, <1>2, <1>3, OneHostMain, OneHostDaemon DEF HostNext

\* A terminal is in the host that the socket file names, as long as daemons follow one
\* another and none ends between removing a stale file and reaching its own host.
THEOREM TerminalsStayReachable ==
  ASSUME HostConstants, OneAfterTheOther
  PROVE  HostSpec => []TerminalsReachable
<1> SUFFICES ASSUME OneAfterTheOther PROVE HostSpec => []TerminalsReachable
  OBVIOUS
<1>1. HostInit => OneHost
  BY DEF HostInit, OneHost, Offline
<1>2. HostInv /\ OneHost /\ [HostNext]_hostVars => OneHost'
  BY NextOneHost
<1>3. HostInv /\ OneHost => TerminalsReachable
  <2> SUFFICES ASSUME HostInv, OneHost, NEW h \in Hosts, host[h].sessions # {} PROVE sock = h
    BY DEF TerminalsReachable
  <2>1. host[h].pc \notin Unheard
    BY DEF HostInv, Reached, Unheard
  <2>2. host[h].pc # "close"
    BY DEF HostInv, ExitRule
  <2>3. host[h].pc \in Owning
    BY <2>1, <2>2, Typed DEF HostStates, HostPCs, Unheard, Owning
  <2>4. QED
    BY <2>3 DEF OneHost, Owning
<1>4. QED
  BY <1>1, <1>2, <1>3, HostInvariant, PTL DEF HostSpec
================================================================================
