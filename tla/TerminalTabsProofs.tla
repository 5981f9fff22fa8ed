-------------------------- MODULE TerminalTabsProofs --------------------------
(***************************************************************************)
(* Proofs about TerminalTabs: its types; that no session comes to be shown *)
(* by two tabs, whatever overlaps; and that a restoration never replaces a *)
(* shell that survived, nor marks a tab live that is not subscribed.       *)
(***************************************************************************)
EXTENDS TerminalTabs, TLAPS

-----------------------------------------------------------------------------
(* The invariant.                                                          *)

Sids(S) == {x.sid : x \in S}
Restoring == {"restore", "restored"}

\* The types of the variables but for the tasks.
StateTypes ==
  /\ screen \in {"failure", "unlock", "unlocking", "main"}
  /\ {guiLocked, pending, resume, inFlight, opening, cooling, wanted, first, up, locked}
       \subseteq BOOLEAN
  /\ tab \in [Tabs -> [sid : Sessions \cup {0}, ssh : BOOLEAN, closed : BOOLEAN]]
  /\ client \in Clients \cup {0}
  /\ stream \in [Tabs -> [sid : Sessions \cup {0}, c : Clients \cup {0},
                          st : {"none", "new", "on", "cut", "ended", "deaf"}]]
  /\ registry \in [Clients -> [Sessions -> {"none", "prepared", "taken"}]]
  /\ shells \subseteq Sessions /\ alive \subseteq Clients
  /\ subs \subseteq alive \X Sessions /\ fed \subseteq subs

\* A place without a tab is not closed, and a stream is of its tab's session.
PlacesAgree ==
  \A t \in Tabs : (tab[t].sid = 0 => ~tab[t].closed) /\ stream[t].sid \in {0, tab[t].sid}

\* A restoration has for each session still to do at most one tab, and for each one
\* done another session than for the rest.
Separate(k) ==
  /\ \A m, n \in k.done : m # n => m.new # n.new
  /\ \A m \in k.done : m.new \notin Sids(k.todo)
  /\ \A x, y \in k.todo : x.sid = y.sid => x = y
  /\ 0 \notin Sids(k.todo)
  /\ k.sid # 0 => k.sid \notin Sids(k.todo) /\ \A m \in k.done : m.new # k.sid

\* What the fields of a task tell of one another.
Fits(k) ==
  /\ k \in TaskRecords
  /\ k.kind \notin Restoring => k.done = {}
  /\ k.kind = "open" /\ k.at = "subscribe" => k.sid # 0
  /\ k.kind = "opened" => k.now.sid # 0
  /\ k.kind \in Restoring =>
       /\ k.c # 0
       /\ Separate(k)
       /\ k.at \in {"open", "again"} => k.now.sid # 0
       /\ k.at = "again" => k.kind = "restore" /\ k.sid # 0

\* What a restoration has found out stays true: sessions it replaces have ended, and
\* those it gives are subscribed as long as its connection lives.
Meant(k, shl, alv, sb, fd, reg) ==
  k.kind \in Restoring =>
    /\ k.at \in {"open", "again"} => k.now.sid \notin shl
    /\ k.at = "again" => reg[k.c][k.sid] # "taken"
    /\ \A m \in k.done : m.old # m.new => m.old \notin shl
    /\ k.c \in alv =>
         \A m \in k.done : m.new \in shl =>
           <<k.c, m.new>> \in sb /\ (m.new # m.old => <<k.c, m.new>> \in fd)

\* A task that brings a session is in the bag once.
Once == \A k \in Running : Coming(k) # {} => tasks[k] = 1

TasksFit ==
  /\ \A k \in Running : tasks[k] \in Nat \ {0}
  /\ \A k \in Running : Fits(k)

TasksHold == \A k \in Running : Meant(k, shells, alive, subs, fed, registry)

TabsInv ==
  /\ StateTypes /\ PlacesAgree
  /\ TasksFit /\ TasksHold
  /\ Once /\ OneTabPerSession

-----------------------------------------------------------------------------
(* The bag of tasks.                                                       *)

\* The tasks `old' have gone, once each, and the tasks `new' have come.
Moved(old, new) ==
  /\ \A j \in DOMAIN tasks' : tasks'[j] \in Nat \ {0}
  /\ \A j \in DOMAIN tasks' :
       \/ j \in new
       \/ j \in DOMAIN tasks /\ (j \in old => tasks[j] # 1) /\ tasks'[j] <= tasks[j]
  /\ \A j \in DOMAIN tasks' \cap new :
       (j \in DOMAIN tasks => j \in old /\ tasks[j] = 1) => tasks'[j] = 1

LEMMA PostMoves ==
  ASSUME NEW new, TasksFit, Post(new)
  PROVE  Moved({}, new)
<1>1. tasks' = [e \in (DOMAIN tasks) \cup new |->
                  (IF e \in DOMAIN tasks THEN tasks[e] ELSE 0) + (IF e \in new THEN 1 ELSE 0)]
  BY DEF Post, (+), SetToBag
<1>2. \A j \in DOMAIN tasks : tasks[j] \in Nat \ {0}
  BY DEF TasksFit, Running, BagToSet
<1>3. /\ DOMAIN tasks' = DOMAIN tasks \cup new
      /\ \A j \in DOMAIN tasks' : tasks'[j] = (IF j \in DOMAIN tasks THEN tasks[j] ELSE 0)
                                              + (IF j \in new THEN 1 ELSE 0)
  BY <1>1
<1>4. ASSUME NEW j \in DOMAIN tasks'
      PROVE  /\ tasks'[j] \in Nat \ {0}
             /\ j \in new \/ (j \in DOMAIN tasks /\ tasks'[j] <= tasks[j])
             /\ j \in new /\ j \notin DOMAIN tasks => tasks'[j] = 1
  <2>1. CASE j \notin DOMAIN tasks
    <3>1. j \in new /\ tasks'[j] = 0 + 1
      BY <1>3, <2>1
    <3> QED
      BY <2>1, <3>1
  <2>2. CASE j \in DOMAIN tasks /\ j \in new
    <3>1. tasks'[j] = tasks[j] + 1
      BY <1>3, <2>2
    <3> QED
      BY <1>2, <2>2, <3>1
  <2>3. CASE j \in DOMAIN tasks /\ j \notin new
    <3>1. tasks'[j] = tasks[j] + 0
      BY <1>3, <2>3
    <3> QED
      BY <1>2, <2>3, <3>1
  <2> QED
    BY <2>1, <2>2, <2>3
<1> QED
  BY <1>4 DEF Moved

LEMMA BecomeMoves ==
  ASSUME NEW k \in Running, NEW new, TasksFit, Become(k, new)
  PROVE  Moved({k}, new)
<1> DEFINE B == [e \in DOMAIN tasks |-> IF e \in {k} THEN tasks[e] - 1 ELSE tasks[e]]
           M == [e \in {d \in DOMAIN B : B[d] > 0} |-> B[e]]
<1>1. tasks (-) SetToBag({k}) = M
  <2>1. [e \in DOMAIN tasks |-> IF e \in DOMAIN SetToBag({k}) THEN tasks[e] - SetToBag({k})[e]
                                                           ELSE tasks[e]] = B
    BY DEF SetToBag
  <2> HIDE DEF B
  <2> QED
    BY <2>1 DEF (-)
<1>2. \A j \in DOMAIN tasks : tasks[j] \in Nat \ {0}
  BY DEF TasksFit, Running, BagToSet
<1>3. /\ DOMAIN M = {d \in DOMAIN tasks : d = k => tasks[d] # 1}
      /\ \A d \in DOMAIN M : M[d] = IF d = k THEN tasks[d] - 1 ELSE tasks[d]
  BY <1>2
<1> HIDE DEF M
<1>4. tasks' = [e \in (DOMAIN M) \cup new |->
                  (IF e \in DOMAIN M THEN M[e] ELSE 0) + (IF e \in new THEN 1 ELSE 0)]
  BY <1>1 DEF Become, (+), SetToBag
<1>5. /\ DOMAIN tasks' = DOMAIN M \cup new
      /\ \A j \in DOMAIN tasks' : tasks'[j] = (IF j \in DOMAIN M THEN M[j] ELSE 0)
                                              + (IF j \in new THEN 1 ELSE 0)
  BY <1>4
<1>6. ASSUME NEW j \in DOMAIN tasks'
      PROVE  /\ tasks'[j] \in Nat \ {0}
             /\ \/ j \in new
                \/ j \in DOMAIN tasks /\ (j = k => tasks[j] # 1) /\ tasks'[j] <= tasks[j]
             /\ j \in new /\ (j \in DOMAIN tasks => j = k /\ tasks[j] = 1) => tasks'[j] = 1
  <2>1. CASE j \notin DOMAIN M
    <3>1. j \in new /\ tasks'[j] = 0 + 1
      BY <1>5, <2>1
    <3> QED
      BY <2>1, <3>1
  <2>2. CASE j \in DOMAIN M
    <3>1. /\ j \in DOMAIN tasks /\ tasks[j] \in Nat \ {0} /\ (j = k => tasks[j] # 1)
          /\ M[j] = IF j = k THEN tasks[j] - 1 ELSE tasks[j]
      BY <1>2, <1>3, <2>2
    <3>2. tasks'[j] = M[j] + (IF j \in new THEN 1 ELSE 0)
      BY <1>5, <2>2
    <3>3. M[j] \in Nat \ {0} /\ M[j] <= tasks[j]
      BY <3>1
    <3> QED
      BY <3>1, <3>2, <3>3
  <2> QED
    BY <2>1, <2>2
<1> QED
  BY <1>6 DEF Moved

LEMMA NoneMoves ==
  ASSUME TasksFit, UNCHANGED tasks
  PROVE  Moved({}, {})
<1>1. \A j \in DOMAIN tasks : tasks[j] \in Nat \ {0}
  BY DEF TasksFit, Running, BagToSet
<1> QED
  BY <1>1 DEF Moved

LEMMA MovedTasks ==
  ASSUME NEW old, NEW new, Moved(old, new)
  PROVE  /\ \A k \in Running' : tasks'[k] \in Nat \ {0}
         /\ \A k \in Running' : k \in new \/ k \in Running
BY DEF Moved, Running, BagToSet

-----------------------------------------------------------------------------
(* Tasks that bring nothing, and what the rest of the state owes the others. *)

Plain(k) ==
  /\ k \in TaskRecords
  /\ k.kind \notin {"open", "opened"} \cup Restoring
  /\ k.done = {}

LEMMA PlainFits ==
  ASSUME NEW k, Plain(k)
  PROVE  /\ Fits(k) /\ Coming(k) = {}
         /\ \A shl, alv, sb, fd, reg : Meant(k, shl, alv, sb, fd, reg)
BY DEF Plain, Fits, Coming, Meant, Restoring

LEMMA TaskIsPlain ==
  ASSUME NEW kind \in TaskKinds \cup MessageKinds, NEW c \in Clients \cup {0}
  PROVE  /\ Task(kind, c) \in TaskRecords
         /\ kind \notin {"open", "opened"} \cup Restoring => Plain(Task(kind, c))
BY DEF Plain, Task, TaskRecords, SessionRecords, Steps

LEMMA ComingIsUsed ==
  ASSUME NEW k \in Running
  PROVE  Coming(k) \subseteq UsedSessions
BY DEF Coming, UsedSessions

\* What a step does to the connections, subscriptions and receivers that tasks rely on.
Kept ==
  /\ \A s \in UsedSessions : s \in shells' => s \in shells
  /\ \A c \in UsedClients : c \in alive' =>
       /\ c \in alive
       /\ \A s \in shells' : /\ <<c, s>> \in subs => <<c, s>> \in subs'
                             /\ <<c, s>> \in fed => <<c, s>> \in fed'
  /\ \A c \in Clients, s \in Sessions :
       registry'[c][s] = "taken" => registry[c][s] = "taken" \/ s \in Shown(tab)

LEMMA KeptTasks ==
  ASSUME TabsInv, Kept, NEW k \in Running
  PROVE  Meant(k, shells', alive', subs', fed', registry')
<1>1. SUFFICES ASSUME k.kind \in Restoring
               PROVE  Meant(k, shells', alive', subs', fed', registry')
  BY DEF Meant
<1>2. Fits(k) /\ Meant(k, shells, alive, subs, fed, registry)
  BY DEF TabsInv, TasksFit, TasksHold
<1>3. k.at \in {"open", "again"} => k.now.sid \notin shells'
  <2>1. k.now.sid \in UsedSessions
    BY DEF UsedSessions
  <2> QED
    BY <1>1, <1>2, <2>1 DEF Meant, Kept
<1>4. ASSUME k.at = "again" PROVE registry'[k.c][k.sid] # "taken"
  <2>1. k.kind = "restore" /\ k.sid \in Sessions /\ k.c \in Clients
    BY <1>1, <1>2, <1>4 DEF Fits, TaskRecords
  <2>2. k.sid \in Coming(k)
    BY <2>1 DEF Coming, Sessions
  <2>3. k.sid \notin Shown(tab)
    BY <2>2 DEF TabsInv, OneTabPerSession
  <2>4. registry[k.c][k.sid] # "taken"
    BY <1>1, <1>2, <1>4 DEF Meant
  <2> QED
    BY <2>1, <2>3, <2>4 DEF Kept
<1>5. ASSUME NEW m \in k.done
      PROVE  m.old \in UsedSessions /\ m.new \in UsedSessions
  BY DEF UsedSessions
<1>6. \A m \in k.done : m.old # m.new => m.old \notin shells'
  BY <1>1, <1>2, <1>5 DEF Meant, Kept
<1>7. ASSUME k.c \in alive', NEW m \in k.done, m.new \in shells'
      PROVE  <<k.c, m.new>> \in subs' /\ (m.new # m.old => <<k.c, m.new>> \in fed')
  <2>1. k.c \in UsedClients
    BY DEF UsedClients
  <2>2. k.c \in alive /\ m.new \in shells
    BY <1>5, <1>7, <2>1 DEF Kept
  <2>3. <<k.c, m.new>> \in subs /\ (m.new # m.old => <<k.c, m.new>> \in fed)
    BY <1>1, <1>2, <2>2 DEF Meant
  <2> QED
    BY <1>7, <2>1, <2>3 DEF Kept
<1> QED
  BY <1>3, <1>4, <1>6, <1>7 DEF Meant

-----------------------------------------------------------------------------
(* Sessions handed from a task to the next, or to a tab.                   *)

Brought(S) == UNION {Coming(k) : k \in S}

\* The sessions of the tasks that have gone, and fresh ones F, go to one task or tab each.
Hands(old, new, F) ==
  /\ Moved(old, new)
  /\ \A i, j \in old : i = j
  /\ F \cap UsedSessions = {}
  /\ \A j \in new : Coming(j) \subseteq F \cup Brought(old)
  /\ \A i, j \in new : i # j => Coming(i) \cap Coming(j) = {}
  /\ \A j \in new : Coming(j) \cap Shown(tab') = {}
  /\ Shown(tab') \subseteq Shown(tab) \cup Brought(old)
  /\ \A t, u \in Open(tab') : t # u => tab'[t].sid # tab'[u].sid

LEMMA HandedOn ==
  ASSUME TabsInv, NEW old \in SUBSET Running, NEW new, NEW F, Hands(old, new, F)
  PROVE  Once' /\ OneTabPerSession'
<1>1. ASSUME NEW i \in Running, i \notin old \/ tasks[i] # 1
      PROVE  Coming(i) \cap (F \cup Brought(old)) = {}
  <2>1. Coming(i) \cap F = {}
    BY ComingIsUsed DEF Hands
  <2>2. ASSUME NEW j \in old PROVE Coming(i) \cap Coming(j) = {}
    <3>1. CASE i = j
      BY <1>1, <2>2, <3>1 DEF TabsInv, Once
    <3>2. CASE i # j
      BY <2>2, <3>2 DEF TabsInv, OneTabPerSession
    <3> QED
      BY <3>1, <3>2
  <2> QED
    BY <2>1, <2>2 DEF Brought
<1>2. \A j \in Running' : j \in new \/ (j \in Running /\ (j \in old => tasks[j] # 1)
                                         /\ tasks'[j] <= tasks[j] /\ tasks'[j] \in Nat \ {0})
  BY DEF Hands, Moved, Running, BagToSet
<1>3. ASSUME NEW j \in new, NEW i \in Running', i \notin new
      PROVE  Coming(i) \cap Coming(j) = {}
  BY <1>1, <1>2, <1>3 DEF Hands
<1>4. \A i, j \in Running' : i # j => Coming(i) \cap Coming(j) = {}
  <2>1. ASSUME NEW i \in Running', NEW j \in Running', i # j, i \notin new, j \notin new
        PROVE  Coming(i) \cap Coming(j) = {}
    BY <1>2, <2>1 DEF TabsInv, OneTabPerSession
  <2> QED
    BY <1>3, <2>1 DEF Hands
<1>5. \A j \in Running' : Coming(j) \cap Shown(tab') = {}
  <2>1. ASSUME NEW j \in Running', j \notin new PROVE Coming(j) \cap Shown(tab') = {}
    <3>1. j \in Running /\ (j \notin old \/ tasks[j] # 1)
      BY <1>2, <2>1
    <3>2. Coming(j) \cap Shown(tab) = {}
      BY <3>1 DEF TabsInv, OneTabPerSession
    <3> QED
      BY <1>1, <3>1, <3>2 DEF Hands
  <2> QED
    BY <2>1 DEF Hands
<1>6. ASSUME NEW j \in Running', Coming(j) # {} PROVE tasks'[j] = 1
  <2>1. CASE j \notin new
    <3>1. j \in Running /\ tasks'[j] <= tasks[j] /\ tasks'[j] \in Nat \ {0}
      BY <1>2, <2>1
    <3>2. tasks[j] = 1
      BY <1>6, <3>1 DEF TabsInv, Once
    <3> QED
      BY <3>1, <3>2
  <2>2. CASE j \in new
    <3>1. ASSUME j \in Running PROVE j \in old /\ tasks[j] = 1
      <4>1. Coming(j) \subseteq F \cup Brought(old)
        BY <2>2 DEF Hands
      <4>2. j \in old
        BY <1>1, <1>6, <3>1, <4>1
      <4> QED
        BY <1>1, <1>6, <3>1, <4>1, <4>2
    <3> QED
      BY <2>2, <3>1 DEF Hands, Moved, Running, BagToSet
  <2> QED
    BY <2>1, <2>2
<1>7. Once'
  BY <1>6 DEF Once, Coming
<1> QED
  BY <1>4, <1>5, <1>7 DEF Hands, OneTabPerSession, Coming, Open, Shown

\* A step that changes the bag and keeps what the other tasks rely on.
LEMMA StepKeeps ==
  ASSUME TabsInv, NEW old \in SUBSET Running, NEW new, NEW F, Hands(old, new, F),
         StateTypes', PlacesAgree', Kept,
         \A j \in new : Fits(j) /\ Meant(j, shells', alive', subs', fed', registry')
  PROVE  TabsInv'
<1>1. Once' /\ OneTabPerSession'
  BY HandedOn
<1>2. TasksFit'
  <2>1. \A j \in Running' : Fits(j)
    BY MovedTasks DEF Hands, TabsInv, TasksFit
  <2> QED
    BY <2>1, MovedTasks DEF Hands, TasksFit, Fits, Separate, Sids, Restoring
<1>3. TasksHold'
  <2>1. \A j \in Running' : Meant(j, shells', alive', subs', fed', registry')
    BY MovedTasks, KeptTasks DEF Hands
  <2> QED
    BY <2>1 DEF TasksHold
<1> QED
  BY <1>1, <1>2, <1>3 DEF TabsInv

\* Most steps: new tasks bring nothing, and no tab gets a session.
Light(k) ==
  /\ Fits(k)
  /\ Coming(k) = {}
  /\ \A shl, alv, sb, fd, reg : Meant(k, shl, alv, sb, fd, reg)

Lightly(old, new) ==
  /\ Moved(old, new)
  /\ old \subseteq Running
  /\ \A i, j \in old : i = j
  /\ \A j \in new : Light(j)

LEMMA LightStep ==
  ASSUME TabsInv, NEW old, NEW new, Lightly(old, new),
         \A t \in Tabs : tab'[t].sid \in {0, tab[t].sid},
         StateTypes', PlacesAgree', Kept
  PROVE  TabsInv'
<1>1. \A j \in new : /\ Fits(j) /\ Coming(j) = {}
                     /\ Meant(j, shells', alive', subs', fed', registry')
  BY DEF Lightly, Light
<1>2. Shown(tab') \subseteq Shown(tab)
  BY DEF Shown, Open
<1>3. \A t, u \in Open(tab') : t # u => tab'[t].sid # tab'[u].sid
  BY DEF TabsInv, OneTabPerSession, Open
<1>4. Hands(old, new, {}) /\ old \in SUBSET Running
  BY <1>1, <1>2, <1>3 DEF Hands, Lightly
<1> QED
  BY <1>1, <1>4, StepKeeps

\* The tabs, the streams and the connections stay.
LEMMA IdleStep ==
  ASSUME TabsInv, NEW old, NEW new, Lightly(old, new), StateTypes',
         UNCHANGED <<tab, stream, registry, shells, alive, subs, fed>>
  PROVE  TabsInv'
<1>1. PlacesAgree' /\ \A t \in Tabs : tab'[t].sid \in {0, tab[t].sid}
  BY DEF TabsInv, PlacesAgree
<1>2. Kept
  BY DEF Kept
<1> QED
  BY <1>1, <1>2, LightStep

LEMMA PostLightly ==
  ASSUME TabsInv, NEW new, Post(new), \A j \in new : Light(j)
  PROVE  Lightly({}, new)
BY PostMoves DEF Lightly, TabsInv

LEMMA BecomeLightly ==
  ASSUME TabsInv, NEW k \in Running, NEW new, Become(k, new), \A j \in new : Light(j)
  PROVE  Lightly({k}, new)
BY BecomeMoves DEF Lightly, TabsInv

LEMMA NoneLightly ==
  ASSUME TabsInv, UNCHANGED tasks
  PROVE  Lightly({}, {})
BY NoneMoves DEF Lightly, TabsInv

-----------------------------------------------------------------------------
(* New tasks.                                                              *)

LEMMA PlainIsLight ==
  ASSUME NEW k, Plain(k)
  PROVE  Light(k)
BY PlainFits DEF Light

LEMMA TaskIsLight ==
  ASSUME NEW kind \in TaskKinds \cup MessageKinds, NEW c \in Clients \cup {0},
         kind \notin {"open", "opened"} \cup Restoring
  PROVE  Light(Task(kind, c))
BY TaskIsPlain, PlainIsLight

\* restore_terminal_sessions starts with what is closed, each tab once.
LEMMA RestoreIsLight ==
  ASSUME StateTypes, OneTabPerSession, NEW j \in RestoreTasks(tab, client)
  PROVE  Light(j)
<1>1. /\ client # 0 /\ client \in Clients
      /\ j = [Task("restore", client) EXCEPT !.at = "subscribe", !.todo = Closed(tab)]
  BY DEF RestoreTasks, StateTypes
<1>2. /\ j.kind = "restore" /\ j.c = client /\ j.at = "subscribe" /\ j.sid = 0
      /\ j.todo = Closed(tab) /\ j.done = {}
  BY <1>1 DEF Task
<1>3. Closed(tab) \subseteq SessionRecords /\ 0 \notin Sids(Closed(tab))
  BY DEF StateTypes, Closed, Open, SessionRecords, Sids
<1>4. j \in TaskRecords
  BY <1>1, <1>3 DEF Task, TaskRecords, SessionRecords, Steps, TaskKinds
<1>5. \A x, y \in j.todo : x.sid = y.sid => x = y
  BY <1>2 DEF OneTabPerSession, Closed, Open
<1> QED
  BY <1>1, <1>2, <1>3, <1>4, <1>5
     DEF Light, Fits, Separate, Meant, Coming, Restoring, Sids

LEMMA OpenIsLight ==
  ASSUME StateTypes, NEW ssh \in BOOLEAN, NEW j \in OpenTask(ssh)
  PROVE  Light(j)
<1>1. j = [Task("open", client) EXCEPT !.at = "open", !.flag = ssh]
  BY DEF OpenTask
<1>2. j.kind = "open" /\ j.at = "open" /\ j.sid = 0 /\ j.done = {}
  BY <1>1 DEF Task
<1>3. j \in TaskRecords
  BY <1>1 DEF StateTypes, Task, TaskRecords, SessionRecords, Steps, TaskKinds
<1> QED
  BY <1>2, <1>3 DEF Light, Fits, Meant, Coming, Restoring


-----------------------------------------------------------------------------
(* Steps that leave the tabs, the streams and the connections alone.       *)

LEMMA AskKeeps ==
  ASSUME TabsInv, NEW k \in Running, Ask(k) \/ Unlock(k) \/ Lock(k) \/ Timer(k)
  PROVE  TabsInv'
<1>1. \A kind \in TaskKinds \cup MessageKinds : kind \notin {"open", "opened"} \cup Restoring =>
        Light(Task(kind, 0))
  BY TaskIsLight
<1>2. PICK new : Become(k, new) /\ \A j \in new : Light(j)
  <2>1. CASE Ask(k)
    <3>1. Light([Task("checked", 0) EXCEPT !.flag = locked])
      <4>1. Plain([Task("checked", 0) EXCEPT !.flag = locked])
        BY DEF Plain, Task, TaskRecords, SessionRecords, Steps, MessageKinds, Restoring,
               TabsInv, StateTypes
      <4> QED
        BY <4>1, PlainIsLight
    <3> QED
      BY <1>1, <2>1, <3>1 DEF Ask, MessageKinds, Restoring
  <2>2. CASE Unlock(k)
    BY <1>1, <2>2 DEF Unlock, MessageKinds, Restoring
  <2>3. CASE Lock(k)
    BY <1>1, <2>3 DEF Lock, MessageKinds, Restoring
  <2>4. CASE Timer(k)
    BY <1>1, <2>4 DEF Timer, MessageKinds, Restoring
  <2> QED
    BY <2>1, <2>2, <2>3, <2>4
<1>3. Lightly({k}, new)
  BY <1>2, BecomeLightly
<1>4. /\ UNCHANGED <<guiVars, libVars, up, shells, alive, subs, fed>>
      /\ locked' \in BOOLEAN
  BY DEF Ask, Unlock, Lock, Timer, TabsInv, StateTypes, libVars, daemonVars
<1>5. StateTypes'
  BY <1>4 DEF TabsInv, StateTypes, guiVars, libVars
<1> QED
  BY <1>3, <1>4, <1>5, IdleStep DEF guiVars, libVars

LEMMA HandlerKeeps ==
  ASSUME TabsInv, NEW k \in Running,
         \/ WsError(k) \/ DaemonChecked(k) \/ HostsLoaded(k) \/ TerminalSetupError(k)
         \/ TerminalReconnectFailed(k) \/ VaultLocked(k) \/ UnlockEnds(k)
  PROVE  TabsInv'
<1>1. \A kind \in TaskKinds \cup MessageKinds, c \in Clients \cup {0} :
        kind \notin {"open", "opened"} \cup Restoring => Light(Task(kind, c))
  BY TaskIsLight
<1>2. StateTypes /\ OneTabPerSession /\ client \in Clients \cup {0} /\ 0 \in Clients \cup {0}
  BY DEF TabsInv, StateTypes
<1>3. \A kind \in {"list", "timer"} : kind \in TaskKinds \cup MessageKinds
                                      /\ kind \notin {"open", "opened"} \cup Restoring
  BY DEF TaskKinds, Restoring
<1>4. Light(Task("list", client)) /\ Light(Task("timer", 0))
  BY <1>1, <1>2, <1>3
<1>5. \A j \in RestoreTasks(tab, client) : Light(j)
  BY <1>2, RestoreIsLight
<1>6. \A ssh \in BOOLEAN : \A j \in OpenTask(ssh) : Light(j)
  BY <1>2, OpenIsLight
<1>7. PICK new : Become(k, new) /\ \A j \in new : Light(j)
  <2>1. CASE WsError(k) \/ TerminalSetupError(k) \/ TerminalReconnectFailed(k) \/ VaultLocked(k)
    BY <1>4, <2>1 DEF WsError, TerminalSetupError, TerminalReconnectFailed, VaultLocked
  <2>2. CASE DaemonChecked(k)
    BY <1>4, <1>5, <2>2 DEF DaemonChecked
  <2>3. CASE UnlockEnds(k)
    BY <1>4, <2>3 DEF UnlockEnds
  <2>4. CASE HostsLoaded(k)
    <3> DEFINE local == ~pending /\ first /\ Open(tab) = {} /\ ~opening
               ssh   == wanted /\ ~opening /\ ~local
    <3>1. Become(k, (IF pending THEN RestoreTasks(tab, client) ELSE {})
                    \cup (IF local \/ ssh THEN OpenTask(ssh) ELSE {}))
      BY <2>4 DEF HostsLoaded
    <3>2. ssh \in BOOLEAN
      OBVIOUS
    <3> HIDE DEF local, ssh
    <3>3. \A j \in OpenTask(ssh) : Light(j)
      BY <1>6, <3>2
    <3> QED
      BY <1>5, <3>1, <3>3
  <2> QED
    BY <2>1, <2>2, <2>3, <2>4
<1>8. Lightly({k}, new)
  BY <1>7, BecomeLightly
<1>9. UNCHANGED <<tab, client, libVars, daemonVars>>
  BY DEF WsError, DaemonChecked, HostsLoaded, TerminalSetupError, TerminalReconnectFailed,
         VaultLocked, UnlockEnds
<1>10. k.flag \in BOOLEAN
  BY DEF TabsInv, TasksFit, Fits, TaskRecords
<1>11. /\ screen' \in {"failure", "unlock", "unlocking", "main"}
       /\ {guiLocked', pending', resume', inFlight', opening', cooling', wanted', first'}
            \subseteq BOOLEAN
  <2>1. CASE WsError(k) \/ TerminalSetupError(k) \/ TerminalReconnectFailed(k) \/ VaultLocked(k)
    BY <1>2, <2>1 DEF WsError, TerminalSetupError, TerminalReconnectFailed, VaultLocked, StateTypes
  <2>2. CASE DaemonChecked(k)
    BY <1>2, <1>10, <2>2 DEF DaemonChecked, StateTypes
  <2>3. CASE UnlockEnds(k)
    BY <1>2, <2>3 DEF UnlockEnds, StateTypes
  <2>4. CASE HostsLoaded(k)
    BY <1>2, <2>4 DEF HostsLoaded, StateTypes
  <2> QED
    BY <2>1, <2>2, <2>3, <2>4
<1>12. StateTypes'
  BY <1>2, <1>9, <1>11 DEF StateTypes, libVars, daemonVars
<1> QED
  BY <1>8, <1>9, <1>12, IdleStep DEF libVars, daemonVars

LEMMA RetryKeeps ==
  ASSUME TabsInv, RetryFrom({}) \/ \E k \in Running : RetryFrom({k})
  PROVE  TabsInv'
<1> DEFINE new == IF inFlight THEN {} ELSE {[Task("connect", 0) EXCEPT !.flag = pending]}
<1>1. \A j \in new : Light(j)
  <2>1. Plain([Task("connect", 0) EXCEPT !.flag = pending])
    BY DEF Plain, Task, TaskRecords, SessionRecords, Steps, TaskKinds, Restoring,
           TabsInv, StateTypes
  <2> QED
    BY <2>1, PlainIsLight
<1>2. PICK old \in {{}} \cup {{k} : k \in Running} : RetryFrom(old)
  OBVIOUS
<1>3. Lightly(old, new)
  <2>1. CASE old = {}
    <3>1. Post(new)
      BY <1>2, <2>1 DEF RetryFrom
    <3> HIDE DEF new
    <3> QED
      BY <1>1, <2>1, <3>1, PostLightly
  <2>2. ASSUME NEW k \in Running, old = {k} PROVE Lightly(old, new)
    <3>1. Become(CHOOSE x \in {k} : TRUE, new)
      BY <1>2, <2>2 DEF RetryFrom
    <3>2. (CHOOSE x \in {k} : TRUE) = k
      OBVIOUS
    <3> HIDE DEF new
    <3>3. Become(k, new)
      BY <3>1, <3>2
    <3> QED
      BY <1>1, <2>2, <3>3, BecomeLightly
  <2> QED
    BY <1>2, <2>1, <2>2
<1>4. /\ UNCHANGED <<tab, libVars, daemonVars>>
      /\ StateTypes'
  BY <1>2 DEF RetryFrom, TabsInv, StateTypes, libVars, daemonVars
<1> HIDE DEF new
<1> QED
  BY <1>3, <1>4, IdleStep DEF libVars, daemonVars

LEMMA UserKeeps ==
  ASSUME TabsInv,
         \/ \E ssh \in BOOLEAN : OpenTerminal(ssh)
         \/ UnlockVault \/ Refresh \/ Refused
  PROVE  TabsInv'
<1>1. \A kind \in TaskKinds \cup MessageKinds, c \in Clients \cup {0} :
        kind \notin {"open", "opened"} \cup Restoring => Light(Task(kind, c))
  BY TaskIsLight
<1>2. StateTypes /\ client \in Clients \cup {0} /\ 0 \in Clients \cup {0}
  BY DEF TabsInv, StateTypes
<1>3. \A kind \in {"list", "unlock", "wserror"} : kind \in TaskKinds \cup MessageKinds
                                      /\ kind \notin {"open", "opened"} \cup Restoring
  BY DEF TaskKinds, MessageKinds, Restoring
<1>4. Light(Task("list", client)) /\ Light(Task("unlock", client)) /\ Light(Task("wserror", 0))
  BY <1>1, <1>2, <1>3
<1>5. \A ssh \in BOOLEAN : \A j \in OpenTask(ssh) : Light(j)
  BY <1>2, OpenIsLight
<1>6. \E new : Lightly({}, new)
  <2>1. CASE UnlockVault \/ Refresh \/ Refused
    <3>1. PICK new : Post(new) /\ \A j \in new : Light(j)
      BY <1>4, <2>1 DEF UnlockVault, Refresh, Refused
    <3> QED
      BY <3>1, PostLightly
  <2>2. ASSUME NEW ssh \in BOOLEAN, OpenTerminal(ssh) PROVE \E new : Lightly({}, new)
    <3>1. Post(OpenTask(ssh)) \/ UNCHANGED tasks
      BY <2>2 DEF OpenTerminal
    <3> QED
      BY <1>5, <3>1, PostLightly, NoneLightly
  <2> QED
    BY <2>1, <2>2
<1>7. /\ UNCHANGED <<tab, client, libVars, daemonVars>>
      /\ StateTypes'
  <2>1. CASE UnlockVault \/ Refresh \/ Refused
    BY <1>2, <2>1 DEF UnlockVault, Refresh, Refused, StateTypes, guiVars, libVars, daemonVars
  <2>2. ASSUME NEW ssh \in BOOLEAN, OpenTerminal(ssh)
        PROVE  UNCHANGED <<tab, client, libVars, daemonVars>> /\ StateTypes'
    BY <1>2, <2>2 DEF OpenTerminal, StateTypes, libVars, daemonVars
  <2> QED
    BY <2>1, <2>2
<1> QED
  BY <1>6, <1>7, IdleStep DEF libVars, daemonVars

LEMMA WorldKeeps ==
  ASSUME TabsInv, DaemonStarts \/ LockedElsewhere \/ Cool
  PROVE  TabsInv'
<1>1. UNCHANGED <<tab, tasks, stream, registry, shells, alive, subs, fed>>
  BY DEF DaemonStarts, LockedElsewhere, Cool, guiVars, libVars, daemonVars
<1>2. StateTypes'
  BY DEF TabsInv, StateTypes, DaemonStarts, LockedElsewhere, Cool, guiVars, libVars, daemonVars
<1> QED
  BY <1>1, <1>2, NoneLightly, IdleStep

-----------------------------------------------------------------------------
(* Streams, receivers and connections.                                     *)

StreamRecords == [sid : Sessions \cup {0}, c : Clients \cup {0},
                  st : {"none", "new", "on", "cut", "ended", "deaf"}]

LEMMA RestreamKeeps ==
  ASSUME TabsInv, NEW str \in [Tabs -> StreamRecords], Restream(str),
         tab' \in [Tabs -> [sid : Sessions \cup {0}, ssh : BOOLEAN, closed : BOOLEAN]],
         client' \in Clients \cup {0}
  PROVE  /\ stream' \in [Tabs -> StreamRecords]
         /\ \A t \in Tabs : stream'[t].sid \in {0, tab'[t].sid}
<1>1. stream' = [t \in Tabs |->
        IF tab'[t].sid = 0 \/ client' = 0 THEN NoStream
        ELSE IF str[t].sid = tab'[t].sid /\ str[t].c = client' THEN str[t]
        ELSE [sid |-> tab'[t].sid, c |-> client', st |-> "new"]]
  BY DEF Restream
<1>2. ASSUME NEW t \in Tabs
      PROVE  stream'[t] \in StreamRecords /\ stream'[t].sid \in {0, tab'[t].sid}
  <2>1. NoStream \in StreamRecords /\ NoStream.sid = 0
    BY DEF NoStream, StreamRecords
  <2>2. tab'[t].sid \in Sessions \cup {0} /\ str[t] \in StreamRecords
    OBVIOUS
  <2>3. client' # 0 => [sid |-> tab'[t].sid, c |-> client', st |-> "new"] \in StreamRecords
    BY <2>2 DEF StreamRecords
  <2> QED
    BY <1>1, <2>1, <2>2, <2>3
<1> QED
  BY <1>1, <1>2

LEMMA CutKeeps ==
  ASSUME TabsInv, NEW c, NEW sids
  PROVE  /\ Cut(c, sids) \in [Tabs -> StreamRecords]
         /\ \A t \in Tabs : Cut(c, sids)[t].sid = stream[t].sid
<1>1. stream \in [Tabs -> StreamRecords]
  BY DEF TabsInv, StateTypes, StreamRecords
<1>2. ASSUME NEW t \in Tabs
      PROVE  /\ [stream[t] EXCEPT !.st = "cut"] \in StreamRecords
             /\ [stream[t] EXCEPT !.st = "cut"].sid = stream[t].sid
  BY <1>1 DEF StreamRecords
<1> QED
  BY <1>1, <1>2 DEF Cut

Registries == [Clients -> [Sessions -> {"none", "prepared", "taken"}]]

LEMMA UnregisteredKeeps ==
  ASSUME TabsInv, NEW c, NEW sids
  PROVE  /\ Unregistered(c, sids) \in Registries
         /\ \A x \in Clients, s \in Sessions :
              Unregistered(c, sids)[x][s] = "taken" => registry[x][s] = "taken"
BY DEF TabsInv, StateTypes, Registries, Unregistered

LEMMA PreparedKeeps ==
  ASSUME TabsInv, NEW c \in Clients, NEW s \in Sessions
  PROVE  /\ Prepared(c, s) \in Registries
         /\ \A x \in Clients, y \in Sessions :
              Prepared(c, s)[x][y] = "taken" => registry[x][y] = "taken"
         /\ registry[c][s] # "taken" => Prepared(c, s)[c][s] = "prepared"
BY DEF TabsInv, StateTypes, Registries, Prepared

LEMMA SocketsEndKeeps ==
  ASSUME TabsInv, NEW cs, SocketsEnd(cs)
  PROVE  /\ alive' = alive \ cs
         /\ subs' \subseteq alive' \X Sessions /\ fed' \subseteq subs'
         /\ registry' \in Registries /\ stream' \in [Tabs -> StreamRecords]
         /\ \A t \in Tabs : stream'[t].sid = stream[t].sid
         /\ \A c \in alive', s \in Sessions : /\ <<c, s>> \in subs => <<c, s>> \in subs'
                                              /\ <<c, s>> \in fed => <<c, s>> \in fed'
         /\ \A c \in Clients, s \in Sessions : registry'[c][s] = "taken" => registry[c][s] = "taken"
<1>1. stream \in [Tabs -> StreamRecords] /\ registry \in Registries
  BY DEF TabsInv, StateTypes, StreamRecords, Registries
<1>2. ASSUME NEW t \in Tabs
      PROVE  stream'[t] \in StreamRecords /\ stream'[t].sid = stream[t].sid
  <2>1. stream'[t] \in {stream[t], [stream[t] EXCEPT !.st = "cut"]}
    BY DEF SocketsEnd
  <2>2. stream[t] \in StreamRecords
    BY <1>1
  <2> QED
    BY <2>1, <2>2 DEF StreamRecords
<1>3. stream' \in [Tabs -> StreamRecords]
  BY <1>2 DEF SocketsEnd
<1>4. /\ registry' \in Registries
      /\ \A c \in Clients, s \in Sessions : registry'[c][s] = "taken" => registry[c][s] = "taken"
  BY <1>1 DEF SocketsEnd, Registries
<1>5. /\ alive' = alive \ cs
      /\ subs' = {x \in subs : x[1] \notin cs} /\ fed' = {x \in fed : x[1] \notin cs}
      /\ subs \subseteq alive \X Sessions /\ fed \subseteq subs
  BY DEF SocketsEnd, TabsInv, StateTypes
<1>6. subs' \subseteq alive' \X Sessions /\ fed' \subseteq subs'
  BY <1>5
<1>7. \A c \in alive', s \in Sessions : /\ <<c, s>> \in subs => <<c, s>> \in subs'
                                        /\ <<c, s>> \in fed => <<c, s>> \in fed'
  BY <1>5
<1> QED
  BY <1>2, <1>3, <1>4, <1>5, <1>6, <1>7

-----------------------------------------------------------------------------
(* Steps that bring no session.                                            *)

LEMMA StreamStartsKeeps ==
  ASSUME TabsInv, NEW t \in Tabs, StreamStarts(t)
  PROVE  TabsInv'
<1>1. stream \in [Tabs -> StreamRecords] /\ registry \in Registries
  BY DEF TabsInv, StateTypes, StreamRecords, Registries
<1>2. UNCHANGED <<guiVars, tasks, daemonVars>>
  BY DEF StreamStarts
<1>3. /\ stream' \in [Tabs -> StreamRecords]
      /\ \A u \in Tabs : stream'[u].sid = stream[u].sid
  <2>1. \E st \in {"on", "deaf"} : stream' = [stream EXCEPT ![t].st = st]
    BY DEF StreamStarts
  <2>2. PICK st \in {"on", "deaf"} : stream' = [stream EXCEPT ![t].st = st]
    BY <2>1
  <2>3. [stream[t] EXCEPT !.st = st] \in StreamRecords
    BY <1>1 DEF StreamRecords
  <2>4. [stream[t] EXCEPT !.st = st].sid = stream[t].sid
    BY <1>1 DEF StreamRecords
  <2> QED
    BY <1>1, <2>2, <2>3, <2>4
<1>4. /\ registry' \in Registries
      /\ \A c \in Clients, s \in Sessions :
           registry'[c][s] = "taken" => registry[c][s] = "taken" \/ s = stream[t].sid
  <2>1. \/ registry' = registry
        \/ registry' = [registry EXCEPT ![stream[t].c][stream[t].sid] = "taken"]
    BY DEF StreamStarts
  <2> QED
    BY <1>1, <2>1 DEF Registries
<1>5. stream[t].sid # 0 => stream[t].sid \in Shown(tab)
  BY DEF TabsInv, PlacesAgree, Shown, Open
<1>6. Kept
  <2>1. \A s \in Sessions : s # 0
    BY DEF Sessions
  <2> QED
    BY <1>2, <1>4, <1>5, <2>1 DEF Kept, daemonVars
<1>7. StateTypes' /\ PlacesAgree'
  BY <1>2, <1>3, <1>4
     DEF TabsInv, StateTypes, PlacesAgree, StreamRecords, Registries, guiVars, daemonVars
<1> QED
  BY <1>2, <1>6, <1>7, NoneLightly, LightStep DEF guiVars

LEMMA StreamEndsKeeps ==
  ASSUME TabsInv, NEW t \in Tabs, StreamEnds(t)
  PROVE  TabsInv'
<1>1. stream \in [Tabs -> StreamRecords]
  BY DEF TabsInv, StateTypes, StreamRecords
<1>2. /\ UNCHANGED <<guiVars, registry, daemonVars>>
      /\ stream' = [stream EXCEPT ![t].st = "ended"]
      /\ Post({[Task("gone", 0) EXCEPT !.sid = stream[t].sid]})
  BY DEF StreamEnds
<1>3. /\ stream' \in [Tabs -> StreamRecords]
      /\ \A u \in Tabs : stream'[u].sid = stream[u].sid
  <2>1. [stream[t] EXCEPT !.st = "ended"] \in StreamRecords
    BY <1>1 DEF StreamRecords
  <2>2. [stream[t] EXCEPT !.st = "ended"].sid = stream[t].sid
    BY <1>1 DEF StreamRecords
  <2> QED
    BY <1>1, <1>2, <2>1, <2>2
<1>4. Light([Task("gone", 0) EXCEPT !.sid = stream[t].sid])
  <2>1. stream[t].sid \in Sessions \cup {0}
    BY <1>1 DEF StreamRecords
  <2>2. Plain([Task("gone", 0) EXCEPT !.sid = stream[t].sid])
    BY <2>1 DEF Plain, Task, TaskRecords, SessionRecords, Steps, MessageKinds, Restoring
  <2> QED
    BY <2>2, PlainIsLight
<1>5. Lightly({}, {[Task("gone", 0) EXCEPT !.sid = stream[t].sid]})
  BY <1>2, <1>4, PostLightly
<1>6. Kept
  BY <1>2 DEF Kept, daemonVars
<1>7. StateTypes' /\ PlacesAgree' /\ tab' = tab
  BY <1>2, <1>3 DEF TabsInv, StateTypes, PlacesAgree, StreamRecords, guiVars, daemonVars
<1> QED
  BY <1>5, <1>6, <1>7, LightStep

LEMMA SocketsKeep ==
  ASSUME TabsInv, DaemonDies \/ \E c \in Clients : ConnectionBreaks(c)
  PROVE  TabsInv'
<1>1. PICK cs : SocketsEnd(cs)
  BY DEF DaemonDies, ConnectionBreaks
<1>2. /\ UNCHANGED <<guiVars, tasks, locked>>
      /\ up' \in {up, FALSE} /\ shells' \subseteq shells
  BY DEF DaemonDies, ConnectionBreaks
<1>3. Kept
  BY <1>1, <1>2, SocketsEndKeeps DEF Kept, TabsInv, StateTypes
<1>4. StateTypes' /\ PlacesAgree' /\ tab' = tab
  BY <1>1, <1>2, SocketsEndKeeps
     DEF TabsInv, StateTypes, PlacesAgree, StreamRecords, Registries, guiVars
<1> QED
  BY <1>2, <1>3, <1>4, NoneLightly, LightStep

LEMMA ConnectKeeps ==
  ASSUME TabsInv, NEW k \in Running, Connect(k)
  PROVE  TabsInv'
<1>1. \A kind \in {"reconnectFailed", "wserror", "connected"}, c \in Clients \cup {0} :
        Light(Task(kind, c))
  BY TaskIsLight DEF MessageKinds, Restoring
<1>2. UNCHANGED <<guiVars, stream, up, locked, shells>>
  BY DEF Connect
<1>3. CASE ~up
  <2>1. \E kind \in {"reconnectFailed", "wserror"} : Become(k, {Task(kind, 0)})
    BY <1>3 DEF Connect
  <2>2. \E new : Lightly({k}, new)
    BY <1>1, <2>1, BecomeLightly
  <2>3. UNCHANGED <<alive, registry, subs, fed>>
    BY <1>3 DEF Connect
  <2>4. StateTypes'
    BY <1>2, <2>3 DEF TabsInv, StateTypes, guiVars
  <2> QED
    BY <1>2, <2>2, <2>3, <2>4, IdleStep DEF guiVars
<1>4. CASE up
  <2> DEFINE c == OneOf(Clients \ UsedClients)
  <2>1. Clients \ UsedClients # {}
    BY <1>4 DEF Connect
  <2>2. c \in Clients \ UsedClients
    BY <2>1 DEF OneOf
  <2>3. /\ alive' = alive \cup {c}
        /\ registry' = [registry EXCEPT ![c] = [s \in Sessions |-> "none"]]
        /\ subs' = {x \in subs : x[1] # c}
        /\ fed' = {x \in fed : x[1] # c}
        /\ Become(k, {Task("connected", c)})
    BY <1>4 DEF Connect
  <2> HIDE DEF c
  <2>4. Lightly({k}, {Task("connected", c)})
    BY <1>1, <2>2, <2>3, BecomeLightly
  <2>5. registry \in Registries /\ subs \subseteq alive \X Sessions /\ fed \subseteq subs
    BY DEF TabsInv, StateTypes, Registries
  <2>6. registry' \in Registries
        /\ \A x \in Clients, s \in Sessions : registry'[x][s] = "taken" => registry[x][s] = "taken"
    BY <2>2, <2>3, <2>5 DEF Registries
  <2>7. subs' \subseteq alive' \X Sessions /\ fed' \subseteq subs'
    BY <2>3, <2>5
  <2>8. Kept
    BY <1>2, <2>2, <2>3, <2>6 DEF Kept
  <2>9. StateTypes' /\ PlacesAgree' /\ tab' = tab
    BY <1>2, <2>2, <2>3, <2>6, <2>7 DEF TabsInv, StateTypes, PlacesAgree, Registries, guiVars
  <2> QED
    BY <2>4, <2>8, <2>9, LightStep
<1> QED
  BY <1>3, <1>4 DEF TabsInv, StateTypes

LEMMA CloseQueuedKeeps ==
  ASSUME TabsInv, NEW k \in Running, CloseQueued(k)
  PROVE  TabsInv'
<1>1. UNCHANGED <<guiVars, libVars, up, locked, alive>>
  BY DEF CloseQueued
<1>2. \E new : Lightly({k}, new)
  <2>1. CASE Become(k, {})
    BY <2>1, BecomeLightly
  <2>2. CASE k.kind = "lock" /\ Become(k, {[k EXCEPT !.at = "lock", !.todo = {}]})
    <3>1. k \in TaskRecords /\ k.done = {}
      BY <2>2 DEF TabsInv, TasksFit, Fits, Restoring
    <3>2. Plain([k EXCEPT !.at = "lock", !.todo = {}])
      BY <2>2, <3>1 DEF Plain, TaskRecords, Steps, Restoring
    <3> QED
      BY <2>2, <3>2, PlainIsLight, BecomeLightly
  <2> QED
    BY <2>1, <2>2 DEF CloseQueued
<1>3. subs \subseteq alive \X Sessions /\ fed \subseteq subs /\ shells \subseteq Sessions
  BY DEF TabsInv, StateTypes
<1>4. /\ shells' \subseteq shells
      /\ subs' \subseteq alive \X Sessions /\ fed' \subseteq subs'
      /\ \A c \in alive, s \in shells' : /\ <<c, s>> \in subs => <<c, s>> \in subs'
                                         /\ <<c, s>> \in fed => <<c, s>> \in fed'
  <2>1. CASE k.c \in alive
    <3>1. /\ shells' \subseteq shells
          /\ subs' = {x \in subs : x[2] \in shells'}
          /\ fed' = fed \cap subs'
      BY <2>1 DEF CloseQueued
    <3> QED
      BY <1>3, <3>1
  <2>2. CASE k.c \notin alive
    <3>1. UNCHANGED <<shells, subs, fed>>
      BY <2>2 DEF CloseQueued
    <3> QED
      BY <1>3, <3>1
  <2> QED
    BY <2>1, <2>2
<1>5. Kept
  BY <1>1, <1>4 DEF Kept, libVars
<1>6. StateTypes' /\ PlacesAgree' /\ tab' = tab
  BY <1>1, <1>3, <1>4 DEF TabsInv, StateTypes, PlacesAgree, guiVars, libVars
<1> QED
  BY <1>2, <1>5, <1>6, LightStep

-----------------------------------------------------------------------------
(* Steps that close tabs or start their streams anew.                      *)

PlaceRecords == [sid : Sessions \cup {0}, ssh : BOOLEAN, closed : BOOLEAN]

\* Every tab is closed, none goes.
AllClosed == [t \in Tabs |-> [tab[t] EXCEPT !.closed = tab[t].sid # 0]]

LEMMA AllClosedKeeps ==
  ASSUME TabsInv
  PROVE  /\ AllClosed \in [Tabs -> PlaceRecords]
         /\ \A t \in Tabs : /\ AllClosed[t].sid = tab[t].sid
                            /\ AllClosed[t].sid = 0 => ~AllClosed[t].closed
<1>1. tab \in [Tabs -> PlaceRecords]
  BY DEF TabsInv, StateTypes, PlaceRecords
<1>2. ASSUME NEW t \in Tabs
      PROVE  /\ [tab[t] EXCEPT !.closed = tab[t].sid # 0] \in PlaceRecords
             /\ [tab[t] EXCEPT !.closed = tab[t].sid # 0].sid = tab[t].sid
             /\ [tab[t] EXCEPT !.closed = tab[t].sid # 0].closed = (tab[t].sid # 0)
  BY <1>1 DEF PlaceRecords
<1> QED
  BY <1>2 DEF AllClosed

LEMMA WsConnectedKeeps ==
  ASSUME TabsInv, NEW k \in Running, WsConnected(k)
  PROVE  TabsInv'
<1>1. k.c \in Clients \cup {0}
  BY DEF TabsInv, TasksFit, Fits, TaskRecords
<1>2. Light(Task("status", k.c))
  BY <1>1, TaskIsLight DEF TaskKinds, Restoring
<1>3. Lightly({k}, {Task("status", k.c)})
  BY <1>2, BecomeLightly DEF WsConnected
<1>4. /\ tab' = tab /\ client' = k.c /\ Restream(stream)
      /\ UNCHANGED <<screen, guiLocked, pending, resume, opening, cooling, wanted, first,
                     registry, daemonVars>>
      /\ inFlight' = (inFlight /\ pending)
  BY DEF WsConnected
<1>5. /\ stream \in [Tabs -> StreamRecords]
      /\ tab \in [Tabs -> [sid : Sessions \cup {0}, ssh : BOOLEAN, closed : BOOLEAN]]
  BY DEF TabsInv, StateTypes, StreamRecords
<1>6. /\ stream' \in [Tabs -> StreamRecords]
      /\ \A t \in Tabs : stream'[t].sid \in {0, tab'[t].sid}
  BY <1>1, <1>4, <1>5, RestreamKeeps
<1>7. Kept
  BY <1>4 DEF Kept, daemonVars
<1>8. StateTypes' /\ PlacesAgree'
  BY <1>1, <1>4, <1>6 DEF TabsInv, StateTypes, PlacesAgree, StreamRecords, daemonVars
<1> QED
  BY <1>3, <1>4, <1>7, <1>8, LightStep

LEMMA TerminalDisconnectedKeeps ==
  ASSUME TabsInv, NEW k \in Running, TerminalDisconnected(k)
  PROVE  TabsInv'
<1>1. Light([Task("connect", 0) EXCEPT !.flag = TRUE])
  <2>1. Plain([Task("connect", 0) EXCEPT !.flag = TRUE])
    BY DEF Plain, Task, TaskRecords, SessionRecords, Steps, TaskKinds, Restoring
  <2> QED
    BY <2>1, PlainIsLight
<1>2. \E new : Lightly({k}, new)
  <2> DEFINE j == [Task("connect", 0) EXCEPT !.flag = TRUE]
  <2>1. PICK new \in {{}, {j}} : Become(k, new)
    <3>1. Become(k, {}) \/ Become(k, IF cooling THEN {} ELSE {j})
      BY DEF TerminalDisconnected
    <3> HIDE DEF j
    <3> QED
      BY <3>1
  <2>2. \A i \in new : Light(i)
    BY <1>1, <2>1
  <2> QED
    BY <2>1, <2>2, BecomeLightly
<1>3. /\ UNCHANGED <<screen, guiLocked, client, opening, wanted, first, libVars, daemonVars>>
      /\ tab' \in {tab, AllClosed}
      /\ {pending', resume', inFlight', cooling'} \subseteq BOOLEAN
  BY DEF TerminalDisconnected, AllClosed, TabsInv, StateTypes
<1>4. /\ tab' \in [Tabs -> PlaceRecords]
      /\ \A t \in Tabs : tab'[t].sid = tab[t].sid /\ (tab'[t].sid = 0 => ~tab'[t].closed)
  BY <1>3, AllClosedKeeps DEF TabsInv, StateTypes, PlacesAgree, PlaceRecords
<1>5. Kept
  BY <1>3 DEF Kept, libVars, daemonVars
<1>6. StateTypes' /\ PlacesAgree'
  BY <1>3, <1>4 DEF TabsInv, StateTypes, PlacesAgree, PlaceRecords, libVars, daemonVars
<1> QED
  BY <1>2, <1>4, <1>5, <1>6, LightStep

LEMMA CloseTabKeeps ==
  ASSUME TabsInv, NEW t \in Tabs, CloseTab(t)
  PROVE  TabsInv'
<1> DEFINE x == [sid |-> tab[t].sid, ssh |-> tab[t].ssh]
           j == [Task("close", client) EXCEPT !.todo = {x}]
<1>1. /\ tab \in [Tabs -> PlaceRecords] /\ stream \in [Tabs -> StreamRecords]
      /\ client \in Clients \cup {0}
  BY DEF TabsInv, StateTypes, PlaceRecords, StreamRecords
<1>2. Light(j)
  <2>1. x \in SessionRecords
    BY <1>1 DEF PlaceRecords, SessionRecords
  <2> HIDE DEF x
  <2>2. Plain(j)
    BY <1>1, <2>1 DEF Plain, Task, TaskRecords, SessionRecords, Steps, TaskKinds, Restoring
  <2> QED
    BY <2>2, PlainIsLight
<1>3. Post({j})
  BY DEF CloseTab
<1>4. /\ UNCHANGED <<screen, guiLocked, client, pending, resume, inFlight, opening, cooling,
                     wanted, first, daemonVars>>
      /\ registry' = Unregistered(client, {tab[t].sid})
      /\ tab' = [tab EXCEPT ![t] = NoTab]
      /\ stream' = [stream EXCEPT ![t] = NoStream]
  BY DEF CloseTab
<1> HIDE DEF j, x
<1>5. Lightly({}, {j})
  BY <1>2, <1>3, PostLightly
<1>6. /\ tab' \in [Tabs -> PlaceRecords] /\ stream' \in [Tabs -> StreamRecords]
      /\ registry' \in Registries
  <2>1. NoTab \in PlaceRecords /\ NoStream \in StreamRecords
    BY DEF NoTab, NoStream, PlaceRecords, StreamRecords
  <2> QED
    BY <1>1, <1>4, <2>1, UnregisteredKeeps
<1>7. \A u \in Tabs : /\ tab'[u].sid \in {0, tab[u].sid}
                      /\ tab'[u].sid = 0 => ~tab'[u].closed
                      /\ stream'[u].sid \in {0, tab'[u].sid}
  <2>1. NoTab.sid = 0 /\ ~NoTab.closed /\ NoStream.sid = 0
    BY DEF NoTab, NoStream
  <2> QED
    BY <1>1, <1>4, <2>1 DEF TabsInv, PlacesAgree
<1>8. Kept
  BY <1>4, UnregisteredKeeps DEF Kept, daemonVars
<1>9. StateTypes' /\ PlacesAgree'
  BY <1>4, <1>6, <1>7
     DEF TabsInv, StateTypes, PlacesAgree, PlaceRecords, StreamRecords, Registries, daemonVars
<1> QED
  BY <1>5, <1>7, <1>8, <1>9, LightStep

LEMMA LockVaultKeeps ==
  ASSUME TabsInv, LockVault
  PROVE  TabsInv'
<1> DEFINE S == {[sid |-> tab[t].sid, ssh |-> tab[t].ssh] : t \in Open(tab)}
           j == [Task("lock", client) EXCEPT !.at = "close", !.todo = S]
<1>1. CASE pending
  BY <1>1, RetryKeeps DEF LockVault
<1>2. CASE ~pending
  <2>1. /\ UNCHANGED <<screen, guiLocked, client, opening, wanted, first, daemonVars>>
        /\ registry' = Unregistered(client, Shown(tab))
        /\ tab' = AllClosed
        /\ stream' = Cut(client, Shown(tab))
        /\ resume' = FALSE /\ cooling' = FALSE /\ inFlight' = FALSE /\ pending' = (Open(tab) # {})
        /\ Post({j})
    BY <1>2 DEF LockVault, AllClosed
  <2>2. Light(j)
    <3>1. S \subseteq SessionRecords /\ client \in Clients \cup {0}
      BY DEF SessionRecords, TabsInv, StateTypes, Open
    <3> HIDE DEF S
    <3>2. Plain(j)
      BY <3>1 DEF Plain, Task, TaskRecords, SessionRecords, Steps, TaskKinds, Restoring
    <3> QED
      BY <3>2, PlainIsLight
  <2> HIDE DEF j, S
  <2>3. Lightly({}, {j})
    BY <2>1, <2>2, PostLightly
  <2>4. Kept
    BY <2>1, UnregisteredKeeps DEF Kept, daemonVars
  <2>5. /\ registry' \in Registries /\ stream' \in [Tabs -> StreamRecords]
        /\ tab' \in [Tabs -> PlaceRecords]
        /\ \A t \in Tabs : /\ tab'[t].sid = tab[t].sid /\ (tab'[t].sid = 0 => ~tab'[t].closed)
                           /\ stream'[t].sid = stream[t].sid
    BY <2>1, AllClosedKeeps, CutKeeps, UnregisteredKeeps
  <2>6. StateTypes' /\ PlacesAgree'
    BY <2>1, <2>5
       DEF TabsInv, StateTypes, PlacesAgree, PlaceRecords, StreamRecords, Registries, daemonVars
  <2> QED
    BY <2>3, <2>4, <2>5, <2>6, LightStep
<1> QED
  BY <1>1, <1>2 DEF TabsInv, StateTypes

LEMMA RelaunchKeeps ==
  ASSUME TabsInv, Relaunch
  PROVE  TabsInv'
<1>1. Light(Task("connect", 0))
  BY TaskIsLight DEF TaskKinds, Restoring
<1>2. Lightly({}, {Task("connect", 0)})
  <2>1. tasks' = [e \in {Task("connect", 0)} |-> 1]
    BY DEF Relaunch, SetToBag
  <2>2. DOMAIN tasks' = {Task("connect", 0)} /\ \A e \in DOMAIN tasks' : tasks'[e] = 1
    BY <2>1
  <2> QED
    BY <1>1, <2>2 DEF Lightly, Moved
<1>3. /\ UNCHANGED <<up, locked, shells>>
      /\ screen' = "failure" /\ guiLocked' = TRUE /\ client' = 0 /\ tab' = AllClosed
      /\ pending' = (Open(tab) # {}) /\ resume' = FALSE /\ inFlight' = FALSE
      /\ opening' = FALSE /\ cooling' = FALSE /\ wanted' = FALSE /\ first' = TRUE
      /\ stream' = [t \in Tabs |-> NoStream]
      /\ registry' = [c \in Clients |-> [s \in Sessions |-> "none"]]
      /\ alive' = {} /\ subs' = {} /\ fed' = {}
  BY DEF Relaunch, AllClosed
<1>4. Kept
  BY <1>3 DEF Kept
<1>5. /\ registry' \in Registries /\ stream' \in [Tabs -> StreamRecords]
      /\ \A t \in Tabs : stream'[t].sid = 0
  <2>1. NoStream \in StreamRecords /\ NoStream.sid = 0
    BY DEF NoStream, StreamRecords
  <2> QED
    BY <1>3, <2>1 DEF Registries
<1>6. /\ tab' \in [Tabs -> PlaceRecords]
      /\ \A t \in Tabs : tab'[t].sid = tab[t].sid /\ (tab'[t].sid = 0 => ~tab'[t].closed)
  BY <1>3, AllClosedKeeps
<1>7. StateTypes' /\ PlacesAgree'
  BY <1>3, <1>5, <1>6 DEF TabsInv, StateTypes, PlacesAgree, PlaceRecords, StreamRecords, Registries
<1> QED
  BY <1>2, <1>4, <1>6, <1>7, LightStep

-----------------------------------------------------------------------------
(* Steps that open sessions and subscribe to them.                         *)

\* A task becomes one other, which may bring a fresh session.
LEMMA OneStep ==
  ASSUME TabsInv, NEW k \in Running, NEW j, NEW F, Become(k, {j}),
         F \cap UsedSessions = {}, Coming(j) \subseteq F \cup Coming(k),
         Fits(j), Meant(j, shells', alive', subs', fed', registry'),
         tab' = tab, StateTypes', PlacesAgree', Kept
  PROVE  TabsInv'
<1>1. Moved({k}, {j})
  BY BecomeMoves DEF TabsInv
<1>2. Brought({k}) = Coming(k)
  BY DEF Brought
<1>3. Shown(tab) \subseteq UsedSessions
  BY DEF Shown, Open, UsedSessions
<1>4. Coming(k) \cap Shown(tab) = {}
  BY DEF TabsInv, OneTabPerSession
<1>5. \A t, u \in Open(tab) : t # u => tab[t].sid # tab[u].sid
  BY DEF TabsInv, OneTabPerSession
<1>6. Hands({k}, {j}, F)
  BY <1>1, <1>2, <1>3, <1>4, <1>5 DEF Hands
<1>7. {k} \in SUBSET Running
  OBVIOUS
<1> QED
  BY <1>6, <1>7, StepKeeps

\* What OpenSession does to the rest, for the session it opens, if it does.
LEMMA OpenSessionWorld ==
  ASSUME TabsInv, NEW k, NEW ssh, NEW next, NEW failed, OpenSession(k, ssh, next, failed),
         UNCHANGED <<guiVars, up, locked, alive>>
  PROVE  /\ tab' = tab /\ StateTypes' /\ PlacesAgree' /\ Kept
         /\ \/ Become(k, {failed})
            \/ \E s \in Sessions \ UsedSessions :
                 /\ Become(k, {[next EXCEPT !.sid = s]})
                 /\ shells' = shells \cup {s} /\ UNCHANGED <<subs, fed>>
                 /\ \A c \in Clients : registry'[c][s] = "none"
<1>1. CASE k.c \in alive /\ (ssh => ~locked)
  <2> DEFINE s == OneOf(Sessions \ UsedSessions)
  <2>1. s \in Sessions \ UsedSessions
    BY <1>1 DEF OpenSession, OneOf
  <2>2. /\ shells' = shells \cup {s}
        /\ registry' = [c \in Clients |-> [registry[c] EXCEPT ![s] = "none"]]
        /\ Become(k, {[next EXCEPT !.sid = s]})
        /\ UNCHANGED <<subs, fed, stream>>
    BY <1>1 DEF OpenSession
  <2> HIDE DEF s
  <2>3. registry \in Registries
    BY DEF TabsInv, StateTypes, Registries
  <2>4. /\ registry' \in Registries
        /\ \A c \in Clients : registry'[c][s] = "none"
        /\ \A c \in Clients, x \in Sessions : registry'[c][x] = "taken" => registry[c][x] = "taken"
    BY <2>1, <2>2, <2>3 DEF Registries
  <2>5. Kept
    BY <2>1, <2>2, <2>4 DEF Kept
  <2>6. tab' = tab /\ StateTypes' /\ PlacesAgree'
    BY <2>1, <2>2, <2>4 DEF TabsInv, StateTypes, PlacesAgree, Registries, guiVars
  <2> QED
    BY <2>1, <2>2, <2>4, <2>5, <2>6
<1>2. CASE ~(k.c \in alive /\ (ssh => ~locked))
  <2>1. Become(k, {failed}) /\ UNCHANGED <<shells, subs, fed, registry, stream>>
    BY <1>2 DEF OpenSession
  <2>2. Kept
    BY <2>1 DEF Kept
  <2>3. tab' = tab /\ StateTypes' /\ PlacesAgree'
    BY <2>1 DEF TabsInv, StateTypes, PlacesAgree, guiVars
  <2> QED
    BY <2>1, <2>2, <2>3
<1> QED
  BY <1>1, <1>2

\* And SubscribeSession, which makes the next task or the one for a failure.
LEMMA SubscribeWorld ==
  ASSUME TabsInv, NEW k, NEW s \in Sessions, NEW next, NEW failed,
         SubscribeSession(k, s, next, failed), UNCHANGED <<guiVars, up, locked, alive>>
  PROVE  /\ tab' = tab /\ StateTypes' /\ PlacesAgree' /\ Kept /\ shells' = shells
         /\ \/ /\ Become(k, {next})
               /\ k.c \in alive /\ s \in shells
               /\ <<k.c, s>> \in subs'
               /\ registry[k.c][s] # "taken" => <<k.c, s>> \in fed'
            \/ /\ Become(k, {failed})
               /\ ~(k.c \in alive /\ s \in shells)
<1>1. CASE k.c \in alive /\ s \in shells
  <2>1. Subscribed(k.c, s) /\ Become(k, {next}) /\ UNCHANGED <<shells, stream>>
    BY <1>1 DEF SubscribeSession
  <2>2. k.c \in Clients /\ subs \subseteq alive \X Sessions /\ fed \subseteq subs
    BY <1>1 DEF TabsInv, StateTypes
  <2>3. /\ registry' = Prepared(k.c, s)
        /\ subs' = subs \cup {<<k.c, s>>}
        /\ fed' = IF Heard(registry', k.c, s) THEN fed \cup {<<k.c, s>>} ELSE fed
    BY <2>1 DEF Subscribed
  <2>4. registry[k.c][s] # "taken" => <<k.c, s>> \in fed'
    <3>1. registry[k.c][s] # "taken" => registry'[k.c][s] = "prepared"
      BY <2>2, <2>3, PreparedKeeps
    <3> QED
      BY <2>3, <3>1 DEF Heard
  <2>5. fed \subseteq fed' /\ fed' \subseteq subs' /\ subs' \subseteq alive \X Sessions
    BY <1>1, <2>2, <2>3
  <2>6. Kept
    BY <2>1, <2>2, <2>3, <2>5, PreparedKeeps DEF Kept
  <2>7. registry' \in Registries
    BY <2>2, <2>3, PreparedKeeps
  <2>8. tab' = tab /\ StateTypes' /\ PlacesAgree'
    BY <2>1, <2>5, <2>7 DEF TabsInv, StateTypes, PlacesAgree, Registries, guiVars
  <2> QED
    BY <1>1, <2>1, <2>3, <2>4, <2>6, <2>8
<1>2. CASE ~(k.c \in alive /\ s \in shells)
  <2>1. /\ registry' = Unregistered(k.c, {s})
        /\ stream' = Cut(k.c, {s})
        /\ Become(k, {failed})
        /\ UNCHANGED <<shells, subs, fed>>
    BY <1>2 DEF SubscribeSession
  <2>2. Kept
    BY <2>1, UnregisteredKeeps DEF Kept
  <2>3. tab' = tab /\ StateTypes' /\ PlacesAgree'
    BY <2>1, UnregisteredKeeps, CutKeeps
       DEF TabsInv, StateTypes, PlacesAgree, Registries, StreamRecords, guiVars
  <2> QED
    BY <1>2, <2>1, <2>2, <2>3
<1> QED
  BY <1>1, <1>2

LEMMA LightOne ==
  ASSUME TabsInv, NEW k \in Running, NEW j, Become(k, {j}), Light(j),
         tab' = tab, StateTypes', PlacesAgree', Kept
  PROVE  TabsInv'
<1>1. /\ Fits(j) /\ Coming(j) \subseteq {} \cup Coming(k)
      /\ Meant(j, shells', alive', subs', fed', registry')
  BY DEF Light
<1>2. {} \cap UsedSessions = {}
  OBVIOUS
<1> QED
  BY <1>1, <1>2, OneStep

LEMMA OpenAndSubscribeKeeps ==
  ASSUME TabsInv, NEW k \in Running, OpenAndSubscribe(k)
  PROVE  TabsInv'
<1>1. /\ Fits(k) /\ k \in TaskRecords /\ k.kind = "open" /\ k.done = {}
      /\ UNCHANGED <<guiVars, up, locked, alive>>
  BY DEF OpenAndSubscribe, TabsInv, TasksFit, Fits, Restoring
<1>2. Light(Task("setupError", 0))
  BY TaskIsLight DEF MessageKinds, Restoring
<1>3. CASE /\ k.at = "open"
           /\ OpenSession(k, k.flag, [k EXCEPT !.at = "subscribe"], Task("setupError", 0))
  <2>1. CASE Become(k, {Task("setupError", 0)})
    BY <1>1, <1>2, <1>3, <2>1, OpenSessionWorld, LightOne
  <2>2. ASSUME NEW s \in Sessions \ UsedSessions,
               Become(k, {[[k EXCEPT !.at = "subscribe"] EXCEPT !.sid = s]})
        PROVE  TabsInv'
    <3> DEFINE j == [[k EXCEPT !.at = "subscribe"] EXCEPT !.sid = s]
    <3>1. /\ j \in TaskRecords /\ j.kind = "open" /\ j.sid = s /\ j.done = {}
      BY <1>1 DEF TaskRecords, Steps
    <3> HIDE DEF j
    <3>2. Fits(j) /\ Coming(j) \subseteq {s} \cup Coming(k)
      BY <3>1 DEF Fits, Coming, Restoring, Sessions
    <3>3. Meant(j, shells', alive', subs', fed', registry')
      BY <3>1 DEF Meant, Restoring
    <3>4. {s} \cap UsedSessions = {}
      OBVIOUS
    <3>5. Become(k, {j})
      BY <2>2 DEF j
    <3> QED
      BY <1>1, <1>3, <3>2, <3>3, <3>4, <3>5, OpenSessionWorld, OneStep
  <2> QED
    BY <1>1, <1>3, <2>1, <2>2, OpenSessionWorld
<1>4. CASE /\ k.at = "subscribe"
           /\ SubscribeSession(k, k.sid,
                [Task("opened", 0) EXCEPT !.now = [sid |-> k.sid, ssh |-> k.flag]],
                Task("setupError", 0))
  <2> DEFINE j == [Task("opened", 0) EXCEPT !.now = [sid |-> k.sid, ssh |-> k.flag]]
  <2>1. k.sid \in Sessions /\ k.sid # 0 /\ k.flag \in BOOLEAN
    BY <1>1, <1>4 DEF Fits, TaskRecords
  <2>2. j \in TaskRecords /\ j.kind = "opened" /\ j.now.sid = k.sid /\ j.done = {}
    BY <2>1 DEF Task, TaskRecords, SessionRecords, Steps, MessageKinds
  <2>3. SubscribeSession(k, k.sid, j, Task("setupError", 0))
    BY <1>4
  <2> HIDE DEF j
  <2>4. Fits(j) /\ Coming(j) \subseteq {} \cup Coming(k)
    BY <1>1, <2>1, <2>2 DEF Fits, Coming, Restoring
  <2>5. Meant(j, shells', alive', subs', fed', registry')
    BY <2>2 DEF Meant, Restoring
  <2>6. /\ tab' = tab /\ StateTypes' /\ PlacesAgree' /\ Kept
        /\ Become(k, {j}) \/ Become(k, {Task("setupError", 0)})
    BY <1>1, <2>1, <2>3, SubscribeWorld
  <2>7. {} \cap UsedSessions = {}
    OBVIOUS
  <2> QED
    BY <1>2, <2>4, <2>5, <2>6, <2>7, OneStep, LightOne
<1> QED
  BY <1>3, <1>4 DEF OpenAndSubscribe

\* One session more is done of a restoration.
LEMMA MappingFits ==
  ASSUME NEW k, Fits(k), k.kind = "restore",
         NEW x \in SessionRecords, x.sid # 0, NEW s \in Sessions,
         s \notin Sids(k.todo \ {x}), \A m \in k.done : m.new # s
  PROVE  LET j == Mapping(k, x, s)
         IN  /\ Fits(j) /\ j.kind \in Restoring /\ j.c = k.c /\ j.at \in {"none", "subscribe"}
             /\ j.done = k.done \cup {[old |-> x.sid, new |-> s]}
             /\ Coming(j) \subseteq Coming(k) \cup {s}
             /\ s = x.sid => Coming(j) \subseteq Coming(k)
<1> DEFINE rest == k.todo \ {x}
           done == k.done \cup {[old |-> x.sid, new |-> s]}
           j == Mapping(k, x, s)
<1>1. /\ k \in TaskRecords /\ k.c # 0 /\ Separate(k)
      /\ k.todo \subseteq SessionRecords /\ k.done \subseteq [old : Sessions, new : Sessions]
      /\ k.c \in Clients \cup {0} /\ x.sid \in Sessions /\ s # 0
  BY DEF Fits, TaskRecords, Restoring, SessionRecords, Sessions
<1>2. j = IF rest = {} THEN [Task("restored", k.c) EXCEPT !.done = done]
          ELSE [Task("restore", k.c) EXCEPT !.at = "subscribe", !.todo = rest, !.done = done]
  BY DEF Mapping
<1>3. rest \subseteq SessionRecords /\ done \subseteq [old : Sessions, new : Sessions]
  BY <1>1
<1>4. /\ \A m, n \in done : m # n => m.new # n.new
      /\ \A m \in done : m.new \notin Sids(rest)
      /\ \A y, z \in rest : y.sid = z.sid => y = z
      /\ 0 \notin Sids(rest)
  BY <1>1 DEF Separate, Sids
<1> HIDE DEF rest, done, j
<1>5. /\ j.kind \in Restoring /\ j.c = k.c /\ j.at \in {"none", "subscribe"} /\ j.sid = 0
      /\ j.todo = rest /\ j.done = done
  BY <1>2 DEF Task, Restoring
<1>6. j \in TaskRecords
  BY <1>1, <1>2, <1>3 DEF Task, TaskRecords, SessionRecords, Steps, TaskKinds, MessageKinds
<1>7. Fits(j)
  BY <1>1, <1>4, <1>5, <1>6 DEF Fits, Separate, Restoring
<1>8. Coming(j) = {m.new : m \in {n \in done : n.new # n.old}}
  BY <1>5 DEF Coming, Restoring
<1>9. {m.new : m \in {n \in k.done : n.new # n.old}} \subseteq Coming(k)
  BY DEF Coming
<1>10. Coming(j) \subseteq Coming(k) \cup {s} /\ (s = x.sid => Coming(j) \subseteq Coming(k))
  BY <1>8, <1>9 DEF done
<1> QED
  BY <1>5, <1>7, <1>10 DEF j, done

\* What it found out for the session more.
LEMMA MappingMeant ==
  ASSUME NEW k, NEW j, NEW x, NEW s, NEW shl, NEW alv, NEW sb, NEW fd, NEW reg,
         Meant(k, shl, alv, sb, fd, reg), k.kind = "restore",
         j.kind \in Restoring, j.c = k.c, j.at \in {"none", "subscribe"},
         j.done = k.done \cup {[old |-> x.sid, new |-> s]},
         s # x.sid => x.sid \notin shl,
         <<k.c, s>> \in sb, s # x.sid => <<k.c, s>> \in fd
  PROVE  Meant(j, shl, alv, sb, fd, reg)
BY DEF Meant, Restoring

LEMMA RestoreSubscribesKeeps ==
  ASSUME TabsInv, NEW k \in Running, k.kind = "restore", RestoreSubscribes(k),
         UNCHANGED <<guiVars, up, locked, alive>>
  PROVE  TabsInv'
<1>1. Light(Task("reconnectFailed", 0))
  BY TaskIsLight DEF MessageKinds, Restoring
<1>2. /\ Fits(k) /\ k \in TaskRecords /\ k.at = "subscribe" /\ Separate(k) /\ k.c # 0
      /\ k.todo \subseteq SessionRecords
  BY DEF RestoreSubscribes, TabsInv, TasksFit, Fits, Restoring, TaskRecords
<1>3. PICK x \in k.todo :
        SubscribeSession(k, x.sid, Mapping(k, x, x.sid),
                         IF k.c \in alive THEN [k EXCEPT !.at = "open", !.now = x]
                         ELSE Task("reconnectFailed", 0))
  BY DEF RestoreSubscribes
<1>4. /\ x \in SessionRecords /\ x.sid # 0 /\ x.sid \in Sessions
      /\ x.sid \notin Sids(k.todo \ {x}) /\ \A m \in k.done : m.new # x.sid
  BY <1>2 DEF Separate, Sids, SessionRecords
<1> DEFINE good == Mapping(k, x, x.sid)
           bad  == IF k.c \in alive THEN [k EXCEPT !.at = "open", !.now = x]
                   ELSE Task("reconnectFailed", 0)
<1>5. SubscribeSession(k, x.sid, good, bad)
  BY <1>3
<1>6. /\ Fits(good) /\ good.kind \in Restoring /\ good.c = k.c /\ good.at \in {"none", "subscribe"}
      /\ good.done = k.done \cup {[old |-> x.sid, new |-> x.sid]}
      /\ Coming(good) \subseteq Coming(k)
  BY <1>2, <1>4, MappingFits
<1> HIDE DEF good, bad
<1>7. /\ tab' = tab /\ StateTypes' /\ PlacesAgree' /\ Kept /\ shells' = shells
      /\ \/ Become(k, {good}) /\ <<k.c, x.sid>> \in subs'
         \/ Become(k, {bad}) /\ ~(k.c \in alive /\ x.sid \in shells)
  BY <1>4, <1>5, SubscribeWorld
<1>8. Meant(k, shells', alive', subs', fed', registry')
  BY <1>7, KeptTasks
<1>9. {} \cap UsedSessions = {}
  OBVIOUS
<1>10. CASE Become(k, {good}) /\ <<k.c, x.sid>> \in subs'
  <2>1. Meant(good, shells', alive', subs', fed', registry')
    BY <1>6, <1>8, <1>10, MappingMeant
  <2>2. Coming(good) \subseteq {} \cup Coming(k)
    BY <1>6
  <2> QED
    BY <1>6, <1>7, <1>9, <1>10, <2>1, <2>2, OneStep
<1>11. CASE Become(k, {bad}) /\ ~(k.c \in alive /\ x.sid \in shells)
  <2>1. CASE k.c \notin alive
    BY <1>1, <1>7, <1>11, <2>1, LightOne DEF bad
  <2>2. CASE k.c \in alive
    <3>1. bad = [k EXCEPT !.at = "open", !.now = x] /\ x.sid \notin shells'
      BY <1>7, <1>11, <2>2 DEF bad
    <3>2. /\ bad \in TaskRecords /\ bad.kind = "restore" /\ bad.at = "open" /\ bad.now = x
          /\ bad.c = k.c /\ bad.sid = k.sid /\ bad.todo = k.todo /\ bad.done = k.done
      BY <1>2, <1>4, <3>1 DEF TaskRecords, Steps
    <3>3. Fits(bad)
      BY <1>2, <1>4, <3>2 DEF Fits, Separate, Restoring
    <3>4. Coming(bad) \subseteq {} \cup Coming(k)
      BY <3>2 DEF Coming
    <3>5. Meant(bad, shells', alive', subs', fed', registry')
      BY <1>8, <3>1, <3>2 DEF Meant, Restoring
    <3> QED
      BY <1>7, <1>9, <1>11, <3>3, <3>4, <3>5, OneStep
  <2> QED
    BY <2>1, <2>2
<1> QED
  BY <1>7, <1>10, <1>11

LEMMA RestoreOpensKeeps ==
  ASSUME TabsInv, NEW k \in Running, k.kind = "restore", RestoreOpens(k),
         UNCHANGED <<guiVars, up, locked, alive>>
  PROVE  TabsInv'
<1>1. Light(Task("reconnectFailed", 0))
  BY TaskIsLight DEF MessageKinds, Restoring
<1>2. /\ Fits(k) /\ k \in TaskRecords /\ Separate(k) /\ k.c # 0 /\ k.c \in Clients
      /\ k.now \in SessionRecords
  BY DEF TabsInv, TasksFit, Fits, Restoring, TaskRecords
<1>3. CASE /\ k.at = "open"
           /\ OpenSession(k, k.now.ssh, [k EXCEPT !.at = "again"], Task("reconnectFailed", 0))
  <2>1. CASE Become(k, {Task("reconnectFailed", 0)})
    BY <1>1, <1>3, <2>1, OpenSessionWorld, LightOne
  <2>2. ASSUME NEW s \in Sessions \ UsedSessions,
               Become(k, {[[k EXCEPT !.at = "again"] EXCEPT !.sid = s]}),
               \A c \in Clients : registry'[c][s] = "none"
        PROVE  TabsInv'
    <3> DEFINE j == [[k EXCEPT !.at = "again"] EXCEPT !.sid = s]
    <3>1. /\ j \in TaskRecords /\ j.kind = "restore" /\ j.at = "again" /\ j.sid = s
          /\ j.c = k.c /\ j.now = k.now /\ j.todo = k.todo /\ j.done = k.done
      BY <1>2 DEF TaskRecords, Steps
    <3>2. Become(k, {j})
      BY <2>2
    <3> HIDE DEF j
    <3>3. s \notin Sids(k.todo) /\ (\A m \in k.done : m.new # s) /\ s # 0
      <4>1. Sids(k.todo) \subseteq UsedSessions /\ \A m \in k.done : m.new \in UsedSessions
        BY DEF UsedSessions, Sids
      <4> QED
        BY <4>1 DEF Sessions
    <3>4. Fits(j)
      BY <1>2, <1>3, <3>1, <3>3 DEF Fits, Separate, Restoring
    <3>5. Coming(j) \subseteq {s} \cup Coming(k)
      BY <3>1 DEF Coming
    <3>6. Meant(k, shells', alive', subs', fed', registry')
      BY <1>3, OpenSessionWorld, KeptTasks
    <3>7. Meant(j, shells', alive', subs', fed', registry')
      BY <1>2, <1>3, <2>2, <3>1, <3>6 DEF Meant, Restoring
    <3>8. {s} \cap UsedSessions = {}
      OBVIOUS
    <3> QED
      BY <1>3, <3>2, <3>4, <3>5, <3>7, <3>8, OpenSessionWorld, OneStep
  <2> QED
    BY <1>3, <2>1, <2>2, OpenSessionWorld
<1>4. CASE /\ k.at = "again"
           /\ SubscribeSession(k, k.sid, Mapping(k, k.now, k.sid), Task("reconnectFailed", 0))
  <2> DEFINE j == Mapping(k, k.now, k.sid)
  <2>1. k.sid # 0 /\ k.sid \in Sessions /\ k.now.sid # 0
    BY <1>2, <1>4 DEF Fits, TaskRecords, Restoring
  <2>2. k.sid \notin Sids(k.todo \ {k.now}) /\ \A m \in k.done : m.new # k.sid
    BY <1>2, <2>1 DEF Separate, Sids
  <2>3. /\ Fits(j) /\ j.kind \in Restoring /\ j.c = k.c /\ j.at \in {"none", "subscribe"}
        /\ j.done = k.done \cup {[old |-> k.now.sid, new |-> k.sid]}
        /\ Coming(j) \subseteq Coming(k) \cup {k.sid}
    BY <1>2, <2>1, <2>2, MappingFits
  <2>4. SubscribeSession(k, k.sid, j, Task("reconnectFailed", 0))
    BY <1>4
  <2> HIDE DEF j
  <2>5. Meant(k, shells, alive, subs, fed, registry)
    BY DEF TabsInv, TasksHold
  <2>6. registry[k.c][k.sid] # "taken"
    BY <1>4, <2>5 DEF Meant, Restoring
  <2>7. /\ tab' = tab /\ StateTypes' /\ PlacesAgree' /\ Kept
        /\ \/ Become(k, {j}) /\ <<k.c, k.sid>> \in subs' /\ <<k.c, k.sid>> \in fed'
           \/ Become(k, {Task("reconnectFailed", 0)})
    BY <2>1, <2>4, <2>6, SubscribeWorld
  <2>8. CASE Become(k, {j}) /\ <<k.c, k.sid>> \in subs' /\ <<k.c, k.sid>> \in fed'
    <3>1. Meant(k, shells', alive', subs', fed', registry')
      BY <2>7, KeptTasks
    <3>2. k.now.sid \notin shells'
      BY <1>4, <3>1 DEF Meant, Restoring
    <3>3. Meant(j, shells', alive', subs', fed', registry')
      BY <2>3, <2>8, <3>1, <3>2, MappingMeant
    <3>4. k.sid \in Coming(k)
      BY <2>1 DEF Coming
    <3>5. Coming(j) \subseteq {} \cup Coming(k) /\ {} \cap UsedSessions = {}
      BY <2>3, <3>4
    <3> QED
      BY <2>3, <2>7, <2>8, <3>3, <3>5, OneStep
  <2> QED
    BY <1>1, <2>7, <2>8, LightOne
<1> QED
  BY <1>3, <1>4 DEF RestoreOpens

-----------------------------------------------------------------------------
(* Sessions that come to be shown.                                         *)

LEMMA TerminalOpenedKeeps ==
  ASSUME TabsInv, NEW k \in Running, TerminalOpened(k)
  PROVE  TabsInv'
<1>1. /\ Fits(k) /\ k \in TaskRecords /\ k.kind = "opened" /\ k.now \in SessionRecords
      /\ k.now.sid # 0 /\ k.now.sid \in Sessions /\ k.now.ssh \in BOOLEAN
      /\ client \in Clients \cup {0} /\ tab \in [Tabs -> PlaceRecords]
      /\ stream \in [Tabs -> StreamRecords]
  BY DEF TerminalOpened, Received, TabsInv, StateTypes, TasksFit, Fits, TaskRecords, SessionRecords,
         PlaceRecords, StreamRecords, Restoring
<1>2. /\ UNCHANGED <<screen, guiLocked, client, pending, resume, inFlight, cooling, wanted,
                     first, daemonVars>>
      /\ opening' = FALSE
  BY DEF TerminalOpened
<1>3. CASE screen # "main"
  <2> DEFINE j == [Task("close", client) EXCEPT !.todo = {k.now}]
  <2>1. /\ registry' = Unregistered(client, {k.now.sid})
        /\ stream' = Cut(client, {k.now.sid})
        /\ Become(k, {j}) /\ tab' = tab
    BY <1>3 DEF TerminalOpened
  <2>2. Plain(j)
    BY <1>1 DEF Plain, Task, TaskRecords, SessionRecords, Steps, TaskKinds, Restoring
  <2> HIDE DEF j
  <2>3. Light(j)
    BY <2>2, PlainIsLight
  <2>4. Kept
    BY <1>2, <2>1, UnregisteredKeeps DEF Kept, daemonVars
  <2>5. /\ registry' \in Registries /\ stream' \in [Tabs -> StreamRecords]
        /\ \A t \in Tabs : stream'[t].sid = stream[t].sid
    BY <2>1, UnregisteredKeeps, CutKeeps
  <2>6. StateTypes' /\ PlacesAgree'
    BY <1>2, <2>1, <2>5
       DEF TabsInv, StateTypes, PlacesAgree, Registries, StreamRecords, daemonVars
  <2> QED
    BY <2>1, <2>3, <2>4, <2>6, LightOne
<1>4. CASE screen = "main"
  <2> DEFINE p == OneOf(Tabs \ Open(tab))
             new == [sid |-> k.now.sid, ssh |-> k.now.ssh, closed |-> FALSE]
  <2>1. p \in Tabs \ Open(tab)
    BY <1>3, <1>4 DEF TerminalOpened, OneOf
  <2>2. /\ tab' = [tab EXCEPT ![p] = new]
        /\ Become(k, {}) /\ Restream(stream) /\ UNCHANGED registry
    BY <1>4 DEF TerminalOpened
  <2>3. new \in PlaceRecords /\ new.sid = k.now.sid /\ ~new.closed
    BY <1>1 DEF PlaceRecords
  <2> HIDE DEF p, new
  <2>4. tab' \in [Tabs -> PlaceRecords] /\ client' \in Clients \cup {0}
    BY <1>1, <1>2, <2>1, <2>2, <2>3
  <2>5. /\ stream' \in [Tabs -> StreamRecords]
        /\ \A t \in Tabs : stream'[t].sid \in {0, tab'[t].sid}
    BY <1>1, <2>2, <2>4, RestreamKeeps DEF PlaceRecords
  <2>6. \A t \in Tabs : tab'[t] = IF t = p THEN new ELSE tab[t]
    BY <1>1, <2>2
  <2>7. StateTypes' /\ PlacesAgree'
    BY <1>1, <1>2, <2>2, <2>3, <2>4, <2>5, <2>6
       DEF TabsInv, StateTypes, PlacesAgree, PlaceRecords, StreamRecords, daemonVars
  <2>8. Kept
    BY <1>2, <2>2 DEF Kept, daemonVars
  <2>9. k.now.sid \in Coming(k) /\ Coming(k) \cap Shown(tab) = {} /\ Brought({k}) = Coming(k)
    BY <1>1 DEF Coming, Brought, TabsInv, OneTabPerSession
  <2>10. Shown(tab') \subseteq Shown(tab) \cup Brought({k})
    BY <2>3, <2>6, <2>9 DEF Shown, Open
  <2>11. \A t, u \in Open(tab') : t # u => tab'[t].sid # tab'[u].sid
    <3>1. \A t, u \in Open(tab) : t # u => tab[t].sid # tab[u].sid
      BY DEF TabsInv, OneTabPerSession
    <3>2. \A t \in Open(tab) : tab[t].sid # k.now.sid
      BY <2>9 DEF Shown
    <3> QED
      BY <2>3, <2>6, <3>1, <3>2 DEF Open
  <2>12. Moved({k}, {})
    BY <2>2, BecomeMoves DEF TabsInv
  <2>13. Hands({k}, {}, {}) /\ {k} \in SUBSET Running
    BY <2>10, <2>11, <2>12 DEF Hands
  <2> QED
    BY <2>7, <2>8, <2>13, StepKeeps
<1> QED
  BY <1>3, <1>4

\* What mark_terminal_reconnected gives a tab: what it had, or the session a mapping of
\* its own names.
LEMMA ReconnectedTabs ==
  ASSUME TabsInv, NEW k \in Running, k.kind = "restored", NEW t \in Tabs
  PROVE  \/ Reconnected(k.done)[t] = tab[t]
         \/ /\ tab[t].sid # 0
            /\ \E m \in k.done :
                 /\ m.old = tab[t].sid /\ m.new \in Sessions
                 /\ Reconnected(k.done)[t] \in PlaceRecords
                 /\ Reconnected(k.done)[t].sid = m.new
                 /\ ~Reconnected(k.done)[t].closed
<1>1. CASE tab[t].sid # 0 /\ \E m \in k.done : m.old = tab[t].sid
  <2> DEFINE m == CHOOSE n \in k.done : n.old = tab[t].sid
  <2>1. m \in k.done /\ m.old = tab[t].sid
    BY <1>1
  <2>2. Reconnected(k.done)[t] = [tab[t] EXCEPT !.sid = m.new, !.closed = FALSE]
    BY <1>1 DEF Reconnected
  <2> HIDE DEF m
  <2>3. m.new \in Sessions /\ tab[t] \in PlaceRecords
    BY <2>1 DEF TabsInv, StateTypes, TasksFit, Fits, TaskRecords, PlaceRecords
  <2>4. /\ [tab[t] EXCEPT !.sid = m.new, !.closed = FALSE] \in PlaceRecords
        /\ [tab[t] EXCEPT !.sid = m.new, !.closed = FALSE].sid = m.new
        /\ ~[tab[t] EXCEPT !.sid = m.new, !.closed = FALSE].closed
    BY <2>3 DEF PlaceRecords
  <2> QED
    BY <1>1, <2>1, <2>2, <2>3, <2>4
<1>2. CASE ~(tab[t].sid # 0 /\ \E m \in k.done : m.old = tab[t].sid)
  BY <1>2 DEF Reconnected
<1> QED
  BY <1>1, <1>2

LEMMA TerminalReconnectedKeeps ==
  ASSUME TabsInv, NEW k \in Running, TerminalReconnected(k)
  PROVE  TabsInv'
<1>1. /\ Fits(k) /\ k \in TaskRecords /\ k.kind = "restored" /\ Separate(k)
      /\ k.c \in Clients \cup {0} /\ k.done \subseteq [old : Sessions, new : Sessions]
      /\ tab \in [Tabs -> PlaceRecords] /\ stream \in [Tabs -> StreamRecords]
  BY DEF TerminalReconnected, Received, TabsInv, StateTypes, TasksFit, Fits, TaskRecords,
         PlaceRecords, StreamRecords, Restoring
<1>2. /\ client' = k.c /\ tab' = Reconnected(k.done)
      /\ cooling' = FALSE /\ pending' = FALSE /\ resume' = FALSE /\ inFlight' = FALSE
      /\ Become(k, {}) /\ Restream(stream)
      /\ UNCHANGED <<screen, guiLocked, opening, wanted, first, registry, daemonVars>>
  BY DEF TerminalReconnected
<1>3. DOMAIN tab' = Tabs /\ tab' = [t \in Tabs |-> tab'[t]]
  BY <1>2 DEF Reconnected
<1>4. ASSUME NEW t \in Tabs
      PROVE  \/ tab'[t] = tab[t]
             \/ /\ tab[t].sid # 0
                /\ \E m \in k.done :
                     /\ m.old = tab[t].sid /\ m.new \in Sessions
                     /\ tab'[t] \in PlaceRecords /\ tab'[t].sid = m.new /\ ~tab'[t].closed
  <2>1. tab'[t] = Reconnected(k.done)[t]
    BY <1>2
  <2> QED
    BY <1>1, <2>1, ReconnectedTabs
<1>5. tab' \in [Tabs -> PlaceRecords] /\ \A t \in Tabs : tab'[t].sid = 0 => ~tab'[t].closed
  <2>1. \A t \in Tabs : tab'[t] \in PlaceRecords /\ (tab'[t].sid = 0 => ~tab'[t].closed)
    BY <1>1, <1>4 DEF TabsInv, PlacesAgree
  <2> QED
    BY <1>3, <2>1
<1>6. /\ stream' \in [Tabs -> StreamRecords]
      /\ \A t \in Tabs : stream'[t].sid \in {0, tab'[t].sid}
  BY <1>1, <1>2, <1>5, RestreamKeeps DEF PlaceRecords
<1>7. StateTypes' /\ PlacesAgree'
  BY <1>1, <1>2, <1>5, <1>6
     DEF TabsInv, StateTypes, PlacesAgree, PlaceRecords, StreamRecords, daemonVars
<1>8. Kept
  BY <1>2 DEF Kept, daemonVars
<1>9. /\ Coming(k) = {m.new : m \in {n \in k.done : n.new # n.old}}
      /\ Coming(k) \cap Shown(tab) = {} /\ Brought({k}) = Coming(k)
  BY <1>1 DEF Coming, Brought, TabsInv, OneTabPerSession
<1>10. ASSUME NEW m \in k.done PROVE m.new = m.old \/ m.new \in Coming(k)
  BY <1>9
<1>11. Shown(tab') \subseteq Shown(tab) \cup Brought({k})
  <2>1. ASSUME NEW t \in Open(tab') PROVE tab'[t].sid \in Shown(tab) \cup Brought({k})
    BY <1>4, <1>9, <1>10 DEF Shown, Open
  <2> QED
    BY <2>1 DEF Shown
<1>12. ASSUME NEW t \in Open(tab'), NEW u \in Open(tab'), t # u
       PROVE  tab'[t].sid # tab'[u].sid
  <2>1. \A v \in Tabs : tab[v].sid # 0 => tab[v].sid \in Shown(tab)
    BY DEF Shown, Open
  <2>2. tab[t].sid # 0 /\ tab[u].sid # 0 => tab[t].sid # tab[u].sid
    BY <1>12 DEF TabsInv, OneTabPerSession, Open
  <2>3. /\ t \in Tabs /\ u \in Tabs /\ tab'[t].sid # 0 /\ tab'[u].sid # 0
    BY DEF Open
  <2>4. \A m, n \in k.done : m # n => m.new # n.new
    BY <1>1 DEF Separate
  <2>5. CASE tab'[t] = tab[t] /\ tab'[u] = tab[u]
    BY <2>2, <2>3, <2>5
  <2>6. ASSUME NEW m \in k.done, NEW v \in Tabs, NEW w \in Tabs, tab[v].sid # 0, tab[w].sid # 0,
               tab[v].sid # tab[w].sid, m.old = tab[v].sid
        PROVE  m.new # tab[w].sid
    BY <1>9, <1>10, <2>1, <2>6
  <2>7. CASE tab'[t] # tab[t] /\ tab'[u] = tab[u]
    BY <1>4, <2>2, <2>3, <2>6, <2>7
  <2>8. CASE tab'[t] = tab[t] /\ tab'[u] # tab[u]
    BY <1>4, <2>2, <2>3, <2>6, <2>8
  <2>9. CASE tab'[t] # tab[t] /\ tab'[u] # tab[u]
    BY <1>4, <2>2, <2>3, <2>4, <2>9
  <2> QED
    BY <2>5, <2>7, <2>8, <2>9
<1>13. Moved({k}, {})
  BY <1>2, BecomeMoves DEF TabsInv
<1>14. Hands({k}, {}, {}) /\ {k} \in SUBSET Running
  BY <1>11, <1>12, <1>13 DEF Hands
<1> QED
  BY <1>7, <1>8, <1>14, StepKeeps

-----------------------------------------------------------------------------
(* The invariant holds.                                                    *)

LEMMA InvAgrees == TabsInv => TabsAgree
BY DEF TabsInv, StateTypes, TasksFit, Fits, TabsAgree, TypeOK

LEMMA InitInv == Init => TabsInv
<1> SUFFICES ASSUME Init PROVE TabsInv
  OBVIOUS
<1> DEFINE k == Task("connect", 0)
<1>1. Light(k)
  BY TaskIsLight DEF TaskKinds, Restoring
<1> HIDE DEF k
<1>2. Running = {k} /\ tasks[k] = 1
  BY DEF Init, Running, BagToSet, SetToBag, k
<1>3. NoTab.sid = 0 /\ ~NoTab.closed /\ NoTab \in PlaceRecords
      /\ NoStream.sid = 0 /\ NoStream \in StreamRecords
  BY DEF NoTab, NoStream, PlaceRecords, StreamRecords
<1>4. TasksFit /\ TasksHold /\ Once
  BY <1>1, <1>2 DEF TasksFit, TasksHold, Once, Light
<1>5. StateTypes /\ PlacesAgree
  BY <1>3 DEF Init, StateTypes, PlacesAgree, PlaceRecords, StreamRecords
<1>6. Open(tab) = {}
  BY <1>3 DEF Init, Open
<1>7. OneTabPerSession
  BY <1>1, <1>2, <1>6 DEF OneTabPerSession, Light
<1> QED
  BY <1>4, <1>5, <1>7 DEF TabsInv

LEMMA StepInv == TabsInv /\ [Next]_tabVars => TabsInv'
<1> SUFFICES ASSUME TabsInv, [Next]_tabVars PROVE TabsInv'
  OBVIOUS
<1>1. CASE UNCHANGED tabVars
  <2>1. UNCHANGED <<guiVars, tasks, libVars, daemonVars>>
    BY <1>1 DEF tabVars
  <2>2. StateTypes' /\ UNCHANGED <<tab, stream, registry, shells, alive, subs, fed>>
    BY <2>1 DEF TabsInv, StateTypes, guiVars, libVars, daemonVars
  <2> QED
    BY <2>1, <2>2, NoneLightly, IdleStep
<1>2. ASSUME NEW k \in Running, Perform(k) PROVE TabsInv'
  BY <1>2, AskKeeps, ConnectKeeps, CloseQueuedKeeps, OpenAndSubscribeKeeps,
     RestoreSubscribesKeeps, RestoreOpensKeeps
     DEF Perform, Restore
<1>3. ASSUME NEW k \in Running, Handle(k) PROVE TabsInv'
  BY <1>3, HandlerKeeps, RetryKeeps, WsConnectedKeeps, TerminalOpenedKeeps,
     TerminalDisconnectedKeeps, TerminalReconnectedKeeps
     DEF Handle, TerminalReconnectRetry
<1>4. ASSUME NEW t \in Tabs, StreamStarts(t) \/ StreamEnds(t) PROVE TabsInv'
  BY <1>4, StreamStartsKeeps, StreamEndsKeeps
<1>5. CASE User
  BY <1>5, UserKeeps, CloseTabKeeps, LockVaultKeeps, RetryKeeps, RelaunchKeeps
     DEF User, PatientRetry, ImpatientRetry, RetryConnection
<1>6. CASE World
  BY <1>6, SocketsKeep, WorldKeeps DEF World
<1> QED
  BY <1>1, <1>2, <1>3, <1>4, <1>5, <1>6 DEF Next

LEMMA InvAlways == Spec => []TabsInv
<1> QED
  BY InitInv, StepInv, PTL DEF Spec

\* The variables keep their types, no session is shown by two tabs, and none that a task
\* has opened is shown by a tab or meant for another.
THEOREM OneTabForEach == Spec => []TabsAgree
<1> QED
  BY InvAlways, InvAgrees, PTL

-----------------------------------------------------------------------------
(* Tabs come back as they were.                                            *)

\* Tabs go or stay as they are; none comes back.
NoneReturns ==
  \A t \in Tabs : \/ tab'[t].sid = 0
                  \/ tab'[t].sid = tab[t].sid /\ (tab[t].closed => tab'[t].closed)

LEMMA NoneReturnsIsFine == NoneReturns => ReplacesOnlyGone /\ ReturnsSubscribed
BY DEF NoneReturns, ReplacesOnlyGone, ReturnsSubscribed

LEMMA OthersReturnNone ==
  ASSUME TabsInv, Next,
         ~(\E k \in Running : TerminalOpened(k) \/ TerminalReconnected(k))
  PROVE  NoneReturns
<1>1. CASE tab' = tab
  BY <1>1 DEF NoneReturns
<1>2. CASE tab' = AllClosed
  <2>1. tab \in [Tabs -> PlaceRecords]
    BY DEF TabsInv, StateTypes, PlaceRecords
  <2>2. ASSUME NEW t \in Tabs
        PROVE  AllClosed[t].sid = tab[t].sid /\ AllClosed[t].closed = (tab[t].sid # 0)
    BY <2>1 DEF AllClosed, PlaceRecords
  <2> QED
    BY <1>2, <2>2 DEF NoneReturns
<1>3. ASSUME NEW t \in Tabs, tab' = [tab EXCEPT ![t] = NoTab] PROVE NoneReturns
  <2>1. tab \in [Tabs -> PlaceRecords] /\ NoTab.sid = 0
    BY DEF TabsInv, StateTypes, PlaceRecords, NoTab
  <2> QED
    BY <1>3, <2>1 DEF NoneReturns
<1>4. ASSUME NEW k \in Running, Perform(k) PROVE tab' = tab
  BY <1>4 DEF Perform, Connect, Ask, Unlock, CloseQueued, Lock, OpenAndSubscribe, Restore,
     Timer, guiVars
<1>5. ASSUME NEW k \in Running, Handle(k) PROVE tab' \in {tab, AllClosed}
  BY <1>5 DEF Handle, WsConnected, WsError, TerminalReconnectRetry, RetryFrom, DaemonChecked,
     HostsLoaded, TerminalSetupError, TerminalDisconnected, TerminalReconnectFailed,
     VaultLocked, UnlockEnds, AllClosed
<1>6. ASSUME NEW t \in Tabs, StreamStarts(t) \/ StreamEnds(t) PROVE tab' = tab
  BY <1>6 DEF StreamStarts, StreamEnds, guiVars
<1>7. ASSUME User
      PROVE  tab' \in {tab, AllClosed} \/ \E t \in Tabs : tab' = [tab EXCEPT ![t] = NoTab]
  BY <1>7 DEF User, OpenTerminal, CloseTab, LockVault, UnlockVault, Refresh, Refused,
     PatientRetry, ImpatientRetry, RetryConnection, RetryFrom, Relaunch, AllClosed, guiVars
<1>8. ASSUME World PROVE tab' = tab
  BY <1>8 DEF World, ConnectionBreaks, DaemonDies, DaemonStarts, LockedElsewhere, Cool, guiVars
<1> QED
  BY <1>1, <1>2, <1>3, <1>4, <1>5, <1>6, <1>7, <1>8 DEF Next

LEMMA OpenedReturnsNone ==
  ASSUME TabsInv, NEW k \in Running, TerminalOpened(k)
  PROVE  ReplacesOnlyGone /\ ReturnsSubscribed
<1>1. CASE tab' = tab
  BY <1>1, NoneReturnsIsFine DEF NoneReturns
<1>2. CASE tab' # tab
  <2> DEFINE p == OneOf(Tabs \ Open(tab))
             new == [sid |-> k.now.sid, ssh |-> k.now.ssh, closed |-> FALSE]
  <2>1. p \in Tabs \ Open(tab) /\ tab' = [tab EXCEPT ![p] = new]
    BY <1>2 DEF TerminalOpened, OneOf
  <2>2. tab[p].sid = 0 /\ ~tab[p].closed /\ tab \in [Tabs -> PlaceRecords]
    BY <2>1 DEF Open, TabsInv, StateTypes, PlacesAgree, PlaceRecords
  <2> HIDE DEF p, new
  <2>3. \A t \in Tabs : t # p => tab'[t] = tab[t]
    BY <2>1, <2>2
  <2> QED
    BY <2>2, <2>3 DEF ReplacesOnlyGone, ReturnsSubscribed
<1> QED
  BY <1>1, <1>2

LEMMA RestoredReturns ==
  ASSUME TabsInv, NEW k \in Running, TerminalReconnected(k)
  PROVE  ReplacesOnlyGone /\ ReturnsSubscribed
<1>1. /\ k.kind = "restored" /\ client' = k.c /\ tab' = Reconnected(k.done)
      /\ UNCHANGED daemonVars
  BY DEF TerminalReconnected, Received
<1>2. Meant(k, shells, alive, subs, fed, registry)
  BY DEF TabsInv, TasksHold
<1>3. ASSUME NEW m \in k.done
      PROVE  /\ m.old # m.new => m.old \notin shells
             /\ k.c \in alive /\ m.new \in shells =>
                  <<k.c, m.new>> \in subs /\ (m.new # m.old => <<k.c, m.new>> \in fed)
  BY <1>1, <1>2 DEF Meant, Restoring
<1>4. ASSUME NEW t \in Tabs
      PROVE  \/ tab'[t] = tab[t]
             \/ \E m \in k.done : m.old = tab[t].sid /\ tab'[t].sid = m.new
  BY <1>1, ReconnectedTabs
<1>5. UNCHANGED <<shells, alive, subs, fed>>
  BY <1>1 DEF daemonVars
<1>6. ReplacesOnlyGone
  BY <1>3, <1>4 DEF ReplacesOnlyGone
<1>7. ReturnsSubscribed
  BY <1>1, <1>3, <1>4, <1>5 DEF ReturnsSubscribed
<1> QED
  BY <1>6, <1>7

LEMMA StepReturns == TabsInv /\ [Next]_tabVars => [ReplacesOnlyGone /\ ReturnsSubscribed]_tabVars
<1> SUFFICES ASSUME TabsInv, Next PROVE ReplacesOnlyGone /\ ReturnsSubscribed
  OBVIOUS
<1>1. CASE \E k \in Running : TerminalOpened(k) \/ TerminalReconnected(k)
  BY <1>1, OpenedReturnsNone, RestoredReturns
<1>2. CASE ~(\E k \in Running : TerminalOpened(k) \/ TerminalReconnected(k))
  BY <1>2, OthersReturnNone, NoneReturnsIsFine
<1> QED
  BY <1>1, <1>2

\* A restoration replaces no shell that survived, and marks a tab live only when its
\* session is subscribed on the connection in use, a new one with its first frame
\* received.
THEOREM ReturnsAsItWas == Spec => ComesBackAsItWas
<1>1. Spec => [][Next]_tabVars
  BY PTL DEF Spec
<1>2. TabsInv /\ [Next]_tabVars => [ReplacesOnlyGone /\ ReturnsSubscribed]_tabVars
  BY StepReturns
<1> QED
  BY <1>1, <1>2, InvAlways, PTL DEF ComesBackAsItWas
=============================================================================
