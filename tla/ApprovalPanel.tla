----------------------------- MODULE ApprovalPanel -----------------------------
(***************************************************************************)
(* The approval panel of the desktop application (vida-gui: app.rs and     *)
(* screens/agent_approval.rs) between the daemon's list of what is pending *)
(* and its events.                                                         *)
(*                                                                         *)
(* Events come in order through a broadcast channel that may skip some for *)
(* a slow connection.  Answers to requests come in any order, among        *)
(* themselves and with events; a list replaces what is shown.  What the    *)
(* daemon does with a decision is in AgentGate, of which the daemon here   *)
(* keeps which approvals are pending.                                      *)
(***************************************************************************)
EXTENDS Integers, Sequences, FiniteSets, Bags

CONSTANTS
  Approvals,  \* in the order of their creation
  Plans       \* bounds [asked, decisions, faults]: what is asked, decided here, and faults:
              \* requests that fail, events skipped and connections lost

None == 0

VARIABLES
  \* the daemon
  pending,  \* the approvals that wait
  over,     \* those that have ended
  expired,  \* those whose time has passed
  \* on the way
  events,   \* the owner's events, in order
  work,     \* requests of the application and their answers
  \* the application
  shown,    \* agent_approvals
  selected, \* selected_agent_approval_id
  busy,     \* agent_approval_busy_id
  open,     \* show_agent_approval_panel
  left      \* what of the plan is left

panelVars == <<pending, over, expired, events, work, shown, selected, busy, open, left>>
daemonVars == <<pending, over, expired>>
viewVars == <<shown, selected, busy, open>>

Item(kind, a, list) == [kind |-> kind, a |-> a, list |-> list]
ListTask == Item("list", None, {})
At(kind) == {w \in BagToSet(work) : w.kind = kind}
Post(w) == work' = work (+) SetToBag({w})
Done(w) == work' = work (-) SetToBag({w})
Become(w, v) == work' = (work (-) SetToBag({w})) (+) SetToBag({v})

Use(what) == left[what] > 0 /\ left' = [left EXCEPT ![what] = @ - 1]

First(S) == IF S = {} THEN None ELSE CHOOSE x \in S : \A y \in S : x <= y

\* normalize_agent_approval_selection
Normalized(sel, list) == IF sel \in list THEN sel ELSE First(list)

Init ==
  /\ pending = {} /\ over = {} /\ expired = {}
  /\ events = <<>>
  /\ work = SetToBag({ListTask})  \* HandshakeOk asks for the list
  /\ shown = {} /\ selected = None /\ busy = None /\ open = FALSE
  /\ left \in Plans

-----------------------------------------------------------------------------
(* The daemon.                                                             *)

Resolved(S) == [kind : {"resolved"}, a : S]
InOrder(S) == CHOOSE s \in [1..Cardinality(S) -> S] : \A i, j \in DOMAIN s : i < j => s[i].a < s[j].a

\* An event for each of the approvals that end here.
End(S) ==
  /\ pending' = pending \ S
  /\ over' = over \cup S
  /\ events' = events \o InOrder(Resolved(S))

Request(a) ==
  /\ a \notin pending \cup over /\ Use("asked")
  /\ pending' = pending \cup {a}
  /\ events' = Append(events, [kind |-> "requested", a |-> a])
  /\ UNCHANGED <<over, expired, work, viewVars>>

Expire(a) ==
  /\ a \in (pending \cup over) \ expired
  /\ expired' = expired \cup {a}
  /\ UNCHANGED <<pending, over, events, work, viewVars, left>>

\* Another owner decides, the session is closed, or a request makes the daemon look.
EndElsewhere(a) ==
  /\ a \in pending
  /\ End({a})
  /\ UNCHANGED <<expired, work, viewVars, left>>

\* Each request ends what has expired first.
Late == pending \cap expired

AnswerList(w) ==
  /\ End(Late)
  /\ Become(w, Item("loaded", None, pending \ Late))
  /\ UNCHANGED <<expired, viewVars, left>>

AnswerDecision(w) ==
  /\ End(Late \cup ({w.a} \cap pending))
  /\ Become(w, Item(IF w.a \in pending \ Late THEN "handled" ELSE "failed", w.a, {}))
  /\ UNCHANGED <<expired, viewVars, left>>

\* A request whose answer is lost: what it asked for was done or not.
RequestFails(w) ==
  /\ Use("faults")
  /\ Become(w, Item(IF w.kind = "decide" THEN "failed" ELSE "unlisted", w.a, {}))
  /\ \/ w.kind = "decide" /\ w.a \in pending /\ End({w.a})
     \/ UNCHANGED <<pending, over, events>>
  /\ UNCHANGED <<expired, viewVars>>

\* The connection's receiver lags: the oldest events are skipped.
EventSkipped ==
  /\ events # <<>> /\ Use("faults")
  /\ events' = Tail(events)
  /\ UNCHANGED <<daemonVars, work, viewVars>>

\* A new connection: events of the old one are gone and the list is asked for.
Reconnect ==
  /\ Use("faults")
  /\ events' = <<>>
  /\ Post(ListTask)
  /\ UNCHANGED <<daemonVars, viewVars>>

-----------------------------------------------------------------------------
(* The application.                                                        *)

\* Mutant: a refused decision leaves the buttons to the event that is to come.
NotFreed(a) == busy

\* Any end frees the buttons, whichever was being decided.
FreedByAny(a) == None
FreedByFailure(a) == None

Event ==
  /\ events # <<>>
  /\ events' = Tail(events)
  /\ LET e == Head(events)
     IN IF e.kind = "requested"
        THEN /\ shown' = shown \cup {e.a}
             /\ selected' = e.a
             /\ open' = TRUE
             /\ busy' = busy
        ELSE /\ shown' = shown \ {e.a}
             /\ selected' = Normalized(selected, shown \ {e.a})
             /\ busy' = FreedByAny(e.a)
             /\ open' = open
  /\ UNCHANGED <<daemonVars, work, left>>

AgentApprovalsLoaded(w) ==
  /\ shown' = w.list
  /\ selected' = Normalized(selected, w.list)
  /\ Done(w)
  /\ UNCHANGED <<daemonVars, events, busy, open, left>>

\* AgentApprovalHandled is taken for the event.
AgentApprovalHandled(w) ==
  /\ shown' = shown \ {w.a}
  /\ selected' = Normalized(selected, shown \ {w.a})
  /\ busy' = FreedByAny(w.a)
  /\ Done(w)
  /\ UNCHANGED <<daemonVars, events, open, left>>

\* AgentApprovalActionFailed asks for the list; when that fails too, there is none.
AgentApprovalActionFailed(w) ==
  /\ busy' = FreedByFailure(w.a)
  /\ Become(w, ListTask)
  /\ UNCHANGED <<daemonVars, events, shown, selected, open, left>>

ListUnanswered(w) ==
  /\ \/ Become(w, Item("loaded", None, {}))         \* asked for by ActionFailed
     \/ Become(w, Item("failed", None, {}))         \* by HandshakeOk or the tick
  /\ UNCHANGED <<daemonVars, events, viewVars, left>>

\* The tick runs while anything is shown, and asks once something shown has expired.
\* Bound: it waits for its last answer.
AgentApprovalTick ==
  /\ shown \cap expired # {}
  /\ At("list") = {} /\ At("loaded") = {}
  /\ Post(ListTask)
  /\ UNCHANGED <<daemonVars, events, viewVars, left>>

Displayed == IF selected \in shown THEN selected ELSE First(shown)

\* Approving or denying what is displayed, unless it has expired or another is under way.
Decide ==
  /\ open /\ shown # {} /\ busy = None /\ Displayed \notin expired
  /\ Use("decisions")
  /\ busy' = Displayed
  /\ Post(Item("decide", Displayed, {}))
  /\ UNCHANGED <<daemonVars, events, shown, selected, open>>

SelectAgentApproval(a) ==
  /\ open /\ a \in shown /\ selected # a
  /\ selected' = a
  /\ UNCHANGED <<daemonVars, events, work, shown, busy, open, left>>

ToggleAgentApprovalPanel ==
  /\ open' = ~open
  /\ selected' = Normalized(selected, shown)
  /\ UNCHANGED <<daemonVars, events, work, shown, busy, left>>

Answers ==
  \/ \E w \in At("list") : AnswerList(w)
  \/ \E w \in At("decide") : AnswerDecision(w)

Messages ==
  \/ Event
  \/ \E w \in At("loaded") : AgentApprovalsLoaded(w)
  \/ \E w \in At("handled") : AgentApprovalHandled(w)
  \/ \E w \in At("failed") : AgentApprovalActionFailed(w)
  \/ \E w \in At("unlisted") : ListUnanswered(w)

Next ==
  \/ \E a \in Approvals : Request(a) \/ Expire(a) \/ EndElsewhere(a) \/ SelectAgentApproval(a)
  \/ \E w \in At("list") \cup At("decide") : RequestFails(w)
  \/ EventSkipped \/ Reconnect
  \/ Answers \/ Messages \/ AgentApprovalTick
  \/ Decide \/ ToggleAgentApprovalPanel

Spec == Init /\ [][Next]_panelVars

\* The daemon answers, the application handles its messages, time passes and the timer of
\* the panel ticks.  The owner, agents and other owners are obliged to nothing.
Fairness ==
  /\ WF_panelVars(\E w \in At("list") : AnswerList(w))
  /\ WF_panelVars(\E w \in At("decide") : AnswerDecision(w))
  /\ WF_panelVars(Event)
  /\ WF_panelVars(\E w \in At("loaded") : AgentApprovalsLoaded(w))
  /\ WF_panelVars(\E w \in At("handled") : AgentApprovalHandled(w))
  /\ WF_panelVars(\E w \in At("failed") : AgentApprovalActionFailed(w))
  /\ WF_panelVars(\E w \in At("unlisted") : ListUnanswered(w))
  /\ SF_panelVars(AgentApprovalTick)
  /\ \A a \in Approvals : WF_panelVars(Expire(a))

FairSpec == Spec /\ Fairness

-----------------------------------------------------------------------------
(* Properties.                                                             *)

TypeOK ==
  /\ pending \subseteq Approvals /\ over \subseteq Approvals /\ pending \cap over = {}
  /\ expired \subseteq Approvals
  /\ events \in Seq([kind : {"requested", "resolved"}, a : Approvals])
  /\ shown \subseteq pending \cup over
  /\ selected \in Approvals \cup {None} /\ busy \in Approvals \cup {None}
  /\ open \in BOOLEAN

\* An approval that has ended, here or elsewhere, goes from the screen, and a decision
\* frees the buttons again: although events are skipped, requests fail and a list that is
\* older than the events handled before it replaces what is shown (app.rs, 739 to 766,
\* 1288 to 1305 and 1383 to 1465).
Outlived(a) == a \in over /\ a \in shown
Deciding    == busy # None
PanelSettles ==
  /\ \A a \in Approvals : Outlived(a) ~> ~Outlived(a)
  /\ Deciding ~> ~Deciding

\* Whatever is pending is shown once all messages have been handled: decisions.md, 1121,
\* has its number in the title bar even while the panel is closed.  (It fails: a list
\* drops what was requested after it was answered, or everything.)
PendingIsShown == events = <<>> /\ work = EmptyBag => pending \subseteq shown

\* The approval displayed changes only when the owner chooses another or it has ended.
\* (It fails: a new request takes its place.)
DisplayStays ==
  [][open /\ open' /\ Displayed \in shown' => Displayed' = Displayed
     \/ \E a \in Approvals : SelectAgentApproval(a)]_panelVars
=============================================================================
