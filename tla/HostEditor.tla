------------------------------ MODULE HostEditor ------------------------------
(***************************************************************************)
(* The host editor of the desktop application (vida-gui: app.rs and        *)
(* screens/s4_credential.rs) and what its requests do to the hosts of the  *)
(* vault (vida-daemon: state.rs).                                          *)
(*                                                                         *)
(* All editor tabs share one form.  Saving it takes two requests, one for  *)
(* the host and one for what agents may do there, and the second is sent   *)
(* for the host the answer to the first names.  Meanwhile the owner goes   *)
(* on, agents prepare drafts and write notes, and lists of hosts arrive.   *)
(*                                                                         *)
(* A host's text is abstracted to the number of notes agents have added;   *)
(* a form is the credential it has, the text and the trust it shows.       *)
(***************************************************************************)
EXTENDS Integers, Sequences, FiniteSets, Bags

CONSTANTS
  Trusts,    \* what agents may do on a host; new hosts have "ask"
  MaxHosts,  \* bound on the hosts there ever are
  Plans      \* bounds: how many saves, drafts, notes, deletes, opens, moves, faults and
             \* openings of other screens (away) there may be

HostIds == 1..MaxHosts

VARIABLES
  vault,   \* the daemon's hosts, in order
  fresh,   \* the next id
  hosts,   \* the application's copy
  tabs,    \* its tabs, in order
  active,  \* active_tab_id
  form,    \* editor_state
  drafts,  \* pending_agent_host_drafts
  shown,   \* whether the main screen is
  work,    \* tasks in progress and messages not yet handled
  chosen,  \* the trust of the form last saved for a host, "ask" before
  left     \* bounds: how often each thing may still happen

editorVars == <<vault, fresh, hosts, tabs, active, form, drafts, shown, work, chosen, left>>

NoTab == [kind |-> "none", host |-> 0]
HomeTab == [kind |-> "home", host |-> 0]
AddTab == [kind |-> "add", host |-> 0]
EditTab(h) == [kind |-> "edit", host |-> h]
HostTab(h) == [kind |-> "host", host |-> h]
IsEditor(t) == t.kind \in {"add", "edit"}

NoForm == [host |-> -1, trust |-> "ask", text |-> 0, credential |-> "empty", saving |-> FALSE]
\* new_add and new_agent_draft: nothing is preset but what the draft brought.
AddForm == [NoForm EXCEPT !.host = 0]
\* new_edit: an untouched credential stays what it is.
EditForm(h) == [NoForm EXCEPT !.host = h.id, !.trust = h.trust, !.text = h.text,
                              !.credential = "kept"]

Ids(hs) == {hs[i].id : i \in DOMAIN hs}
Of(hs, id) == hs[CHOOSE i \in DOMAIN hs : hs[i].id = id]
HasTab(tb, t) == \E i \in DOMAIN tb : tb[i] = t
WithTab(tb, t) == IF HasTab(tb, t) THEN tb ELSE Append(tb, t)
FirstOf(tb) == IF tb = <<>> THEN NoTab ELSE tb[1]

Work(kind) == [kind |-> kind, host |-> -1, trust |-> "ask", text |-> 0, hosts |-> <<>>]
Post(w) == work' = work (+) SetToBag({w})
Done(w) == work' = work (-) SetToBag({w})
Become(w, v) == work' = (work (-) SetToBag({w})) (+) SetToBag({v})
At(kind) == {w \in BagToSet(work) : w.kind = kind}
Use(what) == left[what] > 0 /\ left' = [left EXCEPT ![what] = @ - 1]

Init ==
  /\ \E p \in Plans : left = p
  /\ vault = <<[id |-> 1, trust |-> "ask", text |-> 0], [id |-> 2, trust |-> "ask", text |-> 0]>>
  /\ fresh = 3
  /\ hosts = vault
  /\ tabs = <<HomeTab>> /\ active = HomeTab
  /\ form = NoForm /\ drafts = 0 /\ shown = TRUE
  /\ work = EmptyBag
  /\ chosen = [h \in HostIds |-> "ask"]

-----------------------------------------------------------------------------
(* Tabs and the form.                                                      *)

OpensDraft(fm, on, dr) == fm = NoForm /\ on /\ dr > 0

\* open_next_agent_host_draft, at the end of a handler that leaves tabs tb, active tab
\* act, form fm, main screen on and dr drafts.
OpenNextDraft(tb, act, fm, on, dr) ==
  IF OpensDraft(fm, on, dr)
  THEN /\ tabs' = WithTab(tb, AddTab)
       /\ active' = AddTab
       /\ form' = AddForm
       /\ drafts' = dr - 1
  ELSE tabs' = tb /\ active' = act /\ form' = fm /\ drafts' = dr

\* OpenAddHostTab and QuickAddHost.
OpenAddHostTab ==
  /\ shown /\ Use("opens")
  /\ tabs' = WithTab(tabs, AddTab)
  /\ active' = AddTab
  /\ form' = AddForm
  /\ UNCHANGED <<vault, fresh, hosts, drafts, shown, work, chosen>>

EditHost(h) ==
  /\ shown /\ Use("opens")
  /\ tabs' = WithTab(tabs, EditTab(h))
  /\ active' = EditTab(h)
  /\ form' = EditForm(Of(hosts, h))
  /\ UNCHANGED <<vault, fresh, hosts, drafts, shown, work, chosen>>

OpenHostDetail(h) ==
  /\ shown /\ Use("opens")
  /\ tabs' = WithTab(tabs, HostTab(h))
  /\ active' = HostTab(h)
  /\ UNCHANGED <<vault, fresh, hosts, form, drafts, shown, work, chosen>>

\* The position of the closed tab decides which is active afterwards.
AfterClosing(t) ==
  LET rest == SelectSeq(tabs, LAMBDA x : x # t)
      at   == CHOOSE i \in DOMAIN tabs : tabs[i] = t
  IN IF active # t THEN active
     ELSE IF rest = <<>> THEN NoTab
     ELSE rest[IF at <= Len(rest) THEN at ELSE Len(rest)]

CloseTab(t) ==
  /\ shown /\ Use("moves")
  /\ LET rest == SelectSeq(tabs, LAMBDA x : x # t)
     IN IF IsEditor(t)
        THEN OpenNextDraft(rest, AfterClosing(t), NoForm, shown, drafts)
        ELSE /\ tabs' = rest /\ active' = AfterClosing(t)
             /\ UNCHANGED <<form, drafts>>
  /\ UNCHANGED <<vault, fresh, hosts, shown, work, chosen>>

SwitchTab(t) ==
  /\ shown /\ t # active /\ Use("moves")
  /\ active' = t
  /\ UNCHANGED <<vault, fresh, hosts, tabs, form, drafts, shown, work, chosen>>

\* The form is on the screen while an editor tab is active, whichever it is.
Editing == shown /\ IsEditor(active) /\ form # NoForm

\* A password, a key or another kind of credential is entered or taken away.
EditorCredential(c) ==
  /\ Editing /\ form.credential # c
  /\ form' = [form EXCEPT !.credential = c]
  /\ UNCHANGED <<vault, fresh, hosts, tabs, active, drafts, shown, work, chosen, left>>

EditorAgentTrustChanged(t) ==
  /\ Editing /\ form.trust # t
  /\ form' = [form EXCEPT !.trust = t]
  /\ UNCHANGED <<vault, fresh, hosts, tabs, active, drafts, shown, work, chosen, left>>

\* The button is enabled when the form is complete and not being saved.
CanSave == ~form.saving /\ form.credential # "empty"

Saving == At("save") \cup At("trust")

EditorSave ==
  /\ Editing /\ CanSave /\ Use("saves")
  /\ form' = [form EXCEPT !.saving = TRUE]
  /\ Post([Work("save") EXCEPT !.host = form.host, !.trust = form.trust, !.text = form.text])
  /\ UNCHANGED <<vault, fresh, hosts, tabs, active, drafts, shown, chosen>>

\* The tabs EditorSaved and EditorCancel leave: no editor, and not the active one.
LeaveEditor ==
  LET rest == SelectSeq(tabs, LAMBDA t : t # active /\ ~IsEditor(t))
  IN OpenNextDraft(rest, FirstOf(rest), NoForm, shown, drafts)

EditorCancel ==
  /\ Editing
  /\ LeaveEditor
  /\ Post(Work("list"))
  /\ UNCHANGED <<vault, fresh, hosts, shown, chosen, left>>

DeleteHostConfirm(h) ==
  /\ shown /\ active = HostTab(h) /\ Use("deletes")
  /\ Post([Work("delete") EXCEPT !.host = h])
  /\ UNCHANGED <<vault, fresh, hosts, tabs, active, form, drafts, shown, chosen>>

-----------------------------------------------------------------------------
(* The requests.                                                           *)

\* DaemonState::update_host: an edited host keeps its trust, a new one asks.
\* Mutant: new hosts come first.
UpdatedFirst(w) ==
  IF w.host = 0 THEN <<[id |-> fresh, trust |-> "ask", text |-> w.text]>> \o vault
  ELSE [i \in DOMAIN vault |->
          IF vault[i].id = w.host THEN [vault[i] EXCEPT !.text = w.text] ELSE vault[i]]

Updated(w) ==
  IF w.host = 0 THEN Append(vault, [id |-> fresh, trust |-> "ask", text |-> w.text])
  ELSE [i \in DOMAIN vault |->
          IF vault[i].id = w.host THEN [vault[i] EXCEPT !.text = w.text] ELSE vault[i]]

\* What it answers: the last host, whichever was edited.
Answered(hs) == hs[Len(hs)].id

UpdateHost(w) ==
  LET meant == IF w.host = 0 THEN fresh ELSE w.host
  IN /\ w.host = 0 => fresh <= MaxHosts
     /\ w.host = 0 \/ w.host \in Ids(vault)
     /\ vault' = Updated(w)
     /\ fresh' = IF w.host = 0 THEN fresh + 1 ELSE fresh
     /\ Become(w, [w EXCEPT !.kind = "trust", !.host = Answered(vault')])
     /\ chosen' = [chosen EXCEPT ![meant] = w.trust]
     /\ UNCHANGED <<hosts, tabs, active, form, drafts, shown, left>>

SetHostAgentTrust(w) ==
  /\ w.host \in Ids(vault)
  /\ vault' = [i \in DOMAIN vault |->
                 IF vault[i].id = w.host THEN [vault[i] EXCEPT !.trust = w.trust] ELSE vault[i]]
  /\ Become(w, Work("saved"))
  /\ UNCHANGED <<fresh, hosts, tabs, active, form, drafts, shown, chosen, left>>

DeleteHost(w) ==
  /\ w.host \in Ids(vault)
  /\ vault' = SelectSeq(vault, LAMBDA h : h.id # w.host)
  /\ Become(w, Work("list"))
  /\ UNCHANGED <<fresh, hosts, tabs, active, form, drafts, shown, chosen, left>>

ListHosts(w) ==
  /\ Become(w, [Work("loaded") EXCEPT !.hosts = vault])
  /\ UNCHANGED <<vault, fresh, hosts, tabs, active, form, drafts, shown, chosen, left>>

\* A request names a host that is gone, or fails.
RequestFails(w) ==
  /\ \/ w.kind \in {"save", "trust", "delete"} /\ w.host \notin Ids(vault) \cup {0}
        /\ UNCHANGED left
     \/ Use("faults")
  /\ Become(w, Work("error"))
  /\ UNCHANGED <<vault, fresh, hosts, tabs, active, form, drafts, shown, chosen>>

-----------------------------------------------------------------------------
(* The messages.                                                           *)

EditorSaved(w) ==
  /\ LeaveEditor
  /\ Become(w, Work("list"))
  /\ UNCHANGED <<vault, fresh, hosts, shown, chosen, left>>

\* set_hosts: the tabs of hosts that are gone go too.
SetHosts(hs) ==
  LET rest == SelectSeq(tabs, LAMBDA t : t.kind = "host" => t.host \in Ids(hs))
  IN [tabs |-> rest, active |-> IF HasTab(rest, active) THEN active ELSE FirstOf(rest)]

HostsLoaded(w) ==
  /\ LET kept == SetHosts(w.hosts) IN OpenNextDraft(kept.tabs, kept.active, form, TRUE, drafts)
  /\ hosts' = w.hosts
  /\ shown' = TRUE
  /\ Done(w)
  /\ UNCHANGED <<vault, fresh, chosen, left>>

\* SyncCompleted with what was downloaded: the main screen, but no draft is opened.
SyncCompleted ==
  /\ ~shown
  /\ tabs' = SetHosts(vault).tabs /\ active' = SetHosts(vault).active
  /\ hosts' = vault
  /\ shown' = TRUE
  /\ UNCHANGED <<vault, fresh, form, drafts, work, chosen, left>>

WsError(w) ==
  /\ shown' = FALSE
  /\ Done(w)
  /\ UNCHANGED <<vault, fresh, hosts, tabs, active, form, drafts, chosen, left>>

RetryConnection ==
  /\ ~shown /\ At("list") = {} /\ At("loaded") = {}
  /\ Post(Work("list"))
  /\ UNCHANGED <<vault, fresh, hosts, tabs, active, form, drafts, shown, chosen, left>>

\* A synchronisation shows its screens instead of the main one.
LeaveMain ==
  /\ shown /\ Use("away")
  /\ shown' = FALSE
  /\ UNCHANGED <<vault, fresh, hosts, tabs, active, form, drafts, work, chosen>>

HostDraftPrepared ==
  /\ Use("drafts")
  /\ OpenNextDraft(tabs, active, form, shown, drafts + 1)
  /\ UNCHANGED <<vault, fresh, hosts, shown, work, chosen>>

\* update_host_notes, and HostNotesUpdated of the owners.
HostNotesUpdated(h) ==
  /\ Use("notes")
  /\ vault' = [i \in DOMAIN vault |->
                 IF vault[i].id = h THEN [vault[i] EXCEPT !.text = @ + 1] ELSE vault[i]]
  /\ Post(Work("list"))
  /\ UNCHANGED <<fresh, hosts, tabs, active, form, drafts, shown, chosen>>

Owner ==
  \/ OpenAddHostTab
  \/ \E h \in Ids(hosts) : EditHost(h)
  \/ \E h \in Ids(hosts) : OpenHostDetail(h)
  \/ \E i \in DOMAIN tabs : CloseTab(tabs[i])
  \/ \E i \in DOMAIN tabs : SwitchTab(tabs[i])
  \/ \E c \in {"empty", "given"} : EditorCredential(c)
  \/ \E t \in Trusts : EditorAgentTrustChanged(t)
  \/ EditorSave
  \/ EditorCancel
  \/ \E h \in HostIds : DeleteHostConfirm(h)

Requests ==
  \/ \E w \in At("save") : UpdateHost(w)
  \/ \E w \in At("trust") : SetHostAgentTrust(w)
  \/ \E w \in At("delete") : DeleteHost(w)
  \/ \E w \in At("list") : ListHosts(w)
  \/ \E w \in At("save") \cup At("trust") \cup At("delete") \cup At("list") : RequestFails(w)

Messages ==
  \/ \E w \in At("saved") : EditorSaved(w)
  \/ \E w \in At("loaded") : HostsLoaded(w)
  \/ \E w \in At("error") : WsError(w)

Next ==
  \/ Owner \/ Requests \/ Messages
  \/ SyncCompleted \/ RetryConnection \/ LeaveMain \/ HostDraftPrepared
  \/ \E h \in Ids(vault) : HostNotesUpdated(h)

Spec == Init /\ [][Next]_editorVars

\* Requests are answered and messages are handled.
FairSpec == Spec /\ WF_editorVars(Requests) /\ WF_editorVars(Messages)

-----------------------------------------------------------------------------
(* Properties.                                                             *)

HostRecords == [id : HostIds, trust : Trusts, text : Nat]

TypeOK ==
  /\ vault \in Seq(HostRecords) /\ hosts \in Seq(HostRecords)
  /\ fresh \in 1..(MaxHosts + 1)
  /\ \A i \in DOMAIN tabs : tabs[i].kind \in {"home", "add", "edit", "host"}
  /\ active = NoTab \/ HasTab(tabs, active)
  /\ form \in [host : -1..MaxHosts, trust : Trusts, text : Nat,
               credential : {"empty", "given", "kept"}, saving : BOOLEAN]
  /\ drafts \in Nat
  /\ shown \in BOOLEAN
  /\ chosen \in [HostIds -> Trusts]

\* The host a save ended for has the trust its form showed: decisions.md, 1125, has the
\* trust of a host configured on its editing page.  (It fails: update_host answers with the
\* last host, whichever was edited, and the trust goes to that one; or the second request
\* fails.)
EditorTrust ==
  Saving = {} => \A i \in DOMAIN vault : vault[i].trust = chosen[vault[i].id]

\* No form is filled in while a draft is waiting, unless it came up before: every draft
\* reaches the owner when the editor is free (app.rs, 1136).  (It fails after a
\* synchronisation's screens: SyncCompleted opens no draft.)
DraftsShown == shown /\ form = NoForm => drafts = 0

\* What the owner is filling in goes only when the owner leaves it or it has been saved.
\* (It fails: the answer to an earlier save closes every form.)
FormsAreKept ==
  [][form # NoForm /\ ~form.saving /\ form' = NoForm => At("saved") = At("saved")' ]_editorVars

\* The button of a form that is being saved stays disabled for good only if a request was
\* refused meanwhile: whatever other forms, tabs, drafts and lists come in between, an
\* accepted save closes the form (app.rs, 2058 and 2127 to 2137).
Disabled == form.saving
Refused == Disabled /\ At("error") # {}
SaveEnds == <>[]Disabled => <>Refused

\* Once a form is being saved it is closed or may be saved again.  (It fails: after a
\* request that fails the form comes back with its button disabled.)
SaveReturns == shown /\ work = EmptyBag => ~form.saving

\* Notes an agent added are not undone by a save.  (It fails: the form holds the notes as
\* they were when it was opened.)
NotesStay ==
  [][\A i \in DOMAIN vault, j \in DOMAIN vault' :
       vault[i].id = vault'[j].id => vault'[j].text >= vault[i].text]_editorVars
=============================================================================
