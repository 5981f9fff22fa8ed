------------------------------- MODULE HostNotes -------------------------------
(***************************************************************************)
(* The operations notes of a host, which the agent extends one section at  *)
(* a time, and the host drafts it prepares (ws_server.rs                   *)
(* handle_agent_request, state.rs update_host_notes, host.rs               *)
(* update_notes_section, agent.rs append_audit_file).                      *)
(*                                                                         *)
(* The notes are a document of lines: a line is the heading of a section,  *)
(* a text, or blank.  A request is checked, then audited, then applied,    *)
(* each under its own lock, so that two requests, a locked vault or a      *)
(* deleted host can come between; a failed save leaves the change in       *)
(* memory; a crash may cut an audit line short.                            *)
(***************************************************************************)
EXTENDS Integers, Sequences, FiniteSets, FiniteSetsExt

CONSTANTS
  Requests,  \* the agent's requests, numbered in the order they arrive
  Sections,  \* names of sections
  Asks,      \* what a request may ask: [kind, section, text, replace]
  Documents  \* what a human may have left in the notes

VARIABLES
  vault,     \* the vault in memory: is it open, is the host there, its notes
  disk,      \* the host and its notes in the file
  audit,     \* the audit file, line by line
  requests,  \* how far each request is
  drafts     \* drafts announced to the owner, by request

vars == <<vault, disk, audit, requests, drafts>>

Heading(s) == [h |-> s, t |-> ""]
Line(x)    == [h |-> "", t |-> x]
Blank      == Line("")
IsHeading(l) == l.h # ""

\* str::trim over lines.
Trimmed(ls) ==
  LET full == {i \in DOMAIN ls : ls[i] # Blank}
  IN IF full = {} THEN <<>> ELSE SubSeq(ls, Min(full), Max(full))

WithoutTail(ls) ==
  SubSeq(ls, 1, Max({0} \cup {i \in DOMAIN ls : ls[i] # Blank}))

\* Where the body of the section starting at `start' ends: before the next
\* heading of any name, or at the end of the document.
\* Mutant: only a heading that is not the section's own ends it.
EndLate(ls, start) ==
  Min({Len(ls) + 1} \cup {i \in DOMAIN ls : i > start + 1 /\ IsHeading(ls[i])})

EndOf(ls, start) == Min({Len(ls) + 1} \cup {i \in DOMAIN ls : i > start /\ IsHeading(ls[i])})

\* update_notes_section.
Update(ls, s, text, replace) ==
  LET starts == {i \in DOMAIN ls : ls[i] = Heading(s)}
      start == Min(starts)
      end == EndOf(ls, start)
      existing == Trimmed(SubSeq(ls, start + 1, end - 1))
      kept == WithoutTail(ls)
  IN IF starts # {}
     THEN SubSeq(ls, 1, start)
          \o (IF replace \/ existing = <<>> THEN text ELSE existing \o <<Blank>> \o text)
          \o SubSeq(ls, end, Len(ls))
     ELSE kept \o (IF kept = <<>> THEN <<>> ELSE <<Blank>>) \o <<Heading(s)>> \o text

\* Empty notes stand for the default document.
Default == <<Heading("A"), Blank, Heading("B"), Blank>>
Current(ls) == IF Trimmed(ls) = <<>> THEN Default ELSE ls

Nothing == [kind |-> "notes", section |-> "", text |-> <<>>, replace |-> FALSE]

Init ==
  /\ \E d \in Documents :
       /\ vault = [open |-> TRUE, host |-> TRUE, notes |-> d]
       /\ disk = [host |-> TRUE, notes |-> d, applied |-> {}]
  /\ audit = [lines |-> <<>>, ended |-> TRUE]
  /\ requests = [r \in Requests |-> [pc |-> "idle", ask |-> Nothing]]
  /\ drafts = {}

-----------------------------------------------------------------------------
At(r, pc) == requests[r].pc = pc
Moved(r, pc) == requests' = [requests EXCEPT ![r].pc = pc]

\* The notes of a draft go through the check for single words and names: a
\* line break is a control character, and the draft is refused.
ValidDraft(ask) == Len(ask.text) <= 1

\* The request is validated, and the host must exist in the open vault; a
\* draft needs only the open vault.
Check(r, ask) ==
  /\ At(r, "idle") /\ \A q \in Requests : q < r => ~At(q, "idle")
  /\ LET fits == IF ask.kind = "notes" THEN vault.open /\ vault.host
                 ELSE vault.open /\ ValidDraft(ask)
     IN requests' = [requests EXCEPT ![r] = [pc |-> IF fits THEN "checked" ELSE "refused",
                                             ask |-> ask]]
  /\ UNCHANGED <<vault, disk, audit, drafts>>

\* append_audit_file writes the entry in pieces and the end of the line last,
\* under the agent's lock: one request at a time.
AuditBegins(r) ==
  /\ At(r, "checked") /\ \A q \in Requests : ~At(q, "auditing")
  /\ audit' = [lines |-> IF audit.ended THEN Append(audit.lines, <<r>>)
                         ELSE [audit.lines EXCEPT ![Len(audit.lines)] = Append(@, r)],
               ended |-> FALSE]
  /\ Moved(r, "auditing")
  /\ UNCHANGED <<vault, disk, drafts>>

AuditEnds(r) ==
  /\ At(r, "auditing")
  /\ audit' = [audit EXCEPT !.ended = TRUE]
  /\ Moved(r, "audited")
  /\ UNCHANGED <<vault, disk, drafts>>

\* Mutant: the update is applied as soon as the request was checked.
ReadyEarly(r) == At(r, "checked") \/ At(r, "audited")

Ready(r) == At(r, "audited")

\* update_host_notes: the section in memory, then the file.
Apply(r) ==
  /\ Ready(r) /\ requests[r].ask.kind = "notes" /\ vault.open /\ vault.host
  /\ LET ask == requests[r].ask
         notes == Update(Current(vault.notes), ask.section, ask.text, ask.replace)
     IN /\ vault' = [vault EXCEPT !.notes = notes]
        /\ \/ /\ disk' = [host |-> TRUE, notes |-> notes, applied |-> disk.applied \cup {r}]
              /\ Moved(r, "done")
           \/ /\ UNCHANGED disk          \* the save failed
              /\ Moved(r, "failed")
  /\ UNCHANGED <<audit, drafts>>

\* The vault was locked, or the host deleted, since the check.
ApplyFails(r) ==
  /\ Ready(r) /\ requests[r].ask.kind = "notes" /\ ~(vault.open /\ vault.host)
  /\ Moved(r, "failed")
  /\ UNCHANGED <<vault, disk, audit, drafts>>

\* prepare_host_draft tells the owner once the entry is written.
Announce(r) ==
  /\ Ready(r) /\ requests[r].ask.kind = "draft"
  /\ drafts' = drafts \cup {r}
  /\ Moved(r, "done")
  /\ UNCHANGED <<vault, disk, audit>>

DeleteHost ==
  /\ vault.open /\ vault.host
  /\ vault' = [vault EXCEPT !.host = FALSE, !.notes = <<>>]
  /\ disk' = [disk EXCEPT !.host = FALSE, !.notes = <<>>]
  /\ UNCHANGED <<audit, requests, drafts>>

Lock ==
  /\ vault.open
  /\ vault' = [open |-> FALSE, host |-> FALSE, notes |-> <<>>]
  /\ UNCHANGED <<disk, audit, requests, drafts>>

Unlock ==
  /\ ~vault.open
  /\ vault' = [open |-> TRUE, host |-> disk.host, notes |-> disk.notes]
  /\ UNCHANGED <<disk, audit, requests, drafts>>

\* The daemon dies: the requests under way are lost, and nothing in the audit
\* file ends a line that was being written.
Crash ==
  /\ \E r \in Requests : requests[r].pc \in {"checked", "auditing", "audited"}
  /\ vault' = [open |-> FALSE, host |-> FALSE, notes |-> <<>>]
  /\ requests' = [r \in Requests |->
       IF requests[r].pc \in {"checked", "auditing", "audited"}
       THEN [requests[r] EXCEPT !.pc = "lost"] ELSE requests[r]]
  /\ UNCHANGED <<disk, audit, drafts>>

Next ==
  \/ \E r \in Requests : \E ask \in Asks : Check(r, ask)
  \/ \E r \in Requests : AuditBegins(r)
  \/ \E r \in Requests : AuditEnds(r)
  \/ \E r \in Requests : Apply(r)
  \/ \E r \in Requests : ApplyFails(r)
  \/ \E r \in Requests : Announce(r)
  \/ DeleteHost \/ Lock \/ Unlock \/ Crash

Spec == Init /\ [][Next]_vars

-----------------------------------------------------------------------------
\* The variables keep their types.
TypeOK ==
  /\ vault.open \in BOOLEAN /\ vault.host \in BOOLEAN
  /\ disk.host \in BOOLEAN /\ disk.applied \subseteq Requests
  /\ \A i \in DOMAIN audit.lines : \A j \in DOMAIN audit.lines[i] : audit.lines[i][j] \in Requests
  /\ \A r \in Requests :
       requests[r].pc \in {"idle", "checked", "auditing", "audited", "refused", "done",
                           "failed", "lost"}
  /\ drafts \subseteq Requests

\* The lines of text in a section, and those before the first heading.
Texts(ls) == SelectSeq(ls, LAMBDA l : l # Blank)
Section(ls, s) ==
  LET starts == {i \in DOMAIN ls : ls[i] = Heading(s)}
  IN IF starts = {} THEN <<>> ELSE Texts(SubSeq(ls, Min(starts) + 1, EndOf(ls, Min(starts)) - 1))
Intro(ls) == Texts(SubSeq(ls, 1, EndOf(ls, 0) - 1))

\* An update rewrites the section it names and nothing else: appending keeps
\* what the section said and adds to its end, replacing leaves the new text
\* alone, and every other section and the words before the first heading stay,
\* whatever earlier updates, default headings and missing sections there were.
ChangesOneSection ==
  \A r \in Requests : Apply(r) =>
    LET ask == requests[r].ask
        old == Current(vault.notes)
        new == vault'.notes
    IN /\ Intro(new) = Intro(old)
       /\ \A s \in Sections : Section(new, s) =
            IF s # ask.section THEN Section(old, s)
            ELSE (IF ask.replace THEN <<>> ELSE Section(old, s)) \o Texts(ask.text)
UpdatesOneSection == [][ChangesOneSection]_vars

\* What the agent changed in the vault, or showed to the owner as a draft, is
\* in the audit file, whatever was locked, deleted or crashed in between.
ChangesAreAudited ==
  \A r \in disk.applied \cup drafts :
    \E i \in DOMAIN audit.lines : \E j \in DOMAIN audit.lines[i] : audit.lines[i][j] = r

\* (Observation.) A line cut short by a crash is joined by the next entry, and
\* the file cannot be read any more.
AuditReadable ==
  (\A r \in Requests : ~At(r, "auditing")) =>
    audit.ended /\ \A i \in DOMAIN audit.lines : Len(audit.lines[i]) = 1

\* (Observation.) The file says in which order the sections were changed.
AuditInOrder ==
  \A r, q \in disk.applied : \A i, j \in DOMAIN audit.lines :
    audit.lines[i] = <<r>> /\ audit.lines[j] = <<q>> /\ i < j /\ requests[r].ask.replace
    /\ requests[q].ask.replace /\ requests[r].ask.section = requests[q].ask.section
      => Section(disk.notes, requests[q].ask.section) # Texts(requests[r].ask.text)
===============================================================================
