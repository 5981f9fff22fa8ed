------------------------------ MODULE MC_Services ------------------------------
(***************************************************************************)
(* Services with small sets and bounds: a vault file and two backups, two  *)
(* updates of the notes, two commands of vidactl on two hosts, two calls,  *)
(* one subscription with more to push than its channels hold, one terminal *)
(* and one transfer, frames of two rows and more of them than the channel  *)
(* holds, and one approval with room for it to expire.                     *)
(***************************************************************************)
EXTENDS Services

\* One vault of each kind that the steps of the migration tell apart.
Old(v, auth, ids, path, font, trust) ==
  [version |-> v, auth |-> auth, ids |-> ids, path |-> path, font |-> font, trust |-> trust]
OldOnes ==
  {Old(1, "unit", 0, "absent", "absent", "absent"), Old(4, "entry", 1, "none", "absent", "absent"),
   Old(5, "entry", 1, "none", "own", "absent"), Old(6, "entry", 1, "none", "Menlo", "absent"),
   Old(7, "entry", 1, "none", "JetBrainsMono", "own"),
   Old(8, "entry", 1, "none", "own", "own")}

FilePlan(edits, restores, downloads, faults, kills, cuts, locks) ==
  [edits |-> edits, restores |-> restores, downloads |-> downloads, faults |-> faults,
   kills |-> kills, cuts |-> cuts, locks |-> locks]
VaultPlans ==
  {FilePlan(1, 1, 0, 1, 1, 0, 0), FilePlan(0, 2, 0, 1, 0, 1, 0), FilePlan(0, 0, 1, 0, 1, 1, 1)}

Heading(s) == [h |-> s, t |-> ""]
Line(x)    == [h |-> "", t |-> x]
Blank      == Line("")
NoteAsk(s, text, r) == [kind |-> "notes", section |-> s, text |-> text, replace |-> r]
DraftAsk(text) == [kind |-> "draft", section |-> "", replace |-> FALSE, text |-> text]

\* One line for a section that is there or not, or two with a blank between; and drafts.
PlainAsks ==
  {NoteAsk("A", <<Line("x")>>, FALSE), NoteAsk("A", <<Line("y")>>, TRUE),
   NoteAsk("C", <<Line("x")>>, FALSE), NoteAsk("A", <<Line("x"), Blank, Line("z")>>, FALSE),
   DraftAsk(<<Line("x")>>), DraftAsk(<<Line("x"), Line("y")>>)}
NoteDocuments ==
  {<<>>, <<Line("intro"), Heading("C"), Blank, Line("c"), Blank, Heading("A")>>,
   <<Heading("A"), Line("a"), Heading("C"), Line("c"), Blank, Blank>>}

CtlCommands ==
  {[kind |-> "trust", sel |-> s] : s \in {"b", "n"}}
    \cup {[kind |-> k, sel |-> "b"] : k \in {"show", "notes"}}
    \cup {[kind |-> k, sel |-> ""] : k \in {"exec", "danger", "approve", "deny"}}

CallPlan(calls, kills, stops, overlaps, breaks, refusals) ==
  [calls |-> calls, kills |-> kills, stops |-> stops, overlaps |-> overlaps, breaks |-> breaks,
   refusals |-> refusals]

\* A daemon that is killed, for two calls; for one, two of these: a daemon that is killed, one
\* that is stopped, a connection that breaks and a refusal.
ClientPlans ==
  {CallPlan(2, 1, 0, 0, 0, 0), CallPlan(1, 0, 1, 0, 1, 0), CallPlan(1, 1, 0, 0, 1, 0),
   CallPlan(1, 1, 1, 0, 0, 0), CallPlan(1, 0, 0, 0, 1, 1), CallPlan(1, 0, 2, 0, 0, 0)}

\* An inline key with a passphrase, one without, and a password.
SshLogins ==
  {[kind |-> "terminal", inline |-> TRUE, secret |-> TRUE],
   [kind |-> "transfer", inline |-> TRUE, secret |-> FALSE],
   [kind |-> "transfer", inline |-> FALSE, secret |-> TRUE]}
KeyLogins == {l \in SshLogins : l.inline}

\* A terminal and a transfer at a time; or one use, whose helper asks again.
SshPlan(uses, logins, asks) == [uses |-> uses, logins |-> logins, asks |-> asks, starts |-> 1]
SshPlans == {SshPlan({1, 2}, KeyLogins, 1), SshPlan({1}, SshLogins, 2)}
================================================================================
