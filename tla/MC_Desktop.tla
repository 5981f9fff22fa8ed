------------------------------ MODULE MC_Desktop ------------------------------
(***************************************************************************)
(* Desktop with small sets and bounds: two mishaps and two attempts at the *)
(* start, up to four hosts, credentials of two hosts, two approvals, two   *)
(* backups, a directory and the one in it, four entries of which a filter  *)
(* hides some, two terminals and a window of three sizes, and a screen of  *)
(* two rows with a history of two.                                         *)
(***************************************************************************)
EXTENDS Desktop

(* Plans: what may happen in a part, and how often.                        *)

EditorPlan(s, d, n, x, o, m, f, a) ==
  [saves |-> s, drafts |-> d, notes |-> n, deletes |-> x, opens |-> o, moves |-> m,
   faults |-> f, away |-> a]

\* Two saves; a save or a draft among deletions and other tabs; notes and a failing request.
OwnersEdits ==
  {EditorPlan(2, 0, 0, 0, 2, 0, 0, 0), EditorPlan(1, 0, 0, 1, 2, 0, 0, 0),
   EditorPlan(1, 1, 0, 0, 1, 0, 0, 0), EditorPlan(0, 1, 0, 1, 1, 1, 0, 1),
   EditorPlan(1, 0, 1, 0, 1, 0, 1, 0)}

PanelPlan(a, d, f) == [asked |-> a, decisions |-> d, faults |-> f]

\* Two approvals without a fault, one with a fault.
OwnersDecisions == {PanelPlan(2, 1, 0), PanelPlan(1, 1, 1)}

SettingsPlan(e, s, o, y, p, c, x, f, l) ==
  [edits |-> e, saves |-> s, opens |-> o, syncs |-> y, picks |-> p, checks |-> c,
   exports |-> x, faults |-> f, locks |-> l]

\* A save; a restore with an export in the way; two synchronisations with their
\* questions, a failing call and a lock.
OwnersSettings ==
  {SettingsPlan(1, 1, 1, 0, 0, 0, 0, 1, 0), SettingsPlan(0, 0, 1, 0, 4, 2, 1, 0, 0),
   SettingsPlan(0, 0, 0, 3, 0, 0, 0, 1, 0), SettingsPlan(0, 0, 0, 1, 0, 0, 0, 0, 1)}

OldBackup(secret, look) == [secret |-> secret, set |-> [path |-> "none", look |-> look]]
OldBackups == [f \in {"f", "g"} |-> IF f = "f" THEN OldBackup("s", "x") ELSE OldBackup("t", "y")]

SftpPlan(m, k, u, d, t, f, o) ==
  [moves |-> m, makes |-> k, ups |-> u, downs |-> d, tabs |-> t, faults |-> f, old |-> o]

\* Moves, with a new directory, an upload and lists that age; queues of transfers, with a
\* failure; and a tab that is closed and opened again meanwhile.
OwnersTransfers ==
  {SftpPlan(2, 1, 1, 0, 0, 0, 1), SftpPlan(1, 0, 2, 1, 0, 1, 0), SftpPlan(0, 0, 2, 0, 2, 1, 0),
   SftpPlan(0, 0, 0, 2, 2, 1, 0)}

ViewPlan(opens, switches, resizes, wheels, keys, commits, outputs) ==
  [opens |-> opens, switches |-> switches, resizes |-> resizes, wheels |-> wheels,
   keys |-> keys, commits |-> commits, outputs |-> outputs]

\* The window changes its size, up to three times and there and back; terminals are
\* scrolled, typed at, left and come back to.
OwnersViews ==
  {ViewPlan(1, 0, 3, 0, 0, 0, 1), ViewPlan(2, 1, 2, 0, 0, 0, 0), ViewPlan(1, 0, 2, 1, 0, 0, 0),
   ViewPlan(1, 0, 1, 1, 1, 0, 0), ViewPlan(1, 0, 1, 1, 0, 0, 1), ViewPlan(2, 2, 0, 1, 1, 0, 0),
   ViewPlan(1, 1, 0, 1, 1, 1, 1)}

TextPlan(lines, rewrites, drags, wheels, copies) ==
  [lines |-> lines, rewrites |-> rewrites, drags |-> drags, wheels |-> wheels,
   copies |-> copies]

\* While text is selected, more lines are written than the history takes, a row is written
\* again and the wheel is turned.
OwnersSelections ==
  {TextPlan(2, 1, 1, 1, 1), TextPlan(3, 0, 1, 1, 1), TextPlan(1, 0, 2, 2, 2)}

-----------------------------------------------------------------------------
\* The rows a filter leaves, and how far the wheel may turn at once.
RowFilters == {{1, 2, 3, 4}, {1, 4}, {2, 3, 4}}
Turns == {-2, -1, 1, 2}
=============================================================================
