---------------------------- MODULE SftpSelection ----------------------------
(***************************************************************************)
(* Selecting entries of a remote directory with the mouse (vida-gui:       *)
(* screens/s_sftp.rs and the SftpSelection messages of app.rs): a click,   *)
(* a drag over several rows, either with the key held that adds to what is *)
(* selected, and the context menu, which selects the row it opens on.      *)
(***************************************************************************)
EXTENDS Integers, FiniteSets

CONSTANTS
  Count,    \* how many entries there are
  Filters   \* the sets of rows a filter may leave

Entries == 1..Count

NoEntry == 0

VARIABLES
  rows,      \* the entries shown
  selected, base, anchor, additive, dragging,  \* selection_base and so on
  context,   \* context_entry
  loading,   \* nothing can be chosen while the directory is read
  last       \* the row the drag has come to

selectionVars == <<rows, selected, base, anchor, additive, dragging, context, loading, last>>

ResetSelection ==
  /\ selected' = {} /\ base' = {} /\ anchor' = NoEntry
  /\ dragging' = FALSE /\ context' = NoEntry /\ last' = NoEntry

Init ==
  /\ rows = Entries /\ loading = FALSE /\ additive = FALSE
  /\ selected = {} /\ base = {} /\ anchor = NoEntry
  /\ dragging = FALSE /\ context = NoEntry /\ last = NoEntry

SftpSelectionStart(n) ==
  /\ ~loading /\ n \in rows
  /\ IF additive /\ n \in selected
     THEN /\ base' = selected \ {n}
          /\ selected' = selected \ {n}
     ELSE /\ base' = IF additive THEN selected ELSE {}
          /\ selected' = base' \cup {n}
  /\ anchor' = n /\ dragging' = TRUE /\ context' = NoEntry /\ last' = NoEntry
  /\ UNCHANGED <<rows, additive, loading>>

\* select_range_to: all entries between the two rows, shown or not.
Span(a, b) == {x \in Entries : (a <= x /\ x <= b) \/ (b <= x /\ x <= a)}

\* Mutant: rows stay selected after the drag has left them.
RangeAdded(a, b) == selected \cup Span(a, b)

RangeTo(a, b) == base \cup Span(a, b)

SftpSelectionHover(n) ==
  /\ n \in rows /\ dragging
  /\ selected' = RangeTo(anchor, n)
  /\ last' = n
  /\ UNCHANGED <<rows, base, anchor, additive, dragging, context, loading>>

SftpSelectionFinished ==
  /\ dragging' = FALSE /\ context' = NoEntry /\ last' = NoEntry
  /\ UNCHANGED <<rows, selected, base, anchor, additive, loading>>

SftpSelectionAdditive ==
  /\ additive' = ~additive
  /\ UNCHANGED <<rows, selected, base, anchor, dragging, context, loading, last>>

SftpContextOpen(n) ==
  /\ ~loading /\ n \in rows
  /\ IF n \in selected THEN UNCHANGED <<selected, anchor>>
     ELSE selected' = {n} /\ anchor' = n
  /\ dragging' = FALSE /\ context' = n /\ last' = NoEntry
  /\ UNCHANGED <<rows, base, additive, loading>>

\* SftpFilterChanged and SftpToggleFilter.
SftpFilterChanged(f) ==
  /\ rows' = f
  /\ ResetSelection
  /\ UNCHANGED <<additive, loading>>

\* Reading the directory again, going to another one, and its list arriving.
Refresh ==
  /\ ~loading /\ loading' = TRUE
  /\ UNCHANGED <<rows, selected, base, anchor, additive, dragging, context, last>>
Load   == loading' = TRUE /\ ResetSelection /\ UNCHANGED <<rows, additive>>
Loaded == loading /\ loading' = FALSE /\ ResetSelection /\ UNCHANGED <<rows, additive>>

Next ==
  \/ \E n \in Entries :
       SftpSelectionStart(n) \/ SftpSelectionHover(n) \/ SftpContextOpen(n)
  \/ SftpSelectionFinished \/ SftpSelectionAdditive
  \/ \E f \in Filters : SftpFilterChanged(f)
  \/ Refresh \/ Load \/ Loaded

Spec == Init /\ [][Next]_selectionVars

TypeOK ==
  /\ rows \in Filters /\ selected \subseteq Entries /\ base \subseteq Entries
  /\ {anchor, context, last} \subseteq Entries \cup {NoEntry}
  /\ {additive, dragging, loading} \subseteq BOOLEAN

\* A drag has selected what it started from and the rows between its start and where it
\* has come to, whatever way it took there and whatever keys are pressed meanwhile; the
\* context menu is about something selected (app.rs, 3136 to 3221; s_sftp.rs, 131 to 154).
DragSelectsItsSpan ==
  /\ dragging /\ last # NoEntry => selected = base \cup Span(anchor, last)
  /\ dragging /\ last = NoEntry => selected \in {base, base \cup {anchor}}
  /\ context # NoEntry => context \in selected

\* Only rows that are shown are selected.  (It fails: a drag over a filtered directory
\* takes the entries between them too, and a download fetches them.)
SelectsWhatIsShown == selected \subseteq rows
=============================================================================
