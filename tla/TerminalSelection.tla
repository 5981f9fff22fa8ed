-------------------------- MODULE TerminalSelection --------------------------
(***************************************************************************)
(* Selecting text in a terminal across what its window shows (vida-gui:    *)
(* term/widget.rs).  The daemon keeps the lines and the place of the view  *)
(* in them, and sends the view with the number of its first row            *)
(* (vida-daemon: pty/mod.rs, pty/push.rs); the widget names the rows it    *)
(* has selected by that number and keeps what it has seen of them.         *)
(*                                                                         *)
(* A line has the number it was written with, which no row has (rows are   *)
(* counted in what is left of the history), and a version, for how often   *)
(* it has been written again.  A selection takes whole rows; the program   *)
(* in the terminal has its cursor in the last row.                         *)
(***************************************************************************)
EXTENDS Integers, Sequences

CONSTANTS
  Rows,     \* rows of the screen
  History,  \* lines kept above it
  Jumps,    \* how far the wheel may turn at once
  Plans     \* bounds: how often each thing may happen

Line(number) == [number |-> number, version |-> 0]
Missing == Line(0)

TextKinds == {"lines", "rewrites", "drags", "wheels", "copies"}
TextConstants ==
  /\ Rows \in Nat \ {0} /\ History \in Nat \ {0} /\ Jumps \subseteq Int
  /\ Plans \subseteq [TextKinds -> Nat]

VARIABLES
  lines,      \* the daemon's lines, oldest first; the last Rows are the screen
  offset,     \* how far the view is scrolled back
  next,       \* the number of the line the program writes next
  sent,       \* the view the push loop sent last
  down,       \* views on their way
  grid,       \* the view the GUI has
  selection,  \* anchor and head by row number; the text of the rows seen since it was begun
  pointer,    \* the row of the window at which a drag holds, 0 when none does
  last,       \* the row number the window began with at the last event
  picked,     \* the line under the pointer when the selection was begun
  copied,     \* what was copied last, by distance from the selection's first row; and from
              \* which selection and after which view
  left        \* bounds

selectionVars == <<lines, offset, next, sent, down, grid, selection, pointer, last, picked, copied, left>>

Use(what) == left[what] > 0 /\ left' = [left EXCEPT ![what] = @ - 1]
Lower(a, b) == IF a < b THEN a ELSE b
Upper(a, b) == IF a > b THEN a ELSE b

\* viewport_start: the history there is above the view, and the rows in view.
Above == Len(lines) - Rows
View == [start |-> Above - offset, rows |-> SubSeq(lines, Above - offset + 1, Above - offset + Rows)]

\* How many lines had left the history when a view was taken: row n was the n-th line of it.
LostIn(view) == view.rows[1].number - (view.start + 1)

NoSelection == [set |-> FALSE, anchor |-> 0, head |-> 0, seen |-> <<>>]
NotCopied == [first |-> 0, text |-> <<>>, picked |-> Missing, anchor |-> 0, lost |-> 0]

Init ==
  /\ left \in Plans
  /\ lines = [i \in 1..(Rows + 1) |-> Line(i)] /\ offset = 0 /\ next = Rows + 2
  /\ sent = View /\ down = <<>> /\ grid = View
  /\ selection = NoSelection /\ pointer = 0 /\ last = 0
  /\ picked = Missing /\ copied = NotCopied

-----------------------------------------------------------------------------
(* The daemon.                                                             *)

widgetVars == <<grid, selection, pointer, last, picked, copied>>

\* A line more: the oldest is lost when the history is full, and a view that is scrolled
\* back stays where it is as long as it can.
Write ==
  /\ Use("lines")
  /\ LET full == Above = History
     IN /\ lines' = Append(IF full THEN Tail(lines) ELSE lines, Line(next))
        /\ offset' = IF offset = 0 THEN 0 ELSE Lower(offset + 1, IF full THEN History ELSE Above + 1)
  /\ next' = next + 1
  /\ UNCHANGED <<sent, down, widgetVars>>

\* The last row is written again, as a progress bar does.
Rewrite ==
  /\ Use("rewrites")
  /\ lines' = [lines EXCEPT ![Len(lines)].version = @ + 1]
  /\ UNCHANGED <<offset, next, sent, down, widgetVars>>

\* push_loop: several changes may go out as one.
Tick ==
  /\ View # sent /\ sent' = View /\ down' = Append(down, View)
  /\ UNCHANGED <<lines, offset, next, widgetVars, left>>

Receive ==
  /\ down # <<>> /\ down' = Tail(down) /\ grid' = Head(down)
  /\ UNCHANGED <<lines, offset, next, sent, selection, pointer, last, picked, copied, left>>

-----------------------------------------------------------------------------
(* The widget.  Every event first takes note of the view.                  *)

daemonVars == <<lines, offset, next, sent, down, grid>>

\* The text of the rows in view, by number.
InView == [row \in grid.start .. (grid.start + Rows - 1) |-> grid.rows[row - grid.start + 1]]
Text(seen, row) == IF row \in DOMAIN seen THEN seen[row] ELSE Missing

\* Mutant: rows are kept by their place in the window.
SeenInWindow(sel) ==
  IF ~sel.set THEN sel ELSE
  LET lo == Lower(sel.anchor, sel.head)
  IN [sel EXCEPT !.seen = [row \in lo .. (lo + Rows - 1) |-> grid.rows[row - lo + 1]]]

\* cache_snapshot: the rows in view replace what was seen of them before, and while the
\* selection is being drawn its head follows the view.
Seen(sel) ==
  IF ~sel.set THEN sel ELSE
  [sel EXCEPT !.seen = [row \in DOMAIN InView \cup DOMAIN sel.seen |->
                          IF row \in DOMAIN InView THEN InView[row] ELSE sel.seen[row]],
              !.head = IF pointer # 0 /\ grid.start # last THEN grid.start + pointer - 1 ELSE @]

\* An event of another kind: the mouse elsewhere, a redraw.
Notice ==
  /\ selection.set /\ (grid.start # last \/ Seen(selection) # selection)
  /\ selection' = Seen(selection) /\ last' = grid.start
  /\ UNCHANGED <<daemonVars, pointer, picked, copied, left>>

\* The left button: a selection begins where nothing of the old one is remembered.
Press(r) ==
  /\ pointer = 0 /\ Use("drags")
  /\ LET row == grid.start + r - 1
     IN selection' = [set |-> TRUE, anchor |-> row, head |-> row, seen |-> InView]
  /\ pointer' = r /\ last' = grid.start /\ picked' = grid.rows[r]
  /\ UNCHANGED <<daemonVars, copied>>

Move(r) ==
  /\ pointer # 0 /\ r # pointer
  /\ selection' = [Seen(selection) EXCEPT !.head = grid.start + r - 1]
  /\ pointer' = r /\ last' = grid.start
  /\ UNCHANGED <<daemonVars, picked, copied, left>>

Release ==
  /\ pointer # 0
  /\ selection' = Seen(selection) /\ pointer' = 0 /\ last' = grid.start
  /\ UNCHANGED <<daemonVars, picked, copied, left>>

\* scroll_display at the daemon's end; the drag and the selection go on.
Wheel(lines_) ==
  /\ Use("wheels")
  /\ offset' = Upper(0, Lower(offset + lines_, Above)) /\ offset' # offset
  /\ selection' = Seen(selection) /\ last' = grid.start
  /\ UNCHANGED <<lines, next, sent, down, grid, pointer, picked, copied>>

\* selected_text: the rows between anchor and head as they were last seen; a row that was
\* not seen is an empty line.
Copy ==
  LET sel == Seen(selection)
      lo == Lower(sel.anchor, sel.head)  hi == Upper(sel.anchor, sel.head)
  IN /\ sel.set /\ lo # hi /\ Use("copies")
     /\ copied' = [first |-> lo, text |-> [i \in 1..(hi - lo + 1) |-> Text(sel.seen, lo + i - 1)],
                   picked |-> picked, anchor |-> sel.anchor, lost |-> LostIn(grid)]
     /\ selection' = sel /\ last' = grid.start
     /\ UNCHANGED <<daemonVars, pointer, picked>>

\* clear_selection, at a key; a drag under way does nothing any more.
Key ==
  /\ selection.set
  /\ selection' = NoSelection /\ last' = grid.start /\ pointer' = 0 /\ picked' = Missing
  /\ UNCHANGED <<daemonVars, copied, left>>

-----------------------------------------------------------------------------
Next ==
  \/ Write \/ Rewrite \/ Tick \/ Receive
  \/ Notice \/ Release \/ Copy \/ Key
  \/ \E r \in 1..Rows : Press(r) \/ Move(r)
  \/ \E n \in Jumps : Wheel(n)

Spec == Init /\ [][Next]_selectionVars

-----------------------------------------------------------------------------
(* Properties.                                                             *)

TypeOK ==
  /\ offset \in 0..Above /\ Above \in 0..History /\ pointer \in 0..Rows
  /\ DOMAIN selection.seen \subseteq Nat /\ \A row \in DOMAIN selection.seen : selection.seen[row].number \in Nat

\* The number of the line a copied row should hold, counted from the one the selection was
\* begun at; and how many lines have left the history between that and the copy.
Expected(i) == copied.picked.number + (copied.first + i - 1 - copied.anchor)
LostMeanwhile == copied.lost - (copied.picked.number - (copied.anchor + 1))

\* Whatever is scrolled, written, written again and dragged in between, and whenever views
\* arrive, a copied row is the line that was selected or, where it was never in view, empty:
\* no row is copied in the place of another (decisions.md, 1032 to 1036).  Only lines that
\* leave a full history meanwhile take rows with them, and then a row is at most as many
\* lines further on.  The row the selection was begun at, if it still is that line, has the
\* text it had then or a newer one.
NoWrongLine ==
  \A i \in DOMAIN copied.text :
    copied.text[i] # Missing =>
      /\ copied.text[i].number \in Expected(i) .. (Expected(i) + LostMeanwhile)
      /\ copied.text[i].number = copied.picked.number => copied.text[i].version >= copied.picked.version

\* With a full history too, a copied row is the line that was selected.  (It fails: rows are
\* numbered from the oldest line that is left, so a number names a later line with each
\* that is lost.)
SlidesNever == \A i \in DOMAIN copied.text : copied.text[i] = Missing \/ copied.text[i].number = Expected(i)

\* Nothing between the first line and the last is left out.  (It fails when the view moves by
\* more than the screen between two pictures: the rows in between were never seen.)
NothingLeftOut == \A i \in DOMAIN copied.text : copied.text[i] # Missing
=============================================================================
