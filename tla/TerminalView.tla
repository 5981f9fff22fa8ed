----------------------------- MODULE TerminalView -----------------------------
(***************************************************************************)
(* The window that shows one of the open terminals: the widget with its    *)
(* size, scroll flag and cached drawing (vida-gui: term/widget.rs), the    *)
(* tabs' grids (app.rs, s_terminal.rs, client_grid.rs), the ordered queue  *)
(* of requests to the daemon (vida-client: send_queued), the terminals and *)
(* their push loops (vida-daemon: pty/mod.rs, pty/push.rs), and the frames *)
(* on their way back.  A frame does not say what size its screen has.      *)
(*                                                                         *)
(* A screen's content is the number of outputs it has had.  Connections do *)
(* not break here (TerminalTabs) and no frame is dropped (ScreenPush).     *)
(* A widget event and the update of the message it publishes are one step. *)
(***************************************************************************)
EXTENDS Integers, Sequences

CONSTANTS
  Sessions,  \* terminals there may be, 1..n, opened in this order
  Sizes,     \* sizes of a screen, in cells
  OpenSize,  \* the size a terminal is opened with
  Blinking,  \* the setting terminal_cursor_blink
  Plans      \* bounds: how often each thing may happen

None == 0

ViewKinds == {"opens", "switches", "resizes", "wheels", "keys", "commits", "outputs"}
ViewConstants ==
  /\ Sessions \subseteq Nat \ {None} /\ OpenSize \in Sizes /\ None \notin Sizes
  /\ Blinking \in BOOLEAN /\ Plans \subseteq [ViewKinds -> Nat]

VARIABLES
  window,  \* the size that fits the window
  active,  \* the terminal whose tab is active, None for another page
  widget,  \* the canvas: None of its state survives another page
  drawn,   \* its cached drawing, and the key it was made for
  grids,   \* the GUI's copies of the screens
  up,      \* requests on their way to the daemon
  terms,   \* the daemon's screens; of each, the size it had at the last turn of its push loop,
           \* and whether it has come back to that size between two turns
  pushed,  \* last_lines of their push loops
  down,    \* frames on their way to the GUI
  astray,  \* terminals whose tab was left while they were scrolled back
  typed,   \* input that reached a terminal: of which kind, and how it found the view
  left     \* bounds

viewVars == <<window, active, widget, drawn, grids, up, terms, pushed, down, astray, typed, left>>

Use(what) == left[what] > 0 /\ left' = [left EXCEPT ![what] = @ - 1]

\* What a grid holds: the screen of which size, after how many outputs, scrolled back or
\* not; whether each row that is not empty belongs to it, and whether it is all there.
Blank == [size |-> None, text |-> 0, back |-> FALSE, clean |-> TRUE, whole |-> FALSE]
NewGrid(size) == [size |-> size, version |-> 0, first |-> TRUE, pic |-> Blank, cursor |-> FALSE, on |-> TRUE]
NewTerm == [size |-> OpenSize, text |-> 0, back |-> FALSE, damage |-> "none", was |-> OpenSize,
            returned |-> FALSE]
NewWidget == [key |-> None, last |-> None, scrolled |-> FALSE]
Closed == [NewTerm EXCEPT !.size = None]
NoLines == [full |-> FALSE, size |-> None, text |-> 0, back |-> FALSE]
Undrawn == [version |-> 0, on |-> TRUE, pic |-> Blank, stale |-> TRUE]

Open(s) == terms[s].size # None
Frame(s, full) == [from |-> s, full |-> full, size |-> terms[s].size, text |-> terms[s].text, back |-> terms[s].back]

Quiet == up = <<>> /\ down = <<>> /\ \A s \in Sessions : terms[s].damage = "none"

Init ==
  /\ left \in Plans
  /\ window = OpenSize /\ active = None
  /\ widget = NewWidget /\ drawn = Undrawn
  /\ grids = [s \in Sessions |-> NewGrid(OpenSize)]
  /\ terms = [s \in Sessions |-> Closed] /\ pushed = [s \in Sessions |-> NoLines]
  /\ up = <<>> /\ down = <<>> /\ astray = {} /\ typed = {}

-----------------------------------------------------------------------------
(* The window and its tabs.                                                *)

pushVars == <<terms, pushed, down, typed>>

Left == astray' = astray \cup (IF widget.scrolled THEN {widget.key} ELSE {})

\* TerminalOpened, with the first frame of the subscription under way; the push loop has been
\* through its first turns.  The button is in the tab bar: a widget that shows another terminal goes on with this one.
OpenTerminal(s) ==
  /\ ~Open(s) /\ \A r \in Sessions : r < s => Open(r)
  /\ Use("opens")
  /\ terms' = [terms EXCEPT ![s] = NewTerm]
  /\ down' = Append(down, [from |-> s, full |-> TRUE, size |-> OpenSize, text |-> 0, back |-> FALSE])
  /\ active' = s /\ Left
  /\ IF active = None THEN widget' = NewWidget /\ drawn' = Undrawn ELSE UNCHANGED <<widget, drawn>>
  /\ UNCHANGED <<window, grids, up, pushed, typed>>

\* SwitchTab, from terminal to terminal or from and to another page.
SwitchTab(s) ==
  /\ s # active /\ (s # None => Open(s)) /\ Use("switches")
  /\ active' = s /\ Left
  /\ IF None \in {s, active} THEN widget' = NewWidget /\ drawn' = Undrawn ELSE UNCHANGED <<widget, drawn>>
  /\ UNCHANGED <<window, grids, up, pushVars>>

\* Another size of the window (or of its font) also throws the cached drawing away.
ResizeWindow(size) ==
  /\ size # window /\ Use("resizes")
  /\ window' = size /\ drawn' = [drawn EXCEPT !.stale = TRUE]
  /\ UNCHANGED <<active, widget, grids, up, pushVars, astray>>


-----------------------------------------------------------------------------
(* The widget's events.                                                    *)

\* reset_for_session, at the first event after another terminal has become active.
Widget == IF widget.key = active THEN widget ELSE [widget EXCEPT !.key = active, !.scrolled = FALSE]

Touched == drawn' = [drawn EXCEPT !.stale = TRUE]

\* Mutant: the version of the grid alone is drawn again.
KeyVersionOnly(grid) == drawn.version # grid.version

\* RenderKey: the drawing is made again when its key has changed.
KeyChanged(grid) == drawn.version # grid.version \/ drawn.on # grid.on

\* draw: what is seen from now on.
Drawing(grid, renewed) ==
  IF drawn.stale \/ renewed \/ KeyChanged(grid)
  THEN [version |-> grid.version, on |-> grid.on, pic |-> grid.pic, stale |-> FALSE]
  ELSE drawn

\* TerminalResize: the GUI's grid is made again, empty, and the daemon is told.
Resized(s) ==
  IF grids[s].size = window THEN UNCHANGED <<grids, up>>
  ELSE /\ grids' = [grids EXCEPT ![s] = [NewGrid(window) EXCEPT !.on = grids[s].on, !.cursor = FALSE]]
       /\ up' = Append(up, [to |-> s, what |-> "resize", size |-> window, stray |-> FALSE])

\* The size is published when the widget has not published it before.
SizeChanged(w) == w.last # window

\* RedrawRequested, then the drawing.
Redraw ==
  /\ active # None
  /\ widget' = [Widget EXCEPT !.last = window]
  /\ drawn' = Drawing(grids[active], widget.key # active)
  /\ IF SizeChanged(Widget) THEN Resized(active) ELSE UNCHANGED <<grids, up>>
  /\ UNCHANGED <<window, active, pushVars, astray, left>>

\* TerminalCursorBlink: the timer runs for the active terminal if the setting asks for it,
\* and is slow: what is under way arrives and is drawn before it fires again.
Blink ==
  /\ Blinking /\ active # None /\ Quiet /\ ~drawn.stale /\ ~KeyChanged(grids[active])
  /\ grids' = [grids EXCEPT ![active].on = IF grids[active].cursor THEN ~@ ELSE TRUE]
  /\ UNCHANGED <<window, active, widget, drawn, up, pushVars, astray, left>>

Scroll(back) == [to |-> active, what |-> IF back THEN "back" ELSE "bottom", size |-> None, stray |-> FALSE]

\* WheelScrolled: the flag is set whichever way and however far the wheel turned.
Wheel(back) ==
  /\ active # None /\ Use("wheels")
  /\ widget' = [Widget EXCEPT !.scrolled = TRUE] /\ Touched
  /\ up' = Append(up, Scroll(back)) /\ astray' = astray \ {active}
  /\ UNCHANGED <<window, active, grids, pushVars>>

Text(what) == [to |-> active, what |-> what, size |-> None, stray |-> active \in astray]

\* Mutant: the input overtakes the scroll.
InputFirst(w) == <<Text("keys")>> \o IF w.scrolled THEN <<Scroll(FALSE)>> ELSE <<>>

\* A key or a paste first takes a scrolled terminal back to its bottom.
Input(w) == (IF w.scrolled THEN <<Scroll(FALSE)>> ELSE <<>>) \o <<Text("keys")>>

TypeKeys ==
  /\ active # None /\ Use("keys")
  /\ up' = up \o Input(Widget)
  /\ widget' = [Widget EXCEPT !.scrolled = FALSE] /\ Touched
  /\ grids' = [grids EXCEPT ![active].on = TRUE]
  /\ UNCHANGED <<window, active, pushVars, astray>>

\* InputMethod::Commit sends its text and nothing else.
Commit ==
  /\ active # None /\ Use("commits")
  /\ up' = Append(up, Text("commit"))
  /\ widget' = Widget
  /\ drawn' = [drawn EXCEPT !.stale = @ \/ widget.key # active]
  /\ grids' = [grids EXCEPT ![active].on = TRUE]
  /\ UNCHANGED <<window, active, pushVars, astray>>

-----------------------------------------------------------------------------
(* The daemon: requests in order, the terminals, their push loops.         *)

guiVars == <<window, active, widget, drawn, astray>>

Full(term) == [term EXCEPT !.damage = "full"]
Sized(term, size) == [Full(term) EXCEPT !.size = size, !.returned = @ \/ size = term.was]

Serve ==
  /\ up # <<>> /\ up' = Tail(up)
  /\ LET r == Head(up)
         t == terms[r.to]
     IN \/ /\ r.what = "resize"
           /\ terms' = [terms EXCEPT ![r.to] = IF t.size = r.size THEN t ELSE Sized(t, r.size)]
           /\ UNCHANGED typed
        \/ /\ r.what \in {"back", "bottom"}
           /\ terms' = [terms EXCEPT ![r.to] = IF t.back = (r.what = "back") THEN t
                                               ELSE Full([t EXCEPT !.back = (r.what = "back")])]
           /\ UNCHANGED typed
        \/ /\ r.what \in {"keys", "commit"}
           /\ typed' = typed \cup {[what |-> r.what, stray |-> r.stray, back |-> t.back]}
           /\ UNCHANGED terms
  /\ UNCHANGED <<guiVars, grids, pushed, down, left>>

\* The program in the terminal writes; its view stays anchored while it is scrolled back.
Output(s) ==
  /\ Open(s) /\ Use("outputs")
  /\ terms' = [terms EXCEPT ![s].text = @ + 1, ![s].damage = IF @ = "full" THEN @ ELSE "part"]
  /\ UNCHANGED <<guiVars, grids, up, pushed, down, typed>>

\* Mutant: whole screens of different sizes are taken for the same.
LinesByText(f) == [full |-> f.full, size |-> None, text |-> f.text, back |-> f.back]

\* The lines of a frame: all of the view, or the rows written and the cursor's.
Lines(f) == [full |-> f.full, size |-> IF f.full THEN f.size ELSE None, text |-> f.text, back |-> f.back]

\* A terminal after a turn of its push loop: a whole screen that is sent makes good a size
\* that was passed over.
Turned(term, sent) ==
  [term EXCEPT !.damage = "none", !.was = term.size,
               !.returned = @ /\ ~(sent /\ term.damage = "full")]

\* One turn of push_loop: a frame whose lines are those of the last one is not sent.
Tick(s) ==
  /\ Open(s)
  /\ LET f == Frame(s, terms[s].damage = "full")
     IN /\ terms[s].damage # "none" \/ Lines(f) # pushed[s]
        /\ terms' = [terms EXCEPT ![s] = Turned(@, Lines(f) # pushed[s])]
        /\ pushed' = [pushed EXCEPT ![s] = Lines(f)]
        /\ down' = IF Lines(f) = pushed[s] THEN down ELSE Append(down, f)
  /\ UNCHANGED <<guiVars, grids, up, typed, left>>

\* Rows painted over what is there: the rest stays, and rows that do not fit are left out.
\* The rows of a partial frame are those of the screen's bottom, wherever the view is.
Painted(pic, f, size) ==
  LET kept == f.full \/ (pic.size \in {None, f.size} /\ ~f.back /\ ~pic.back)
  IN [size |-> f.size, text |-> f.text, back |-> f.back,
      clean |-> f.size = size /\ kept /\ (f.full \/ pic.clean),
      whole |-> f.size = size /\ kept /\ (f.full \/ pic.whole)]

\* apply_frame; the first frame finds the grid emptied again.
Applied(g, f) ==
  [g EXCEPT !.version = @ + (IF g.first THEN 2 ELSE 1), !.first = FALSE, !.on = TRUE, !.cursor = ~f.back,
            !.pic = Painted(IF g.first THEN Blank ELSE @, f, g.size)]

Receive ==
  /\ down # <<>> /\ down' = Tail(down)
  /\ LET f == Head(down) IN grids' = [grids EXCEPT ![f.from] = Applied(@, f)]
  /\ UNCHANGED <<guiVars, up, terms, pushed, typed, left>>

-----------------------------------------------------------------------------
Next ==
  \/ \E s \in Sessions : OpenTerminal(s) \/ Output(s) \/ Tick(s)
  \/ \E s \in Sessions \cup {None} : SwitchTab(s)
  \/ \E size \in Sizes : ResizeWindow(size)
  \/ \E back \in BOOLEAN : Wheel(back)
  \/ Blink \/ Redraw \/ TypeKeys \/ Commit \/ Serve \/ Receive

Spec == Init /\ [][Next]_viewVars

\* The window is redrawn, the timer fires, requests are served, frames pushed and received.
FairSpec ==
  /\ Spec
  /\ WF_viewVars(Redraw) /\ WF_viewVars(Blink) /\ WF_viewVars(Serve) /\ WF_viewVars(Receive)
  /\ \A s \in Sessions : WF_viewVars(Tick(s))
-----------------------------------------------------------------------------
(* Properties.                                                             *)

TypeOK ==
  /\ window \in Sizes /\ active \in Sessions \cup {None}
  /\ widget.key \in Sessions \cup {None} /\ widget.last \in Sizes \cup {None} /\ widget.scrolled \in BOOLEAN
  /\ \A s \in Sessions : grids[s].size \in Sizes /\ grids[s].version \in Nat /\ grids[s].on \in BOOLEAN
                         /\ terms[s].size \in Sizes \cup {None} /\ terms[s].damage \in {"none", "part", "full"}
  /\ astray \subseteq Sessions

\* Keys and pastes reach the terminal at the bottom of its history if it was scrolled back on
\* this visit to its tab, whatever requests, frames and switches lie between (decisions.md,
\* 1021 to 1022).
KeysAtBottom == \A t \in typed : t.what = "keys" /\ ~t.stray => ~t.back

\* When nothing is under way, the GUI shows of every terminal that is not scrolled back the
\* current screen in the size the terminal has, however often the window has changed its
\* size: no row of an older screen or of another size is left.  And the screen is all there,
\* except after a terminal was sent to another size and back between two turns of its push
\* loop, until the next whole frame: the loop takes that screen for the one it has sent
\* (push.rs, 450), the GUI has thrown it away, and a quiet shell stays blank until something
\* is typed, as decisions.md, 1043 to 1047, forbids for new sessions.
ScreenSettles ==
  Quiet => \A s \in Sessions : Open(s) /\ ~terms[s].back =>
             LET Screen(whole) == [size |-> terms[s].size, text |-> terms[s].text, back |-> FALSE,
                                   clean |-> TRUE, whole |-> whole]
             IN /\ grids[s].size = terms[s].size
                /\ grids[s].pic \in {Blank, Screen(FALSE), Screen(TRUE)}
                /\ ~terms[s].returned => grids[s].pic.whole

\* The whole screen is there in any case.  (It fails in the case just named.)
ScreenIsWhole == Quiet => \A s \in Sessions : Open(s) /\ ~terms[s].back => grids[s].pic.whole

\* What is drawn does not stay behind what the grid holds: the cursor's blinking makes good
\* what a repeated version number hides (the version starts again with every size).  Scrolled
\* back, the cursor does not blink, and an old picture may stay.
Behind == active # None /\ drawn.pic # grids[active].pic /\ ~grids[active].pic.back
DrawnInTheEnd == []<>~Behind

\* All input finds the terminal at its bottom.  (It fails for what an input method commits,
\* and after the tab was left and entered again.)
InputAtBottom == \A t \in typed : ~t.back

\* A terminal on show has the size of the window.  (It fails when tabs are switched from
\* terminal to terminal: the widget has published the size before, for the other one.)
FitsWindow ==
  Quiet /\ active # None /\ widget.key = active /\ widget.last = window => grids[active].size = window

\* The view of a terminal that is scrolled back is whole as well.  (It fails: the rows of a
\* partial frame are those of the bottom.)
ViewIsWhole == Quiet => \A s \in Sessions : Open(s) /\ terms[s].back => grids[s].pic.whole
=============================================================================
