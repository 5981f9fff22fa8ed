------------------------------ MODULE GuiProofs ------------------------------
(***************************************************************************)
(* Proofs about parts of the desktop application that Desktop puts side by *)
(* side, each by an inductive invariant of its own and for every value of  *)
(* its constants: the window that shows a terminal, and the text that is   *)
(* selected in it.  ServicesProofs cites them.                             *)
(*                                                                         *)
(* No theorem is about two parts: where two parts have a variable of the   *)
(* same name it is declared once.                                          *)
(***************************************************************************)
EXTENDS Integers, Sequences, FiniteSets, SequenceTheorems, WellFoundedInduction, TLAPS

CONSTANTS
  Sessions, Sizes, OpenSize, Blinking, ViewPlans,  \* TerminalView
  Rows, History, Jumps, TextPlans                  \* TerminalSelection

VARIABLES
  window, active, widget, drawn, grids, up, terms, pushed, down, astray, typed, left,
  lines, offset, next, sent, views, grid, selection, pointer, last, picked, copied

View == INSTANCE TerminalView WITH Plans <- ViewPlans
Text == INSTANCE TerminalSelection WITH down <- views, Plans <- TextPlans

-----------------------------------------------------------------------------
(* The window that shows one of the terminals.                             *)
(*                                                                         *)
(* KeysAtBottom: a terminal that will be scrolled back once the requests   *)
(* under way are served was left so, or the widget knows it (KeysInv).     *)
(* ScreenSettles: the sizes asked for and not served yet lead from the     *)
(* size the terminal has to the size its grid has (SizeInv); and the last  *)
(* picture the GUI has, or will have once the frames under way are in, is  *)
(* the whole screen, unless the daemon owes a frame or the terminal came   *)
(* back to a size between two turns of its push loop (ScreenInv).          *)
Pics == [size : Sizes \cup {View!None}, text : Nat, back : BOOLEAN, clean : BOOLEAN, whole : BOOLEAN]
Requests == [to : Sessions, what : {"resize", "back", "bottom", "keys", "commit"},
             size : Sizes \cup {View!None}, stray : BOOLEAN]
ViewFrames == [from : Sessions, full : BOOLEAN, size : Sizes, text : Nat, back : BOOLEAN]
Grids == [size : Sizes, version : Nat, first : BOOLEAN, pic : Pics, cursor : BOOLEAN, on : BOOLEAN]
Terms == [size : Sizes \cup {View!None}, text : Nat, back : BOOLEAN, damage : {"none", "part", "full"},
          was : Sizes, returned : BOOLEAN]
LineSets == [full : BOOLEAN, size : Sizes \cup {View!None}, text : Nat, back : BOOLEAN]

ViewTypes ==
  /\ left \in [View!ViewKinds -> Nat]
  /\ window \in Sizes /\ active \in Sessions \cup {View!None}
  /\ widget \in [key : Sessions \cup {View!None}, last : Sizes \cup {View!None}, scrolled : BOOLEAN]
  /\ widget.scrolled => widget.key \in Sessions
  /\ drawn \in [version : Nat, on : BOOLEAN, pic : Pics, stale : BOOLEAN]
  /\ grids \in [Sessions -> Grids] /\ terms \in [Sessions -> Terms] /\ pushed \in [Sessions -> LineSets]
  /\ up \in Seq(Requests) /\ down \in Seq(ViewFrames)
  /\ \A i \in 1..Len(up) : up[i].what = "resize" => up[i].size \in Sizes
  /\ astray \subseteq Sessions
  /\ active # View!None => View!Open(active)

LEMMA UseView ==
  ASSUME left \in [View!ViewKinds -> Nat], NEW what \in View!ViewKinds, View!Use(what)
  PROVE  left' \in [View!ViewKinds -> Nat] /\ left[what] > 0 /\ left'[what] = left[what] - 1
         /\ \A w \in View!ViewKinds : left'[w] <= left[w] /\ (w # what => left'[w] = left[w])
  BY DEF View!Use

LEMMA WidgetType ==
  ASSUME ViewTypes, active # View!None
  PROVE  /\ View!Widget \in [key : Sessions \cup {View!None}, last : Sizes \cup {View!None}, scrolled : BOOLEAN]
         /\ View!Widget.key = active /\ active \in Sessions
  BY DEF ViewTypes, View!Widget

LEMMA TailOf ==
  ASSUME NEW S, NEW q \in Seq(S), q # <<>>
  PROVE  /\ Len(q) \in Nat /\ Len(q) >= 1 /\ Head(q) = q[1] /\ q[1] \in S /\ Tail(q) \in Seq(S)
         /\ Len(Tail(q)) = Len(q) - 1
         /\ \A i \in 1..Len(Tail(q)) : Tail(q)[i] = q[i + 1] /\ i + 1 \in 1..Len(q)
  OBVIOUS

\* What becomes of a terminal: output, a turn of the push loop, another size or place.
Written(t) == [t EXCEPT !.text = t.text + 1, !.damage = IF t.damage = "full" THEN t.damage ELSE "part"]

LEMMA TermWritten ==
  ASSUME NEW t \in Terms
  PROVE  /\ Written(t) \in Terms /\ Written(t).size = t.size /\ Written(t).back = t.back
         /\ Written(t).was = t.was /\ Written(t).returned = t.returned
         /\ Written(t).damage # "none" /\ (Written(t).damage = "full" <=> t.damage = "full")
<1> DEFINE n == t.text + 1
           d == IF t.damage = "full" THEN t.damage ELSE "part"
<1>1. n \in Nat /\ d \in {"full", "part"} /\ (d = "full" <=> t.damage = "full")
  BY DEF Terms
<1>2. Written(t) = [t EXCEPT !.text = n, !.damage = d]
  BY DEF Written
<1> HIDE DEF n, d
<1> QED
  BY <1>1, <1>2 DEF Terms

LEMMA TermPushed ==
  ASSUME NEW t \in Terms, t.size # View!None, NEW sends \in BOOLEAN
  PROVE  LET w == View!Turned(t, sends)
         IN  /\ w \in Terms /\ w.size = t.size /\ w.back = t.back /\ w.text = t.text /\ w.damage = "none"
             /\ w.was = t.size /\ w.returned = (t.returned /\ ~(sends /\ t.damage = "full"))
<1> DEFINE ret == t.returned /\ ~(sends /\ t.damage = "full")
<1>1. ret \in BOOLEAN /\ t.size \in Sizes
  BY DEF Terms
<1>2. View!Turned(t, sends) = [t EXCEPT !.damage = "none", !.was = t.size, !.returned = ret]
  BY DEF View!Turned
<1> HIDE DEF ret
<1>3. LET w == [t EXCEPT !.damage = "none", !.was = t.size, !.returned = ret]
      IN  /\ w \in Terms /\ w.size = t.size /\ w.back = t.back /\ w.text = t.text /\ w.damage = "none"
          /\ w.was = t.size /\ w.returned = ret
  BY <1>1 DEF Terms
<1> QED
  BY <1>2, <1>3 DEF ret

LEMMA TermResized ==
  ASSUME NEW t \in Terms, NEW size \in Sizes
  PROVE  LET w == View!Sized(t, size)
         IN  /\ w \in Terms /\ w.size = size /\ w.back = t.back /\ w.text = t.text /\ w.damage = "full"
             /\ w.was = t.was /\ w.returned = (t.returned \/ size = t.was)
<1> DEFINE ret == t.returned \/ size = t.was
<1>1. ret \in BOOLEAN
  BY DEF Terms
<1>2. View!Sized(t, size) = [[t EXCEPT !.damage = "full"] EXCEPT !.size = size, !.returned = ret]
  BY DEF View!Sized, View!Full, Terms
<1> HIDE DEF ret
<1>3. LET w == [[t EXCEPT !.damage = "full"] EXCEPT !.size = size, !.returned = ret]
      IN  /\ w \in Terms /\ w.size = size /\ w.back = t.back /\ w.text = t.text /\ w.damage = "full"
          /\ w.was = t.was /\ w.returned = ret
  BY <1>1 DEF Terms
<1> QED
  BY <1>2, <1>3 DEF ret

LEMMA TermScrolled ==
  ASSUME NEW t \in Terms, NEW back \in BOOLEAN
  PROVE  LET w == View!Full([t EXCEPT !.back = back])
         IN  /\ w \in Terms /\ w.size = t.size /\ w.back = back /\ w.text = t.text /\ w.damage = "full"
             /\ w.was = t.was /\ w.returned = t.returned
  BY DEF Terms, View!Full

LEMMA OneOrTwoMore ==
  ASSUME NEW S, NEW q \in Seq(S), NEW a \in S, NEW b \in S
  PROVE  /\ q \o (<<>> \o <<b>>) = Append(q, b)
         /\ q \o (<<a>> \o <<b>>) = Append(Append(q, a), b)
         /\ Append(Append(q, a), b) \in Seq(S) /\ Len(Append(Append(q, a), b)) = Len(q) + 2
<1>1. <<>> \in Seq(S) /\ <<a>> \in Seq(S) /\ <<b>> \in Seq(S)
  OBVIOUS
<1>2. <<>> \o <<b>> = <<b>> /\ q \o (<<a>> \o <<b>>) = (q \o <<a>>) \o <<b>>
  BY <1>1, ConcatEmptySeq, ConcatAssociative
<1>3. Append(q, b) = q \o <<b>> /\ Append(q, a) = q \o <<a>> /\ Append(q, a) \in Seq(S)
      /\ Len(Append(q, a)) = Len(q) + 1
  BY AppendIsConcat, AppendProperties
<1>4. Append(Append(q, a), b) = Append(q, a) \o <<b>> /\ Append(Append(q, a), b) \in Seq(S)
      /\ Len(Append(Append(q, a), b)) = Len(Append(q, a)) + 1
  BY <1>3, AppendIsConcat, AppendProperties
<1>5. Len(q) \in Nat
  OBVIOUS
<1>6. q \o (<<>> \o <<b>>) = Append(q, b)
  BY <1>2, <1>3
<1>7. q \o (<<a>> \o <<b>>) = Append(Append(q, a), b)
  BY <1>2, <1>3, <1>4
<1>8. Len(Append(Append(q, a), b)) = Len(q) + 2
  BY <1>3, <1>4, <1>5
<1> QED
  BY <1>4, <1>6, <1>7, <1>8

LEMMA ClosedIs ==
  /\ View!Closed.size = View!None /\ View!Closed.text = 0 /\ View!Closed.back = FALSE
  /\ View!NewTerm.size = OpenSize /\ View!NewTerm.text = 0 /\ View!NewTerm.back = FALSE
  /\ View!NewTerm.damage = "none" /\ View!NewTerm.was = OpenSize /\ View!NewTerm.returned = FALSE
  BY DEF View!Closed, View!NewTerm

LEMMA InitViewTypes == View!ViewConstants /\ View!Init => ViewTypes
<1> SUFFICES ASSUME View!ViewConstants, View!Init PROVE ViewTypes
  OBVIOUS
<1> USE DEF View!Init, View!ViewConstants, View!Blank, View!NewGrid, View!NewWidget, View!Undrawn, View!Closed, View!NoLines, Pics
<1>1. View!Blank \in Pics /\ View!NewGrid(OpenSize) \in Grids
  BY DEF Grids
<1>2. View!Closed \in Terms /\ View!NoLines \in LineSets
  BY DEF Terms, LineSets, View!NewTerm
<1> QED
  BY <1>1, <1>2 DEF ViewTypes

LEMMA NewGridType ==
  ASSUME View!ViewConstants, ViewTypes, NEW s \in Sessions, NEW size \in Sizes
  PROVE  [View!NewGrid(size) EXCEPT !.on = grids[s].on, !.cursor = FALSE] \in Grids
<1>1. View!NewGrid(size) \in Grids
  BY DEF View!NewGrid, View!Blank, Grids, Pics, View!ViewConstants
<1> QED
  BY <1>1 DEF ViewTypes, Grids

LEMMA FrameType ==
  ASSUME ViewTypes, NEW s \in Sessions, View!Open(s), NEW full \in BOOLEAN
  PROVE  /\ View!Frame(s, full) \in ViewFrames /\ View!Lines(View!Frame(s, full)) \in LineSets
         /\ View!Frame(s, full).from = s /\ View!Frame(s, full).full = full
         /\ View!Frame(s, full).size = terms[s].size /\ View!Frame(s, full).text = terms[s].text
         /\ View!Frame(s, full).back = terms[s].back
         /\ View!Lines(View!Frame(s, full)).full = full /\ View!Lines(View!Frame(s, full)).text = terms[s].text
         /\ View!Lines(View!Frame(s, full)).back = terms[s].back
         /\ View!Lines(View!Frame(s, full)).size = IF full THEN terms[s].size ELSE View!None
  BY DEF ViewTypes, View!Open, View!Frame, Terms, ViewFrames, View!Lines, LineSets

\* A frame that leaves the rows there are in place, and what a grid holds after it.
Keeps(g, f) == ~f.back /\ (g.first \/ (g.pic.size \in {View!None, f.size} /\ ~g.pic.back))

LEMMA AppliedType ==
  ASSUME View!ViewConstants, NEW g \in Grids, NEW f \in ViewFrames
  PROVE  /\ View!Applied(g, f) \in Grids /\ View!Applied(g, f).size = g.size /\ ~View!Applied(g, f).first
         /\ View!Applied(g, f).pic.size = f.size /\ View!Applied(g, f).pic.text = f.text
         /\ View!Applied(g, f).pic.back = f.back
         /\ View!Applied(g, f).pic.clean =
              (f.size = g.size /\ (f.full \/ (Keeps(g, f) /\ (g.first \/ g.pic.clean))))
         /\ View!Applied(g, f).pic.whole =
              (f.size = g.size /\ (f.full \/ (Keeps(g, f) /\ ~g.first /\ g.pic.whole)))
<1> DEFINE p == View!Painted(IF g.first THEN View!Blank ELSE g.pic, f, g.size)
<1>1. p \in Pics /\ p.size = f.size /\ p.text = f.text /\ p.back = f.back
  <2>1. CASE g.first
    BY <2>1 DEF View!Painted, View!Blank, Grids, ViewFrames, Pics
  <2>2. CASE ~g.first
    BY <2>2 DEF View!Painted, Grids, ViewFrames, Pics
  <2> QED
    BY <2>1, <2>2 DEF Grids
<1>5. /\ p.clean = (f.size = g.size /\ (f.full \/ (Keeps(g, f) /\ (g.first \/ g.pic.clean))))
      /\ p.whole = (f.size = g.size /\ (f.full \/ (Keeps(g, f) /\ ~g.first /\ g.pic.whole)))
  <2>1. CASE g.first
    BY <2>1 DEF View!Painted, View!Blank, Grids, ViewFrames, Pics, Keeps
  <2>2. CASE ~g.first
    BY <2>2 DEF View!Painted, Grids, ViewFrames, Pics, Keeps
  <2> QED
    BY <2>1, <2>2 DEF Grids
<1>2. View!Applied(g, f) = [g EXCEPT !.version = g.version + (IF g.first THEN 2 ELSE 1), !.first = FALSE, !.on = TRUE,
                                     !.cursor = ~f.back, !.pic = p]
  BY DEF View!Applied
<1> HIDE DEF p
<1>3. g.version + (IF g.first THEN 2 ELSE 1) \in Nat
  BY DEF Grids
<1>4. (~f.back) \in BOOLEAN
  OBVIOUS
<1>6. View!Applied(g, f) \in Grids /\ View!Applied(g, f).size = g.size /\ ~View!Applied(g, f).first
      /\ View!Applied(g, f).pic = p
  BY <1>1, <1>2, <1>3, <1>4 DEF Grids
<1> QED
  BY <1>1, <1>5, <1>6

\* A turn of the push loop of terminal s, and what the others are left with.
LEMMA TermTicked ==
  ASSUME ViewTypes, NEW s \in Sessions, View!Tick(s)
  PROVE  LET f == View!Frame(s, terms[s].damage = "full")
             sends == View!Lines(f) # pushed[s]
         IN  /\ terms' \in [Sessions -> Terms] /\ \A r \in Sessions : r # s => terms'[r] = terms[r]
             /\ terms'[s].size = terms[s].size /\ terms'[s].back = terms[s].back
             /\ terms'[s].text = terms[s].text /\ terms'[s].damage = "none" /\ terms'[s].was = terms[s].size
             /\ terms'[s].returned = (terms[s].returned /\ ~(sends /\ terms[s].damage = "full"))
<1> DEFINE f == View!Frame(s, terms[s].damage = "full")
           sends == View!Lines(f) # pushed[s]
<1>1. terms' = [terms EXCEPT ![s] = View!Turned(terms[s], sends)] /\ terms[s].size # View!None
  BY DEF View!Tick, View!Open
<1>2. sends \in BOOLEAN /\ terms \in [Sessions -> Terms]
  BY DEF ViewTypes
<1> DEFINE w == View!Turned(terms[s], sends)
<1>3. /\ w \in Terms /\ w.size = terms[s].size /\ w.back = terms[s].back /\ w.text = terms[s].text
      /\ w.damage = "none" /\ w.was = terms[s].size
      /\ w.returned = (terms[s].returned /\ ~(sends /\ terms[s].damage = "full"))
  BY <1>1, <1>2, TermPushed
<1>4. terms' = [terms EXCEPT ![s] = w]
  BY <1>1
<1> HIDE DEF w, sends
<1>5. terms'[s] = w /\ terms' \in [Sessions -> Terms] /\ \A r \in Sessions : r # s => terms'[r] = terms[r]
  BY <1>2, <1>3, <1>4
<1> QED
  BY <1>3, <1>5 DEF sends

LEMMA StepViewTypes == View!ViewConstants /\ ViewTypes /\ [View!Next]_(View!viewVars) => ViewTypes'
<1> SUFFICES ASSUME View!ViewConstants, ViewTypes, [View!Next]_(View!viewVars) PROVE ViewTypes'
  OBVIOUS
<1>0. /\ left \in [View!ViewKinds -> Nat] /\ up \in Seq(Requests) /\ down \in Seq(ViewFrames)
      /\ grids \in [Sessions -> Grids] /\ terms \in [Sessions -> Terms] /\ pushed \in [Sessions -> LineSets]
      /\ active \in Sessions \cup {View!None} /\ window \in Sizes /\ astray \subseteq Sessions
      /\ \A i \in 1..Len(up) : up[i].what = "resize" => up[i].size \in Sizes
  BY DEF ViewTypes
\* What a left tab leaves behind.
<1>a. ASSUME View!Left PROVE astray' \subseteq Sessions
  BY <1>a DEF View!Left, ViewTypes
<1>b. /\ View!NewWidget \in [key : Sessions \cup {View!None}, last : Sizes \cup {View!None}, scrolled : BOOLEAN]
      /\ ~View!NewWidget.scrolled
      /\ View!Undrawn \in [version : Nat, on : BOOLEAN, pic : Pics, stale : BOOLEAN]
  BY DEF View!NewWidget, View!Undrawn, View!Blank, Pics
<1>c. ASSUME NEW r \in Requests, up' = Append(up, r), r.what = "resize" => r.size \in Sizes
      PROVE  up' \in Seq(Requests) /\ \A i \in 1..Len(up') : up'[i].what = "resize" => up'[i].size \in Sizes
  BY <1>0, <1>c
<1>d. ASSUME View!Touched PROVE drawn' \in [version : Nat, on : BOOLEAN, pic : Pics, stale : BOOLEAN]
  BY <1>d DEF View!Touched, ViewTypes
<1>1. ASSUME NEW s \in Sessions, View!OpenTerminal(s) PROVE ViewTypes'
  <2>1. left' \in [View!ViewKinds -> Nat]
    BY <1>0, <1>1, UseView DEF View!OpenTerminal, View!ViewKinds
  <2>2. terms' \in [Sessions -> Terms] /\ terms'[s].size # View!None /\ s # View!None
    BY <1>0, <1>1 DEF View!OpenTerminal, View!NewTerm, Terms, View!ViewConstants
  <2>3. down' \in Seq(ViewFrames)
    <3>1. [from |-> s, full |-> TRUE, size |-> OpenSize, text |-> 0, back |-> FALSE] \in ViewFrames
      BY DEF ViewFrames, View!ViewConstants
    <3> QED
      BY <1>0, <1>1, <3>1 DEF View!OpenTerminal
  <2>4. active' = s /\ View!Left /\ UNCHANGED <<window, grids, up, pushed, typed>>
        /\ ((widget' = View!NewWidget /\ drawn' = View!Undrawn) \/ UNCHANGED <<widget, drawn>>)
    BY <1>1 DEF View!OpenTerminal
  <2> QED
    BY <1>a, <1>b, <2>1, <2>2, <2>3, <2>4 DEF ViewTypes, View!Open
<1>2. ASSUME NEW s \in Sessions, View!Output(s) PROVE ViewTypes'
  <2>1. left' \in [View!ViewKinds -> Nat]
    BY <1>0, <1>2, UseView DEF View!Output, View!ViewKinds
  <2>2. terms' \in [Sessions -> Terms] /\ \A r \in Sessions : terms'[r].size = terms[r].size
    <3>1. terms' = [terms EXCEPT ![s] = Written(terms[s])]
      BY <1>2 DEF View!Output, Written
    <3> QED
      BY <1>0, <3>1, TermWritten
  <2> QED
    BY <1>2, <2>1, <2>2 DEF ViewTypes, View!Output, View!guiVars, View!Open
<1>3. ASSUME NEW s \in Sessions, View!Tick(s) PROVE ViewTypes'
  <2> DEFINE f == View!Frame(s, terms[s].damage = "full")
  <2>1. f \in ViewFrames /\ View!Lines(f) \in LineSets
    BY <1>3, FrameType DEF View!Tick
  <2>2. pushed' = [pushed EXCEPT ![s] = View!Lines(f)]
        /\ down' \in {down, Append(down, f)} /\ UNCHANGED <<View!guiVars, grids, up, typed, left>>
    BY <1>3 DEF View!Tick
  <2> HIDE DEF f
  <2>3. terms' \in [Sessions -> Terms] /\ \A r \in Sessions : terms'[r].size = terms[r].size
    BY <1>3, TermTicked
  <2>4. pushed' \in [Sessions -> LineSets]
    BY <1>0, <2>1, <2>2
  <2>5. down' \in Seq(ViewFrames)
    <3>1. Append(down, f) \in Seq(ViewFrames)
      BY <1>0, <2>1
    <3> QED
      BY <1>0, <2>2, <3>1
  <2> QED
    BY <2>2, <2>3, <2>4, <2>5 DEF ViewTypes, View!guiVars, View!Open
<1>4. ASSUME NEW s \in Sessions \cup {View!None}, View!SwitchTab(s) PROVE ViewTypes'
  <2>1. left' \in [View!ViewKinds -> Nat]
    BY <1>0, <1>4, UseView DEF View!SwitchTab, View!ViewKinds
  <2>2. active' = s /\ (s # View!None => View!Open(s)) /\ View!Left /\ UNCHANGED <<window, grids, up, View!pushVars>>
        /\ ((widget' = View!NewWidget /\ drawn' = View!Undrawn) \/ UNCHANGED <<widget, drawn>>)
    BY <1>4 DEF View!SwitchTab
  <2> QED
    BY <1>a, <1>b, <2>1, <2>2 DEF ViewTypes, View!Open, View!pushVars
<1>5. ASSUME NEW size \in Sizes, View!ResizeWindow(size) PROVE ViewTypes'
  <2>1. left' \in [View!ViewKinds -> Nat]
    BY <1>0, <1>5, UseView DEF View!ResizeWindow, View!ViewKinds
  <2>2. window' = size /\ View!Touched /\ UNCHANGED <<active, widget, grids, up, View!pushVars, astray>>
    BY <1>5 DEF View!ResizeWindow, View!Touched
  <2> QED
    BY <1>d, <2>1, <2>2 DEF ViewTypes, View!Open, View!pushVars
<1>6. ASSUME NEW back \in BOOLEAN, View!Wheel(back) PROVE ViewTypes'
  <2>1. left' \in [View!ViewKinds -> Nat]
    BY <1>0, <1>6, UseView DEF View!Wheel, View!ViewKinds
  <2>2. active # View!None /\ widget' = [View!Widget EXCEPT !.scrolled = TRUE] /\ up' = Append(up, View!Scroll(back))
        /\ View!Touched /\ astray' = astray \ {active} /\ UNCHANGED <<window, active, grids, View!pushVars>>
    BY <1>6 DEF View!Wheel
  <2>3. widget' \in [key : Sessions \cup {View!None}, last : Sizes \cup {View!None}, scrolled : BOOLEAN]
        /\ widget'.key \in Sessions
    BY <2>2, WidgetType
  <2>4. View!Scroll(back) \in Requests /\ View!Scroll(back).what # "resize"
    BY <2>2, WidgetType DEF View!Scroll, Requests
  <2> QED
    BY <1>0, <1>c, <1>d, <2>1, <2>2, <2>3, <2>4 DEF ViewTypes, View!Open, View!pushVars
<1>7. CASE View!Blink
  <2>1. active \in Sessions
    BY <1>0, <1>7 DEF View!Blink
  <2>2. grids' \in [Sessions -> Grids]
    BY <1>0, <1>7, <2>1 DEF View!Blink, Grids
  <2> QED
    BY <1>7, <2>2 DEF ViewTypes, View!Open, View!pushVars, View!Blink
<1>8. CASE View!Redraw
  <2>1. active \in Sessions /\ active # View!None
    BY <1>0, <1>8 DEF View!Redraw
  <2>2. widget' \in [key : Sessions \cup {View!None}, last : Sizes \cup {View!None}, scrolled : BOOLEAN]
        /\ widget'.key \in Sessions
    BY <1>0, <1>8, <2>1, WidgetType DEF View!Redraw
  <2>3. drawn' \in [version : Nat, on : BOOLEAN, pic : Pics, stale : BOOLEAN]
    <3>1. grids[active] \in Grids
      BY <1>0, <2>1
    <3> QED
      BY <1>8, <3>1 DEF View!Redraw, View!Drawing, ViewTypes, Grids
  <2>4. /\ grids' \in [Sessions -> Grids] /\ up' \in Seq(Requests)
        /\ \A i \in 1..Len(up') : up'[i].what = "resize" => up'[i].size \in Sizes
    <3>1. CASE UNCHANGED <<grids, up>>
      BY <1>0, <3>1
    <3>2. CASE ~UNCHANGED <<grids, up>>
      <4> DEFINE r == [to |-> active, what |-> "resize", size |-> window, stray |-> FALSE]
                 g == [View!NewGrid(window) EXCEPT !.on = grids[active].on, !.cursor = FALSE]
      <4>1. grids' = [grids EXCEPT ![active] = g] /\ up' = Append(up, r)
        BY <1>8, <3>2 DEF View!Redraw, View!Resized
      <4>2. g \in Grids
        BY <1>0, <2>1, NewGridType
      <4>3. r \in Requests /\ r.what = "resize" /\ r.size \in Sizes
        BY <1>0, <2>1 DEF Requests
      <4> HIDE DEF r, g
      <4> QED
        BY <1>0, <1>c, <4>1, <4>2, <4>3
    <3> QED
      BY <3>1, <3>2
  <2>5. UNCHANGED <<window, active, View!pushVars, astray, left>>
    BY <1>8 DEF View!Redraw
  <2> QED
    BY <2>2, <2>3, <2>4, <2>5 DEF ViewTypes, View!Open, View!pushVars
<1>9. CASE View!TypeKeys
  <2>1. left' \in [View!ViewKinds -> Nat]
    BY <1>0, <1>9, UseView DEF View!TypeKeys, View!ViewKinds
  <2>8. up' = up \o View!Input(View!Widget)
    BY <1>9 DEF View!TypeKeys
  <2>2. active # View!None /\ widget' = [View!Widget EXCEPT !.scrolled = FALSE] /\ View!Touched
        /\ grids' = [grids EXCEPT ![active].on = TRUE] /\ UNCHANGED <<window, active, View!pushVars, astray>>
    BY <1>9 DEF View!TypeKeys
  <2>3. active \in Sessions
    BY <1>0, <2>2
  <2>4. widget' \in [key : Sessions \cup {View!None}, last : Sizes \cup {View!None}, scrolled : BOOLEAN]
        /\ ~widget'.scrolled
    BY <2>2, WidgetType
  <2>5. View!Scroll(FALSE) \in Requests /\ View!Text("keys") \in Requests
        /\ View!Scroll(FALSE).what # "resize" /\ View!Text("keys").what # "resize"
    BY <2>3 DEF View!Scroll, View!Text, Requests
  <2>6. up' \in Seq(Requests) /\ \A i \in 1..Len(up') : up'[i].what = "resize" => up'[i].size \in Sizes
    <3>1. CASE View!Widget.scrolled
      <4> DEFINE a == View!Scroll(FALSE)
                 b == View!Text("keys")
      <4>1. View!Input(View!Widget) = <<a>> \o <<b>>
        BY <3>1 DEF View!Input
      <4>2. a \in Requests /\ b \in Requests /\ a.what # "resize" /\ b.what # "resize"
        BY <2>5
      <4> HIDE DEF a, b
      <4>3. up' = Append(Append(up, a), b)
        <5>1. up \o (<<a>> \o <<b>>) = Append(Append(up, a), b)
          BY <1>0, <4>2, OneOrTwoMore
        <5> QED
          BY <2>8, <4>1, <5>1, Zenon
      <4>4. Append(up, a) \in Seq(Requests)
            /\ \A i \in 1..Len(Append(up, a)) : Append(up, a)[i].what = "resize" => Append(up, a)[i].size \in Sizes
        BY <1>0, <4>2
      <4> DEFINE q == Append(up, a)
      <4>5. q \in Seq(Requests) /\ \A i \in 1..Len(q) : q[i].what = "resize" => q[i].size \in Sizes
        BY <4>4
      <4> HIDE DEF q
      <4>6. up' = Append(q, b)
        BY <4>3 DEF q
      <4> QED
        BY <4>2, <4>5, <4>6
    <3>2. CASE ~View!Widget.scrolled
      <4>1. up' = Append(up, View!Text("keys"))
        BY <1>0, <2>8, <2>5, <3>2, OneOrTwoMore DEF View!Input
      <4> QED
        BY <1>0, <2>5, <4>1
    <3> QED
      BY <3>1, <3>2
  <2>7. grids' \in [Sessions -> Grids]
    BY <1>0, <2>2, <2>3 DEF Grids
  <2> QED
    BY <1>0, <1>d, <2>1, <2>2, <2>4, <2>6, <2>7 DEF ViewTypes, View!Open, View!pushVars
<1>10. CASE View!Commit
  <2>1. left' \in [View!ViewKinds -> Nat]
    BY <1>0, <1>10, UseView DEF View!Commit, View!ViewKinds
  <2>2. active # View!None /\ up' = Append(up, View!Text("commit")) /\ widget' = View!Widget
        /\ drawn' = [drawn EXCEPT !.stale = drawn.stale \/ widget.key # active]
        /\ grids' = [grids EXCEPT ![active].on = TRUE] /\ UNCHANGED <<window, active, View!pushVars, astray>>
    BY <1>10 DEF View!Commit
  <2>3. active \in Sessions
    BY <1>0, <2>2
  <2>4. widget' \in [key : Sessions \cup {View!None}, last : Sizes \cup {View!None}, scrolled : BOOLEAN]
        /\ (widget'.scrolled => widget'.key \in Sessions)
    BY <2>2, <2>3, WidgetType
  <2>5. View!Text("commit") \in Requests /\ View!Text("commit").what # "resize"
    BY <2>3 DEF View!Text, Requests
  <2>6. grids' \in [Sessions -> Grids]
    BY <1>0, <2>2, <2>3 DEF Grids
  <2>7. drawn' \in [version : Nat, on : BOOLEAN, pic : Pics, stale : BOOLEAN]
    BY <2>2 DEF ViewTypes
  <2> QED
    BY <1>0, <1>c, <2>1, <2>2, <2>4, <2>5, <2>6, <2>7 DEF ViewTypes, View!Open, View!pushVars
<1>11. CASE View!Serve
  <2> DEFINE r == Head(up)
             t == terms[r.to]
  <2>1. up # <<>> /\ up' = Tail(up) /\ UNCHANGED <<View!guiVars, grids, pushed, down, left>>
    BY <1>11 DEF View!Serve
  <2>2. r \in Requests /\ (r.what = "resize" => r.size \in Sizes)
        /\ up' \in Seq(Requests) /\ \A i \in 1..Len(up') : up'[i].what = "resize" => up'[i].size \in Sizes
    BY <1>0, <2>1, TailOf
  <2>3. t \in Terms /\ r.to \in Sessions
    BY <1>0, <2>2 DEF Requests
  <2>4. /\ terms' \in [Sessions -> Terms]
        /\ \A q \in Sessions : terms[q].size # View!None => terms'[q].size # View!None
    <3>1. CASE UNCHANGED terms
      BY <1>0, <3>1
    <3>2. CASE terms' = [terms EXCEPT ![r.to] = IF t.size = r.size THEN t ELSE View!Sized(t, r.size)]
               /\ r.what = "resize"
      <4>1. View!Sized(t, r.size) \in Terms /\ View!Sized(t, r.size).size # View!None
        BY <2>2, <2>3, <3>2, TermResized DEF View!ViewConstants
      <4> QED
        BY <1>0, <2>3, <3>2, <4>1
    <3>3. CASE terms' = [terms EXCEPT ![r.to] = IF t.back = (r.what = "back") THEN t
                                               ELSE View!Full([t EXCEPT !.back = (r.what = "back")])]
      <4>1. View!Full([t EXCEPT !.back = (r.what = "back")]) \in Terms
            /\ View!Full([t EXCEPT !.back = (r.what = "back")]).size = t.size
        BY <2>3, TermScrolled
      <4> QED
        BY <1>0, <2>3, <3>3, <4>1
    <3> QED
      BY <1>11, <3>1, <3>2, <3>3 DEF View!Serve
  <2> QED
    BY <1>0, <2>1, <2>2, <2>4 DEF ViewTypes, View!Open, View!guiVars
<1>12. CASE View!Receive
  <2>1. down # <<>> /\ down' = Tail(down) /\ UNCHANGED <<View!guiVars, up, terms, pushed, typed, left>>
        /\ grids' = [grids EXCEPT ![Head(down).from] = View!Applied(grids[Head(down).from], Head(down))]
    BY <1>12 DEF View!Receive
  <2>2. down' \in Seq(ViewFrames) /\ Head(down) \in ViewFrames
    BY <1>0, <2>1, TailOf
  <2>3. grids' \in [Sessions -> Grids]
    <3>1. Head(down).from \in Sessions
      BY <2>2 DEF ViewFrames
    <3> QED
      BY <1>0, <2>1, <2>2, <3>1, AppliedType
  <2> QED
    BY <2>1, <2>2, <2>3 DEF ViewTypes, View!Open, View!guiVars
<1>13. CASE UNCHANGED View!viewVars
  BY <1>13 DEF View!viewVars, ViewTypes, View!Open
<1> QED
  BY <1>1, <1>2, <1>3, <1>4, <1>5, <1>6, <1>7, <1>8, <1>9, <1>10, <1>11, <1>12, <1>13 DEF View!Next

-----------------------------------------------------------------------------
(* A terminal that is not open has nothing under way.                      *)

Fresh(s) ==
  /\ terms[s] = View!Closed /\ pushed[s] = View!NoLines /\ grids[s] = View!NewGrid(OpenSize)
  /\ \A i \in 1..Len(up) : up[i].to # s
  /\ \A i \in 1..Len(down) : down[i].from # s

OpenInv == \A s \in Sessions : View!Open(s) \/ Fresh(s)

LEMMA KeysSent ==
  ASSUME up \in Seq(Requests), active \in Sessions, NEW w
  PROVE  /\ View!Scroll(FALSE) \in Requests /\ View!Text("keys") \in Requests /\ View!Text("commit") \in Requests
         /\ w.scrolled => up \o View!Input(w) = Append(Append(up, View!Scroll(FALSE)), View!Text("keys"))
         /\ ~w.scrolled => up \o View!Input(w) = Append(up, View!Text("keys"))
<1> DEFINE a == View!Scroll(FALSE)
           b == View!Text("keys")
<1>1. a \in Requests /\ b \in Requests /\ View!Text("commit") \in Requests
  BY DEF View!Scroll, View!Text, Requests
<1>2. View!Input(w) = (IF w.scrolled THEN <<a>> ELSE <<>>) \o <<b>>
  BY DEF View!Input
<1> HIDE DEF a, b
<1>3. up \o (<<a>> \o <<b>>) = Append(Append(up, a), b) /\ up \o (<<>> \o <<b>>) = Append(up, b)
  BY <1>1, OneOrTwoMore
<1>4. w.scrolled => View!Input(w) = <<a>> \o <<b>>
  BY <1>2
<1>5. ~w.scrolled => View!Input(w) = <<>> \o <<b>>
  BY <1>2
<1>6. w.scrolled => up \o View!Input(w) = Append(Append(up, a), b)
  BY <1>3, <1>4, Zenon
<1>7. ~w.scrolled => up \o View!Input(w) = Append(up, b)
  BY <1>3, <1>5, Zenon
<1> QED
  BY <1>1, <1>6, <1>7 DEF a, b

LEMMA StepOpenInv ==
  ASSUME View!ViewConstants, ViewTypes, OpenInv, [View!Next]_(View!viewVars)
  PROVE  OpenInv'
<1> SUFFICES ASSUME NEW s \in Sessions, ~View!Open(s)' PROVE Fresh(s)'
  BY DEF OpenInv
<1>0. /\ up \in Seq(Requests) /\ down \in Seq(ViewFrames) /\ active \in Sessions \cup {View!None}
      /\ grids \in [Sessions -> Grids] /\ terms \in [Sessions -> Terms] /\ pushed \in [Sessions -> LineSets]
      /\ (active # View!None => View!Open(active))
  BY DEF ViewTypes
\* A request to another terminal, or to none.
<1>a. ASSUME Fresh(s), UNCHANGED <<terms[s], pushed[s], grids[s], down>>,
             \/ up' = up
             \/ \E r \in Requests : r.to # s /\ up' = Append(up, r)
             \/ \E r \in Requests, t \in Requests : r.to # s /\ t.to # s /\ up' = Append(Append(up, r), t)
      PROVE  Fresh(s)'
  <2>1. CASE up' = up
    BY <1>a, <2>1 DEF Fresh
  <2>2. ASSUME NEW r \in Requests, r.to # s, up' = Append(up, r) PROVE Fresh(s)'
    BY <1>0, <1>a, <2>2 DEF Fresh
  <2>3. ASSUME NEW r \in Requests, NEW t \in Requests, r.to # s, t.to # s, up' = Append(Append(up, r), t) PROVE Fresh(s)'
    <3> DEFINE q == Append(up, r)
    <3>1. q \in Seq(Requests) /\ \A i \in 1..Len(q) : q[i].to # s
      BY <1>0, <1>a, <2>3 DEF Fresh
    <3>2. up' = Append(q, t)
      BY <2>3
    <3> HIDE DEF q
    <3>3. \A i \in 1..Len(up') : up'[i].to # s
      BY <2>3, <3>1, <3>2
    <3> QED
      BY <1>a, <3>3 DEF Fresh
  <2> QED
    BY <1>a, <2>1, <2>2, <2>3
\* At the active terminal.
<1>b. ~View!Open(s) => s # active
  BY <1>0 DEF View!ViewConstants
<1>c. ASSUME active \in Sessions, active # s
      PROVE  /\ \A back \in BOOLEAN : View!Scroll(back) \in Requests /\ View!Scroll(back).to # s
             /\ \A what \in {"keys", "commit"} : View!Text(what) \in Requests /\ View!Text(what).to # s
  BY <1>c DEF View!Scroll, View!Text, Requests
<1>1. ASSUME NEW r \in Sessions, View!OpenTerminal(r) PROVE Fresh(s)'
  <2>1. terms' = [terms EXCEPT ![r] = View!NewTerm] /\ UNCHANGED <<window, grids, up, pushed, typed>>
        /\ down' = Append(down, [from |-> r, full |-> TRUE, size |-> OpenSize, text |-> 0, back |-> FALSE])
    BY <1>1 DEF View!OpenTerminal
  <2>2. r # s
    BY <1>0, <2>1 DEF View!Open, View!NewTerm, View!ViewConstants
  <2>3. terms'[s] = terms[s]
    BY <1>0, <2>1, <2>2
  <2>4. Fresh(s)
    BY <2>3 DEF OpenInv, View!Open
  <2>5. \A i \in 1..Len(down') : down'[i].from # s
    <3> DEFINE f == [from |-> r, full |-> TRUE, size |-> OpenSize, text |-> 0, back |-> FALSE]
    <3>1. f \in ViewFrames /\ f.from # s /\ down' = Append(down, f)
      BY <2>1, <2>2 DEF ViewFrames, View!ViewConstants
    <3> HIDE DEF f
    <3> QED
      BY <1>0, <2>4, <3>1 DEF Fresh
  <2> QED
    BY <2>1, <2>3, <2>4, <2>5 DEF Fresh
<1>2. ASSUME NEW r \in Sessions, View!Output(r) PROVE Fresh(s)'
  <2>1. View!Open(r) /\ terms' = [terms EXCEPT ![r] = Written(terms[r])] /\ UNCHANGED <<View!guiVars, grids, up, pushed, down, typed>>
    BY <1>2 DEF View!Output, Written
  <2>2. terms[r] \in Terms
    BY <1>0
  <2>3. r # s /\ terms'[s] = terms[s]
    BY <1>0, <2>1, <2>2, TermWritten DEF View!Open
  <2> QED
    BY <1>a, <2>1, <2>3 DEF OpenInv, View!Open
<1>3. ASSUME NEW r \in Sessions, View!Tick(r) PROVE Fresh(s)'
  <2> DEFINE f == View!Frame(r, terms[r].damage = "full")
  <2>1. View!Open(r) /\ pushed' = [pushed EXCEPT ![r] = View!Lines(f)]
        /\ down' \in {down, Append(down, f)} /\ UNCHANGED <<View!guiVars, grids, up, typed, left>>
    BY <1>3 DEF View!Tick
  <2>2. f \in ViewFrames /\ f.from = r
    BY <1>3, FrameType DEF View!Tick
  <2> HIDE DEF f
  <2>3. (\A q \in Sessions : terms'[q].size = terms[q].size) /\ \A q \in Sessions : q # r => terms'[q] = terms[q]
    BY <1>3, TermTicked
  <2>4. r # s /\ ~View!Open(s)
    BY <2>1, <2>3 DEF View!Open
  <2>5. terms'[s] = terms[s] /\ pushed'[s] = pushed[s]
    BY <1>0, <2>1, <2>3, <2>4
  <2>6. Fresh(s)
    BY <2>4 DEF OpenInv
  <2>7. \A i \in 1..Len(down') : down'[i].from # s
    <3>1. CASE down' = down
      BY <2>6, <3>1 DEF Fresh
    <3>2. CASE down' = Append(down, f)
      BY <1>0, <2>2, <2>4, <2>6, <3>2 DEF Fresh
    <3> QED
      BY <2>1, <3>1, <3>2
  <2> QED
    BY <2>1, <2>5, <2>6, <2>7 DEF Fresh
<1>4. ASSUME NEW r \in Sessions \cup {View!None}, View!SwitchTab(r) PROVE Fresh(s)'
  BY <1>a, <1>4 DEF View!SwitchTab, View!pushVars, OpenInv, View!Open
<1>5. ASSUME NEW size \in Sizes, View!ResizeWindow(size) PROVE Fresh(s)'
  BY <1>a, <1>5 DEF View!ResizeWindow, View!pushVars, OpenInv, View!Open
<1>6. ASSUME NEW back \in BOOLEAN, View!Wheel(back) PROVE Fresh(s)'
  <2>1. active # View!None /\ up' = Append(up, View!Scroll(back)) /\ UNCHANGED <<window, active, grids, View!pushVars>>
    BY <1>6 DEF View!Wheel
  <2>2. ~View!Open(s)
    BY <2>1 DEF View!pushVars, View!Open
  <2> QED
    BY <1>0, <1>a, <1>b, <1>c, <2>1, <2>2 DEF View!pushVars, OpenInv
<1>7. CASE View!Blink \/ View!Commit \/ View!TypeKeys
  <2>1. active # View!None /\ UNCHANGED View!pushVars /\ \E on \in BOOLEAN : grids' = [grids EXCEPT ![active].on = on]
    BY <1>0, <1>7 DEF View!Blink, View!Commit, View!TypeKeys, Grids
  <2>2. ~View!Open(s)
    BY <2>1 DEF View!pushVars, View!Open
  <2>3. active # s /\ active \in Sessions /\ grids'[s] = grids[s]
    BY <1>0, <1>b, <2>1, <2>2
  <2>4. View!Text("keys") \in Requests /\ View!Text("keys").to # s /\ View!Text("commit") \in Requests /\ View!Text("commit").to # s
        /\ View!Scroll(FALSE) \in Requests /\ View!Scroll(FALSE).to # s
    BY <1>c, <2>3
  <2>5. CASE View!Blink \/ View!Commit
    BY <1>a, <2>1, <2>2, <2>3, <2>4, <2>5 DEF View!Blink, View!Commit, View!pushVars, OpenInv
  <2>6. CASE View!TypeKeys
    <3>1. up' = up \o View!Input(View!Widget)
      BY <2>6 DEF View!TypeKeys
    <3>2. up' = Append(up, View!Text("keys")) \/ up' = Append(Append(up, View!Scroll(FALSE)), View!Text("keys"))
      BY <1>0, <2>3, <3>1, KeysSent
    <3> QED
      BY <1>a, <2>1, <2>2, <2>3, <2>4, <3>2 DEF View!pushVars, OpenInv
  <2> QED
    BY <1>7, <2>5, <2>6
<1>8. CASE View!Redraw
  <2>1. active # View!None /\ UNCHANGED View!pushVars
    BY <1>8 DEF View!Redraw
  <2>2. ~View!Open(s)
    BY <2>1 DEF View!pushVars, View!Open
  <2>3. active # s /\ active \in Sessions
    BY <1>0, <1>b, <2>1, <2>2
  <2>4. CASE UNCHANGED <<grids, up>>
    BY <1>a, <2>1, <2>2, <2>4 DEF View!pushVars, OpenInv
  <2>5. CASE ~UNCHANGED <<grids, up>>
    <3> DEFINE r == [to |-> active, what |-> "resize", size |-> window, stray |-> FALSE]
               g == [View!NewGrid(window) EXCEPT !.on = grids[active].on, !.cursor = FALSE]
    <3>1. grids' = [grids EXCEPT ![active] = g] /\ up' = Append(up, r)
      BY <1>8, <2>5 DEF View!Redraw, View!Resized
    <3>2. r \in Requests /\ r.to # s
      BY <2>3 DEF Requests, ViewTypes
    <3> HIDE DEF r, g
    <3>3. grids'[s] = grids[s]
      BY <1>0, <2>3, <3>1
    <3> QED
      BY <1>a, <2>1, <2>2, <3>1, <3>2, <3>3 DEF View!pushVars, OpenInv
  <2> QED
    BY <2>4, <2>5
<1>9. CASE View!Serve
  <2> DEFINE r == Head(up)
             t == terms[r.to]
  <2>1. up # <<>> /\ up' = Tail(up) /\ UNCHANGED <<View!guiVars, grids, pushed, down, left>>
    BY <1>9 DEF View!Serve
  <2>2. Len(up) >= 1 /\ r = up[1] /\ r \in Requests /\ (r.what = "resize" => r.size \in Sizes)
        /\ \A i \in 1..Len(up') : up'[i] = up[i + 1] /\ i + 1 \in 1..Len(up)
    BY <1>0, <2>1, TailOf DEF ViewTypes
  <2>3. t \in Terms /\ r.to \in Sessions /\ \A q \in Sessions : Fresh(q) => r.to # q
    BY <1>0, <2>2 DEF Requests, Fresh
  <2>4. View!Open(r.to) /\ t.size # View!None
    BY <2>3 DEF OpenInv, View!Open
  <2>5. terms' = terms \/ \E w \in Terms : w.size # View!None /\ terms' = [terms EXCEPT ![r.to] = w]
    <3>1. CASE r.what = "resize" /\ terms' = [terms EXCEPT ![r.to] = IF t.size = r.size THEN t ELSE View!Sized(t, r.size)]
      <4>1. View!Sized(t, r.size) \in Terms /\ View!Sized(t, r.size).size # View!None
        BY <2>2, <2>3, <3>1, TermResized DEF View!ViewConstants
      <4> QED
        BY <2>3, <2>4, <3>1, <4>1
    <3>2. CASE terms' = [terms EXCEPT ![r.to] = IF t.back = (r.what = "back") THEN t
                                               ELSE View!Full([t EXCEPT !.back = (r.what = "back")])]
      <4>1. View!Full([t EXCEPT !.back = (r.what = "back")]) \in Terms /\ View!Full([t EXCEPT !.back = (r.what = "back")]).size # View!None
        BY <2>3, <2>4, TermScrolled
      <4> QED
        BY <2>3, <2>4, <3>2, <4>1
    <3> QED
      BY <1>9, <3>1, <3>2 DEF View!Serve
  <2> HIDE DEF r, t
  <2>6. r.to # s
    BY <1>0, <2>3, <2>4, <2>5 DEF View!Open
  <2>7. terms'[s] = terms[s]
    BY <1>0, <2>3, <2>5, <2>6
  <2>8. Fresh(s)
    BY <2>7 DEF OpenInv, View!Open
  <2> QED
    BY <2>1, <2>2, <2>7, <2>8 DEF Fresh
<1>10. CASE View!Receive
  <2>1. down # <<>> /\ down' = Tail(down) /\ UNCHANGED <<View!guiVars, up, terms, pushed, typed, left>>
        /\ grids' = [grids EXCEPT ![Head(down).from] = View!Applied(grids[Head(down).from], Head(down))]
    BY <1>10 DEF View!Receive
  <2>2. Fresh(s)
    BY <2>1 DEF OpenInv, View!Open
  <2>3. Len(down) >= 1 /\ Head(down) = down[1] /\ Head(down) \in ViewFrames
        /\ \A i \in 1..Len(down') : down'[i] = down[i + 1] /\ i + 1 \in 1..Len(down)
    BY <1>0, <2>1, TailOf
  <2>4. Head(down).from # s /\ \A i \in 1..Len(down') : down'[i].from # s
    <3>1. \A i \in 1..Len(down) : down[i].from # s
      BY <2>2 DEF Fresh
    <3>2. 1 \in 1..Len(down)
      BY <1>0, <2>3
    <3> QED
      BY <2>3, <3>1, <3>2
  <2>5. grids'[s] = grids[s]
    BY <1>0, <2>1, <2>4
  <2> QED
    BY <2>1, <2>2, <2>4, <2>5 DEF Fresh
<1>11. CASE UNCHANGED View!viewVars
  BY <1>a, <1>11 DEF View!viewVars, OpenInv, View!Open
<1> QED
  BY <1>1, <1>2, <1>3, <1>4, <1>5, <1>6, <1>7, <1>8, <1>9, <1>10, <1>11 DEF View!Next

-----------------------------------------------------------------------------
(* Keys find the terminal at its bottom.                                   *)

Bottomed(q, s, k) == q[k].to = s /\ q[k].what = "bottom"

\* Terminal s is scrolled back after the first i requests of q, if it was (back) before them.
BackAfter(q, back, s, i) ==
  \/ back /\ \A k \in 1..i : ~Bottomed(q, s, k)
  \/ \E j \in 1..i : q[j].to = s /\ q[j].what = "back" /\ \A k \in j..i : ~Bottomed(q, s, k)

\* No keys on their way will find their terminal scrolled back, but those of a stray one.
Honest(q) == \A i \in 1..Len(q) : q[i].what = "keys" /\ ~q[i].stray =>
               ~BackAfter(q, terms[q[i].to].back, q[i].to, i)

BackInTheEnd(q, s) == BackAfter(q, terms[s].back, s, Len(q))

KeysInv ==
  /\ View!KeysAtBottom /\ Honest(up)
  /\ \A s \in Sessions : BackInTheEnd(up, s) => s \in astray \/ (widget.key = s /\ widget.scrolled)
  /\ widget.scrolled /\ widget.key # active => widget.key \in astray

\* What the next request makes of it.
BackStep(r, back, s) ==
  IF r.to = s /\ r.what = "back" THEN TRUE ELSE IF r.to = s /\ r.what = "bottom" THEN FALSE ELSE back

LEMMA BackNext ==
  ASSUME NEW q, NEW back \in BOOLEAN, NEW s, NEW i \in Nat
  PROVE  /\ BackAfter(q, back, s, 0) <=> back
         /\ BackAfter(q, back, s, i + 1) <=> BackStep(q[i + 1], BackAfter(q, back, s, i), s)
<1>1. BackAfter(q, back, s, 0) <=> back
  BY DEF BackAfter
<1>2. CASE q[i + 1].to = s /\ q[i + 1].what = "back"
  <2>1. i + 1 \in 1..(i + 1) /\ \A k \in (i + 1)..(i + 1) : ~Bottomed(q, s, k)
    BY <1>2 DEF Bottomed
  <2> QED
    BY <1>1, <1>2, <2>1 DEF BackAfter, BackStep
<1>3. CASE Bottomed(q, s, i + 1)
  <2>1. \A j \in 1..(i + 1) : i + 1 \in j..(i + 1)
    OBVIOUS
  <2> QED
    BY <1>1, <1>3, <2>1 DEF BackAfter, BackStep, Bottomed
<1>4. CASE ~(q[i + 1].to = s /\ q[i + 1].what = "back") /\ ~Bottomed(q, s, i + 1)
  <2>1. \A k \in Int : k \in 1..(i + 1) <=> k \in 1..i \/ k = i + 1
    OBVIOUS
  <2>2. \A j \in 1..i : \A k \in Int : k \in j..(i + 1) <=> k \in j..i \/ k = i + 1
    OBVIOUS
  <2>3. BackAfter(q, back, s, i + 1) <=> BackAfter(q, back, s, i)
    BY <1>4, <2>1, <2>2 DEF BackAfter
  <2> QED
    BY <1>1, <1>4, <2>3 DEF BackStep, Bottomed
<1> QED
  BY <1>1, <1>2, <1>3, <1>4 DEF Bottomed

LEMMA BackFirst ==
  ASSUME NEW q, NEW back \in BOOLEAN, NEW s
  PROVE  BackAfter(q, back, s, 1) <=> BackStep(q[1], back, s)
<1>1. 0 \in Nat /\ 0 + 1 = 1
  OBVIOUS
<1>2. BackAfter(q, back, s, 0 + 1) <=> BackStep(q[0 + 1], BackAfter(q, back, s, 0), s)
  BY <1>1, BackNext
<1>3. BackAfter(q, back, s, 0) <=> back
  BY <1>1, BackNext
<1> QED
  BY <1>1, <1>2, <1>3 DEF BackStep

LEMMA BackAppended ==
  ASSUME NEW q \in Seq(Requests), NEW r \in Requests, NEW back \in BOOLEAN, NEW s
  PROVE  /\ \A i \in 0..Len(q) : BackAfter(Append(q, r), back, s, i) <=> BackAfter(q, back, s, i)
         /\ BackAfter(Append(q, r), back, s, Len(q) + 1) <=> BackStep(r, BackAfter(q, back, s, Len(q)), s)
<1> DEFINE p == Append(q, r)
<1>1. p \in Seq(Requests) /\ Len(q) \in Nat /\ p[Len(q) + 1] = r /\ \A k \in 1..Len(q) : p[k] = q[k]
  OBVIOUS
<1> HIDE DEF p
<1>2. \A i \in 0..Len(q) : BackAfter(p, back, s, i) <=> BackAfter(q, back, s, i)
  <2> SUFFICES ASSUME NEW i \in 0..Len(q) PROVE BackAfter(p, back, s, i) <=> BackAfter(q, back, s, i)
    OBVIOUS
  <2>1. \A k \in 1..i : p[k] = q[k] /\ \A m \in k..i : p[m] = q[m]
    BY <1>1
  <2> QED
    BY <2>1 DEF BackAfter, Bottomed
<1>3. Len(q) \in 0..Len(q)
  BY <1>1
<1>4. BackAfter(p, back, s, Len(q) + 1) <=> BackStep(r, BackAfter(p, back, s, Len(q)), s)
  BY <1>1, BackNext
<1>5. BackAfter(p, back, s, Len(q) + 1) <=> BackStep(r, BackAfter(q, back, s, Len(q)), s)
  BY <1>2, <1>3, <1>4 DEF BackStep
<1> QED
  BY <1>2, <1>5 DEF p

\* The first request is served.
LEMMA BackServed ==
  ASSUME NEW q \in Seq(Requests), q # <<>>, NEW back \in BOOLEAN, NEW s, NEW i \in 0..Len(Tail(q))
  PROVE  BackAfter(Tail(q), BackStep(q[1], back, s), s, i) <=> BackAfter(q, back, s, i + 1)
<1> DEFINE p == Tail(q)
           b == BackStep(q[1], back, s)
<1>1. Len(q) \in Nat /\ Len(q) >= 1 /\ Len(p) = Len(q) - 1 /\ \A k \in 1..Len(p) : p[k] = q[k + 1]
  BY TailOf
<1>2. i \in Nat /\ \A k \in 1..i : p[k] = q[k + 1] /\ k + 1 \in 1..(i + 1) /\ \A m \in k..i : p[m] = q[m + 1]
  BY <1>1
<1> HIDE DEF p
<1>3. ASSUME BackAfter(p, b, s, i) PROVE BackAfter(q, back, s, i + 1)
  <2>1. CASE b /\ \A k \in 1..i : ~Bottomed(p, s, k)
    <3>1. \A k \in 2..(i + 1) : k - 1 \in 1..i /\ p[k - 1] = q[k]
      BY <1>2
    <3>2. \A k \in 2..(i + 1) : ~Bottomed(q, s, k)
      BY <2>1, <3>1 DEF Bottomed
    <3>3. ~Bottomed(q, s, 1) /\ (back \/ (q[1].to = s /\ q[1].what = "back"))
      BY <2>1 DEF BackStep, Bottomed
    <3>4. \A k \in 1..(i + 1) : k = 1 \/ k \in 2..(i + 1)
      OBVIOUS
    <3>5. \A k \in 1..(i + 1) : ~Bottomed(q, s, k)
      BY <3>2, <3>3, <3>4
    <3>6. 1 \in 1..(i + 1)
      BY <1>2
    <3> QED
      BY <3>3, <3>5, <3>6 DEF BackAfter
  <2>2. ASSUME NEW j \in 1..i, p[j].to = s, p[j].what = "back", \A k \in j..i : ~Bottomed(p, s, k)
        PROVE  BackAfter(q, back, s, i + 1)
    <3>1. \A k \in (j + 1)..(i + 1) : k - 1 \in j..i /\ p[k - 1] = q[k]
      BY <1>2
    <3>2. \A k \in (j + 1)..(i + 1) : ~Bottomed(q, s, k)
      BY <2>2, <3>1 DEF Bottomed
    <3>3. j + 1 \in 1..(i + 1) /\ q[j + 1].to = s /\ q[j + 1].what = "back"
      BY <1>2, <2>2
    <3> QED
      BY <3>2, <3>3 DEF BackAfter
  <2> QED
    BY <1>3, <2>1, <2>2 DEF BackAfter
<1>4. ASSUME BackAfter(q, back, s, i + 1) PROVE BackAfter(p, b, s, i)
  <2>0. \A j \in 1..(i + 1) : \A k \in j..i : k + 1 \in j..(i + 1) /\ (k >= 1 => p[k] = q[k + 1])
    BY <1>2
  <2>1. CASE back /\ \A k \in 1..(i + 1) : ~Bottomed(q, s, k)
    <3>1. 1 \in 1..(i + 1)
      BY <1>2
    <3>2. b
      BY <2>1, <3>1 DEF BackStep, Bottomed
    <3> QED
      BY <1>2, <2>1, <3>2 DEF BackAfter, Bottomed
  <2>2. ASSUME NEW j \in 1..(i + 1), q[j].to = s, q[j].what = "back", \A k \in j..(i + 1) : ~Bottomed(q, s, k)
        PROVE  BackAfter(p, b, s, i)
    <3>1. CASE j = 1
      <4>1. b
        BY <2>2, <3>1 DEF BackStep
      <4>2. \A k \in 1..i : ~Bottomed(p, s, k)
        <5>1. \A k \in 1..i : k + 1 \in j..(i + 1) /\ p[k] = q[k + 1]
          BY <1>2, <3>1
        <5> QED
          BY <2>2, <5>1 DEF Bottomed
      <4> QED
        BY <4>1, <4>2 DEF BackAfter
    <3>2. CASE j # 1
      <4>1. j - 1 \in 1..i /\ \A k \in (j - 1)..i : k + 1 \in j..(i + 1) /\ p[k] = q[k + 1]
        BY <1>2, <3>2
      <4>2. p[j - 1] = q[j]
        BY <1>2, <4>1
      <4>3. \A k \in (j - 1)..i : ~Bottomed(p, s, k)
        BY <2>2, <4>1 DEF Bottomed
      <4> QED
        BY <2>2, <4>1, <4>2, <4>3 DEF BackAfter
    <3> QED
      BY <3>1, <3>2
  <2> QED
    BY <1>4, <2>1, <2>2 DEF BackAfter
<1> QED
  BY <1>3, <1>4 DEF p

LEMMA AppendHonest ==
  ASSUME terms \in [Sessions -> Terms], NEW q \in Seq(Requests), NEW r \in Requests, Honest(q),
         r.what = "keys" /\ ~r.stray => ~BackInTheEnd(q, r.to)
  PROVE  /\ Honest(Append(q, r)) /\ Append(q, r) \in Seq(Requests)
         /\ \A s \in Sessions : BackInTheEnd(Append(q, r), s) <=> BackStep(r, BackInTheEnd(q, s), s)
<1> DEFINE p == Append(q, r)
<1>1. p \in Seq(Requests) /\ Len(q) \in Nat /\ Len(p) = Len(q) + 1 /\ p[Len(p)] = r
      /\ \A k \in 1..Len(q) : p[k] = q[k]
  OBVIOUS
<1>2. \A s \in Sessions : terms[s].back \in BOOLEAN
  BY DEF Terms
<1>3. \A s \in Sessions : BackInTheEnd(p, s) <=> BackStep(r, BackInTheEnd(q, s), s)
  <2> SUFFICES ASSUME NEW s \in Sessions PROVE BackInTheEnd(p, s) <=> BackStep(r, BackInTheEnd(q, s), s)
    OBVIOUS
  <2> DEFINE b == terms[s].back
  <2>1. b \in BOOLEAN
    BY <1>2
  <2> HIDE DEF b
  <2>2. BackAfter(p, b, s, Len(q) + 1) <=> BackStep(r, BackAfter(q, b, s, Len(q)), s)
    BY <2>1, BackAppended
  <2> QED
    BY <1>1, <2>2 DEF BackInTheEnd, b
<1>4. \A s \in Sessions : \A i \in 1..Len(q) : BackAfter(p, terms[s].back, s, i) <=> BackAfter(q, terms[s].back, s, i)
  <2> SUFFICES ASSUME NEW s \in Sessions
               PROVE  \A i \in 1..Len(q) : BackAfter(p, terms[s].back, s, i) <=> BackAfter(q, terms[s].back, s, i)
    OBVIOUS
  <2> DEFINE b == terms[s].back
  <2>1. b \in BOOLEAN
    BY <1>2
  <2> HIDE DEF b
  <2>2. \A i \in 0..Len(q) : BackAfter(p, b, s, i) <=> BackAfter(q, b, s, i)
    BY <2>1, BackAppended
  <2> QED
    BY <1>1, <2>2 DEF b
<1> HIDE DEF p
<1>5. Honest(p)
  <2> SUFFICES ASSUME NEW i \in 1..Len(p), p[i].what = "keys", ~p[i].stray
               PROVE  ~BackAfter(p, terms[p[i].to].back, p[i].to, i)
    BY DEF Honest
  <2>1. CASE i \in 1..Len(q)
    <3>0. q[i] \in Requests /\ p[i] = q[i]
      BY <1>1, <2>1
    <3>1. q[i] \in Requests /\ p[i] = q[i] /\ q[i].to \in Sessions
      BY <3>0 DEF Requests
    <3> QED
      BY <1>4, <2>1, <3>1 DEF Honest
  <2>2. CASE i = Len(p)
    <3>1. p[i] = r /\ r.to \in Sessions
      BY <1>1, <2>2 DEF Requests
    <3>2. ~BackInTheEnd(p, r.to)
      BY <1>3, <3>1 DEF BackStep
    <3> QED
      BY <2>2, <3>1, <3>2 DEF BackInTheEnd
  <2> QED
    BY <1>1, <2>1, <2>2
<1> QED
  BY <1>1, <1>3, <1>5 DEF p

LEMMA StepKeysInv ==
  ASSUME View!ViewConstants, ViewTypes, OpenInv, KeysInv, [View!Next]_(View!viewVars)
  PROVE  KeysInv'
<1>0. /\ up \in Seq(Requests) /\ active \in Sessions \cup {View!None} /\ terms \in [Sessions -> Terms]
      /\ astray \subseteq Sessions
  BY DEF ViewTypes
\* Where the terminals stay where they are.
<1>a. ASSUME UNCHANGED <<up, typed>>, \A s \in Sessions : terms'[s].back = terms[s].back
      PROVE  /\ View!KeysAtBottom' /\ Honest(up)'
             /\ \A s \in Sessions : BackInTheEnd(up, s)' <=> BackInTheEnd(up, s)
  <2>0. \A i \in 1..Len(up) : up[i] \in Requests
    BY <1>0
  <2>1. \A i \in 1..Len(up) : up[i].to \in Sessions
    BY <2>0 DEF Requests
  <2> QED
    BY <1>a, <2>1 DEF KeysInv, View!KeysAtBottom, Honest, BackInTheEnd
<1>b. ASSUME NEW r \in Requests, UNCHANGED <<terms, typed>>, up' = Append(up, r),
             r.what = "keys" /\ ~r.stray => ~BackInTheEnd(up, r.to)
      PROVE  /\ View!KeysAtBottom' /\ Honest(up)'
             /\ \A s \in Sessions : BackInTheEnd(up, s)' <=> BackStep(r, BackInTheEnd(up, s), s)
  <2>1. Honest(up') /\ \A s \in Sessions : BackInTheEnd(up', s) <=> BackStep(r, BackInTheEnd(up, s), s)
    BY <1>0, <1>b, AppendHonest DEF KeysInv
  <2> QED
    BY <1>b, <2>1 DEF KeysInv, View!KeysAtBottom, Honest, BackInTheEnd
\* The tab is left.
<1>c. ASSUME View!Left, \/ widget' = View!NewWidget
                        \/ widget' = widget,
             \A s \in Sessions : BackInTheEnd(up, s)' => BackInTheEnd(up, s)
      PROVE  /\ \A s \in Sessions : BackInTheEnd(up, s)' => s \in astray' \/ (widget'.key = s /\ widget'.scrolled)
             /\ widget'.scrolled /\ widget'.key # active' => widget'.key \in astray'
  BY <1>c DEF View!Left, KeysInv, View!NewWidget
<1>1. ASSUME NEW s \in Sessions, View!OpenTerminal(s) PROVE KeysInv'
  <2>1. ~View!Open(s) /\ terms' = [terms EXCEPT ![s] = View!NewTerm] /\ UNCHANGED <<up, typed>> /\ View!Left
        /\ (widget' = View!NewWidget \/ widget' = widget)
    BY <1>1 DEF View!OpenTerminal
  <2>2. terms[s] = View!Closed
    BY <2>1 DEF OpenInv, Fresh
  <2>3. \A r \in Sessions : terms'[r].back = terms[r].back
    <3>1. terms'[s].back = FALSE /\ terms[s].back = FALSE
      BY <1>0, <2>1, <2>2, ClosedIs
    <3>2. \A r \in Sessions : r # s => terms'[r] = terms[r]
      BY <1>0, <2>1
    <3> QED
      BY <3>1, <3>2
  <2> QED
    BY <1>a, <1>c, <2>1, <2>3 DEF KeysInv
<1>2. ASSUME NEW s \in Sessions, View!Output(s) PROVE KeysInv'
  <2>1. terms' = [terms EXCEPT ![s] = Written(terms[s])] /\ UNCHANGED <<View!guiVars, up, typed>>
    BY <1>2 DEF View!Output, Written
  <2>2. \A r \in Sessions : terms'[r].back = terms[r].back
    BY <1>0, <2>1, TermWritten
  <2> QED
    BY <1>a, <2>1, <2>2 DEF KeysInv, View!guiVars
<1>3. ASSUME NEW s \in Sessions, View!Tick(s) PROVE KeysInv'
  <2>1. UNCHANGED <<View!guiVars, up, typed>>
    BY <1>3 DEF View!Tick
  <2>2. \A r \in Sessions : terms'[r].back = terms[r].back
    BY <1>3, TermTicked
  <2> QED
    BY <1>a, <2>1, <2>2 DEF KeysInv, View!guiVars
<1>4. ASSUME NEW s \in Sessions \cup {View!None}, View!SwitchTab(s) PROVE KeysInv'
  <2>1. UNCHANGED <<up, typed, terms>> /\ View!Left /\ (widget' = View!NewWidget \/ widget' = widget)
    BY <1>4 DEF View!SwitchTab, View!pushVars
  <2> QED
    BY <1>a, <1>c, <2>1 DEF KeysInv
<1>5. ASSUME NEW size \in Sizes, View!ResizeWindow(size) PROVE KeysInv'
  BY <1>a, <1>5 DEF View!ResizeWindow, View!pushVars, KeysInv
<1>6. ASSUME NEW back \in BOOLEAN, View!Wheel(back) PROVE KeysInv'
  <2>1. active # View!None /\ widget' = [View!Widget EXCEPT !.scrolled = TRUE] /\ up' = Append(up, View!Scroll(back))
        /\ astray' = astray \ {active} /\ UNCHANGED <<active, terms, typed>>
    BY <1>6 DEF View!Wheel, View!pushVars
  <2>2. active \in Sessions /\ widget'.key = active /\ widget'.scrolled
    BY <1>0, <2>1, WidgetType
  <2>3. View!Scroll(back) \in Requests /\ View!Scroll(back).what # "keys" /\ View!Scroll(back).to = active
    BY <2>2 DEF View!Scroll, Requests
  <2>4. \A s \in Sessions : BackInTheEnd(up, s)' <=> BackStep(View!Scroll(back), BackInTheEnd(up, s), s)
    BY <1>b, <2>1, <2>3
  <2>5. \A s \in Sessions : s # active => (BackInTheEnd(up, s)' <=> BackInTheEnd(up, s))
    BY <2>3, <2>4 DEF BackStep
  <2>6. \A s \in Sessions : BackInTheEnd(up, s)' => s \in astray' \/ (widget'.key = s /\ widget'.scrolled)
    BY <2>1, <2>2, <2>5 DEF KeysInv
  <2> QED
    BY <1>b, <2>1, <2>2, <2>3, <2>6 DEF KeysInv
<1>7. CASE View!Blink
  BY <1>a, <1>7 DEF View!Blink, View!pushVars, KeysInv
<1>8. CASE View!Redraw
  <2>1. active # View!None /\ widget' = [View!Widget EXCEPT !.last = window] /\ UNCHANGED <<active, astray, terms, typed>>
    BY <1>8 DEF View!Redraw, View!pushVars
  <2>2. active \in Sessions /\ widget'.key = active /\ (widget'.scrolled => widget.key = active /\ widget.scrolled)
    BY <1>0, <2>1, WidgetType DEF View!Widget, ViewTypes
  <2>3. widget.key = active /\ widget.scrolled => widget'.scrolled
    BY <2>1 DEF View!Widget, ViewTypes
  <2>4. \A s \in Sessions : BackInTheEnd(up, s) => s \in astray' \/ (widget'.key = s /\ widget'.scrolled)
    BY <2>1, <2>2, <2>3 DEF KeysInv
  <2>5. CASE UNCHANGED <<grids, up>>
    BY <1>a, <2>1, <2>2, <2>4, <2>5 DEF KeysInv
  <2>6. CASE ~UNCHANGED <<grids, up>>
    <3> DEFINE r == [to |-> active, what |-> "resize", size |-> window, stray |-> FALSE]
    <3>1. up' = Append(up, r)
      BY <1>8, <2>6 DEF View!Redraw, View!Resized
    <3>2. r \in Requests /\ r.what = "resize"
      BY <2>2 DEF Requests, ViewTypes
    <3> HIDE DEF r
    <3>3. \A s \in Sessions : BackInTheEnd(up, s)' <=> BackInTheEnd(up, s)
      BY <1>b, <2>1, <3>1, <3>2 DEF BackStep
    <3> QED
      BY <1>b, <2>1, <2>2, <2>4, <3>1, <3>2, <3>3 DEF KeysInv
  <2> QED
    BY <2>5, <2>6
<1>9. CASE View!TypeKeys
  <2>1. active # View!None /\ UNCHANGED <<active, terms, typed, astray>>
    BY <1>9 DEF View!TypeKeys, View!pushVars
  <2>2. up' = up \o View!Input(View!Widget)
    BY <1>9 DEF View!TypeKeys
  <2>3. active \in Sessions /\ widget'.key = active /\ ~widget'.scrolled
    BY <1>0, <1>9, WidgetType DEF View!TypeKeys
  <2>4. View!Widget.scrolled <=> widget.key = active /\ widget.scrolled
    BY DEF View!Widget, ViewTypes
  <2> DEFINE a == View!Scroll(FALSE)
             b == View!Text("keys")
  <2>5. a \in Requests /\ b \in Requests /\ a.what = "bottom" /\ a.to = active /\ b.what = "keys" /\ b.to = active
        /\ b.stray = (active \in astray)
    BY <2>3 DEF View!Scroll, View!Text, Requests
  <2>6. \A s \in Sessions : s # active /\ BackInTheEnd(up, s) => s \in astray
    BY DEF KeysInv
  <2>7. CASE View!Widget.scrolled
    <3>1. up' = Append(Append(up, a), b)
      BY <1>0, <2>2, <2>3, <2>7, KeysSent
    <3> HIDE DEF a, b
    <3> DEFINE q == Append(up, a)
    <3>2. Honest(q) /\ q \in Seq(Requests) /\ \A s \in Sessions : BackInTheEnd(q, s) <=> BackStep(a, BackInTheEnd(up, s), s)
      BY <1>0, <2>5, AppendHonest DEF KeysInv
    <3>3. up' = Append(q, b)
      BY <3>1
    <3> HIDE DEF q
    <3>4. ~BackInTheEnd(q, active)
      BY <2>3, <2>5, <3>2 DEF BackStep
    <3>5. Honest(up') /\ \A s \in Sessions : BackInTheEnd(up', s) <=> BackStep(b, BackInTheEnd(q, s), s)
      BY <1>0, <2>5, <3>2, <3>3, <3>4, AppendHonest
    <3>6. \A s \in Sessions : BackInTheEnd(up', s) => s # active /\ BackInTheEnd(up, s)
      BY <2>5, <3>2, <3>4, <3>5 DEF BackStep
    <3>7. View!KeysAtBottom' /\ Honest(up)' /\ \A s \in Sessions : BackInTheEnd(up, s)' <=> BackInTheEnd(up', s)
      BY <2>1, <3>5 DEF KeysInv, View!KeysAtBottom, Honest, BackInTheEnd
    <3> QED
      BY <2>1, <2>3, <2>6, <3>6, <3>7 DEF KeysInv
  <2>8. CASE ~View!Widget.scrolled
    <3>1. up' = Append(up, b)
      BY <1>0, <2>2, <2>3, <2>8, KeysSent
    <3> HIDE DEF a, b
    <3>2. BackInTheEnd(up, active) => active \in astray
      BY <2>3, <2>4, <2>8 DEF KeysInv
    <3>3. View!KeysAtBottom' /\ Honest(up)' /\ \A s \in Sessions : BackInTheEnd(up, s)' <=> BackStep(b, BackInTheEnd(up, s), s)
      BY <1>b, <2>1, <2>5, <3>1, <3>2
    <3>4. \A s \in Sessions : BackInTheEnd(up, s)' => s \in astray'
      BY <2>1, <2>5, <2>6, <3>2, <3>3 DEF BackStep
    <3> QED
      BY <2>3, <3>3, <3>4 DEF KeysInv
  <2> QED
    BY <2>7, <2>8
<1>10. CASE View!Commit
  <2>1. active # View!None /\ up' = Append(up, View!Text("commit")) /\ widget' = View!Widget /\ UNCHANGED <<active, terms, typed, astray>>
    BY <1>10 DEF View!Commit, View!pushVars
  <2>2. active \in Sessions /\ widget'.key = active /\ (widget'.scrolled <=> widget.key = active /\ widget.scrolled)
    BY <1>0, <2>1, WidgetType DEF View!Widget, ViewTypes
  <2>3. View!Text("commit") \in Requests /\ View!Text("commit").what = "commit"
    BY <2>2 DEF View!Text, Requests
  <2>4. \A s \in Sessions : BackInTheEnd(up, s)' <=> BackInTheEnd(up, s)
    BY <1>b, <2>1, <2>3 DEF BackStep
  <2>5. \A s \in Sessions : BackInTheEnd(up, s) => s \in astray' \/ (widget'.key = s /\ widget'.scrolled)
    BY <2>1, <2>2 DEF KeysInv
  <2> QED
    BY <1>b, <2>1, <2>2, <2>3, <2>4, <2>5 DEF KeysInv
<1>11. CASE View!Serve
  <2> DEFINE r == Head(up)
             t == terms[r.to]
  <2>1. up # <<>> /\ up' = Tail(up) /\ UNCHANGED <<View!guiVars, grids, pushed, down, left>>
    BY <1>11 DEF View!Serve
  <2>2. Len(up) \in Nat /\ Len(up) >= 1 /\ r = up[1] /\ r \in Requests /\ (r.what = "resize" => r.size \in Sizes)
        /\ Len(up') = Len(up) - 1 /\ \A i \in 1..Len(up') : up'[i] = up[i + 1] /\ i + 1 \in 1..Len(up) /\ up[i + 1] \in Requests
    BY <1>0, <2>1, TailOf DEF ViewTypes
  <2>3. r.to \in Sessions /\ t \in Terms /\ \A s \in Sessions : terms[s].back \in BOOLEAN
    BY <1>0, <2>2 DEF Requests, Terms
  <2>4. \A s \in Sessions : terms'[s].back = BackStep(up[1], terms[s].back, s)
    <3>1. CASE r.what = "resize" /\ terms' = [terms EXCEPT ![r.to] = IF t.size = r.size THEN t ELSE View!Sized(t, r.size)]
      <4>1. (IF t.size = r.size THEN t ELSE View!Sized(t, r.size)).back = t.back
        BY <2>2, <2>3, <3>1, TermResized
      <4> QED
        BY <1>0, <2>2, <2>3, <3>1, <4>1 DEF BackStep
    <3>2. CASE r.what \in {"back", "bottom"} /\ terms' = [terms EXCEPT ![r.to] = IF t.back = (r.what = "back") THEN t
                                               ELSE View!Full([t EXCEPT !.back = (r.what = "back")])]
      <4>1. (IF t.back = (r.what = "back") THEN t ELSE View!Full([t EXCEPT !.back = (r.what = "back")])).back = (r.what = "back")
        BY <2>3, TermScrolled
      <4> QED
        BY <1>0, <2>2, <2>3, <3>2, <4>1 DEF BackStep
    <3>3. CASE r.what \in {"keys", "commit"} /\ UNCHANGED terms
      BY <2>2, <2>3, <3>3 DEF BackStep
    <3> QED
      BY <1>11, <3>1, <3>2, <3>3 DEF View!Serve
  <2>5. View!KeysAtBottom'
    <3>1. CASE typed' = typed
      BY <3>1 DEF KeysInv, View!KeysAtBottom
    <3>2. CASE r.what \in {"keys", "commit"} /\ typed' = typed \cup {[what |-> r.what, stray |-> r.stray, back |-> t.back]}
      <4>1. r.what = "keys" /\ ~r.stray => ~BackAfter(up, t.back, r.to, 1)
        BY <2>2 DEF KeysInv, Honest
      <4>3. BackAfter(up, t.back, r.to, 1) <=> t.back
        <5>1. r.what # "back" /\ r.what # "bottom" /\ up[1] = r
          BY <2>2, <3>2
        <5>2. BackAfter(up, t.back, r.to, 1) <=> BackStep(up[1], t.back, r.to)
          BY <2>3, BackFirst
        <5> HIDE DEF r, t
        <5> QED
          BY <5>1, <5>2 DEF BackStep
      <4> QED
        BY <3>2, <4>1, <4>3 DEF KeysInv, View!KeysAtBottom
    <3> QED
      BY <1>11, <3>1, <3>2 DEF View!Serve
  <2> HIDE DEF r, t
  <2>6. \A s \in Sessions : \A i \in 0..Len(up') : BackAfter(up', terms'[s].back, s, i) <=> BackAfter(up, terms[s].back, s, i + 1)
    BY <1>0, <2>1, <2>3, <2>4, BackServed
  <2>7. Honest(up)'
    <3> SUFFICES ASSUME NEW i \in 1..Len(up'), up'[i].what = "keys", ~up'[i].stray
                 PROVE  ~BackAfter(up', terms'[up'[i].to].back, up'[i].to, i)
      BY DEF Honest
    <3>1. up'[i] = up[i + 1] /\ i + 1 \in 1..Len(up) /\ up[i + 1].to \in Sessions /\ i \in 0..Len(up')
      BY <2>2 DEF Requests
    <3> QED
      BY <2>6, <3>1 DEF KeysInv, Honest
  <2>8. \A s \in Sessions : BackInTheEnd(up, s)' <=> BackInTheEnd(up, s)
    <3>1. Len(up') \in 0..Len(up') /\ Len(up') + 1 = Len(up)
      BY <2>2
    <3> QED
      BY <2>6, <3>1 DEF BackInTheEnd
  <2> QED
    BY <2>1, <2>5, <2>7, <2>8 DEF KeysInv, View!guiVars
<1>12. CASE View!Receive
  BY <1>a, <1>12 DEF View!Receive, View!guiVars, KeysInv
<1>13. CASE UNCHANGED View!viewVars
  BY <1>a, <1>13 DEF View!viewVars, KeysInv
<1> QED
  BY <1>1, <1>2, <1>3, <1>4, <1>5, <1>6, <1>7, <1>8, <1>9, <1>10, <1>11, <1>12, <1>13 DEF View!Next

-----------------------------------------------------------------------------
(* The whole screen arrives.                                               *)

Resize(q, s, i) == q[i].to = s /\ q[i].what = "resize"
PendingIn(q, s) == \E i \in 1..Len(q) : Resize(q, s, i)

\* The sizes that terminal s is asked for lead from the one it has (size) to the one of its
\* grid (goal), and no two in a row are the same.
Leads(q, s, size, goal) ==
  /\ ~PendingIn(q, s) => size = goal
  /\ \A i \in 1..Len(q) : Resize(q, s, i) =>
       /\ (\A j \in 1..(i - 1) : ~Resize(q, s, j)) => q[i].size # size
       /\ (\A j \in (i + 1)..Len(q) : ~Resize(q, s, j)) => q[i].size = goal
       /\ \A k \in (i + 1)..Len(q) :
            Resize(q, s, k) /\ (\A j \in (i + 1)..(k - 1) : ~Resize(q, s, j)) => q[k].size # q[i].size

SizeInv(s) == View!Open(s) => Leads(up, s, terms[s].size, grids[s].size)

\* A frame that leaves the screen of a grid of this size in place.
Sound(f, size) == f.size = size /\ ~f.back

\* The grid of s holds nothing but what belongs to its screen, or (whole) all of it.
Held(s, whole) ==
  /\ grids[s].pic.clean /\ ~grids[s].pic.back
  /\ grids[s].pic.size = grids[s].size \/ (~whole /\ grids[s].pic.size = View!None)
  /\ whole => grids[s].pic.whole

\* It does so now, or will when a whole frame arrives that is under way; and it stays so.
Carry(s, whole) ==
  \/ Held(s, whole) /\ \A i \in 1..Len(down) : down[i].from = s => Sound(down[i], grids[s].size)
  \/ \E j \in 1..Len(down) :
       /\ down[j].from = s /\ down[j].full
       /\ \A i \in j..Len(down) : down[i].from = s => Sound(down[i], grids[s].size)

Carries(s) == \A whole \in BOOLEAN : (whole => ~terms[s].returned) => Carry(s, whole)

Arrived(s) == \A i \in 1..Len(down) : down[i].from # s

\* The last frame of s that is under way, or the last that arrived, is the last that was sent.
LastSent(s) ==
  /\ \A i \in 1..Len(down) :
       down[i].from = s /\ (\A k \in (i + 1)..Len(down) : down[k].from # s) =>
         /\ down[i].text = pushed[s].text /\ down[i].back = pushed[s].back
         /\ pushed[s].full => down[i].full /\ down[i].size = pushed[s].size
  /\ Arrived(s) /\ ~grids[s].first =>
       /\ grids[s].pic.text = pushed[s].text /\ grids[s].pic.back = pushed[s].back
       /\ pushed[s].full /\ pushed[s].size = grids[s].size /\ ~pushed[s].back => Held(s, TRUE)

ScreenInv(s) ==
  /\ grids[s].first => grids[s].pic = View!Blank
  /\ ~grids[s].first => grids[s].pic.size # View!None
  /\ terms[s].damage = "none" => pushed[s].text = terms[s].text /\ pushed[s].back = terms[s].back
  /\ pushed[s].full => pushed[s].size = terms[s].was
  /\ LastSent(s)
  /\ View!Open(s) /\ ~PendingIn(up, s) =>
       /\ terms[s].damage # "full" /\ ~terms[s].back => Carries(s)
       /\ pushed[s].full /\ pushed[s].size = grids[s].size /\ grids[s].first /\ Arrived(s) => terms[s].returned

ScreensInv == \A s \in Sessions : SizeInv(s) /\ ScreenInv(s)

LEMMA BlankIs ==
  /\ View!Blank.size = View!None /\ View!Blank.text = 0 /\ ~View!Blank.back /\ View!Blank.clean /\ ~View!Blank.whole
  BY DEF View!Blank

\* What the invariants say when nothing is under way.
LEMMA ScreensArrive ==
  ASSUME ViewTypes, ScreensInv
  PROVE  View!ScreenSettles
<1> DEFINE Screen(s, whole) == [size |-> terms[s].size, text |-> terms[s].text, back |-> FALSE,
                                clean |-> TRUE, whole |-> whole]
<1> SUFFICES ASSUME View!Quiet, NEW s \in Sessions, View!Open(s), ~terms[s].back
             PROVE  /\ grids[s].size = terms[s].size
                    /\ grids[s].pic \in {View!Blank, Screen(s, FALSE), Screen(s, TRUE)}
                    /\ ~terms[s].returned => grids[s].pic.whole
  BY DEF View!ScreenSettles
<1>1. Len(up) = 0 /\ Len(down) = 0 /\ terms[s].damage = "none"
  BY DEF View!Quiet
<1>2. ~PendingIn(up, s) /\ Arrived(s)
  BY <1>1 DEF PendingIn, Arrived
<1>3. SizeInv(s) /\ ScreenInv(s)
  BY DEF ScreensInv
<1>4. grids[s].size = terms[s].size
  BY <1>2, <1>3 DEF SizeInv, Leads
<1>5. Held(s, ~terms[s].returned)
  <2>1. Carry(s, ~terms[s].returned)
    BY <1>1, <1>2, <1>3 DEF ScreenInv, Carries
  <2> QED
    BY <1>1, <2>1 DEF Carry
<1>6. grids[s].pic \in Pics /\ grids[s].first \in BOOLEAN
  BY DEF ViewTypes, Grids
<1>7. ~terms[s].returned => grids[s].pic.whole
  BY <1>5 DEF Held
<1>8. CASE grids[s].first
  BY <1>3, <1>4, <1>7, <1>8 DEF ScreenInv
<1>9. CASE ~grids[s].first
  <2>1. grids[s].pic.size = terms[s].size /\ grids[s].pic.clean /\ ~grids[s].pic.back
    BY <1>3, <1>4, <1>5, <1>9 DEF ScreenInv, Held
  <2>2. grids[s].pic.text = terms[s].text
    BY <1>1, <1>2, <1>3, <1>9 DEF ScreenInv, LastSent
  <2>3. grids[s].pic \in {Screen(s, FALSE), Screen(s, TRUE)}
    BY <1>6, <2>1, <2>2 DEF Pics
  <2> QED
    BY <1>4, <1>7, <2>3
<1> QED
  BY <1>8, <1>9

\* A request more: another one, or to another terminal.
LEMMA LeadsOn ==
  ASSUME NEW q \in Seq(Requests), NEW r \in Requests, NEW s, NEW size, NEW goal, ~(r.to = s /\ r.what = "resize")
  PROVE  /\ Leads(q, s, size, goal) => Leads(Append(q, r), s, size, goal)
         /\ PendingIn(Append(q, r), s) <=> PendingIn(q, s)
<1> DEFINE p == Append(q, r)
           n == Len(q)
<1>1. n \in Nat /\ Len(p) = n + 1 /\ p[n + 1] = r /\ \A i \in 1..n : p[i] = q[i]
  OBVIOUS
<1> HIDE DEF p, n
<1>2. (\A i \in 1..n : Resize(p, s, i) <=> Resize(q, s, i)) /\ ~Resize(p, s, n + 1)
  BY <1>1 DEF Resize
<1>3. \A i \in 1..(n + 1) : i \in 1..n \/ i = n + 1
  BY <1>1
<1>4. PendingIn(p, s) <=> PendingIn(q, s)
  BY <1>1, <1>2, <1>3 DEF PendingIn, n
<1>5. ASSUME Leads(q, s, size, goal), NEW i \in 1..Len(p), Resize(p, s, i)
      PROVE  /\ (\A j \in 1..(i - 1) : ~Resize(p, s, j)) => p[i].size # size
             /\ (\A j \in (i + 1)..Len(p) : ~Resize(p, s, j)) => p[i].size = goal
             /\ \A k \in (i + 1)..Len(p) :
                  Resize(p, s, k) /\ (\A j \in (i + 1)..(k - 1) : ~Resize(p, s, j)) => p[k].size # p[i].size
  <2>1. i \in 1..n /\ Resize(q, s, i) /\ p[i] = q[i]
    BY <1>1, <1>2, <1>3, <1>5
  <2>2. \A j \in 1..(i - 1) : j \in 1..n
    BY <1>1, <2>1
  <2>3. \A j \in (i + 1)..n : j \in 1..n /\ j \in (i + 1)..Len(p)
    BY <1>1, <2>1
  <2>4. \A k \in (i + 1)..Len(p) : Resize(p, s, k) => k \in (i + 1)..n /\ k \in 1..n
    BY <1>1, <1>2, <2>1
  <2>5. \A k \in (i + 1)..n : \A j \in (i + 1)..(k - 1) : j \in 1..n
    BY <1>1, <2>1
  <2>6. (\A j \in 1..(i - 1) : ~Resize(p, s, j)) => p[i].size # size
    BY <1>2, <1>5, <2>1, <2>2 DEF Leads, n
  <2>7. (\A j \in (i + 1)..Len(p) : ~Resize(p, s, j)) => p[i].size = goal
    BY <1>2, <1>5, <2>1, <2>3 DEF Leads, n
  <2>8. ASSUME NEW k \in (i + 1)..Len(p), Resize(p, s, k), \A j \in (i + 1)..(k - 1) : ~Resize(p, s, j)
        PROVE  p[k].size # p[i].size
    <3>1. k \in (i + 1)..n /\ k \in 1..n /\ Resize(q, s, k) /\ p[k] = q[k]
      BY <1>1, <1>2, <2>4, <2>8
    <3>2. \A j \in (i + 1)..(k - 1) : ~Resize(q, s, j)
      BY <1>2, <2>5, <2>8, <3>1
    <3> QED
      BY <1>5, <2>1, <3>1, <3>2 DEF Leads, n
  <2> QED
    BY <2>6, <2>7, <2>8
<1>6. Leads(q, s, size, goal) => Leads(p, s, size, goal)
  BY <1>4, <1>5 DEF Leads
<1> QED
  BY <1>4, <1>6 DEF p

\* Another size, asked for by a grid made again.
LEMMA LeadsFurther ==
  ASSUME NEW q \in Seq(Requests), NEW r \in Requests, NEW s, NEW size, NEW goal, r.to = s, r.what = "resize",
         r.size # goal, Leads(q, s, size, goal)
  PROVE  Leads(Append(q, r), s, size, r.size) /\ PendingIn(Append(q, r), s)
<1> DEFINE p == Append(q, r)
           n == Len(q)
<1>1. n \in Nat /\ Len(p) = n + 1 /\ p[n + 1] = r /\ \A i \in 1..n : p[i] = q[i]
  OBVIOUS
<1> HIDE DEF p, n
<1>2. (\A i \in 1..n : Resize(p, s, i) <=> Resize(q, s, i)) /\ Resize(p, s, n + 1)
  BY <1>1 DEF Resize
<1>3. (\A i \in 1..(n + 1) : i \in 1..n \/ i = n + 1) /\ n + 1 \in 1..Len(p)
  BY <1>1
<1>4. PendingIn(p, s)
  BY <1>1, <1>2, <1>3 DEF PendingIn
\* Where nothing was asked for before, the size is the grid's.
<1>5. (\A j \in 1..n : ~Resize(q, s, j)) => size = goal
  BY DEF Leads, PendingIn, n
<1>6. ASSUME NEW i \in 1..Len(p), Resize(p, s, i)
      PROVE  /\ (\A j \in 1..(i - 1) : ~Resize(p, s, j)) => p[i].size # size
             /\ (\A j \in (i + 1)..Len(p) : ~Resize(p, s, j)) => p[i].size = r.size
             /\ \A k \in (i + 1)..Len(p) :
                  Resize(p, s, k) /\ (\A j \in (i + 1)..(k - 1) : ~Resize(p, s, j)) => p[k].size # p[i].size
  <2>1. CASE i = n + 1
    <3>1. (\A j \in 1..(i - 1) : ~Resize(p, s, j)) => p[i].size # size
      BY <1>1, <1>2, <1>5, <2>1
    <3>2. \A k \in (i + 1)..Len(p) : FALSE
      BY <1>1, <2>1
    <3> QED
      BY <1>1, <2>1, <3>1, <3>2
  <2>2. CASE i # n + 1
    <3>1. i \in 1..n /\ Resize(q, s, i) /\ p[i] = q[i]
      BY <1>1, <1>2, <1>3, <1>6, <2>2
    <3>2. \A j \in 1..(i - 1) : j \in 1..n
      BY <1>1, <3>1
    <3>3. n + 1 \in (i + 1)..Len(p)
      BY <1>1, <3>1
    <3>4. (\A j \in 1..(i - 1) : ~Resize(p, s, j)) => p[i].size # size
      BY <1>2, <3>1, <3>2 DEF Leads, n
    <3>5. (\A j \in (i + 1)..Len(p) : ~Resize(p, s, j)) => p[i].size = r.size
      BY <1>2, <3>3
    <3>6. ASSUME NEW k \in (i + 1)..Len(p), Resize(p, s, k), \A j \in (i + 1)..(k - 1) : ~Resize(p, s, j)
          PROVE  p[k].size # p[i].size
      <4>1. \A j \in (i + 1)..(k - 1) : j \in 1..n
        BY <1>1, <3>1
      <4>2. \A j \in (i + 1)..(k - 1) : ~Resize(q, s, j)
        BY <1>2, <3>6, <4>1
      <4>3. CASE k = n + 1
        <5>1. \A j \in (i + 1)..n : ~Resize(q, s, j)
          BY <1>1, <4>2, <4>3
        <5>2. q[i].size = goal
          BY <3>1, <5>1 DEF Leads, n
        <5> QED
          BY <1>1, <3>1, <4>3, <5>2
      <4>4. CASE k # n + 1
        <5>1. k \in (i + 1)..n /\ k \in 1..n
          BY <1>1, <3>1, <4>4
        <5>2. Resize(q, s, k) /\ p[k] = q[k]
          BY <1>1, <1>2, <3>6, <5>1
        <5> QED
          BY <3>1, <4>2, <5>1, <5>2 DEF Leads, n
      <4> QED
        BY <4>3, <4>4
    <3> QED
      BY <3>4, <3>5, <3>6
  <2> QED
    BY <2>1, <2>2
<1>7. Leads(p, s, size, r.size)
  BY <1>4, <1>6 DEF Leads
<1> QED
  BY <1>4, <1>7 DEF p

\* The first request is served: another one, or to another terminal.
LEMMA LeadsServed ==
  ASSUME NEW q \in Seq(Requests), q # <<>>, NEW s, NEW size, NEW goal
  PROVE  /\ ~Resize(q, s, 1) => (PendingIn(Tail(q), s) <=> PendingIn(q, s))
         /\ ~Resize(q, s, 1) /\ Leads(q, s, size, goal) => Leads(Tail(q), s, size, goal)
         /\ Resize(q, s, 1) /\ Leads(q, s, size, goal) => q[1].size # size /\ Leads(Tail(q), s, q[1].size, goal)
<1> DEFINE p == Tail(q)
           n == Len(q)
<1>1. n \in Nat /\ n >= 1 /\ Len(p) = n - 1 /\ \A i \in 1..Len(p) : p[i] = q[i + 1] /\ i + 1 \in 1..n
  BY TailOf
<1> HIDE DEF p
<1>2. \A i \in 1..Len(p) : Resize(p, s, i) <=> Resize(q, s, i + 1)
  BY <1>1 DEF Resize
<1>3. \A k \in 1..n : k = 1 \/ (k - 1 \in 1..Len(p) /\ (k - 1) + 1 = k)
  BY <1>1
<1>4. 1 \in 1..n
  BY <1>1
<1>5. \A k \in 1..n : k # 1 => (Resize(p, s, k - 1) <=> Resize(q, s, k)) /\ p[k - 1] = q[k]
  <2> SUFFICES ASSUME NEW k \in 1..n, k # 1 PROVE (Resize(p, s, k - 1) <=> Resize(q, s, k)) /\ p[k - 1] = q[k]
    OBVIOUS
  <2>1. k - 1 \in 1..Len(p) /\ (k - 1) + 1 = k
    BY <1>3
  <2>2. (Resize(p, s, k - 1) <=> Resize(q, s, (k - 1) + 1)) /\ p[k - 1] = q[(k - 1) + 1]
    BY <1>1, <1>2, <2>1
  <2> QED
    BY <2>1, <2>2
<1>6. ASSUME ~Resize(q, s, 1) PROVE PendingIn(p, s) <=> PendingIn(q, s)
  BY <1>1, <1>2, <1>3, <1>5, <1>6 DEF PendingIn, n
\* What is left comes after the first request.
<1>7. ASSUME Leads(q, s, size, goal), NEW i \in 1..Len(p), Resize(p, s, i)
      PROVE  /\ (\A j \in 1..(i - 1) : ~Resize(p, s, j)) =>
                  p[i].size # IF Resize(q, s, 1) THEN q[1].size ELSE size
             /\ (\A j \in (i + 1)..Len(p) : ~Resize(p, s, j)) => p[i].size = goal
             /\ \A k \in (i + 1)..Len(p) :
                  Resize(p, s, k) /\ (\A j \in (i + 1)..(k - 1) : ~Resize(p, s, j)) => p[k].size # p[i].size
  <2>1. i + 1 \in 1..n /\ Resize(q, s, i + 1) /\ p[i] = q[i + 1] /\ i \in Nat /\ i >= 1 /\ i + 1 # 1
    BY <1>1, <1>2, <1>7
  <2>2. ASSUME NEW a \in Nat, NEW b \in Nat, a >= 1, b <= n, \A j \in a..(b - 1) : ~Resize(p, s, j)
        PROVE  \A j \in (a + 1)..b : ~Resize(q, s, j)
    <3> SUFFICES ASSUME NEW j \in (a + 1)..b PROVE ~Resize(q, s, j)
      OBVIOUS
    <3>1. j \in 1..n /\ j # 1 /\ j - 1 \in a..(b - 1)
      BY <1>1, <2>2
    <3> QED
      BY <1>5, <2>2, <3>1
  <2>3. ASSUME \A j \in 1..(i - 1) : ~Resize(p, s, j)
        PROVE  p[i].size # IF Resize(q, s, 1) THEN q[1].size ELSE size
    <3>1. \A j \in 2..i : ~Resize(q, s, j)
      <4>1. \A j \in 2..i : j \in 1..n /\ j # 1 /\ j - 1 \in 1..(i - 1)
        BY <1>1, <2>1
      <4> QED
        BY <1>5, <2>3, <4>1
    <3>2. CASE Resize(q, s, 1)
      <4>1. i + 1 \in (1 + 1)..n /\ \A j \in (1 + 1)..((i + 1) - 1) : ~Resize(q, s, j)
        BY <1>1, <2>1, <3>1
      <4>2. q[i + 1].size # q[1].size
        BY <1>4, <1>7, <2>1, <3>2, <4>1 DEF Leads, n
      <4> QED
        BY <2>1, <3>2, <4>2
    <3>3. CASE ~Resize(q, s, 1)
      <4>1. \A j \in 1..((i + 1) - 1) : j = 1 \/ j \in 2..i
        BY <2>1
      <4>2. \A j \in 1..((i + 1) - 1) : ~Resize(q, s, j)
        BY <3>1, <3>3, <4>1
      <4>3. q[i + 1].size # size
        BY <1>7, <2>1, <4>2 DEF Leads, n
      <4> QED
        BY <2>1, <3>3, <4>3
    <3> QED
      BY <3>2, <3>3
  <2>4. ASSUME \A j \in (i + 1)..Len(p) : ~Resize(p, s, j) PROVE p[i].size = goal
    <3>1. n - 1 = Len(p) /\ i + 1 \in Nat /\ i + 1 >= 1 /\ n <= n
      BY <1>1, <2>1
    <3>3. \A j \in (i + 1)..(n - 1) : ~Resize(p, s, j)
      BY <2>4, <3>1
    <3>2. \A j \in ((i + 1) + 1)..n : ~Resize(q, s, j)
      BY <1>1, <2>2, <3>1, <3>3
    <3> QED
      BY <1>7, <2>1, <3>2 DEF Leads, n
  <2>5. ASSUME NEW k \in (i + 1)..Len(p), Resize(p, s, k), \A j \in (i + 1)..(k - 1) : ~Resize(p, s, j)
        PROVE  p[k].size # p[i].size
    <3>1. k \in 1..Len(p) /\ k \in Nat /\ k <= n /\ i + 1 \in Nat /\ k + 1 \in ((i + 1) + 1)..n
          /\ (k + 1) - 1 = k /\ i + 1 >= 1
      BY <1>1, <2>1
    <3>2. Resize(q, s, k + 1) /\ p[k] = q[k + 1]
      BY <1>1, <1>2, <2>5, <3>1
    <3>3. \A j \in ((i + 1) + 1)..k : ~Resize(q, s, j)
      BY <2>2, <2>5, <3>1
    <3>4. \A j \in ((i + 1) + 1)..((k + 1) - 1) : ~Resize(q, s, j)
      BY <3>1, <3>3
    <3> QED
      BY <1>7, <2>1, <3>1, <3>2, <3>4 DEF Leads, n
  <2> QED
    BY <2>3, <2>4, <2>5
<1>8. ASSUME ~Resize(q, s, 1), Leads(q, s, size, goal) PROVE Leads(p, s, size, goal)
  BY <1>6, <1>7, <1>8 DEF Leads
<1>9. ASSUME Resize(q, s, 1), Leads(q, s, size, goal) PROVE q[1].size # size /\ Leads(p, s, q[1].size, goal)
  <2>1. q[1].size # size
    <3>1. \A j \in 1..(1 - 1) : FALSE
      OBVIOUS
    <3> QED
      BY <1>4, <1>9, <3>1 DEF Leads, n
  <2>2. ~PendingIn(p, s) => q[1].size = goal
    <3>1. \A k \in (1 + 1)..n : k \in 1..n /\ k # 1 /\ k - 1 \in 1..Len(p)
      BY <1>1
    <3>2. ~PendingIn(p, s) => \A k \in (1 + 1)..n : ~Resize(q, s, k)
      BY <1>5, <3>1 DEF PendingIn
    <3> QED
      BY <1>4, <1>9, <3>2 DEF Leads, n
  <2> QED
    BY <1>7, <1>9, <2>1, <2>2 DEF Leads
<1> QED
  BY <1>6, <1>8, <1>9 DEF p

\* A frame more, of s or of another.
LEMMA CarryMore ==
  ASSUME ViewTypes, NEW s \in Sessions, NEW whole \in BOOLEAN, NEW f \in ViewFrames, down' = Append(down, f),
         grids'[s] = grids[s], f.from = s => Sound(f, grids[s].size)
  PROVE  /\ Carry(s, whole) => Carry(s, whole)'
         /\ f.from = s /\ f.full => Carry(s, whole)'
<1>1. Len(down) \in Nat /\ Len(down') = Len(down) + 1 /\ down'[Len(down) + 1] = f
      /\ \A i \in 1..Len(down) : down'[i] = down[i]
  BY DEF ViewTypes
<1>2. Held(s, whole)' <=> Held(s, whole)
  BY DEF Held
<1>3. \A i \in 1..Len(down') : i \in 1..Len(down) \/ i = Len(down) + 1
  BY <1>1
<1>4. ASSUME Held(s, whole), \A i \in 1..Len(down) : down[i].from = s => Sound(down[i], grids[s].size)
      PROVE  Carry(s, whole)'
  <2>1. \A i \in 1..Len(down') : down'[i].from = s => Sound(down'[i], grids'[s].size)
    BY <1>1, <1>3, <1>4
  <2> QED
    BY <1>2, <1>4, <2>1 DEF Carry
<1>5. ASSUME NEW j \in 1..Len(down), down[j].from = s, down[j].full,
             \A i \in j..Len(down) : down[i].from = s => Sound(down[i], grids[s].size)
      PROVE  Carry(s, whole)'
  <2>1. \A i \in j..Len(down') : i \in j..Len(down) \/ i = Len(down) + 1
    BY <1>1
  <2>2. \A i \in j..Len(down) : down'[i] = down[i]
    BY <1>1
  <2>3. \A i \in j..Len(down') : down'[i].from = s => Sound(down'[i], grids'[s].size)
    BY <1>1, <1>5, <2>1, <2>2
  <2>4. j \in 1..Len(down') /\ down'[j] = down[j]
    BY <1>1
  <2> QED
    BY <1>5, <2>3, <2>4 DEF Carry
<1>6. ASSUME f.from = s, f.full PROVE Carry(s, whole)'
  <2>1. Len(down) + 1 \in 1..Len(down') /\ \A i \in (Len(down) + 1)..Len(down') : i = Len(down) + 1
    BY <1>1
  <2> QED
    BY <1>1, <1>6, <2>1 DEF Carry
<1> QED
  BY <1>4, <1>5, <1>6 DEF Carry

LEMMA LastMore ==
  ASSUME ViewTypes, NEW s \in Sessions, NEW f \in ViewFrames, down' = Append(down, f), LastSent(s),
         grids'[s] = grids[s],
         f.from = s => /\ pushed'[s].text = f.text /\ pushed'[s].back = f.back
                       /\ pushed'[s].full => f.full /\ f.size = pushed'[s].size,
         f.from # s => pushed'[s] = pushed[s]
  PROVE  LastSent(s)'
<1>1. Len(down) \in Nat /\ Len(down') = Len(down) + 1 /\ down'[Len(down) + 1] = f
      /\ \A i \in 1..Len(down) : down'[i] = down[i]
  BY DEF ViewTypes
<1>2. \A i \in 1..Len(down') : i \in 1..Len(down) \/ i = Len(down) + 1
  BY <1>1
<1>3. CASE f.from = s
  <2>1. \A i \in 1..Len(down) : Len(down) + 1 \in (i + 1)..Len(down')
    BY <1>1
  <2>2. Len(down) + 1 \in 1..Len(down')
    BY <1>1
  <2>3. ~Arrived(s)'
    BY <1>1, <1>3, <2>2 DEF Arrived
  <2>4. ASSUME NEW i \in 1..Len(down'), \A k \in (i + 1)..Len(down') : down'[k].from # s PROVE down'[i] = f
    BY <1>1, <1>2, <1>3, <2>1, <2>4
  <2> QED
    BY <1>3, <2>3, <2>4 DEF LastSent
<1>4. CASE f.from # s
  <2>1. \A i \in 1..Len(down) : \A k \in (i + 1)..Len(down) : k \in (i + 1)..Len(down') /\ down'[k] = down[k]
    BY <1>1
  <2>2. \A i \in 1..Len(down) : i \in 1..Len(down')
    BY <1>1
  <2>3. Arrived(s)' => Arrived(s)
    BY <1>1, <2>2 DEF Arrived
  <2>4. Held(s, TRUE)' <=> Held(s, TRUE)
    BY DEF Held
  <2>5. \A i \in 1..Len(down') :
          down'[i].from = s /\ (\A k \in (i + 1)..Len(down') : down'[k].from # s) =>
            /\ down'[i].text = pushed'[s].text /\ down'[i].back = pushed'[s].back
            /\ pushed'[s].full => down'[i].full /\ down'[i].size = pushed'[s].size
    BY <1>1, <1>2, <1>4, <2>1 DEF LastSent
  <2> QED
    BY <1>4, <2>3, <2>4, <2>5 DEF LastSent
<1> QED
  BY <1>3, <1>4

\* The first frame arrives.
LEMMA CarryReceived ==
  ASSUME View!ViewConstants, ViewTypes, NEW s \in Sessions, NEW whole \in BOOLEAN, down # <<>>, down' = Tail(down),
         grids' = [grids EXCEPT ![Head(down).from] = View!Applied(grids[Head(down).from], Head(down))],
         grids[s].first => grids[s].pic = View!Blank, ~grids[s].first => grids[s].pic.size # View!None,
         Carry(s, whole)
  PROVE  Carry(s, whole)'
<1> DEFINE h == Head(down)
<1>1. Len(down) \in Nat /\ Len(down) >= 1 /\ h = down[1] /\ h \in ViewFrames /\ Len(down') = Len(down) - 1
      /\ \A i \in 1..Len(down') : down'[i] = down[i + 1] /\ i + 1 \in 1..Len(down)
  BY TailOf DEF ViewTypes
<1>2. h.from \in Sessions /\ grids \in [Sessions -> Grids]
  BY <1>1 DEF ViewFrames, ViewTypes
<1>3. h.from # s => grids'[s] = grids[s]
  BY <1>2
<1>4. h.from = s => grids'[s] = View!Applied(grids[s], h)
  BY <1>2
<1> HIDE DEF h
<1>5. grids'[s].size = grids[s].size
  BY <1>1, <1>2, <1>3, <1>4, AppliedType
\* A sound frame keeps what is there, and a whole frame makes it.
<1>6. ASSUME Held(s, whole) \/ (h.from = s /\ h.full), h.from = s => Sound(h, grids[s].size) PROVE Held(s, whole)'
  <2>1. CASE h.from # s
    BY <1>3, <1>6, <2>1 DEF Held
  <2>2. CASE h.from = s
    <3> DEFINE a == View!Applied(grids[s], h)
    <3>1. /\ a.pic.size = h.size /\ a.pic.back = h.back /\ a.size = grids[s].size
          /\ a.pic.clean = (h.size = grids[s].size /\ (h.full \/ (Keeps(grids[s], h) /\ (grids[s].first \/ grids[s].pic.clean))))
          /\ a.pic.whole = (h.size = grids[s].size /\ (h.full \/ (Keeps(grids[s], h) /\ ~grids[s].first /\ grids[s].pic.whole)))
      BY <1>1, <1>2, AppliedType
    <3>2. grids'[s] = a
      BY <1>4, <2>2
    <3> HIDE DEF a
    <3>3. h.size = grids[s].size /\ ~h.back
      BY <1>6, <2>2 DEF Sound
    <3>4. CASE h.full
      BY <3>1, <3>2, <3>3, <3>4 DEF Held
    <3>5. CASE ~h.full
      <4>1. Held(s, whole)
        BY <1>6, <3>5
      <4>2. Keeps(grids[s], h)
        BY <3>3, <4>1 DEF Held, Keeps
      <4>3. a.pic.clean
        BY <3>1, <3>3, <4>1, <4>2 DEF Held
      <4>4. whole => a.pic.whole
        BY <3>1, <3>3, <4>1, <4>2, BlankIs DEF Held
      <4> QED
        BY <3>1, <3>2, <3>3, <4>3, <4>4 DEF Held
    <3> QED
      BY <3>4, <3>5
  <2> QED
    BY <2>1, <2>2
<1>7. ASSUME NEW j \in 1..Len(down), \A i \in j..Len(down) : down[i].from = s => Sound(down[i], grids[s].size)
      PROVE  \A i \in 1..Len(down') : i >= j - 1 /\ down'[i].from = s => Sound(down'[i], grids'[s].size)
  <2> SUFFICES ASSUME NEW i \in 1..Len(down'), i >= j - 1, down'[i].from = s PROVE Sound(down'[i], grids'[s].size)
    OBVIOUS
  <2>1. down'[i] = down[i + 1] /\ i + 1 \in j..Len(down)
    BY <1>1
  <2> QED
    BY <1>5, <1>7, <2>1
<1>8. 1 \in 1..Len(down)
  BY <1>1
<1>9. CASE Held(s, whole) /\ \A i \in 1..Len(down) : down[i].from = s => Sound(down[i], grids[s].size)
  <2>1. Held(s, whole)'
    BY <1>1, <1>6, <1>8, <1>9
  <2>2. \A i \in 1..Len(down') : i >= 1 - 1 /\ down'[i].from = s => Sound(down'[i], grids'[s].size)
    BY <1>7, <1>8, <1>9
  <2>3. \A i \in 1..Len(down') : i >= 1 - 1
    BY <1>1
  <2> QED
    BY <2>1, <2>2, <2>3 DEF Carry
<1>10. ASSUME NEW j \in 1..Len(down), down[j].from = s, down[j].full,
              \A i \in j..Len(down) : down[i].from = s => Sound(down[i], grids[s].size)
       PROVE  Carry(s, whole)'
  <2>1. \A i \in 1..Len(down') : i >= j - 1 /\ down'[i].from = s => Sound(down'[i], grids'[s].size)
    BY <1>7, <1>10
  <2>2. CASE j = 1
    <3>1. Held(s, whole)'
      BY <1>1, <1>6, <1>8, <1>10, <2>2
    <3>2. \A i \in 1..Len(down') : i >= j - 1
      BY <1>1, <2>2
    <3> QED
      BY <2>1, <3>1, <3>2 DEF Carry
  <2>3. CASE j # 1
    <3>1. j - 1 \in 1..Len(down') /\ down'[j - 1] = down[(j - 1) + 1] /\ (j - 1) + 1 = j
      BY <1>1, <2>3
    <3>2. \A i \in (j - 1)..Len(down') : i \in 1..Len(down') /\ i >= j - 1
      BY <1>1, <2>3
    <3> QED
      BY <1>10, <2>1, <3>1, <3>2 DEF Carry
  <2> QED
    BY <2>2, <2>3
<1> QED
  BY <1>9, <1>10 DEF Carry

LEMMA LastReceived ==
  ASSUME View!ViewConstants, ViewTypes, NEW s \in Sessions, down # <<>>, down' = Tail(down), LastSent(s),
         grids' = [grids EXCEPT ![Head(down).from] = View!Applied(grids[Head(down).from], Head(down))],
         pushed' = pushed
  PROVE  LastSent(s)'
<1> DEFINE h == Head(down)
<1>1. Len(down) \in Nat /\ Len(down) >= 1 /\ h = down[1] /\ h \in ViewFrames /\ Len(down') = Len(down) - 1
      /\ \A i \in 1..Len(down') : down'[i] = down[i + 1] /\ i + 1 \in 1..Len(down)
  BY TailOf DEF ViewTypes
<1>2. h.from \in Sessions /\ grids \in [Sessions -> Grids]
  BY <1>1 DEF ViewFrames, ViewTypes
<1>3. h.from # s => grids'[s] = grids[s]
  BY <1>2
<1>4. h.from = s => grids'[s] = View!Applied(grids[s], h)
  BY <1>2
<1> HIDE DEF h
<1>5. ASSUME NEW i \in 1..Len(down'), down'[i].from = s, \A k \in (i + 1)..Len(down') : down'[k].from # s
      PROVE  /\ down'[i].text = pushed'[s].text /\ down'[i].back = pushed'[s].back
             /\ pushed'[s].full => down'[i].full /\ down'[i].size = pushed'[s].size
  <2>1. \A k \in ((i + 1) + 1)..Len(down) : k - 1 \in (i + 1)..Len(down') /\ down'[k - 1] = down[k]
    <3> SUFFICES ASSUME NEW k \in ((i + 1) + 1)..Len(down) PROVE k - 1 \in (i + 1)..Len(down') /\ down'[k - 1] = down[k]
      OBVIOUS
    <3>1. k - 1 \in 1..Len(down') /\ k - 1 \in (i + 1)..Len(down') /\ (k - 1) + 1 = k
      BY <1>1
    <3>2. down'[k - 1] = down[(k - 1) + 1]
      BY <1>1, <3>1
    <3> QED
      BY <3>1, <3>2
  <2>2. \A k \in ((i + 1) + 1)..Len(down) : down[k].from # s
    BY <1>5, <2>1
  <2>3. down'[i] = down[i + 1] /\ i + 1 \in 1..Len(down)
    BY <1>1
  <2> QED
    BY <1>5, <2>2, <2>3 DEF LastSent
<1>6. ASSUME Arrived(s)', ~grids'[s].first
      PROVE  /\ grids'[s].pic.text = pushed'[s].text /\ grids'[s].pic.back = pushed'[s].back
             /\ pushed'[s].full /\ pushed'[s].size = grids'[s].size /\ ~pushed'[s].back => Held(s, TRUE)'
  <2>1. \A k \in 2..Len(down) : down[k].from # s
    <3> SUFFICES ASSUME NEW k \in 2..Len(down) PROVE down[k].from # s
      OBVIOUS
    <3>1. k - 1 \in 1..Len(down') /\ (k - 1) + 1 = k
      BY <1>1
    <3>2. down'[k - 1] = down[(k - 1) + 1]
      BY <1>1, <3>1
    <3> QED
      BY <1>6, <3>1, <3>2 DEF Arrived
  <2>2. CASE h.from = s
    <3> DEFINE a == View!Applied(grids[s], h)
    <3>1. /\ a.pic.text = h.text /\ a.pic.back = h.back /\ a.pic.size = h.size /\ a.size = grids[s].size
          /\ a.pic.clean = (h.size = grids[s].size /\ (h.full \/ (Keeps(grids[s], h) /\ (grids[s].first \/ grids[s].pic.clean))))
          /\ a.pic.whole = (h.size = grids[s].size /\ (h.full \/ (Keeps(grids[s], h) /\ ~grids[s].first /\ grids[s].pic.whole)))
      BY <1>1, <1>2, AppliedType
    <3>2. 1 \in 1..Len(down) /\ \A k \in (1 + 1)..Len(down) : down[k].from # s
      BY <1>1, <2>1
    <3>3. /\ down[1].text = pushed[s].text /\ down[1].back = pushed[s].back
          /\ pushed[s].full => down[1].full /\ down[1].size = pushed[s].size
      BY <1>1, <2>2, <3>2 DEF LastSent
    <3>4. grids'[s] = a
      BY <1>4, <2>2
    <3> HIDE DEF a
    <3> QED
      BY <1>1, <3>1, <3>3, <3>4 DEF Held
  <2>3. CASE h.from # s
    <3>1. \A k \in 1..Len(down) : k = 1 \/ k \in 2..Len(down)
      BY <1>1
    <3>2. Arrived(s)
      BY <1>1, <2>1, <2>3, <3>1 DEF Arrived
    <3>3. Held(s, TRUE)' <=> Held(s, TRUE)
      BY <1>3, <2>3 DEF Held
    <3> QED
      BY <1>3, <1>6, <2>3, <3>2, <3>3 DEF LastSent
  <2> QED
    BY <2>2, <2>3
<1> QED
  BY <1>5, <1>6 DEF LastSent

\* What is added to the requests asks for no other size.
NoResize ==
  \/ up' = up
  \/ \E r \in Requests : r.what # "resize" /\ up' = Append(up, r)
  \/ \E r \in Requests, t \in Requests : r.what # "resize" /\ t.what # "resize" /\ up' = Append(Append(up, r), t)

LEMMA LeadsKept ==
  ASSUME up \in Seq(Requests), NoResize, NEW s, NEW size, NEW goal
  PROVE  (PendingIn(up', s) <=> PendingIn(up, s)) /\ (Leads(up, s, size, goal) => Leads(up', s, size, goal))
<1>1. CASE up' = up
  BY <1>1
<1>2. ASSUME NEW r \in Requests, r.what # "resize", up' = Append(up, r)
      PROVE  (PendingIn(up', s) <=> PendingIn(up, s)) /\ (Leads(up, s, size, goal) => Leads(up', s, size, goal))
  BY <1>2, LeadsOn
<1>3. ASSUME NEW r \in Requests, NEW t \in Requests, r.what # "resize", t.what # "resize", up' = Append(Append(up, r), t)
      PROVE  (PendingIn(up', s) <=> PendingIn(up, s)) /\ (Leads(up, s, size, goal) => Leads(up', s, size, goal))
  <2> DEFINE q == Append(up, r)
  <2>1. q \in Seq(Requests) /\ up' = Append(q, t)
    BY <1>3
  <2>2. (PendingIn(q, s) <=> PendingIn(up, s)) /\ (Leads(up, s, size, goal) => Leads(q, s, size, goal))
    BY <1>3, LeadsOn
  <2> HIDE DEF q
  <2>3. (PendingIn(up', s) <=> PendingIn(q, s)) /\ (Leads(q, s, size, goal) => Leads(up', s, size, goal))
    BY <1>3, <2>1, LeadsOn
  <2> QED
    BY <2>2, <2>3
<1> QED
  BY <1>1, <1>2, <1>3 DEF NoResize

LEMMA InputIsNoResize ==
  ASSUME ViewTypes,
         View!Blink \/ View!Commit \/ View!TypeKeys \/ \E back \in BOOLEAN : View!Wheel(back)
  PROVE  /\ NoResize /\ UNCHANGED View!pushVars
         /\ \A s \in Sessions : grids'[s].pic = grids[s].pic /\ grids'[s].size = grids[s].size
                                /\ grids'[s].first = grids[s].first
<1>0. up \in Seq(Requests) /\ grids \in [Sessions -> Grids]
  BY DEF ViewTypes
<1>1. active \in Sessions /\ UNCHANGED View!pushVars
      /\ (grids' = grids \/ \E on \in BOOLEAN : grids' = [grids EXCEPT ![active].on = on])
  BY DEF View!Blink, View!Commit, View!TypeKeys, View!Wheel, Grids, ViewTypes
<1>2. \A s \in Sessions : grids'[s].pic = grids[s].pic /\ grids'[s].size = grids[s].size
                          /\ grids'[s].first = grids[s].first
  BY <1>0, <1>1 DEF Grids
<1>3. /\ View!Text("keys") \in Requests /\ View!Text("keys").what # "resize"
      /\ View!Text("commit") \in Requests /\ View!Text("commit").what # "resize"
      /\ \A back \in BOOLEAN : View!Scroll(back) \in Requests /\ View!Scroll(back).what # "resize"
  BY <1>1 DEF View!Scroll, View!Text, Requests
<1>4. \/ up' = up \/ up' = Append(up, View!Text("commit")) \/ up' = up \o View!Input(View!Widget)
      \/ \E back \in BOOLEAN : up' = Append(up, View!Scroll(back))
  BY DEF View!Blink, View!Commit, View!TypeKeys, View!Wheel
<1>5. \/ up' = up \/ up' = Append(up, View!Text("commit")) \/ up' = Append(up, View!Text("keys"))
      \/ up' = Append(Append(up, View!Scroll(FALSE)), View!Text("keys"))
      \/ \E back \in BOOLEAN : up' = Append(up, View!Scroll(back))
  BY <1>0, <1>1, <1>4, KeysSent
<1>6. NoResize
  <2>1. CASE up' = Append(Append(up, View!Scroll(FALSE)), View!Text("keys"))
    BY <1>3, <2>1 DEF NoResize
  <2>2. ASSUME NEW back \in BOOLEAN, up' = Append(up, View!Scroll(back)) PROVE NoResize
    BY <1>3, <2>2 DEF NoResize
  <2> QED
    BY <1>3, <1>5, <2>1, <2>2 DEF NoResize
<1> QED
  BY <1>1, <1>2, <1>6

\* A terminal whose frames are left alone, but for what it is asked and writes.
LEMMA ScreenKept ==
  ASSUME NEW s \in Sessions, ScreenInv(s), PendingIn(up', s) <=> PendingIn(up, s), down' = down,
         pushed'[s] = pushed[s], grids'[s].pic = grids[s].pic, grids'[s].size = grids[s].size,
         grids'[s].first = grids[s].first, terms'[s].size = terms[s].size, terms'[s].was = terms[s].was,
         terms'[s].returned = terms[s].returned,
         \/ terms'[s] = terms[s]
         \/ terms'[s].damage = "full"
         \/ terms'[s].damage # "none" /\ terms[s].damage # "full" /\ terms'[s].back = terms[s].back
  PROVE  ScreenInv(s)'
<1>1. \A whole \in BOOLEAN : Held(s, whole)' <=> Held(s, whole)
  BY DEF Held
<1>2. Carries(s)' <=> Carries(s)
  <2>1. \A whole \in BOOLEAN : Carry(s, whole)' <=> Carry(s, whole)
    BY <1>1 DEF Carry
  <2> QED
    BY <2>1 DEF Carries
<1>3. (Arrived(s)' <=> Arrived(s)) /\ (LastSent(s)' <=> LastSent(s))
  <2>1. Arrived(s)' <=> Arrived(s)
    BY DEF Arrived
  <2>2. Held(s, TRUE)' <=> Held(s, TRUE)
    BY <1>1
  <2> QED
    BY <2>1, <2>2 DEF LastSent
<1>4. View!Open(s)' <=> View!Open(s)
  BY DEF View!Open
<1>6. View!Open(s)' /\ ~PendingIn(up', s) =>
        /\ terms'[s].damage # "full" /\ ~terms'[s].back => Carries(s)'
        /\ pushed'[s].full /\ pushed'[s].size = grids'[s].size /\ grids'[s].first /\ Arrived(s)' => terms'[s].returned
  BY <1>2, <1>3, <1>4 DEF ScreenInv
<1>7. terms'[s].damage = "none" => pushed'[s].text = terms'[s].text /\ pushed'[s].back = terms'[s].back
  BY DEF ScreenInv
<1> QED
  BY <1>3, <1>6, <1>7 DEF ScreenInv

LEMMA MoreIn ==
  ASSUME down \in Seq(ViewFrames), NEW f \in ViewFrames, down' = down \/ down' = Append(down, f)
  PROVE  \A i \in 1..Len(down) : i \in 1..Len(down') /\ down'[i] = down[i]
  OBVIOUS

LEMMA LastOf ==
  ASSUME NEW s, ~Arrived(s), Len(down) \in Nat
  PROVE  \E j \in 1..Len(down) : down[j].from = s /\ \A k \in (j + 1)..Len(down) : down[k].from # s
<1> DEFINE After == {n \in Nat : n < Len(down) /\ down[Len(down) - n].from = s}
           Less == OpToRel(<, Nat)
<1>1. PICK i \in 1..Len(down) : down[i].from = s
  BY DEF Arrived
<1>2. Len(down) - i \in Nat /\ Len(down) - i < Len(down) /\ Len(down) - (Len(down) - i) = i
  OBVIOUS
<1>3. After # {} /\ After \subseteq Nat
  BY <1>1, <1>2
<1>7. \A m \in Nat, n \in Nat : m < n => <<m, n>> \in Less
  BY DEF OpToRel
<1>8. IsWellFoundedOn(Less, Nat)
  BY NatLessThanWellFounded
<1> HIDE DEF After, Less
<1>4. PICK n \in After : \A m \in After : ~(<<m, n>> \in Less)
  BY <1>3, <1>8, WFMin
<1> USE DEF After
<1> DEFINE j == Len(down) - n
<1>5. j \in 1..Len(down) /\ down[j].from = s
  BY <1>4
<1>6. ASSUME NEW k \in (j + 1)..Len(down) PROVE down[k].from # s
  <2>1. Len(down) - k \in Nat /\ Len(down) - k < Len(down) /\ Len(down) - (Len(down) - k) = k /\ Len(down) - k < n
    BY <1>4, <1>5
  <2>2. Len(down) - k \notin After
    BY <1>3, <1>4, <1>7, <2>1
  <2> QED
    BY <2>1, <2>2
<1> QED
  BY <1>5, <1>6

LEMMA StepScreensInv ==
  ASSUME View!ViewConstants, ViewTypes, OpenInv, ScreensInv, [View!Next]_(View!viewVars)
  PROVE  ScreensInv'
<1>0. /\ up \in Seq(Requests) /\ down \in Seq(ViewFrames) /\ active \in Sessions \cup {View!None}
      /\ grids \in [Sessions -> Grids] /\ terms \in [Sessions -> Terms] /\ pushed \in [Sessions -> LineSets]
      /\ (active # View!None => View!Open(active)) /\ window \in Sizes /\ Len(down) \in Nat
  BY DEF ViewTypes
\* The sizes there are, when none is asked for.
<1>a. ASSUME NEW s \in Sessions, NoResize, terms'[s].size = terms[s].size, grids'[s].size = grids[s].size
      PROVE  SizeInv(s)' /\ (PendingIn(up', s) <=> PendingIn(up, s))
  <2>1. SizeInv(s)
    BY DEF ScreensInv
  <2> QED
    BY <1>0, <1>a, <2>1, LeadsKept DEF SizeInv, View!Open
<1>b. ASSUME up' = up PROVE NoResize
  BY <1>b DEF NoResize
\* No screen is touched.
<1>c. ASSUME NoResize, UNCHANGED <<terms, pushed, down>>,
             \A s \in Sessions : grids'[s].pic = grids[s].pic /\ grids'[s].size = grids[s].size
                                 /\ grids'[s].first = grids[s].first
      PROVE  ScreensInv'
  <2> SUFFICES ASSUME NEW s \in Sessions PROVE SizeInv(s)' /\ ScreenInv(s)'
    BY DEF ScreensInv
  <2>1. SizeInv(s)' /\ (PendingIn(up', s) <=> PendingIn(up, s))
    BY <1>a, <1>c
  <2>2. ScreenInv(s)
    BY DEF ScreensInv
  <2> QED
    BY <1>c, <2>1, <2>2, ScreenKept
<1>1. ASSUME NEW s \in Sessions, View!OpenTerminal(s) PROVE ScreensInv'
  <2> DEFINE f == [from |-> s, full |-> TRUE, size |-> OpenSize, text |-> 0, back |-> FALSE]
  <2>1. ~View!Open(s) /\ terms' = [terms EXCEPT ![s] = View!NewTerm] /\ down' = Append(down, f) /\ UNCHANGED <<grids, up, pushed>>
    BY <1>1 DEF View!OpenTerminal
  <2>2. Fresh(s)
    BY <2>1 DEF OpenInv
  <2>3. f \in ViewFrames /\ f.from = s /\ f.full /\ f.text = 0 /\ f.back = FALSE /\ f.size = OpenSize
    BY DEF ViewFrames, View!ViewConstants
  <2> HIDE DEF f
  <2>a. grids[s].size = OpenSize /\ ~pushed[s].full /\ pushed[s].text = 0 /\ pushed[s].back = FALSE
    BY <2>2 DEF Fresh, View!NewGrid, View!NoLines
  <2>b. ~PendingIn(up, s)
    BY <2>2 DEF Fresh, PendingIn, Resize
  <2>c. terms'[s] = View!NewTerm /\ \A r \in Sessions : r # s => terms'[r] = terms[r]
    BY <1>0, <2>1
  <2> SUFFICES ASSUME NEW r \in Sessions PROVE SizeInv(r)' /\ ScreenInv(r)'
    BY DEF ScreensInv
  <2>4. ScreenInv(r) /\ SizeInv(r) /\ grids'[r] = grids[r] /\ pushed'[r] = pushed[r]
    BY <2>1 DEF ScreensInv
  <2>5. f.from = r => Sound(f, grids[r].size)
    BY <2>3, <2>a DEF Sound
  <2>6. f.from = r => /\ pushed'[r].text = f.text /\ pushed'[r].back = f.back
                      /\ pushed'[r].full => f.full /\ f.size = pushed'[r].size
    BY <2>3, <2>4, <2>a
  <2>7. LastSent(r)'
    BY <2>1, <2>3, <2>4, <2>6, LastMore DEF ScreenInv
  <2>8. \A whole \in BOOLEAN : (Carry(r, whole) => Carry(r, whole)') /\ (r = s => Carry(r, whole)')
    BY <2>1, <2>3, <2>4, <2>5, CarryMore
  <2>9. CASE r = s
    <3>1. SizeInv(r)'
      BY <2>1, <2>4, <2>9, <2>a, <2>b, <2>c, ClosedIs DEF SizeInv, Leads, PendingIn
    <3>2. Carries(r)'
      BY <2>8, <2>9 DEF Carries
    <3> QED
      BY <2>4, <2>7, <2>9, <2>a, <2>c, <3>1, <3>2, ClosedIs DEF ScreenInv
  <2>10. CASE r # s
    <3>1. terms'[r] = terms[r]
      BY <2>c, <2>10
    <3>2. SizeInv(r)'
      BY <2>1, <2>4, <3>1 DEF SizeInv, View!Open
    <3>3. Arrived(r)' => Arrived(r)
      <4>1. \A i \in 1..Len(down) : i \in 1..Len(down') /\ down'[i] = down[i]
        BY <1>0, <2>1, <2>3, MoreIn
      <4> QED
        BY <4>1 DEF Arrived
    <3>5. Carries(r) => Carries(r)'
      BY <2>8, <3>1 DEF Carries
    <3> QED
      BY <2>1, <2>4, <2>7, <3>1, <3>2, <3>3, <3>5 DEF ScreenInv, View!Open
  <2> QED
    BY <2>9, <2>10
<1>2. ASSUME NEW s \in Sessions, View!Output(s) PROVE ScreensInv'
  <2>1. terms' = [terms EXCEPT ![s] = Written(terms[s])] /\ UNCHANGED <<grids, up, pushed, down>>
    BY <1>2 DEF View!Output, Written, View!guiVars
  <2>2. terms'[s] = Written(terms[s]) /\ \A r \in Sessions : r # s => terms'[r] = terms[r]
    BY <1>0, <2>1
  <2>3. /\ terms'[s].size = terms[s].size /\ terms'[s].back = terms[s].back
        /\ terms'[s].was = terms[s].was /\ terms'[s].returned = terms[s].returned
        /\ terms'[s].damage # "none" /\ (terms'[s].damage = "full" \/ terms[s].damage # "full")
    BY <1>0, <2>2, TermWritten
  <2> SUFFICES ASSUME NEW r \in Sessions PROVE SizeInv(r)' /\ ScreenInv(r)'
    BY DEF ScreensInv
  <2>4. terms'[r].size = terms[r].size
    BY <2>2, <2>3
  <2>5. SizeInv(r)' /\ (PendingIn(up', r) <=> PendingIn(up, r))
    BY <1>a, <1>b, <2>1, <2>4
  <2>6. ScreenInv(r)
    BY DEF ScreensInv
  <2>7. CASE r = s
    BY <2>1, <2>3, <2>5, <2>6, <2>7, ScreenKept
  <2>8. CASE r # s
    BY <2>1, <2>2, <2>5, <2>6, <2>8, ScreenKept
  <2> QED
    BY <2>5, <2>7, <2>8
<1>3. ASSUME NEW s \in Sessions, View!Tick(s) PROVE ScreensInv'
  <2> DEFINE full == terms[s].damage = "full"
             f == View!Frame(s, full)
             l == View!Lines(f)
             sends == l # pushed[s]
  <2>1. View!Open(s) /\ pushed' = [pushed EXCEPT ![s] = l] /\ (sends => down' = Append(down, f)) /\ (~sends => down' = down)
        /\ UNCHANGED <<grids, up>>
    BY <1>3 DEF View!Tick, View!guiVars
  <2>2. full \in BOOLEAN
    OBVIOUS
  <2>3. /\ f \in ViewFrames /\ f.from = s /\ f.full = full /\ f.size = terms[s].size
        /\ f.text = terms[s].text /\ f.back = terms[s].back
        /\ l.full = full /\ l.text = terms[s].text /\ l.back = terms[s].back
        /\ l.size = IF full THEN terms[s].size ELSE View!None
    BY <2>1, <2>2, FrameType
  <2>4. full <=> terms[s].damage = "full"
    OBVIOUS
  <2>6. /\ \A r \in Sessions : r # s => terms'[r] = terms[r]
        /\ terms'[s].size = terms[s].size /\ terms'[s].back = terms[s].back /\ terms'[s].text = terms[s].text
        /\ terms'[s].damage = "none" /\ terms'[s].was = terms[s].size
        /\ terms'[s].returned = (terms[s].returned /\ ~(sends /\ full))
    BY <1>3, TermTicked
  <2>b. sends <=> l # pushed[s]
    OBVIOUS
  <2> HIDE DEF sends, l, f, full
  <2>5. pushed'[s] = l /\ \A r \in Sessions : r # s => pushed'[r] = pushed[r]
    BY <1>0, <2>1
  <2> SUFFICES ASSUME NEW r \in Sessions PROVE SizeInv(r)' /\ ScreenInv(r)'
    BY DEF ScreensInv
  <2>7. ScreenInv(r) /\ SizeInv(r) /\ grids'[r] = grids[r]
    BY <2>1 DEF ScreensInv
  <2>c. SizeInv(r)' /\ (PendingIn(up', r) <=> PendingIn(up, r))
    <3>1. terms'[r].size = terms[r].size
      BY <2>6
    <3> QED
      BY <1>a, <1>b, <2>1, <2>7, <3>1
  <2>8. LastSent(r)'
    <3>1. CASE ~sends
      <4>1. pushed'[r] = pushed[r] /\ down' = down
        BY <2>1, <2>5, <2>b, <3>1
      <4>2. Held(r, TRUE)' <=> Held(r, TRUE)
        BY <2>7 DEF Held
      <4> QED
        BY <2>7, <4>1, <4>2 DEF ScreenInv, LastSent, Arrived
    <3>2. CASE sends
      <4>1. down' = Append(down, f)
        BY <2>1, <3>2
      <4>2. f.from = r => /\ pushed'[r].text = f.text /\ pushed'[r].back = f.back
                          /\ pushed'[r].full => f.full /\ f.size = pushed'[r].size
        BY <2>3, <2>5
      <4>3. f.from # r => pushed'[r] = pushed[r]
        BY <2>3, <2>5
      <4> QED
        BY <2>3, <2>7, <4>1, <4>2, <4>3, LastMore DEF ScreenInv
    <3> QED
      BY <3>1, <3>2
  <2>9. CASE r # s
    <3>1. terms'[r] = terms[r] /\ pushed'[r] = pushed[r]
      BY <2>5, <2>6, <2>9
    <3>2. \A whole \in BOOLEAN : Carry(r, whole) => Carry(r, whole)'
      <4>1. CASE down' = down
        BY <2>7, <4>1 DEF Carry, Held
      <4>2. CASE down' = Append(down, f)
        BY <2>3, <2>7, <2>9, <4>2, CarryMore
      <4> QED
        BY <2>1, <4>1, <4>2
    <3>3. Arrived(r)' => Arrived(r)
      <4>1. \A i \in 1..Len(down) : i \in 1..Len(down') /\ down'[i] = down[i]
        BY <1>0, <2>1, <2>3, MoreIn
      <4> QED
        BY <4>1 DEF Arrived
    <3>5. Carries(r) => Carries(r)'
      BY <3>1, <3>2 DEF Carries
    <3> QED
      BY <2>7, <2>8, <2>c, <3>1, <3>3, <3>5 DEF ScreenInv, View!Open
  <2>10. CASE r = s
    <3>1. View!Open(r)' <=> View!Open(r)
      BY <2>6, <2>10 DEF View!Open
    <3>2. pushed'[r].full => pushed'[r].size = terms'[r].was
      BY <2>3, <2>5, <2>6, <2>10
    <3>3. pushed'[r].text = terms'[r].text /\ pushed'[r].back = terms'[r].back
      BY <2>3, <2>5, <2>6, <2>10
    <3>4. ASSUME ~PendingIn(up', r) PROVE terms[r].size = grids[r].size
      BY <2>1, <2>7, <2>10, <2>c, <3>4 DEF SizeInv, Leads
    \* A turn that sends leaves a frame under way.
    <3>5. sends => ~Arrived(r)'
      <4>1. sends => Len(down) + 1 \in 1..Len(down') /\ down'[Len(down) + 1] = f
        BY <1>0, <2>1, <2>3
      <4> QED
        BY <2>3, <2>10, <4>1 DEF Arrived
    <3>6. ASSUME ~PendingIn(up', r), pushed'[r].full, pushed'[r].size = grids'[r].size, grids'[r].first, Arrived(r)'
          PROVE  terms'[r].returned
      <4>1. ~sends /\ pushed'[r] = pushed[r] /\ down' = down
        BY <2>1, <2>5, <2>10, <2>b, <3>5, <3>6
      <4>2. Arrived(r)
        BY <3>6, <4>1 DEF Arrived
      <4>3. terms[r].returned
        BY <2>1, <2>7, <2>10, <2>c, <3>6, <4>1, <4>2 DEF ScreenInv
      <4> QED
        BY <2>6, <2>10, <4>1, <4>3
    <3>7. ASSUME ~PendingIn(up', r), ~terms'[r].back PROVE Carries(r)'
      <4>1. terms[r].size = grids[r].size /\ ~terms[r].back
        BY <2>6, <2>10, <3>4, <3>7
      <4>2. Sound(f, grids[r].size)
        BY <2>3, <2>10, <4>1 DEF Sound
      <4>3. CASE full /\ sends
        <5>1. \A whole \in BOOLEAN : Carry(r, whole)'
          BY <2>1, <2>3, <2>7, <2>10, <4>2, <4>3, CarryMore
        <5> QED
          BY <5>1 DEF Carries
      <4>4. CASE ~full
        <5>1. Carries(r)
          BY <2>1, <2>4, <2>7, <2>10, <2>c, <3>7, <4>1, <4>4 DEF ScreenInv
        <5>2. \A whole \in BOOLEAN : Carry(r, whole) => Carry(r, whole)'
          <6>1. CASE sends
            BY <2>1, <2>3, <2>7, <2>10, <4>2, <6>1, CarryMore
          <6>2. CASE ~sends
            BY <2>1, <2>7, <6>2 DEF Carry, Held
          <6> QED
            BY <6>1, <6>2
        <5>3. terms'[r].returned <=> terms[r].returned
          BY <2>6, <2>10, <4>4
        <5> QED
          BY <5>1, <5>2, <5>3 DEF Carries
      <4>5. CASE full /\ ~sends
        <5>1. pushed[r] = l /\ down' = down /\ pushed[r].full /\ ~pushed[r].back /\ pushed[r].size = grids[r].size
          BY <2>1, <2>3, <2>10, <2>b, <4>1, <4>5
        <5>2. terms'[r].returned = terms[r].returned
          <6>1. terms[r].returned \in BOOLEAN
            BY <1>0 DEF Terms
          <6> QED
            BY <2>6, <2>10, <4>5, <6>1
        <5>3. CASE Arrived(r) /\ ~grids[r].first
          <6>1. Held(r, TRUE)
            BY <2>7, <5>1, <5>3 DEF ScreenInv, LastSent
          <6>2. \A whole \in BOOLEAN : Held(r, whole)'
            BY <2>7, <6>1 DEF Held
          <6>3. \A i \in 1..Len(down') : down'[i].from # r
            BY <5>1, <5>3 DEF Arrived
          <6> QED
            BY <6>2, <6>3 DEF Carry, Carries
        <5>4. CASE Arrived(r) /\ grids[r].first
          <6>1. terms'[r].returned
            BY <2>1, <2>7, <2>10, <2>c, <3>7, <5>1, <5>2, <5>4 DEF ScreenInv
          <6>2. grids'[r].pic = View!Blank
            BY <2>7, <5>4 DEF ScreenInv
          <6>3. Held(r, FALSE)'
            BY <6>2, BlankIs DEF Held
          <6>4. \A i \in 1..Len(down') : down'[i].from # r
            BY <5>1, <5>4 DEF Arrived
          <6>5. Carry(r, FALSE)'
            BY <6>3, <6>4 DEF Carry
          <6>6. \A whole \in BOOLEAN : (whole => ~terms'[r].returned) => ~whole
            BY <6>1
          <6> QED
            BY <6>5, <6>6 DEF Carries
        <5>5. CASE ~Arrived(r)
          <6>1. PICK j \in 1..Len(down) : down[j].from = r /\ \A k \in (j + 1)..Len(down) : down[k].from # r
            BY <1>0, <5>5, LastOf
          <6>2. down[j].full /\ down[j].size = pushed[r].size /\ down[j].back = pushed[r].back
            BY <2>7, <5>1, <6>1 DEF ScreenInv, LastSent
          <6>3. \A i \in j..Len(down) : i = j \/ i \in (j + 1)..Len(down)
            BY <1>0
          <6>4. \A i \in j..Len(down) : down[i].from = r => Sound(down[i], grids[r].size)
            BY <5>1, <6>1, <6>2, <6>3 DEF Sound
          <6> QED
            BY <2>7, <5>1, <6>1, <6>2, <6>4 DEF Carry, Carries
        <5> QED
          BY <5>3, <5>4, <5>5
      <4> QED
        BY <4>3, <4>4, <4>5
    <3> QED
      BY <2>7, <2>8, <2>c, <3>2, <3>3, <3>6, <3>7 DEF ScreenInv
  <2> QED
    BY <2>9, <2>10
<1>4. ASSUME NEW s \in Sessions \cup {View!None}, View!SwitchTab(s) PROVE ScreensInv'
  <2>1. UNCHANGED <<grids, up, terms, pushed, down>>
    BY <1>4 DEF View!SwitchTab, View!pushVars
  <2> QED
    BY <1>b, <1>c, <2>1
<1>5. ASSUME NEW size \in Sizes, View!ResizeWindow(size) PROVE ScreensInv'
  <2>1. UNCHANGED <<grids, up, terms, pushed, down>>
    BY <1>5 DEF View!ResizeWindow, View!pushVars
  <2> QED
    BY <1>b, <1>c, <2>1
<1>6. CASE View!Blink \/ View!Commit \/ View!TypeKeys \/ \E back \in BOOLEAN : View!Wheel(back)
  BY <1>c, <1>6, InputIsNoResize DEF View!pushVars
<1>8. CASE View!Redraw
  <2>1. active \in Sessions /\ UNCHANGED <<window, terms, pushed, down>>
    BY <1>0, <1>8 DEF View!Redraw, View!pushVars
  <2>2. CASE UNCHANGED <<grids, up>>
    BY <1>b, <1>c, <2>1, <2>2
  <2>3. CASE ~UNCHANGED <<grids, up>>
    <3> DEFINE r == [to |-> active, what |-> "resize", size |-> window, stray |-> FALSE]
               g == [View!NewGrid(window) EXCEPT !.on = grids[active].on, !.cursor = FALSE]
    <3>1. grids[active].size # window /\ grids' = [grids EXCEPT ![active] = g] /\ up' = Append(up, r)
      BY <1>8, <2>3 DEF View!Redraw, View!Resized
    <3>2. g.size = window /\ g.first /\ g.pic = View!Blank
      BY DEF View!NewGrid
    <3>3. r \in Requests /\ r.to = active /\ r.what = "resize" /\ r.size = window
      BY <1>0, <2>1 DEF Requests
    <3> HIDE DEF g, r
    <3>4. grids'[active] = g /\ \A s \in Sessions : s # active => grids'[s] = grids[s]
      BY <1>0, <2>1, <3>1
    <3> SUFFICES ASSUME NEW s \in Sessions PROVE SizeInv(s)' /\ ScreenInv(s)'
      BY DEF ScreensInv
    <3>5. SizeInv(s) /\ ScreenInv(s) /\ terms'[s] = terms[s] /\ pushed'[s] = pushed[s] /\ down' = down
      BY <2>1 DEF ScreensInv
    <3>6. CASE s = active
      <4>1. Leads(up, s, terms[s].size, grids[s].size)
        BY <1>0, <2>1, <3>5, <3>6 DEF SizeInv, View!ViewConstants
      <4>2. Leads(Append(up, r), s, terms[s].size, r.size) /\ PendingIn(Append(up, r), s)
        BY <1>0, <3>1, <3>3, <3>6, <4>1, LeadsFurther
      <4>3. SizeInv(s)' /\ PendingIn(up', s)
        BY <3>1, <3>2, <3>3, <3>4, <3>5, <3>6, <4>2 DEF SizeInv
      <4>4. LastSent(s)'
        <5>1. grids'[s].first /\ LastSent(s)
          BY <3>2, <3>4, <3>5, <3>6 DEF ScreenInv
        <5> QED
          BY <3>5, <5>1 DEF LastSent
      <4> QED
        BY <3>2, <3>4, <3>5, <3>6, <4>3, <4>4 DEF ScreenInv
    <3>7. CASE s # active
      <4>1. grids'[s] = grids[s]
        BY <3>4, <3>7
      <4>2. (PendingIn(up', s) <=> PendingIn(up, s))
            /\ \A size, goal : Leads(up, s, size, goal) => Leads(up', s, size, goal)
        BY <1>0, <3>1, <3>3, <3>7, LeadsOn
      <4>3. SizeInv(s)'
        BY <3>5, <4>1, <4>2 DEF SizeInv, View!Open
      <4>4. ScreenInv(s)'
        BY <3>5, <4>1, <4>2, ScreenKept
      <4> QED
        BY <4>3, <4>4
    <3> QED
      BY <3>6, <3>7
  <2> QED
    BY <2>2, <2>3
<1>9. CASE View!Serve
  <2> DEFINE r == Head(up)
             t == terms[r.to]
             size == t.size
  <2>1. up # <<>> /\ up' = Tail(up) /\ UNCHANGED <<grids, pushed, down>>
    BY <1>9 DEF View!Serve, View!guiVars
  <2>2. r \in Requests /\ (r.what = "resize" => r.size \in Sizes) /\ r = up[1]
    BY <1>0, <2>1, TailOf DEF ViewTypes
  <2>3. t \in Terms /\ r.to \in Sessions
    BY <1>0, <2>2 DEF Requests
  <2>4. /\ r.what = "resize" => terms' = [terms EXCEPT ![r.to] = IF t.size = r.size THEN t ELSE View!Sized(t, r.size)]
        /\ r.what # "resize" => terms' = terms \/ \E w \in Terms : /\ terms' = [terms EXCEPT ![r.to] = w]
                                                                  /\ w.damage = "full" /\ w.size = t.size
                                                                  /\ w.was = t.was /\ w.returned = t.returned
    <3>1. CASE r.what = "resize"
      BY <1>9, <3>1 DEF View!Serve
    <3>2. CASE terms' = [terms EXCEPT ![r.to] = IF t.back = (r.what = "back") THEN t
                                               ELSE View!Full([t EXCEPT !.back = (r.what = "back")])]
               /\ r.what # "resize"
      <4> DEFINE w == View!Full([t EXCEPT !.back = (r.what = "back")])
      <4>1. w \in Terms /\ w.damage = "full" /\ w.size = t.size /\ w.was = t.was /\ w.returned = t.returned
        BY <2>3, TermScrolled
      <4> HIDE DEF w
      <4>2. terms' = terms \/ terms' = [terms EXCEPT ![r.to] = w]
        <5>1. terms' = [terms EXCEPT ![r.to] = IF t.back = (r.what = "back") THEN t ELSE w]
          BY <3>2 DEF w
        <5> QED
          BY <1>0, <2>3, <5>1
      <4> QED
        BY <3>2, <4>1, <4>2
    <3>3. CASE terms' = terms /\ r.what # "resize"
      BY <3>3
    <3> QED
      BY <1>9, <3>1, <3>2, <3>3 DEF View!Serve
  <2> SUFFICES ASSUME NEW s \in Sessions PROVE SizeInv(s)' /\ ScreenInv(s)'
    BY DEF ScreensInv
  <2>5. SizeInv(s) /\ ScreenInv(s) /\ grids'[s] = grids[s] /\ pushed'[s] = pushed[s] /\ down' = down
    BY <2>1 DEF ScreensInv
  <2>6. Resize(up, s, 1) <=> r.to = s /\ r.what = "resize"
    BY <2>2 DEF Resize
  <2> HIDE DEF r, t
  <2>7. CASE ~(r.to = s /\ r.what = "resize")
    <3>1. (PendingIn(up', s) <=> PendingIn(up, s))
          /\ \A a, goal : Leads(up, s, a, goal) => Leads(up', s, a, goal)
      BY <1>0, <2>1, <2>6, <2>7, LeadsServed
    <3>2. /\ terms'[s] = terms[s] \/ terms'[s].damage = "full"
          /\ terms'[s].size = terms[s].size /\ terms'[s].was = terms[s].was /\ terms'[s].returned = terms[s].returned
      <4>1. CASE r.to # s
        <5>1. terms'[s] = terms[s]
          BY <1>0, <2>3, <2>4, <4>1
        <5> QED
          BY <5>1
      <4>2. CASE r.to = s
        BY <1>0, <2>3, <2>4, <2>7, <4>2 DEF t
      <4> QED
        BY <4>1, <4>2
    <3>3. SizeInv(s)'
      BY <2>5, <3>1, <3>2 DEF SizeInv, View!Open
    <3>4. ScreenInv(s)'
      BY <2>5, <3>1, <3>2, ScreenKept
    <3> QED
      BY <3>3, <3>4
  <2>8. CASE r.to = s /\ r.what = "resize"
    <3>1. View!Open(s) /\ t = terms[s]
      <4>1. 1 \in 1..Len(up)
        BY <1>0, <2>1
      <4> QED
        BY <2>2, <2>8, <4>1 DEF OpenInv, Fresh, t
    <3>2. r.size # terms[s].size /\ Leads(up', s, r.size, grids[s].size)
      <4>1. Leads(up, s, terms[s].size, grids[s].size)
        BY <2>5, <3>1 DEF SizeInv
      <4> QED
        BY <1>0, <2>1, <2>2, <2>6, <2>8, <4>1, LeadsServed
    <3>3. terms'[s] = View!Sized(terms[s], r.size)
      BY <1>0, <2>3, <2>4, <2>8, <3>1, <3>2
    <3>4. /\ terms'[s].size = r.size /\ terms'[s].damage = "full" /\ terms'[s].was = terms[s].was
          /\ terms'[s].returned = (terms[s].returned \/ r.size = terms[s].was)
      BY <2>2, <2>3, <2>8, <3>1, <3>3, TermResized
    <3>5. SizeInv(s)'
      BY <2>5, <3>2, <3>4 DEF SizeInv
    <3>6. LastSent(s)'
      <4>1. Held(s, TRUE)' <=> Held(s, TRUE)
        BY <2>5 DEF Held
      <4> QED
        BY <2>5, <4>1 DEF ScreenInv, LastSent, Arrived
    \* Back at the size of the last turn.
    <3>7. ASSUME ~PendingIn(up', s), pushed'[s].full, pushed'[s].size = grids'[s].size PROVE terms'[s].returned
      <4>1. r.size = grids[s].size
        BY <3>2, <3>7 DEF Leads
      <4>2. pushed[s].size = terms[s].was
        BY <2>5, <3>7 DEF ScreenInv
      <4> QED
        BY <2>5, <3>4, <3>7, <4>1, <4>2
    <3> QED
      BY <2>5, <3>4, <3>5, <3>6, <3>7 DEF ScreenInv
  <2> QED
    BY <2>7, <2>8
<1>10. CASE View!Receive
  <2> DEFINE h == Head(down)
  <2>1. down # <<>> /\ down' = Tail(down) /\ UNCHANGED <<up, terms, pushed>>
        /\ grids' = [grids EXCEPT ![h.from] = View!Applied(grids[h.from], h)]
    BY <1>10 DEF View!Receive, View!guiVars
  <2>2. h \in ViewFrames /\ h = down[1] /\ Len(down) >= 1
        /\ \A i \in 1..Len(down') : down'[i] = down[i + 1] /\ i + 1 \in 1..Len(down)
    BY <1>0, <2>1, TailOf
  <2>3. h.from \in Sessions /\ h.size # View!None
    BY <2>2 DEF ViewFrames, View!ViewConstants
  <2> SUFFICES ASSUME NEW s \in Sessions PROVE SizeInv(s)' /\ ScreenInv(s)'
    BY DEF ScreensInv
  <2>4. SizeInv(s) /\ ScreenInv(s) /\ terms'[s] = terms[s] /\ pushed'[s] = pushed[s]
    BY <2>1 DEF ScreensInv
  <2>5. LastSent(s)'
    BY <2>1, <2>4, LastReceived DEF ScreenInv
  <2>6. \A whole \in BOOLEAN : Carry(s, whole) => Carry(s, whole)'
    BY <2>1, <2>4, CarryReceived DEF ScreenInv
  <2> HIDE DEF h
  <2>7. CASE h.from = s
    <3>1. grids'[s] = View!Applied(grids[s], h)
      BY <1>0, <2>1, <2>3, <2>7
    <3>2. grids'[s].size = grids[s].size /\ ~grids'[s].first /\ grids'[s].pic.size # View!None
      BY <1>0, <2>2, <2>3, <3>1, AppliedType
    <3>3. SizeInv(s)'
      BY <2>1, <2>4, <3>2 DEF SizeInv, View!Open
    <3>5. Carries(s) => Carries(s)'
      BY <2>4, <2>6 DEF Carries
    <3> QED
      BY <2>1, <2>4, <2>5, <3>2, <3>3, <3>5 DEF ScreenInv, View!Open
  <2>8. CASE h.from # s
    <3>1. grids'[s] = grids[s]
      BY <1>0, <2>1, <2>3, <2>8
    <3>2. SizeInv(s)'
      BY <2>1, <2>4, <3>1 DEF SizeInv, View!Open
    <3>3. Arrived(s)' => Arrived(s)
      <4> SUFFICES ASSUME Arrived(s)', NEW i \in 1..Len(down) PROVE down[i].from # s
        BY DEF Arrived
      <4>1. CASE i = 1
        BY <2>2, <2>8, <4>1
      <4>2. CASE i # 1
        <5>1. i - 1 \in 1..Len(down') /\ (i - 1) + 1 = i
          BY <1>0, <2>1, <4>2
        <5>2. down'[i - 1] = down[(i - 1) + 1]
          BY <2>2, <5>1
        <5> QED
          BY <5>1, <5>2 DEF Arrived
      <4> QED
        BY <4>1, <4>2
    <3>5. Carries(s) => Carries(s)'
      BY <2>4, <2>6 DEF Carries
    <3> QED
      BY <2>1, <2>4, <2>5, <3>1, <3>2, <3>3, <3>5 DEF ScreenInv, View!Open
  <2> QED
    BY <2>7, <2>8
<1>11. CASE UNCHANGED View!viewVars
  BY <1>b, <1>c, <1>11 DEF View!viewVars
<1> QED
  BY <1>1, <1>2, <1>3, <1>4, <1>5, <1>6, <1>8, <1>9, <1>10, <1>11 DEF View!Next

-----------------------------------------------------------------------------
(* The theorems.                                                           *)

LEMMA InitViewInv ==
  ASSUME View!ViewConstants, View!Init
  PROVE  OpenInv /\ KeysInv /\ ScreensInv
<1> USE DEF View!Init
<1>1. /\ left \in ViewPlans /\ window = OpenSize /\ up = <<>> /\ down = <<>> /\ typed = {}
      /\ \A s \in Sessions : grids[s] = View!NewGrid(OpenSize) /\ terms[s] = View!Closed /\ pushed[s] = View!NoLines
      /\ ~widget.scrolled
  BY DEF View!NewWidget
<1>2. Len(up) = 0 /\ Len(down) = 0 /\ \A i \in 1..0 : FALSE
  BY <1>1
<1>c. View!NoLines.text = 0 /\ View!NoLines.back = FALSE /\ View!NoLines.full = FALSE
  BY DEF View!NoLines
<1> HIDE DEF View!Init
<1>3. OpenInv
  BY <1>1, <1>2 DEF OpenInv, Fresh
<1>4. KeysInv
  <2>1. \A s \in Sessions : ~BackInTheEnd(up, s)
    <3>1. \A s \in Sessions : ~terms[s].back
      BY <1>1, ClosedIs
    <3> QED
      BY <1>2, <3>1 DEF BackInTheEnd, BackAfter
  <2> QED
    BY <1>1, <1>2, <2>1 DEF KeysInv, View!KeysAtBottom, Honest
<1>6. ScreensInv
  <2> SUFFICES ASSUME NEW s \in Sessions PROVE SizeInv(s) /\ ScreenInv(s)
    BY DEF ScreensInv
  <2>1. ~View!Open(s)
    BY <1>1, ClosedIs DEF View!Open
  <2>2. pushed[s].text = terms[s].text /\ pushed[s].back = terms[s].back /\ ~pushed[s].full
    BY <1>1, <1>c, ClosedIs
  <2>3. grids[s].first /\ grids[s].pic = View!Blank
    BY <1>1 DEF View!NewGrid
  <2> QED
    BY <1>2, <2>1, <2>2, <2>3 DEF ScreenInv, SizeInv, LastSent
<1> QED
  BY <1>3, <1>4, <1>6

\* The variables keep their types, in a window of any sizes.
THEOREM ViewTypeCorrect == ASSUME View!ViewConstants PROVE View!Spec => []View!TypeOK
<1>1. View!Init => ViewTypes
  BY InitViewTypes
<1>2. ViewTypes /\ [View!Next]_(View!viewVars) => ViewTypes'
  BY StepViewTypes
<1>3. ViewTypes => View!TypeOK
  BY DEF ViewTypes, View!TypeOK, Grids, Terms
<1> QED
  BY <1>1, <1>2, <1>3, PTL DEF View!Spec

\* Keys find their terminal at its bottom, if it was scrolled back on this visit to its tab.
THEOREM KeysFindTheBottom == ASSUME View!ViewConstants PROVE View!Spec => []View!KeysAtBottom
<1> DEFINE Inv == ViewTypes /\ OpenInv /\ KeysInv
<1>1. View!Init => Inv
  BY InitViewTypes, InitViewInv
<1>2. Inv /\ [View!Next]_(View!viewVars) => Inv'
  BY StepViewTypes, StepOpenInv, StepKeysInv
<1>3. Inv => View!KeysAtBottom
  BY DEF KeysInv
<1> QED
  BY <1>1, <1>2, <1>3, PTL DEF View!Spec

\* However often the window has changed its size, when nothing is under way no row of an
\* older screen or of another size is left in a terminal's grid, and the whole current screen
\* is there, but for a terminal that came back to a size between two turns of its push loop.
THEOREM ScreensAreWhole == ASSUME View!ViewConstants PROVE View!Spec => []View!ScreenSettles
<1> DEFINE Inv == ViewTypes /\ OpenInv /\ ScreensInv
<1>1. View!Init => Inv
  BY InitViewTypes, InitViewInv
<1>2. Inv /\ [View!Next]_(View!viewVars) => Inv'
  BY StepViewTypes, StepOpenInv, StepScreensInv
<1>3. Inv => View!ScreenSettles
  BY ScreensArrive
<1> QED
  BY <1>1, <1>2, <1>3, PTL DEF View!Spec

-----------------------------------------------------------------------------
(* The text that is selected.                                              *)
TextLines == [number : Nat, version : Nat]
Views == [start : Nat, rows : [1..Rows -> TextLines]]

SelectionOK(sel) ==
  /\ sel = [set |-> sel.set, anchor |-> sel.anchor, head |-> sel.head, seen |-> sel.seen]
  /\ sel.set \in BOOLEAN /\ sel.anchor \in Nat /\ sel.head \in Nat
  /\ sel.seen \in [DOMAIN sel.seen -> TextLines] /\ DOMAIN sel.seen \subseteq Nat

TextTypes ==
  /\ left \in [Text!TextKinds -> Nat]
  /\ lines \in Seq(TextLines) /\ Len(lines) >= Rows /\ Text!Above <= History
  /\ offset \in 0..Text!Above /\ next \in Nat
  /\ sent \in Views /\ views \in Seq(Views) /\ grid \in Views
  /\ SelectionOK(selection)
  /\ pointer \in 0..Rows /\ picked \in TextLines

LEMMA LineType == ASSUME NEW x \in TextLines PROVE x.number \in Nat /\ x.version \in Nat
  BY DEF TextLines

LEMMA LineIs ==
  ASSUME NEW number \in Nat
  PROVE  Text!Line(number) \in TextLines /\ Text!Line(number).number = number /\ Text!Line(number).version = 0
  BY DEF Text!Line, TextLines

LEMMA ViewType ==
  ASSUME Text!TextConstants, lines \in Seq(TextLines), Len(lines) >= Rows, offset \in 0..Text!Above
  PROVE  Text!View \in Views
<1> DEFINE a == Text!Above - offset
<1>1. a \in Nat /\ a + Rows <= Len(lines) /\ Rows \in Nat \ {0} /\ Len(lines) \in Nat
  BY DEF Text!TextConstants, Text!Above
<1>2. SubSeq(lines, a + 1, a + Rows) \in [1..Rows -> TextLines]
  <2> DEFINE r == SubSeq(lines, a + 1, a + Rows)
  <2>1. \A i \in (a + 1)..(a + Rows) : lines[i] \in TextLines
    BY <1>1
  <2> HIDE DEF a
  <2>2. a + 1 \in Int /\ a + Rows \in Int /\ a + 1 <= a + Rows /\ (a + Rows) - (a + 1) + 1 = Rows
    BY <1>1
  <2>3. r \in Seq(TextLines) /\ Len(r) = IF a + 1 <= a + Rows THEN (a + Rows) - (a + 1) + 1 ELSE 0
    BY <2>1, <2>2, SubSeqProperties, Zenon
  <2> HIDE DEF r
  <2>4. Len(r) = Rows
    BY <2>2, <2>3
  <2>5. r \in [1..Len(r) -> TextLines]
    BY <2>3, LenProperties, Zenon
  <2> QED
    BY <2>4, <2>5 DEF r
<1> QED
  BY <1>1, <1>2, Zenon DEF Text!View, Views

LEMMA InViewType ==
  ASSUME Text!TextConstants, grid \in Views
  PROVE  /\ DOMAIN Text!InView = grid.start .. (grid.start + Rows - 1) /\ DOMAIN Text!InView \subseteq Nat
         /\ Text!InView \in [DOMAIN Text!InView -> TextLines]
         /\ \A row \in DOMAIN Text!InView : Text!InView[row] = grid.rows[row - grid.start + 1]
                                            /\ row - grid.start + 1 \in 1..Rows
<1>0. Rows \in Nat \ {0} /\ grid.start \in Nat /\ grid.rows \in [1..Rows -> TextLines]
  BY DEF Text!TextConstants, Views
<1>1. \A row \in grid.start .. (grid.start + Rows - 1) :
        row \in Nat /\ row - grid.start + 1 \in 1..Rows /\ grid.rows[row - grid.start + 1] \in TextLines
  BY <1>0
<1> QED
  BY <1>0, <1>1 DEF Text!InView

LEMMA SeenType ==
  ASSUME Text!TextConstants, TextTypes
  PROVE  SelectionOK(Text!Seen(selection))
<1>1. CASE ~selection.set
  BY <1>1 DEF TextTypes, Text!Seen
<1>2. CASE selection.set
  <2> DEFINE s == [row \in DOMAIN Text!InView \cup DOMAIN selection.seen |->
                     IF row \in DOMAIN Text!InView THEN Text!InView[row] ELSE selection.seen[row]]
             h == IF pointer # 0 /\ grid.start # last THEN grid.start + pointer - 1 ELSE selection.head
  <2>1. s \in [DOMAIN s -> TextLines] /\ DOMAIN s \subseteq Nat
    BY InViewType DEF TextTypes, SelectionOK
  <2>2. h \in Nat
    BY DEF Text!TextConstants, TextTypes, SelectionOK, Views
  <2>3. Text!Seen(selection) = [set |-> selection.set, anchor |-> selection.anchor, head |-> h, seen |-> s]
    BY <1>2 DEF Text!Seen, TextTypes, SelectionOK
  <2> QED
    BY <2>1, <2>2, <2>3 DEF TextTypes, SelectionOK
<1> QED
  BY <1>1, <1>2

LEMMA InitTextTypes == Text!TextConstants /\ Text!Init => TextTypes
<1> SUFFICES ASSUME Text!TextConstants, Text!Init PROVE TextTypes
  OBVIOUS
<1>0. Rows \in Nat \ {0} /\ Rows + 1 \in Nat
  BY DEF Text!TextConstants
<1>1. lines \in Seq(TextLines) /\ Len(lines) = Rows + 1
  <2>1. lines = [i \in 1..(Rows + 1) |-> Text!Line(i)]
    BY DEF Text!Init
  <2>2. \A i \in 1..(Rows + 1) : Text!Line(i) \in TextLines
    BY LineIs
  <2> QED
    BY <1>0, <2>1, <2>2
<1>2. Text!Above = 1 /\ offset \in 0..Text!Above /\ Text!Above <= History
  BY <1>1 DEF Text!TextConstants, Text!Init, Text!Above
<1>3. Text!View \in Views
  BY <1>1, <1>2, ViewType DEF Text!TextConstants
<1>4. SelectionOK(selection)
  BY DEF Text!Init, Text!NoSelection, SelectionOK
<1>5. picked \in TextLines
  BY LineIs DEF Text!Init, Text!Missing
<1>6. sent \in Views /\ grid \in Views /\ views \in Seq(Views)
  BY <1>3 DEF Text!Init
<1>7. left \in [Text!TextKinds -> Nat] /\ pointer \in 0..Rows /\ next \in Nat
  BY <1>0 DEF Text!TextConstants, Text!Init
<1> QED
  BY <1>0, <1>1, <1>2, <1>4, <1>5, <1>6, <1>7 DEF TextTypes

\* The last line is written again: it has a version more, and the others are as they were.
LEMMA RewrittenLines ==
  ASSUME NEW ls \in Seq(TextLines), NEW k \in 1..Len(ls)
  PROVE  LET new == [ls EXCEPT ![k].version = @ + 1]
         IN  /\ new \in Seq(TextLines) /\ Len(new) = Len(ls)
             /\ \A i \in 1..Len(ls) : new[i].number = ls[i].number /\ new[i].version >= ls[i].version
<1> DEFINE line == [ls[k] EXCEPT !.version = @ + 1]
           new == [ls EXCEPT ![k] = line]
<1>1. ls[k] \in TextLines /\ Len(ls) \in Nat
  OBVIOUS
<1>2. line \in TextLines /\ line.number = ls[k].number /\ line.version = ls[k].version + 1
  <2>1. ASSUME NEW l \in TextLines, NEW n \in Nat
        PROVE  [l EXCEPT !.version = n] \in TextLines /\ [l EXCEPT !.version = n].number = l.number
               /\ [l EXCEPT !.version = n].version = n
    BY DEF TextLines
  <2>2. ls[k].version + 1 \in Nat /\ line = [ls[k] EXCEPT !.version = ls[k].version + 1]
    BY <1>1, LineType
  <2> QED
    BY <1>1, <2>1, <2>2
<1>3. new = [ls EXCEPT ![k].version = @ + 1]
  OBVIOUS
<1> HIDE DEF line
<1>4. new \in Seq(TextLines) /\ Len(new) = Len(ls)
  BY <1>2
<1>5. \A i \in 1..Len(ls) : new[i] = IF i = k THEN line ELSE ls[i]
  BY <1>1
<1>6. ASSUME NEW i \in 1..Len(ls) PROVE new[i].number = ls[i].number /\ new[i].version >= ls[i].version
  <2>1. ls[i] \in TextLines
    OBVIOUS
  <2> QED
    BY <1>1, <1>2, <1>5, <2>1 DEF TextLines
<1> HIDE DEF new
<1>7. [ls EXCEPT ![k].version = @ + 1] = new
  BY <1>3
<1> QED
  BY <1>4, <1>6, <1>7, Zenon

LEMMA UseText ==
  ASSUME left \in [Text!TextKinds -> Nat], NEW what \in Text!TextKinds, Text!Use(what)
  PROVE  left' \in [Text!TextKinds -> Nat] /\ \A w \in Text!TextKinds : left'[w] <= left[w]
  BY DEF Text!Use

LEMMA StepTextTypes == Text!TextConstants /\ TextTypes /\ [Text!Next]_(Text!selectionVars) => TextTypes'
<1> SUFFICES ASSUME Text!TextConstants, TextTypes, [Text!Next]_(Text!selectionVars) PROVE TextTypes'
  OBVIOUS
<1> USE DEF TextTypes
<1>0. /\ Rows \in Nat \ {0} /\ History \in Nat \ {0} /\ Len(lines) \in Nat
      /\ Text!Above \in Nat /\ Text!Above = Len(lines) - Rows
  BY DEF Text!TextConstants, Text!Above
<1>1. CASE Text!Write
  <2>0. Text!Line(next) \in TextLines
    BY LineIs
  <2>1. left' \in [Text!TextKinds -> Nat] /\ next' \in Nat
    BY <1>1, UseText DEF Text!Write, Text!TextKinds
  <2>2. CASE Text!Above = History
    <3>1. lines # <<>> /\ Tail(lines) \in Seq(TextLines) /\ Len(Tail(lines)) = Len(lines) - 1
      BY <1>0, <2>2
    <3>2. lines' = Append(Tail(lines), Text!Line(next))
      BY <1>1, <2>2 DEF Text!Write
    <3>3. lines' \in Seq(TextLines) /\ Len(lines') = Len(lines)
      BY <2>0, <3>1, <3>2
    <3>4. offset' = IF offset = 0 THEN 0 ELSE Text!Lower(offset + 1, History)
      BY <1>1, <2>2 DEF Text!Write
    <3>5. Text!Above' = Text!Above
      BY <3>3 DEF Text!Above
    <3>6. offset' \in 0..Text!Above'
      BY <1>0, <2>2, <3>4, <3>5 DEF Text!Lower
    <3>7. Len(lines') >= Rows /\ Text!Above' <= History
      BY <1>0, <2>2, <3>3, <3>5
    <3>8. UNCHANGED <<sent, views, grid, selection, pointer, picked>>
      BY <1>1 DEF Text!Write, Text!widgetVars
    <3> QED
      BY <2>1, <3>3, <3>6, <3>7, <3>8
  <2>3. CASE Text!Above # History
    <3>0. Text!Above < History
      BY <1>0, <2>3
    <3>1. lines' = Append(lines, Text!Line(next))
      BY <1>1, <2>3 DEF Text!Write
    <3>2. lines' \in Seq(TextLines) /\ Len(lines') = Len(lines) + 1
      BY <2>0, <3>1
    <3>3. offset' = IF offset = 0 THEN 0 ELSE Text!Lower(offset + 1, Text!Above + 1)
      BY <1>1, <2>3 DEF Text!Write
    <3>4. Text!Above' = Text!Above + 1
      BY <1>0, <3>2 DEF Text!Above
    <3>5. offset' \in 0..Text!Above'
      BY <1>0, <3>3, <3>4 DEF Text!Lower
    <3>6. Len(lines') >= Rows /\ Text!Above' <= History
      <4>1. Len(lines) >= Rows
        OBVIOUS
      <4> HIDE DEF TextTypes
      <4>2. Len(lines') >= Rows
        BY <1>0, <3>2, <4>1
      <4>3. Text!Above' <= History
        BY <1>0, <3>0, <3>4
      <4> QED
        BY <4>2, <4>3
    <3>7. UNCHANGED <<sent, views, grid, selection, pointer, picked>>
      BY <1>1 DEF Text!Write, Text!widgetVars
    <3> QED
      BY <2>1, <3>2, <3>5, <3>6, <3>7
  <2> QED
    BY <2>2, <2>3
<1>2. CASE Text!Rewrite
  <2>1. left' \in [Text!TextKinds -> Nat] /\ next' \in Nat
    BY <1>2, UseText DEF Text!Rewrite, Text!TextKinds
  <2>2. lines' \in Seq(TextLines) /\ Len(lines') = Len(lines)
    <3>1. Len(lines) \in 1..Len(lines)
      BY <1>0
    <3> QED
      BY <1>2, <3>1, RewrittenLines DEF Text!Rewrite
  <2>3. Text!Above' = Text!Above
    BY <2>2 DEF Text!Above
  <2>4. UNCHANGED <<offset, sent, views, grid, selection, pointer, picked>>
    BY <1>2 DEF Text!Rewrite, Text!widgetVars
  <2>5. Len(lines') >= Rows /\ Text!Above' <= History /\ offset' \in 0..Text!Above'
    BY <2>2, <2>3, <2>4
  <2> QED
    BY <2>1, <2>2, <2>4, <2>5
<1>3. CASE Text!Tick
  <2>1. Text!View \in Views
    BY ViewType
  <2>2. sent' \in Views /\ views' \in Seq(Views)
    BY <1>3, <2>1 DEF Text!Tick
  <2> QED
    BY <1>3, <2>2 DEF Text!Tick, Text!widgetVars, Views, Text!Above
<1>4. CASE Text!Receive
  <2>1. grid' \in Views /\ views' \in Seq(Views)
    BY <1>4 DEF Text!Receive
  <2> QED
    BY <1>4, <2>1 DEF Text!Receive, Views, Text!Above
<1>5. CASE Text!Notice \/ Text!Release \/ Text!Copy
  <2>1. selection' = Text!Seen(selection) /\ pointer' \in {0, pointer} /\ UNCHANGED <<Text!daemonVars, picked>>
    BY <1>5 DEF Text!Notice, Text!Release, Text!Copy
  <2>2. left' \in [Text!TextKinds -> Nat]
    BY <1>5, UseText DEF Text!Notice, Text!Release, Text!Copy, Text!TextKinds
  <2> QED
    BY <1>0, <2>1, <2>2, SeenType DEF Text!daemonVars, Text!Above
<1>6. CASE Text!Key
  <2>1. selection' = Text!NoSelection /\ pointer' = 0 /\ UNCHANGED <<Text!daemonVars, left>> /\ picked' = Text!Missing
    BY <1>6 DEF Text!Key
  <2>2. SelectionOK(Text!NoSelection)
    BY DEF SelectionOK, Text!NoSelection
  <2> QED
    BY <2>1, <2>2, <1>0, LineIs DEF Text!daemonVars, Text!Above, Text!Missing
<1>7. ASSUME NEW r \in 1..Rows, Text!Press(r) PROVE TextTypes'
  <2>1. left' \in [Text!TextKinds -> Nat]
    BY <1>7, UseText DEF Text!Press, Text!TextKinds
  <2>2. grid.start + r - 1 \in Nat
    BY DEF Views
  <2>3. SelectionOK(selection')
    BY <1>7, <2>2, InViewType DEF Text!Press, SelectionOK
  <2>4. pointer' = r /\ UNCHANGED Text!daemonVars /\ picked' = grid.rows[r] /\ grid.rows[r] \in TextLines
    BY <1>7 DEF Text!Press, Views
  <2> QED
    BY <2>1, <2>3, <2>4, <1>0 DEF Text!daemonVars, Text!Above
<1>8. ASSUME NEW r \in 1..Rows, Text!Move(r) PROVE TextTypes'
  <2>1. grid.start + r - 1 \in Nat
    BY DEF Views
  <2>2. SelectionOK(selection')
    BY <1>8, <2>1, SeenType DEF Text!Move, SelectionOK
  <2>3. pointer' = r /\ UNCHANGED <<Text!daemonVars, picked, left>>
    BY <1>8 DEF Text!Move
  <2> QED
    BY <2>2, <2>3, <1>0 DEF Text!daemonVars, Text!Above
<1>9. ASSUME NEW n \in Jumps, Text!Wheel(n) PROVE TextTypes'
  <2>1. left' \in [Text!TextKinds -> Nat]
    BY <1>9, UseText DEF Text!Wheel, Text!TextKinds
  <2>2. offset' \in 0..Text!Above
    BY <1>0, <1>9 DEF Text!Wheel, Text!Upper, Text!Lower, Text!TextConstants
  <2>3. selection' = Text!Seen(selection) /\ UNCHANGED <<lines, next, sent, views, grid, pointer, picked>>
    BY <1>9 DEF Text!Wheel
  <2> QED
    BY <2>1, <2>2, <2>3, SeenType DEF Views, Text!Above
<1>10. CASE UNCHANGED Text!selectionVars
  BY <1>10 DEF Text!selectionVars, Views, Text!Above
<1> QED
  BY <1>1, <1>2, <1>3, <1>4, <1>5, <1>6, <1>7, <1>8, <1>9, <1>10 DEF Text!Next
-----------------------------------------------------------------------------
(* What a row number stands for.  The lines follow on one another; row n   *)
(* of a view is line n + 1 and as many more as had left the history when   *)
(* the view was taken, and that number never goes back from one view to    *)
(* the next (ViewsInv).  So what was seen of a row since the selection was *)
(* begun lies between the line it was then and the line it is in the       *)
(* newest view, and of the line it was begun at no older text comes        *)
(* (SelectInv).                                                            *)

LineUp(ls, n) ==
  /\ Len(ls) >= 1 /\ ls[1].number >= 1 /\ n = ls[1].number + Len(ls)
  /\ \A i \in 1..Len(ls) : ls[i].number = ls[1].number + i - 1

Straight(v) == Text!LostIn(v) \in Nat /\ \A i \in 1..Rows : v.rows[i].number = v.start + i + Text!LostIn(v)

\* A view was taken of these lines or of older ones; a view was taken before another.
Behind(v, ls, n) ==
  /\ Text!LostIn(v) <= ls[1].number - 1
  /\ \A i \in 1..Rows :
       /\ v.rows[i].number < n
       /\ \A j \in 1..Len(ls) : v.rows[i].number = ls[j].number => v.rows[i].version <= ls[j].version
Before(v, w) ==
  /\ Text!LostIn(v) <= Text!LostIn(w)
  /\ \A i, j \in 1..Rows : v.rows[i].number = w.rows[j].number => v.rows[i].version <= w.rows[j].version

InOrder(v, vs) ==
  /\ \A i \in 1..Len(vs) : Before(v, vs[i])
  /\ \A i, j \in 1..Len(vs) : i < j => Before(vs[i], vs[j])

ViewsInv ==
  /\ LineUp(lines, next)
  /\ Straight(grid) /\ Behind(grid, lines, next)
  /\ \A i \in 1..Len(views) : Straight(views[i]) /\ Behind(views[i], lines, next)
  /\ InOrder(grid, views)

\* No older text of a line is in a view, or among the lines.
NoOlder(p, v) == \A i \in 1..Rows : v.rows[i].number = p.number => v.rows[i].version >= p.version
NoOlderLine(p, ls, n) ==
  p.number < n /\ \A j \in 1..Len(ls) : ls[j].number = p.number => ls[j].version >= p.version

\* What was seen, in a selection begun at a line, after a number of lines was lost.
SeenOf(sel, p, lost) ==
  /\ p.number - (sel.anchor + 1) \in 0..lost
  /\ \A row \in DOMAIN sel.seen :
       /\ sel.seen[row].number \in (row + p.number - sel.anchor) .. (row + 1 + lost)
       /\ sel.seen[row].number = p.number => sel.seen[row].version >= p.version

SelectInv ==
  selection.set =>
    /\ SeenOf(selection, picked, Text!LostIn(grid))
    /\ NoOlder(picked, grid) /\ NoOlderLine(picked, lines, next)
    /\ \A i \in 1..Len(views) : NoOlder(picked, views[i])

\* The lines changed by nothing but a newer text of some or newer lines.
Grown(ls, n, new, m) ==
  /\ n <= m /\ Len(new) >= 1 /\ ls[1].number <= new[1].number
  /\ \A j \in 1..Len(new) :
       \/ new[j].number >= n
       \/ \E k \in 1..Len(ls) : new[j].number = ls[k].number /\ new[j].version >= ls[k].version

LEMMA BehindGrown ==
  ASSUME Rows \in Nat, NEW v \in Views, NEW ls \in Seq(TextLines), NEW new \in Seq(TextLines), NEW n \in Nat, NEW m \in Nat,
         Len(ls) >= 1, Straight(v), Behind(v, ls, n), Grown(ls, n, new, m)
  PROVE  Behind(v, new, m)
<1>1. Text!LostIn(v) <= new[1].number - 1
  <2>1. ls[1].number \in Nat /\ new[1].number \in Nat /\ Text!LostIn(v) \in Nat
    BY LineType DEF Grown, Straight
  <2>2. Text!LostIn(v) <= ls[1].number - 1 /\ ls[1].number <= new[1].number
    BY DEF Grown, Behind
  <2> QED
    BY <2>1, <2>2
<1>2. ASSUME NEW i \in 1..Rows PROVE v.rows[i].number < m
  <2>1. v.rows[i].number < n /\ n <= m /\ v.rows[i] \in TextLines
    BY DEF Behind, Grown, Views
  <2> QED
    BY <2>1 DEF TextLines
<1>3. ASSUME NEW i \in 1..Rows, NEW j \in 1..Len(new), v.rows[i].number = new[j].number
      PROVE  v.rows[i].version <= new[j].version
  <2>0. v.rows[i] \in TextLines /\ new[j] \in TextLines
    BY DEF Views
  <2>1. v.rows[i].number < n
    BY DEF Behind
  <2>2. ~(new[j].number >= n)
    BY <1>3, <2>0, <2>1 DEF TextLines
  <2>3. PICK k \in 1..Len(ls) : new[j].number = ls[k].number /\ new[j].version >= ls[k].version
    BY <2>2 DEF Grown
  <2>4. v.rows[i].version <= ls[k].version
    BY <1>3, <2>3 DEF Behind
  <2>5. v.rows[i].version \in Nat /\ ls[k].version \in Nat /\ new[j].version \in Nat
    BY <2>0, LineType
  <2> QED
    BY <2>3, <2>4, <2>5
<1> QED
  BY <1>1, <1>2, <1>3 DEF Behind

LEMMA NoOlderGrown ==
  ASSUME NEW p \in TextLines, NEW ls \in Seq(TextLines), NEW new \in Seq(TextLines), NEW n \in Nat, NEW m \in Nat,
         NoOlderLine(p, ls, n), Grown(ls, n, new, m)
  PROVE  NoOlderLine(p, new, m)
<1>1. p.number < n /\ n <= m /\ p.number \in Nat /\ p.version \in Nat
  BY DEF NoOlderLine, Grown, TextLines
<1>2. ASSUME NEW j \in 1..Len(new), new[j].number = p.number PROVE new[j].version >= p.version
  <2>1. ~(new[j].number >= n) /\ new[j] \in TextLines
    BY <1>1, <1>2
  <2>2. PICK k \in 1..Len(ls) : new[j].number = ls[k].number /\ new[j].version >= ls[k].version
    BY <2>1 DEF Grown
  <2>3. ls[k].version >= p.version
    BY <1>2, <2>2 DEF NoOlderLine
  <2>4. ls[k].version \in Nat /\ new[j].version \in Nat
    BY LineType
  <2> QED
    BY <1>1, <2>2, <2>3, <2>4
<1> QED
  BY <1>1, <1>2 DEF NoOlderLine

\* The view that would be taken now.
LEMMA ViewRows ==
  ASSUME Text!TextConstants, TextTypes
  PROVE  LET a == Text!Above - offset
         IN  /\ Text!View.start = a /\ a \in Nat /\ a + Rows <= Len(lines)
             /\ \A i \in 1..Rows : Text!View.rows[i] = lines[a + i] /\ a + i \in 1..Len(lines)
<1> DEFINE a == Text!Above - offset
<1>1. a \in Nat /\ a + Rows <= Len(lines) /\ Rows \in Nat \ {0} /\ Len(lines) \in Nat
  BY DEF Text!TextConstants, TextTypes, Text!Above
<1>2. \A i \in (a + 1)..(a + Rows) : lines[i] \in TextLines
  BY <1>1 DEF TextTypes
<1>3. Text!View.start = a /\ Text!View.rows = SubSeq(lines, a + 1, a + Rows)
  BY DEF Text!View
<1> HIDE DEF a
<1>4. a + 1 \in Int /\ a + Rows \in Int /\ (a + Rows) - (a + 1) + 1 = Rows
  BY <1>1
<1>5. \A i \in 1..((a + Rows) - (a + 1) + 1) : Text!View.rows[i] = lines[(a + 1) + i - 1]
  <2> DEFINE m == a + 1
             n == a + Rows
  <2>0. m \in Int /\ n \in Int /\ \A i \in m..n : lines[i] \in TextLines
    BY <1>2, <1>4
  <2> HIDE DEF m, n
  <2>1. \A i \in 1..(n - m + 1) : SubSeq(lines, m, n)[i] = lines[m + i - 1]
    BY <2>0, SubSeqProperties
  <2> USE DEF m, n
  <2> QED
    BY <1>3, <2>1, Zenon
<1>6. ASSUME NEW i \in 1..Rows PROVE Text!View.rows[i] = lines[a + i] /\ a + i \in 1..Len(lines)
  <2>1. i \in 1..((a + Rows) - (a + 1) + 1) /\ (a + 1) + i - 1 = a + i
    BY <1>1
  <2>2. Text!View.rows[i] = lines[(a + 1) + i - 1]
    BY <1>5, <2>1
  <2>3. a + i \in 1..Len(lines)
    BY <1>1
  <2> QED
    BY <2>1, <2>2, <2>3
<1>7. a = Text!Above - offset
  BY DEF a
<1> QED
  BY <1>1, <1>3, <1>6, <1>7, Zenon

LEMMA StraightView ==
  ASSUME Text!TextConstants, TextTypes, LineUp(lines, next)
  PROVE  /\ Straight(Text!View) /\ Behind(Text!View, lines, next)
         /\ Text!LostIn(Text!View) = lines[1].number - 1
<1> DEFINE a == Text!Above - offset
           v == Text!View
<1>0. Rows \in Nat \ {0} /\ Len(lines) \in Nat /\ Len(lines) >= 1 /\ next \in Nat
  BY DEF Text!TextConstants, TextTypes, LineUp
<1>1. /\ v.start = a /\ a \in Nat /\ a + Rows <= Len(lines)
      /\ \A i \in 1..Rows : v.rows[i] = lines[a + i] /\ a + i \in 1..Len(lines)
  BY ViewRows, Zenon
<1> HIDE DEF a, v
<1>2. \A i \in 1..Len(lines) : lines[i] \in TextLines /\ lines[i].number = lines[1].number + i - 1
  BY DEF TextTypes, LineUp
<1>3. lines[1].number \in Nat /\ lines[1].number >= 1 /\ next = lines[1].number + Len(lines)
  BY <1>0, <1>2 DEF LineUp, TextLines
<1>4. \A i \in 1..Rows : v.rows[i].number = lines[1].number + a + i - 1
  <2> SUFFICES ASSUME NEW i \in 1..Rows PROVE v.rows[i].number = lines[1].number + a + i - 1
    OBVIOUS
  <2>1. v.rows[i] = lines[a + i] /\ a + i \in 1..Len(lines)
    BY <1>1
  <2>2. lines[a + i].number = lines[1].number + (a + i) - 1
    BY <1>2, <2>1
  <2>3. a \in Nat /\ i \in Nat /\ lines[1].number \in Nat
    BY <1>1, <1>3
  <2> DEFINE b == lines[1].number
  <2> HIDE DEF b
  <2>4. b + (a + i) - 1 = b + a + i - 1
    BY <2>3 DEF b
  <2> QED
    BY <2>1, <2>2, <2>4 DEF b
<1>5. Text!LostIn(v) = lines[1].number - 1
  <2>1. v.rows[1].number = lines[1].number + a + 1 - 1
    BY <1>0, <1>4
  <2> QED
    BY <1>1, <1>3, <2>1 DEF Text!LostIn
<1>6. Straight(v)
  <2> DEFINE b == lines[1].number
  <2>1. b \in Nat /\ b >= 1
    BY <1>3
  <2>2. \A i \in 1..Rows : v.rows[i].number = b + a + i - 1
    BY <1>4
  <2>3. Text!LostIn(v) = b - 1
    BY <1>5
  <2> HIDE DEF b
  <2>4. ASSUME NEW i \in 1..Rows PROVE v.rows[i].number = v.start + i + Text!LostIn(v)
    <3>1. b + a + i - 1 = a + i + (b - 1)
      BY <1>1, <2>1
    <3> QED
      BY <1>1, <2>2, <2>3, <3>1
  <2> QED
    BY <2>1, <2>3, <2>4 DEF Straight
<1>7. ASSUME NEW i \in 1..Rows
      PROVE  /\ v.rows[i].number < next
             /\ \A j \in 1..Len(lines) : v.rows[i].number = lines[j].number => v.rows[i].version <= lines[j].version
  <2>1. v.rows[i] = lines[a + i] /\ a + i \in 1..Len(lines)
    BY <1>1
  <2>2. v.rows[i].number < next
    BY <1>0, <1>1, <1>3, <1>4
  <2>3. ASSUME NEW j \in 1..Len(lines), v.rows[i].number = lines[j].number
        PROVE  v.rows[i].version <= lines[j].version
    <3>1. lines[j].number = lines[1].number + j - 1 /\ v.rows[i].number = lines[1].number + a + i - 1
      BY <1>2, <1>4
    <3>2. j = a + i
      BY <1>1, <1>3, <2>3, <3>1
    <3> QED
      BY <1>2, <2>1, <3>2 DEF TextLines
  <2> QED
    BY <2>2, <2>3
<1> QED
  BY <1>3, <1>5, <1>6, <1>7 DEF Behind, v

LEMMA BeforeView ==
  ASSUME Text!TextConstants, TextTypes, LineUp(lines, next), NEW w, Behind(w, lines, next)
  PROVE  Before(w, Text!View)
<1>1. Text!LostIn(w) <= Text!LostIn(Text!View)
  BY StraightView DEF Behind
<1>2. ASSUME NEW i \in 1..Rows, NEW j \in 1..Rows, w.rows[i].number = Text!View.rows[j].number
      PROVE  w.rows[i].version <= Text!View.rows[j].version
  <2>1. PICK k \in 1..Len(lines) : Text!View.rows[j] = lines[k]
    BY ViewRows
  <2> QED
    BY <1>2, <2>1 DEF Behind
<1> QED
  BY <1>1, <1>2 DEF Before

LEMMA NoOlderInView ==
  ASSUME Text!TextConstants, TextTypes, NEW p, NoOlderLine(p, lines, next)
  PROVE  NoOlder(p, Text!View)
<1> SUFFICES ASSUME NEW i \in 1..Rows, Text!View.rows[i].number = p.number
             PROVE  Text!View.rows[i].version >= p.version
  BY DEF NoOlder
<1>1. PICK k \in 1..Len(lines) : Text!View.rows[i] = lines[k]
  BY ViewRows
<1> QED
  BY <1>1 DEF NoOlderLine

-----------------------------------------------------------------------------
LEMMA LinesGrow ==
  ASSUME Text!TextConstants, TextTypes, LineUp(lines, next), Text!Write \/ Text!Rewrite
  PROVE  Grown(lines, next, lines', next') /\ LineUp(lines', next')
<1>0. /\ Rows \in Nat \ {0} /\ History \in Nat \ {0} /\ Len(lines) \in Nat /\ Len(lines) >= Rows
      /\ lines \in Seq(TextLines) /\ next \in Nat
      /\ \A i \in 1..Len(lines) : lines[i].number \in Nat /\ lines[i].version \in Nat
  BY LineType DEF Text!TextConstants, TextTypes
<1>1. CASE Text!Rewrite
  <2>1. Len(lines) \in 1..Len(lines) /\ next' = next
    BY <1>0, <1>1 DEF Text!Rewrite
  <2>2. lines' = [lines EXCEPT ![Len(lines)].version = @ + 1]
    BY <1>1 DEF Text!Rewrite
  <2>3. Len(lines') = Len(lines) /\ \A i \in 1..Len(lines) : lines'[i].number = lines[i].number
                                                           /\ lines'[i].version >= lines[i].version
    BY <1>0, <2>1, <2>2, RewrittenLines
  <2> QED
    BY <1>0, <2>1, <2>3 DEF LineUp, Grown
<1>2. CASE Text!Write
  <2> DEFINE line == Text!Line(next)
  <2>0. line \in TextLines /\ line.number = next /\ next' = next + 1
    BY <1>0, <1>2, LineIs DEF Text!Write
  <2> HIDE DEF line
  <2>1. CASE Text!Above = History
    <3>1. lines' = Append(Tail(lines), line)
      BY <1>2, <2>1 DEF Text!Write, line
    <3>2. Len(lines) >= 2
      BY <1>0, <2>1 DEF Text!Above
    <3>3. Len(lines') = Len(lines) /\ \A i \in 1..Len(lines) : lines'[i] = IF i = Len(lines) THEN line ELSE lines[i + 1]
      BY <1>0, <2>0, <3>1, <3>2
    <3>4. lines[2].number = lines[1].number + 1 /\ lines'[1] = lines[2]
      <4>1. 2 \in 1..Len(lines) /\ 1 \in 1..Len(lines) /\ Len(lines) # 1
        BY <1>0, <3>2
      <4>2. lines[2].number = lines[1].number + 2 - 1
        BY <4>1 DEF LineUp
      <4> QED
        BY <1>0, <3>3, <4>1, <4>2
    <3>5. Grown(lines, next, lines', next')
      <4>1. ASSUME NEW j \in 1..Len(lines')
            PROVE  \/ lines'[j].number >= next
                   \/ \E k \in 1..Len(lines) : lines'[j].number = lines[k].number /\ lines'[j].version >= lines[k].version
        <5>1. CASE j = Len(lines)
          BY <1>0, <2>0, <3>3, <5>1
        <5>2. CASE j # Len(lines)
          <6>1. lines'[j] = lines[j + 1] /\ j + 1 \in 1..Len(lines)
            BY <1>0, <3>3, <5>2
          <6>2. lines[j + 1].version \in Nat
            BY <1>0, <6>1
          <6>3. lines'[j].number = lines[j + 1].number /\ lines'[j].version >= lines[j + 1].version
            BY <6>1, <6>2
          <6> QED
            BY <6>1, <6>3
        <5> QED
          BY <5>1, <5>2
      <4>2. next <= next' /\ Len(lines') >= 1 /\ lines[1].number <= lines'[1].number
        BY <1>0, <2>0, <3>2, <3>3, <3>4
      <4> QED
        BY <4>1, <4>2 DEF Grown
    <3>6. LineUp(lines', next')
      <4> DEFINE b == lines[1].number
      <4>1. b \in Nat /\ b >= 1 /\ next = b + Len(lines) /\ lines'[1].number = b + 1
        BY <1>0, <3>2, <3>4 DEF LineUp
      <4>2. \A i \in 1..Len(lines) : lines[i].number = b + i - 1
        BY DEF LineUp
      <4> HIDE DEF b
      <4>3. ASSUME NEW i \in 1..Len(lines') PROVE lines'[i].number = lines'[1].number + i - 1
        <5>1. CASE i = Len(lines)
          BY <1>0, <2>0, <3>3, <4>1, <5>1
        <5>2. CASE i # Len(lines)
          <6>1. lines'[i] = lines[i + 1] /\ i + 1 \in 1..Len(lines)
            BY <1>0, <3>3, <5>2
          <6>2. lines[i + 1].number = b + (i + 1) - 1
            BY <4>2, <6>1
          <6> QED
            BY <1>0, <4>1, <6>1, <6>2
        <5> QED
          BY <5>1, <5>2
      <4>4. next' = lines'[1].number + Len(lines') /\ Len(lines') >= 1 /\ lines'[1].number >= 1
        BY <1>0, <2>0, <3>2, <3>3, <4>1
      <4> QED
        BY <4>3, <4>4 DEF LineUp
    <3> QED
      BY <3>5, <3>6
  <2>2. CASE Text!Above # History
    <3>1. lines' = Append(lines, line)
      BY <1>2, <2>2 DEF Text!Write, line
    <3>2. Len(lines') = Len(lines) + 1 /\ \A i \in 1..Len(lines') : lines'[i] = IF i = Len(lines) + 1 THEN line ELSE lines[i]
      <4>1. lines \in Seq(TextLines) /\ line \in TextLines /\ Len(lines) \in Nat
        BY <1>0, <2>0
      <4> QED
        BY <3>1, <4>1
    <3>3. lines'[1] = lines[1]
      BY <1>0, <3>2
    <3>4. Grown(lines, next, lines', next')
      <4>1. ASSUME NEW j \in 1..Len(lines')
            PROVE  \/ lines'[j].number >= next
                   \/ \E k \in 1..Len(lines) : lines'[j].number = lines[k].number /\ lines'[j].version >= lines[k].version
        <5>1. CASE j = Len(lines) + 1
          BY <1>0, <2>0, <3>2, <5>1
        <5>2. CASE j # Len(lines) + 1
          <6>1. lines'[j] = lines[j] /\ j \in 1..Len(lines)
            <7>1. lines'[j] = lines[j] /\ j \in 1..(Len(lines) + 1) /\ Len(lines) \in Nat
              BY <1>0, <3>2, <5>2
            <7> QED
              BY <5>2, <7>1
          <6>2. lines[j].version \in Nat
            BY <1>0, <6>1
          <6> QED
            BY <6>1, <6>2
        <5> QED
          BY <5>1, <5>2
      <4>2. next <= next' /\ Len(lines') >= 1 /\ lines[1].number <= lines'[1].number
        BY <1>0, <2>0, <3>2, <3>3
      <4> QED
        BY <4>1, <4>2 DEF Grown
    <3>5. LineUp(lines', next')
      <4> DEFINE b == lines[1].number
      <4>1. b \in Nat /\ b >= 1 /\ next = b + Len(lines) /\ lines'[1].number = b
        BY <1>0, <3>3 DEF LineUp
      <4>2. \A i \in 1..Len(lines) : lines[i].number = b + i - 1
        BY DEF LineUp
      <4> HIDE DEF b
      <4>3. ASSUME NEW i \in 1..Len(lines') PROVE lines'[i].number = lines'[1].number + i - 1
        <5>1. CASE i = Len(lines) + 1
          BY <1>0, <2>0, <3>2, <4>1, <5>1
        <5>2. CASE i # Len(lines) + 1
          BY <1>0, <3>2, <4>1, <4>2, <5>2
        <5> QED
          BY <5>1, <5>2
      <4>4. next' = lines'[1].number + Len(lines') /\ Len(lines') >= 1 /\ lines'[1].number >= 1
        BY <1>0, <2>0, <3>2, <4>1
      <4> QED
        BY <4>3, <4>4 DEF LineUp
    <3> QED
      BY <3>4, <3>5
  <2> QED
    BY <2>1, <2>2
<1> QED
  BY <1>1, <1>2

LEMMA InitTextInv ==
  ASSUME Text!TextConstants, Text!Init
  PROVE  TextTypes /\ ViewsInv /\ SelectInv /\ Text!NoWrongLine
<1>1. TextTypes
  BY InitTextTypes
<1>2. Text!NoWrongLine /\ SelectInv
  BY DEF Text!Init, Text!NotCopied, Text!NoWrongLine, SelectInv, Text!NoSelection
<1>3. LineUp(lines, next)
  <2>1. Rows \in Nat /\ lines = [i \in 1..(Rows + 1) |-> Text!Line(i)] /\ next = Rows + 2
    BY DEF Text!Init, Text!TextConstants
  <2>2. lines \in Seq(TextLines)
    BY <1>1 DEF TextTypes
  <2>3. Len(lines) = Rows + 1
    BY <2>1, <2>2
  <2>4. \A i \in 1..Len(lines) : lines[i].number = i
    BY <2>1, <2>3, LineIs
  <2>5. lines[1].number = 1
    BY <2>1, <2>3, <2>4
  <2> QED
    BY <2>1, <2>3, <2>4, <2>5 DEF LineUp
<1>4. grid = Text!View /\ views = <<>>
  BY DEF Text!Init
<1> QED
  BY <1>1, <1>2, <1>3, <1>4, StraightView DEF ViewsInv, InOrder

LEMMA StepViewsInv ==
  ASSUME Text!TextConstants, TextTypes, TextTypes', ViewsInv, [Text!Next]_(Text!selectionVars)
  PROVE  ViewsInv'
<1>0. /\ Rows \in Nat /\ lines \in Seq(TextLines) /\ lines' \in Seq(TextLines) /\ next \in Nat /\ next' \in Nat
      /\ grid \in Views /\ views \in Seq(Views) /\ Len(views) \in Nat /\ \A i \in 1..Len(views) : views[i] \in Views
  BY DEF Text!TextConstants, TextTypes
<1>1. CASE Text!Write \/ Text!Rewrite
  <2>1. Grown(lines, next, lines', next') /\ LineUp(lines', next') /\ UNCHANGED <<grid, views>>
    BY <1>1, LinesGrow DEF ViewsInv, Text!Write, Text!Rewrite, Text!widgetVars
  <2>2. Len(lines) >= 1
    BY DEF ViewsInv, LineUp
  <2>3. Behind(grid, lines', next')
    BY <1>0, <2>1, <2>2, BehindGrown DEF ViewsInv
  <2>4. \A i \in 1..Len(views) : Behind(views[i], lines', next')
    BY <1>0, <2>1, <2>2, BehindGrown DEF ViewsInv
  <2> QED
    BY <2>1, <2>3, <2>4 DEF ViewsInv
<1>2. CASE Text!Tick
  <2> DEFINE v == Text!View
  <2>1. v \in Views
    BY ViewType DEF TextTypes
  <2>2. Straight(v) /\ Behind(v, lines, next)
    BY StraightView DEF ViewsInv
  <2>3. Before(grid, v) /\ \A i \in 1..Len(views) : Before(views[i], v)
    BY BeforeView DEF ViewsInv
  <2>4. views' = Append(views, v) /\ UNCHANGED <<lines, next, grid>>
    BY <1>2 DEF Text!Tick, Text!widgetVars
  <2> HIDE DEF v
  <2>5. Len(views') = Len(views) + 1
        /\ \A i \in 1..Len(views') : views'[i] = IF i = Len(views) + 1 THEN v ELSE views[i]
    BY <1>0, <2>1, <2>4
  <2>6. ASSUME NEW i \in 1..Len(views')
        PROVE  Straight(views'[i]) /\ Behind(views'[i], lines, next) /\ Before(grid, views'[i])
    <3>1. CASE i = Len(views) + 1
      BY <2>2, <2>3, <2>5, <3>1
    <3>2. CASE i # Len(views) + 1
      <4>1. i \in 1..Len(views) /\ views'[i] = views[i]
        BY <1>0, <2>5, <3>2
      <4> QED
        BY <4>1 DEF ViewsInv, InOrder
    <3> QED
      BY <3>1, <3>2
  <2>7. ASSUME NEW i \in 1..Len(views'), NEW j \in 1..Len(views'), i < j PROVE Before(views'[i], views'[j])
    <3>1. i \in 1..Len(views) /\ views'[i] = views[i]
      BY <1>0, <2>5, <2>7
    <3>2. CASE j = Len(views) + 1
      BY <2>3, <2>5, <3>1, <3>2
    <3>3. CASE j # Len(views) + 1
      <4>1. j \in 1..Len(views) /\ views'[j] = views[j]
        BY <1>0, <2>5, <3>3
      <4> QED
        BY <2>7, <3>1, <4>1 DEF ViewsInv, InOrder
    <3> QED
      BY <3>2, <3>3
  <2> QED
    BY <2>4, <2>6, <2>7 DEF ViewsInv, InOrder
<1>3. CASE Text!Receive
  <2>1. views # <<>> /\ views' = Tail(views) /\ grid' = Head(views) /\ UNCHANGED <<lines, next>>
    BY <1>3 DEF Text!Receive
  <2>2. /\ Len(views) >= 1 /\ grid' = views[1] /\ Len(views') = Len(views) - 1
        /\ \A i \in 1..Len(views') : views'[i] = views[i + 1] /\ i + 1 \in 1..Len(views)
    BY <1>0, <2>1
  <2>3. Straight(grid') /\ Behind(grid', lines, next)
    BY <1>0, <2>2 DEF ViewsInv
  <2>4. \A i \in 1..Len(views') : Straight(views'[i]) /\ Behind(views'[i], lines, next)
    BY <2>2 DEF ViewsInv
  <2>5. \A i \in 1..Len(views') : Before(grid', views'[i])
    <3> SUFFICES ASSUME NEW i \in 1..Len(views') PROVE Before(grid', views'[i])
      OBVIOUS
    <3>1. 1 \in 1..Len(views) /\ i + 1 \in 1..Len(views) /\ 1 < i + 1
      BY <1>0, <2>2
    <3>2. Before(views[1], views[i + 1])
      BY <3>1 DEF ViewsInv, InOrder
    <3> QED
      BY <2>2, <3>2
  <2>6. ASSUME NEW i \in 1..Len(views'), NEW j \in 1..Len(views'), i < j PROVE Before(views'[i], views'[j])
    <3>1. i + 1 \in 1..Len(views) /\ j + 1 \in 1..Len(views) /\ i + 1 < j + 1
      BY <1>0, <2>2, <2>6
    <3>2. Before(views[i + 1], views[j + 1])
      BY <3>1 DEF ViewsInv, InOrder
    <3> QED
      BY <2>2, <3>2
  <2> QED
    BY <2>1, <2>3, <2>4, <2>5, <2>6 DEF ViewsInv, InOrder
<1>4. CASE UNCHANGED <<lines, next, views, grid>>
  BY <1>4 DEF ViewsInv
<1>5. \/ Text!Write \/ Text!Rewrite \/ Text!Tick \/ Text!Receive
      \/ UNCHANGED <<lines, next, views, grid>>
  BY DEF Text!Next, Text!Notice, Text!Release, Text!Copy, Text!Key, Text!Press, Text!Move, Text!Wheel,
         Text!daemonVars, Text!selectionVars
<1> QED
  BY <1>1, <1>2, <1>3, <1>4, <1>5

\* Taking note of the rows in view keeps what is known of the rows seen.
LEMMA SeenKeeps ==
  ASSUME Text!TextConstants, TextTypes, ViewsInv, selection.set, SelectInv
  PROVE  /\ SeenOf(Text!Seen(selection), picked, Text!LostIn(grid))
         /\ Text!Seen(selection).set /\ Text!Seen(selection).anchor = selection.anchor
<1> DEFINE sel == Text!Seen(selection)
           lost == Text!LostIn(grid)
<1>0. /\ selection.anchor \in Nat /\ picked \in TextLines /\ picked.number \in Nat /\ lost \in Nat
      /\ grid \in Views /\ grid.start \in Nat /\ Rows \in Nat
      /\ SeenOf(selection, picked, lost) /\ NoOlder(picked, grid)
  BY LineType DEF TextTypes, SelectionOK, ViewsInv, Straight, SelectInv, Views, Text!TextConstants
<1>1. sel.set /\ sel.anchor = selection.anchor
      /\ sel.seen = [row \in DOMAIN Text!InView \cup DOMAIN selection.seen |->
                       IF row \in DOMAIN Text!InView THEN Text!InView[row] ELSE selection.seen[row]]
  BY DEF Text!Seen, TextTypes, SelectionOK
<1> HIDE DEF sel
<1>2. ASSUME NEW row \in DOMAIN Text!InView
      PROVE  /\ Text!InView[row].number = row + 1 + lost
             /\ Text!InView[row].number = picked.number => Text!InView[row].version >= picked.version
  <2> DEFINE r == row - grid.start + 1
  <2>1. row \in Nat /\ Text!InView[row] = grid.rows[r] /\ r \in 1..Rows
    BY <1>0, InViewType
  <2>2. grid.rows[r].number = grid.start + r + lost
    BY <2>1 DEF ViewsInv, Straight
  <2>3. grid.rows[r].number = picked.number => grid.rows[r].version >= picked.version
    BY <1>0, <2>1 DEF NoOlder
  <2> QED
    BY <1>0, <2>1, <2>2, <2>3
<1> HIDE DEF lost
<1>3. picked.number - (selection.anchor + 1) \in 0..lost
  BY <1>0 DEF SeenOf
<1>4. ASSUME NEW row \in DOMAIN sel.seen
      PROVE  /\ sel.seen[row].number \in (row + picked.number - sel.anchor) .. (row + 1 + lost)
             /\ sel.seen[row].number = picked.number => sel.seen[row].version >= picked.version
  <2>1. CASE row \in DOMAIN Text!InView
    <3>1. sel.seen[row] = Text!InView[row] /\ row \in Nat
      BY <1>0, <1>1, <2>1, InViewType
    <3>2. row + 1 + lost \in (row + picked.number - sel.anchor) .. (row + 1 + lost)
      BY <1>0, <1>1, <1>3, <3>1
    <3> QED
      BY <1>2, <2>1, <3>1, <3>2
  <2>2. CASE row \notin DOMAIN Text!InView
    BY <1>0, <1>1, <2>2 DEF SeenOf
  <2> QED
    BY <2>1, <2>2
<1> QED
  BY <1>0, <1>1, <1>3, <1>4 DEF SeenOf, sel, lost

\* A selection is begun with the rows in view.
LEMMA BegunKeeps ==
  ASSUME Text!TextConstants, TextTypes, ViewsInv, NEW r \in 1..Rows, NEW sel,
         sel.anchor = grid.start + r - 1, sel.seen = Text!InView
  PROVE  SeenOf(sel, grid.rows[r], Text!LostIn(grid))
<1> DEFINE lost == Text!LostIn(grid)
           p == grid.rows[r]
<1>0. grid \in Views /\ grid.start \in Nat /\ Rows \in Nat /\ lost \in Nat /\ p \in TextLines
  BY DEF TextTypes, ViewsInv, Straight, Views, Text!TextConstants
<1>1. \A i \in 1..Rows : grid.rows[i].number = grid.start + i + lost /\ grid.rows[i].version \in Nat
  BY <1>0, LineType DEF ViewsInv, Straight, Views
<1> HIDE DEF lost
<1>2. p.number - (sel.anchor + 1) = lost
  BY <1>0, <1>1
<1>3. ASSUME NEW row \in DOMAIN sel.seen
      PROVE  /\ sel.seen[row].number \in (row + p.number - sel.anchor) .. (row + 1 + lost)
             /\ sel.seen[row].number = p.number => sel.seen[row].version >= p.version
  <2> DEFINE i == row - grid.start + 1
  <2>1. row \in Nat /\ sel.seen[row] = grid.rows[i] /\ i \in 1..Rows
    BY <1>0, InViewType
  <2>2. grid.rows[i].number = grid.start + i + lost /\ p.number = grid.start + r + lost
    BY <1>1, <2>1
  <2>3. grid.rows[i].number = row + 1 + lost /\ row + p.number - sel.anchor = row + 1 + lost
    BY <1>0, <2>1, <2>2
  <2>4. grid.rows[i].number = p.number => i = r
    BY <1>0, <2>1, <2>2
  <2>5. p.version \in Nat
    BY <1>1
  <2> QED
    BY <1>0, <2>1, <2>3, <2>4, <2>5
<1> QED
  BY <1>0, <1>2, <1>3 DEF SeenOf, lost

LEMMA NoOlderAhead ==
  ASSUME TextTypes, ViewsInv, NEW r \in 1..Rows
  PROVE  LET p == grid.rows[r]
         IN  /\ NoOlder(p, grid) /\ NoOlderLine(p, lines, next)
             /\ \A i \in 1..Len(views) : NoOlder(p, views[i])
<1> DEFINE p == grid.rows[r]
<1>0. \A i \in 1..Rows : grid.rows[i].version \in Nat /\ grid.rows[i].number \in Nat
  BY LineType DEF TextTypes, Views
<1>1. NoOlder(p, grid)
  <2> SUFFICES ASSUME NEW i \in 1..Rows, grid.rows[i].number = p.number PROVE grid.rows[i].version >= p.version
    BY DEF NoOlder
  <2>1. Text!LostIn(grid) \in Nat /\ grid.start \in Nat
        /\ grid.rows[i].number = grid.start + i + Text!LostIn(grid) /\ p.number = grid.start + r + Text!LostIn(grid)
    BY DEF ViewsInv, Straight, TextTypes, Views
  <2> DEFINE lost == Text!LostIn(grid)
             begin == grid.start
  <2>a. lost \in Nat /\ begin \in Nat /\ begin + i + lost = begin + r + lost
    BY <2>1
  <2> HIDE DEF lost, begin
  <2>2. i = r
    BY <2>a
  <2> QED
    BY <1>0, <2>2
<1>2. NoOlderLine(p, lines, next)
  <2>1. Behind(grid, lines, next) /\ \A j \in 1..Len(lines) : lines[j].version \in Nat
    BY LineType DEF ViewsInv, TextTypes
  <2>2. p.number < next
        /\ \A j \in 1..Len(lines) : p.number = lines[j].number => p.version <= lines[j].version
    BY <2>1 DEF Behind
  <2> QED
    BY <1>0, <2>1, <2>2 DEF NoOlderLine
<1>3. ASSUME NEW i \in 1..Len(views) PROVE NoOlder(p, views[i])
  <2>0. views[i] \in Views
    BY DEF TextTypes
  <2>1. Before(grid, views[i]) /\ \A j \in 1..Rows : views[i].rows[j].version \in Nat
    BY <2>0, LineType DEF ViewsInv, InOrder, Views
  <2> QED
    BY <1>0, <2>1 DEF NoOlder, Before
<1> QED
  BY <1>1, <1>2, <1>3

LEMMA StepSelectInv ==
  ASSUME Text!TextConstants, TextTypes, TextTypes', ViewsInv, SelectInv, [Text!Next]_(Text!selectionVars)
  PROVE  SelectInv'
<1>0. /\ Rows \in Nat /\ lines \in Seq(TextLines) /\ lines' \in Seq(TextLines) /\ next \in Nat /\ next' \in Nat
      /\ grid \in Views /\ views \in Seq(Views) /\ Len(views) \in Nat /\ picked \in TextLines
  BY DEF Text!TextConstants, TextTypes
<1>a. ASSUME UNCHANGED <<Text!daemonVars, picked>>, selection'.set => selection.set,
             selection.set => SeenOf(selection', picked, Text!LostIn(grid))
      PROVE  SelectInv'
  BY <1>a DEF SelectInv, Text!daemonVars
<1>b. ASSUME UNCHANGED <<lines, next, views, grid, picked>>, selection' = Text!Seen(selection)
      PROVE  SelectInv'
  <2>1. CASE selection.set
    BY <1>b, <2>1, SeenKeeps DEF SelectInv
  <2>2. CASE ~selection.set
    BY <1>b, <2>2 DEF SelectInv, Text!Seen
  <2> QED
    BY <2>1, <2>2
<1>1. CASE Text!Write \/ Text!Rewrite
  <2>1. Grown(lines, next, lines', next') /\ UNCHANGED <<grid, views, selection, picked>>
    BY <1>1, LinesGrow DEF ViewsInv, Text!Write, Text!Rewrite, Text!widgetVars
  <2>2. selection.set => NoOlderLine(picked, lines', next')
    BY <1>0, <2>1, NoOlderGrown DEF SelectInv
  <2> QED
    BY <2>1, <2>2 DEF SelectInv
<1>2. CASE Text!Tick
  <2> DEFINE v == Text!View
  <2>1. v \in Views
    BY ViewType DEF TextTypes
  <2>2. selection.set => NoOlder(picked, v)
    BY NoOlderInView DEF SelectInv
  <2>3. views' = Append(views, v) /\ UNCHANGED <<lines, next, grid, selection, picked>>
    BY <1>2 DEF Text!Tick, Text!widgetVars
  <2> HIDE DEF v
  <2>4. \A i \in 1..Len(views') : (i \in 1..Len(views) /\ views'[i] = views[i]) \/ views'[i] = v
    BY <1>0, <2>1, <2>3
  <2> QED
    BY <2>2, <2>3, <2>4 DEF SelectInv
<1>3. CASE Text!Receive
  <2>1. views # <<>> /\ views' = Tail(views) /\ grid' = Head(views) /\ UNCHANGED <<lines, next, selection, picked>>
    BY <1>3 DEF Text!Receive
  <2>2. /\ Len(views) >= 1 /\ grid' = views[1] /\ 1 \in 1..Len(views)
        /\ \A i \in 1..Len(views') : views'[i] = views[i + 1] /\ i + 1 \in 1..Len(views)
    BY <1>0, <2>1
  <2>3. Text!LostIn(grid) <= Text!LostIn(grid') /\ Text!LostIn(grid) \in Nat /\ Text!LostIn(grid') \in Nat
    BY <2>2 DEF ViewsInv, InOrder, Before, Straight
  <2>4. selection.set => SeenOf(selection, picked, Text!LostIn(grid'))
    <3> SUFFICES ASSUME selection.set PROVE SeenOf(selection, picked, Text!LostIn(grid'))
      OBVIOUS
    <3> DEFINE a == Text!LostIn(grid)
               b == Text!LostIn(grid')
    <3>1. a <= b /\ a \in Nat /\ b \in Nat /\ SeenOf(selection, picked, a)
      BY <2>3 DEF SelectInv
    <3>2. selection.anchor \in Nat /\ picked.number \in Nat /\ DOMAIN selection.seen \subseteq Nat
      BY <1>0, LineType DEF TextTypes, SelectionOK
    <3> HIDE DEF a, b
    <3>3. SeenOf(selection, picked, b)
      BY <3>1, <3>2 DEF SeenOf
    <3> QED
      BY <3>3 DEF b
  <2> QED
    BY <2>1, <2>2, <2>4 DEF SelectInv
<1>4. CASE Text!Notice \/ Text!Release \/ Text!Copy
  BY <1>b, <1>4 DEF Text!Notice, Text!Release, Text!Copy, Text!daemonVars
<1>5. CASE Text!Key
  BY <1>5 DEF Text!Key, SelectInv, Text!NoSelection
<1>6. ASSUME NEW r \in 1..Rows, Text!Press(r) PROVE SelectInv'
  <2> DEFINE sel == [set |-> TRUE, anchor |-> grid.start + r - 1, head |-> grid.start + r - 1, seen |-> Text!InView]
  <2>1. selection' = sel /\ picked' = grid.rows[r] /\ UNCHANGED Text!daemonVars
    BY <1>6 DEF Text!Press
  <2>2. sel.anchor = grid.start + r - 1 /\ sel.seen = Text!InView
    OBVIOUS
  <2> HIDE DEF sel
  <2>3. SeenOf(sel, grid.rows[r], Text!LostIn(grid))
    BY <2>2, BegunKeeps
  <2> QED
    BY <2>1, <2>3, NoOlderAhead DEF SelectInv, Text!daemonVars
<1>7. ASSUME NEW r \in 1..Rows, Text!Move(r) PROVE SelectInv'
  <2> DEFINE sel == Text!Seen(selection)
  <2>1. selection' = [sel EXCEPT !.head = grid.start + r - 1] /\ UNCHANGED <<Text!daemonVars, picked>>
    BY <1>7 DEF Text!Move
  <2>2. SelectionOK(sel)
    BY SeenType
  <2>3. ~selection.set => ~sel.set
    BY DEF Text!Seen
  <2>4. selection.set => SeenOf(sel, picked, Text!LostIn(grid))
    BY SeenKeeps
  <2> HIDE DEF sel
  <2>5. selection'.set = sel.set /\ selection'.anchor = sel.anchor /\ selection'.seen = sel.seen
    BY <2>1, <2>2 DEF SelectionOK
  <2>6. selection.set => SeenOf(selection', picked, Text!LostIn(grid))
    BY <2>4, <2>5 DEF SeenOf
  <2> QED
    BY <1>a, <2>1, <2>3, <2>5, <2>6
<1>8. ASSUME NEW n \in Jumps, Text!Wheel(n) PROVE SelectInv'
  BY <1>b, <1>8 DEF Text!Wheel
<1>9. CASE UNCHANGED Text!selectionVars
  BY <1>9 DEF Text!selectionVars, SelectInv
<1> QED
  BY <1>1, <1>2, <1>3, <1>4, <1>5, <1>6, <1>7, <1>8, <1>9 DEF Text!Next

\* What is copied is what was seen of each row.
LEMMA StepNoWrongLine ==
  ASSUME Text!TextConstants, TextTypes, ViewsInv, SelectInv, Text!NoWrongLine, [Text!Next]_(Text!selectionVars)
  PROVE  Text!NoWrongLine'
<1>1. CASE UNCHANGED copied
  BY <1>1 DEF Text!NoWrongLine, Text!Expected, Text!LostMeanwhile
<1>2. CASE Text!Copy
  <2> DEFINE sel == Text!Seen(selection)
             lo == Text!Lower(sel.anchor, sel.head)
             hi == Text!Upper(sel.anchor, sel.head)
             lost == Text!LostIn(grid)
  <2>1. /\ selection.set
        /\ copied' = [first |-> lo, text |-> [i \in 1..(hi - lo + 1) |-> Text!Text(sel.seen, lo + i - 1)],
                      picked |-> picked, anchor |-> sel.anchor, lost |-> lost]
    BY <1>2 DEF Text!Copy, Text!Seen
  <2>2. SeenOf(sel, picked, lost) /\ lost \in Nat /\ picked.number \in Nat
    BY <2>1, SeenKeeps, LineType DEF ViewsInv, Straight, TextTypes
  <2>3. sel.anchor \in Nat /\ lo \in Int /\ hi \in Int
    BY SeenType DEF SelectionOK, Text!Lower, Text!Upper
  <2> HIDE DEF lo, hi, sel, lost
  <2>4. /\ copied'.picked = picked /\ copied'.first = lo /\ copied'.anchor = sel.anchor /\ copied'.lost = lost
        /\ \A i \in DOMAIN copied'.text : i \in Int /\ copied'.text[i] = Text!Text(sel.seen, lo + i - 1)
    BY <2>1, <2>3
  <2>5. ASSUME NEW i \in DOMAIN copied'.text, copied'.text[i] # Text!Missing
        PROVE  LET e == copied'.picked.number + (copied'.first + i - 1 - copied'.anchor)
                   m == copied'.lost - (copied'.picked.number - (copied'.anchor + 1))
               IN  /\ copied'.text[i].number \in e .. (e + m)
                   /\ copied'.text[i].number = copied'.picked.number => copied'.text[i].version >= copied'.picked.version
    <3> DEFINE row == lo + i - 1
    <3>1. row \in DOMAIN sel.seen /\ copied'.text[i] = sel.seen[row] /\ i \in Int
      BY <2>4, <2>5 DEF Text!Text
    <3>2. /\ sel.seen[row].number \in (row + picked.number - sel.anchor) .. (row + 1 + lost)
          /\ sel.seen[row].number = picked.number => sel.seen[row].version >= picked.version
      BY <2>2, <3>1 DEF SeenOf
    <3> DEFINE p == picked.number
    <3>a. p \in Nat /\ sel.anchor \in Nat /\ lo \in Int /\ lost \in Nat /\ i \in Int /\ row = lo + i - 1
      BY <2>2, <2>3, <3>1
    <3> HIDE DEF row, p
    <3>b. LET e == p + (lo + i - 1 - sel.anchor)
              m == lost - (p - (sel.anchor + 1))
          IN  e = row + p - sel.anchor /\ e + m = row + 1 + lost
      BY <3>a
    <3>3. LET e == picked.number + (lo + i - 1 - sel.anchor)
              m == lost - (picked.number - (sel.anchor + 1))
          IN  e = row + picked.number - sel.anchor /\ e + m = row + 1 + lost
      BY <3>b DEF p
    <3> QED
      BY <2>4, <3>1, <3>2, <3>3
  <2> QED
    BY <2>5 DEF Text!NoWrongLine, Text!Expected, Text!LostMeanwhile
<1>3. UNCHANGED copied \/ Text!Copy
  BY DEF Text!Next, Text!Write, Text!Rewrite, Text!Tick, Text!Receive, Text!widgetVars, Text!Notice, Text!Release,
         Text!Key, Text!Press, Text!Move, Text!Wheel, Text!selectionVars
<1> QED
  BY <1>1, <1>2, <1>3

\* The variables of the selection keep their types.
THEOREM SelectionTypeCorrect ==
  ASSUME Text!TextConstants
  PROVE  Text!Spec => []Text!TypeOK
<1>1. Text!TextConstants
  OBVIOUS
<1>2. TextTypes => Text!TypeOK
  <2> SUFFICES ASSUME TextTypes PROVE Text!TypeOK
    OBVIOUS
  <2>1. offset \in 0..Text!Above /\ Text!Above \in 0..History /\ pointer \in 0..Rows
    BY <1>1 DEF TextTypes, Text!TextConstants, Text!Above
  <2>2. DOMAIN selection.seen \subseteq Nat /\ \A row \in DOMAIN selection.seen : selection.seen[row] \in TextLines
    BY DEF TextTypes, SelectionOK
  <2> QED
    BY <2>1, <2>2, LineType DEF Text!TypeOK
<1> QED
  BY <1>1, <1>2, InitTextTypes, StepTextTypes, PTL DEF Text!Spec

\* However the program writes, writes again and fills the history while text is selected, a
\* copied row is empty or the line that was selected, moved on by at most as many lines as
\* have left the history since; and of the line the selection was begun at no older text is
\* copied.
THEOREM CopiesAreRight ==
  ASSUME Text!TextConstants
  PROVE  Text!Spec => []Text!NoWrongLine
<1> DEFINE Inv == TextTypes /\ ViewsInv /\ SelectInv /\ Text!NoWrongLine
<1>1. Text!Init => Inv
  BY InitTextInv
<1>2. Inv /\ [Text!Next]_(Text!selectionVars) => Inv'
  <2> SUFFICES ASSUME Inv, [Text!Next]_(Text!selectionVars) PROVE Inv'
    OBVIOUS
  <2>1. TextTypes'
    BY StepTextTypes
  <2> QED
    BY <2>1, StepViewsInv, StepSelectInv, StepNoWrongLine
<1>3. Inv => Text!NoWrongLine
  OBVIOUS
<1> QED
  BY <1>1, <1>2, <1>3, PTL DEF Text!Spec
=============================================================================
