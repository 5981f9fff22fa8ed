----------------------------- MODULE ScreenPush -----------------------------
(***************************************************************************)
(* One terminal session and one subscriber: the pump thread writes the     *)
(* terminal, the push loop turns damaged rows into frames (pty/push.rs),   *)
(* subscribe_session and finalize_session send whole screens (pty/mod.rs), *)
(* the channel of PushChannel carries them, and the client paints them     *)
(* into its grid (vida-gui term/client_grid.rs).                           *)
(*                                                                         *)
(* The content of a row is the number of writes it has had, so that an     *)
(* older content is a smaller number.  A frame is a function from the rows *)
(* it carries to their content; `frames' says what the items in the        *)
(* channel stand for.  The session's mutex is held by the pump for a       *)
(* write, by the push loop for a whole iteration including its send, by    *)
(* subscribe_session and by finalize_session, so nothing of the session    *)
(* moves while a send is in progress; the receiver does.                   *)
(***************************************************************************)
EXTENDS PushChannel

CONSTANTS
  Rows,       \* rows of the screen
  MaxWrites   \* bound on the writes to a row

VARIABLES
  term,     \* the terminal's screen
  cursor,   \* the row of its cursor, always reported as damaged
  damage,   \* rows damaged since the last reset_damage
  last,     \* last_lines of the push loop
  ended,    \* the session's closed flag, set by finalize_session
  frames,   \* the frames in the channel, by item number
  grid,     \* the client's screen
  dropped   \* an item was dropped from the full queue

sessionVars == <<term, cursor, damage, last, ended, frames>>
screenVars  == <<sessionVars, grid, dropped, chanVars>>

Blank == [r \in Rows |-> 0]

Init ==
  /\ term = Blank
  /\ cursor \in Rows
  /\ damage = Rows
  /\ last = <<>>
  /\ ended = FALSE
  /\ frames = <<>>
  /\ grid = Blank
  /\ dropped = FALSE
  /\ ChannelInit

subscribed == sent > 0

\* The numbers of the items in the channel.
Queued == {queue[i] : i \in 1..Len(queue)}

\* The send common to the three callers: the item, and its place in the queue.
Send(frame) ==
  /\ Push
  /\ frames' = [i \in Queued' |-> IF i = sent + 1 THEN frame ELSE frames[i]]
  /\ dropped' = (dropped \/ Len(queue) >= Capacity)

-----------------------------------------------------------------------------
\* The pump thread: `processor.advance' changes row r and leaves the cursor there;
\* a scroll marks the whole screen as damaged.
Write(r) ==
  /\ ~ended /\ ~midSend
  /\ term[r] < MaxWrites
  /\ term' = [term EXCEPT ![r] = @ + 1]
  /\ damage' \in {damage \cup {r, cursor}, Rows}
  /\ cursor' = r
  /\ UNCHANGED <<last, ended, frames, grid, dropped, chanVars>>

\* subscribe_session: the whole screen is the first item, then the subscriber is
\* registered.  A session that has ended can still be subscribed to.
Subscribe ==
  /\ ~subscribed /\ ~midSend
  /\ Send(term)
  /\ UNCHANGED <<term, cursor, damage, last, ended, grid>>

Lines(rows) == [r \in rows |-> term[r]]

\* Mutant: the frame is compared by its rows only.
TickComparesRows ==
  LET frame == Lines(damage \cup {cursor}) IN
  /\ ~ended /\ ~midSend
  /\ damage' = {}
  /\ last' = frame
  /\ IF DOMAIN frame = DOMAIN last \/ ~subscribed
     THEN UNCHANGED <<frames, dropped, chanVars>> ELSE Send(frame)
  /\ UNCHANGED <<term, cursor, ended, grid>>

\* One iteration of push_loop: collect the damaged rows, reset the damage, skip
\* a frame equal to the previous one, send it to whoever has subscribed.
Tick ==
  LET frame == Lines(damage \cup {cursor}) IN
  /\ ~ended /\ ~midSend
  /\ frame # last \/ damage # {}
  /\ damage' = {}
  /\ last' = frame
  /\ IF frame = last \/ ~subscribed
     THEN UNCHANGED <<frames, dropped, chanVars>> ELSE Send(frame)
  /\ UNCHANGED <<term, cursor, ended, grid>>

\* Mutant: the final frame carries the damage only.
FinalizePartial ==
  /\ ~ended /\ ~midSend
  /\ ended' = TRUE
  /\ IF subscribed THEN Send(Lines(damage \cup {cursor}))
     ELSE UNCHANGED <<frames, dropped, chanVars>>
  /\ UNCHANGED <<term, cursor, damage, last, grid>>

\* finalize_session, after the pump has consumed every byte: the closed flag
\* stops the push loop and the whole screen goes out with SessionClosed.
Finalize ==
  /\ ~ended /\ ~midSend
  /\ ended' = TRUE
  /\ IF subscribed THEN Send(term) ELSE UNCHANGED <<frames, dropped, chanVars>>
  /\ UNCHANGED <<term, cursor, damage, last, grid>>

\* A receive that yields an item; the client paints the rows of its frame and
\* leaves the others as they are.  A gap in the sequence numbers is logged.
Paint ==
  /\ Pop
  /\ grid' = LET f == frames[got'] IN [r \in Rows |-> IF r \in DOMAIN f THEN f[r] ELSE grid[r]]
  /\ frames' = [i \in Queued' |-> frames[i]]
  /\ UNCHANGED <<term, cursor, damage, last, ended, dropped>>

Notified     == Notify /\ UNCHANGED <<sessionVars, grid, dropped>>
Polled       == Poll /\ UNCHANGED <<sessionVars, grid, dropped>>
Drained      == Drain /\ UNCHANGED <<sessionVars, grid, dropped>>
FoundNothing == PopNothing /\ UNCHANGED <<sessionVars, grid, dropped>>

Client == Paint \/ Polled \/ Drained \/ FoundNothing

Next ==
  \/ \E r \in Rows : Write(r)
  \/ sent < MaxSends /\ (Subscribe \/ Tick \/ Finalize)
  \/ Notified
  \/ Client

Spec == Init /\ [][Next]_screenVars

-----------------------------------------------------------------------------
\* The channel's assumptions, and a bound on the writes.
ScreenConstants ==
  /\ Capacity \in Nat /\ Capacity >= 3
  /\ Pollings \subseteq BOOLEAN
  /\ MaxSends \in Nat /\ MaxWrites \in Nat

Frames == UNION { [S -> 0..MaxWrites] : S \in SUBSET Rows }

TypeOK ==
  /\ term \in [Rows -> 0..MaxWrites]
  /\ cursor \in Rows
  /\ damage \subseteq Rows
  /\ ended \in BOOLEAN
  /\ frames \in [Queued -> Frames]
  /\ grid \in [Rows -> 0..MaxWrites]
  /\ dropped \in BOOLEAN
  /\ ChannelTypeOK

\* What the client shows of row r is current, or the row is still damaged and the
\* session alive, or a frame in the queue brings it up to date.
UpToDate(r) ==
  \/ grid[r] = term[r]
  \/ r \in damage /\ ~ended
  \/ \E i \in Queued : r \in DOMAIN frames[i] /\ frames[i][r] = term[r]

\* Unless the queue has overflowed no row is lost: not by the damage reset, the
\* skipping of equal frames, a subscription in mid-session or the session's end.
LossOnlyByOverflow == subscribed /\ ~dropped => \A r \in Rows : UpToDate(r)

\* Whatever was dropped on the way, a client that has taken the last item of an
\* ended session shows its final screen: an error printed just before the exit
\* is not lost.
FinalScreen == ended /\ subscribed /\ got = sent => grid = term

\* A row of the client never goes back to an older content.
RowsGoOn == \A r \in Rows : grid'[r] >= grid[r]
RowsNeverGoBack == [][RowsGoOn]_screenVars

\* What the push policy promises: the final content of every row is on its way to
\* the client or already there, whatever frames in between were dropped.
FinalStateArrives == subscribed => \A r \in Rows : UpToDate(r)
=============================================================================
