---------------------------- MODULE CredentialView ----------------------------
(***************************************************************************)
(* Credentials shown and copied in the desktop application (vida-gui:      *)
(* app.rs, RevealCredential to ClearClipboard).                            *)
(*                                                                         *)
(* A credential in clear is shown for 15 seconds and stays on the          *)
(* clipboard for 45.  Timers cannot be stopped; each carries a token, and  *)
(* one whose token is no longer current does nothing.  The owner goes      *)
(* through pages, asks again, copies again and copies other text, and the  *)
(* clipboard is read and written by tasks of their own.                    *)
(***************************************************************************)
EXTENDS Integers, FiniteSets

CONSTANTS
  Hosts,    \* the hosts with a page
  MaxAsks,  \* bound on requests for a credential
  MaxCopies,\* bound on copies, of a credential or of other text
  MaxMoves  \* bound on changes of the page and of the screen

NoHost == 0

VARIABLES
  page,       \* the host whose page is active, NoHost for another tab
  main,       \* whether the main screen is shown
  revealed,   \* revealed_credential: shown on the page of .on, it is that of .of
  hideToken,  \* cred_hide_token
  hideTimers, \* HideCredential messages to come
  asked,      \* credentials asked for
  clip,       \* what the clipboard holds: a host's credential, NoHost for other text
  clipToken,  \* clipboard_token
  guard,      \* clipboard_guard
  clipTimers, \* ClearClipboard messages to come
  reading,    \* what the clipboard is read for
  wiping,     \* whether it is about to be emptied
  wiped,      \* whether other text was lost
  asks, copies, moves

credentialVars == <<page, main, revealed, hideToken, hideTimers, asked, clip, clipToken,
                    guard, clipTimers, reading, wiping, wiped, asks, copies, moves>>

pageVars == <<page, main, revealed, hideToken, hideTimers, asked, asks, moves>>
clipVars == <<clip, clipToken, guard, clipTimers, reading, wiping, wiped, copies>>

Nothing == [on |-> NoHost, of |-> NoHost]
NoGuard == [token |-> 0, of |-> NoHost]

Init ==
  /\ page \in Hosts /\ main = TRUE
  /\ revealed = Nothing /\ hideToken = 0 /\ hideTimers = {} /\ asked = {}
  /\ clip = NoHost /\ clipToken = 0 /\ guard = NoGuard /\ clipTimers = {}
  /\ reading = {} /\ wiping = FALSE /\ wiped = FALSE
  /\ asks = 0 /\ copies = 0 /\ moves = 0

-----------------------------------------------------------------------------
(* Showing.                                                                *)

RevealCredential(h) ==
  /\ main /\ page = h /\ asks < MaxAsks
  /\ asks' = asks + 1
  /\ asked' = asked \cup {h}
  /\ UNCHANGED <<page, main, revealed, hideToken, hideTimers, moves, clipVars>>

\* The answer is shown on the page that is active when it arrives.
ShowCredential(h) ==
  /\ h \in asked
  /\ asked' = asked \ {h}
  /\ hideToken' = hideToken + 1
  /\ revealed' = IF main THEN [on |-> page, of |-> h] ELSE revealed
  /\ hideTimers' = hideTimers \cup {hideToken + 1}
  /\ UNCHANGED <<page, main, asks, moves, clipVars>>

HideCredential(t) ==
  /\ t \in hideTimers
  /\ hideTimers' = hideTimers \ {t}
  /\ revealed' = IF t = hideToken /\ main THEN Nothing ELSE revealed
  /\ UNCHANGED <<page, main, hideToken, asked, asks, moves, clipVars>>

\* Mutant: the timers are made stale and what they would hide stays.
SwitchedKeeps(old) == [revealed |-> old, token |-> hideToken + 1]

\* What becomes of a credential shown when another tab is chosen.
Switched(old) == [revealed |-> Nothing, token |-> hideToken + 1]

SwitchTab(p) ==
  /\ main /\ moves < MaxMoves
  /\ moves' = moves + 1
  /\ page' = p
  /\ revealed' = Switched(revealed).revealed
  /\ hideToken' = Switched(revealed).token
  /\ UNCHANGED <<main, hideTimers, asked, asks, clipVars>>

\* Opening a page, an editor or the settings makes another tab active too, and leaves
\* what is shown where it is.
OpenTab(p) ==
  /\ main /\ moves < MaxMoves /\ p # page
  /\ moves' = moves + 1
  /\ page' = p
  /\ UNCHANGED <<main, revealed, hideToken, hideTimers, asked, asks, clipVars>>

\* A screen that replaces the main one takes what it shows with it.
LeaveMain ==
  /\ main /\ moves < MaxMoves
  /\ moves' = moves + 1
  /\ main' = FALSE /\ revealed' = Nothing
  /\ UNCHANGED <<page, hideToken, hideTimers, asked, asks, clipVars>>

ReturnToMain ==
  /\ ~main
  /\ main' = TRUE /\ revealed' = Nothing
  /\ UNCHANGED <<page, hideToken, hideTimers, asked, asks, moves, clipVars>>

-----------------------------------------------------------------------------
(* The clipboard.                                                          *)

CopyCredential ==
  /\ main /\ revealed # Nothing /\ revealed.on = page /\ copies < MaxCopies
  /\ copies' = copies + 1
  /\ clipToken' = clipToken + 1
  /\ guard' = [token |-> clipToken + 1, of |-> revealed.of]
  /\ clip' = revealed.of
  /\ clipTimers' = clipTimers \cup {clipToken + 1}
  /\ UNCHANGED <<reading, wiping, wiped, pageVars>>

\* The owner copies something else, here or in another program.
CopyOther ==
  /\ copies < MaxCopies
  /\ copies' = copies + 1
  /\ clip' = NoHost
  /\ UNCHANGED <<clipToken, guard, clipTimers, reading, wiping, wiped, pageVars>>

ClearClipboard(t) ==
  /\ t \in clipTimers
  /\ clipTimers' = clipTimers \ {t}
  /\ IF guard.token = t
     THEN guard' = NoGuard /\ reading' = reading \cup {guard.of}
     ELSE UNCHANGED <<guard, reading>>
  /\ UNCHANGED <<clip, clipToken, wiping, wiped, copies, pageVars>>

\* The clipboard is read; it is emptied if it holds what was copied.
ClipboardRead(h) ==
  /\ h \in reading
  /\ reading' = reading \ {h}
  /\ wiping' = (wiping \/ clip = h)
  /\ UNCHANGED <<clip, clipToken, guard, clipTimers, wiped, copies, pageVars>>

ClipboardEmptied ==
  /\ wiping
  /\ wiping' = FALSE
  /\ clip' = NoHost
  /\ wiped' = (wiped \/ (clip = NoHost /\ copies > 0))
  /\ UNCHANGED <<clipToken, guard, clipTimers, reading, copies, pageVars>>

Next ==
  \/ \E h \in Hosts : RevealCredential(h) \/ ShowCredential(h) \/ ClipboardRead(h)
  \/ \E t \in hideTimers : HideCredential(t)
  \/ \E p \in Hosts \cup {NoHost} : SwitchTab(p) \/ OpenTab(p)
  \/ LeaveMain \/ ReturnToMain
  \/ CopyCredential \/ CopyOther
  \/ \E t \in clipTimers : ClearClipboard(t)
  \/ ClipboardEmptied

\* Timers expire and the application handles what they bring; the owner does as he likes.
Fairness ==
  /\ WF_credentialVars(\E t \in hideTimers : HideCredential(t))
  /\ WF_credentialVars(\E t \in clipTimers : ClearClipboard(t))
  /\ WF_credentialVars(\E h \in Hosts : ClipboardRead(h))
  /\ WF_credentialVars(ClipboardEmptied)

Spec == Init /\ [][Next]_credentialVars
FairSpec == Spec /\ Fairness

-----------------------------------------------------------------------------
(* Properties.                                                             *)

TypeOK ==
  /\ page \in Hosts \cup {NoHost} /\ {main, wiping, wiped} \subseteq BOOLEAN
  /\ revealed \in [on : Hosts \cup {NoHost}, of : Hosts \cup {NoHost}]
  /\ asked \subseteq Hosts /\ reading \subseteq Hosts
  /\ \A t \in hideTimers : t <= hideToken
  /\ \A t \in clipTimers : t <= clipToken
  /\ clip \in Hosts \cup {NoHost}
  /\ guard # NoGuard => guard.token \in clipTimers

\* Whatever was shown is hidden again and whatever was copied leaves the clipboard, in
\* spite of stale timers, other pages and copies that overlap (app.rs, 1848 to 1924).
Revealed == revealed # Nothing
Copied   == clip # NoHost
CredentialsGo == (Revealed ~> ~Revealed) /\ (Copied ~> ~Copied)

\* A page shows the credential of its own host.  (It fails: the answer is bound to the
\* page that is active when it arrives.)
ShowsItsOwn == revealed.on # NoHost => revealed.of = revealed.on

\* app.rs, 1887: "user-copied text after ours is never cleared".  (It fails in the moment
\* between the clipboard being read and being emptied.)
OtherTextStays == ~wiped
=============================================================================
