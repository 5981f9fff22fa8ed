------------------------------ MODULE StartScreens ------------------------------
(***************************************************************************)
(* The screens before the workspace: connection failure, setup and unlock  *)
(* (app.rs; s0_connection.rs, s1_setup.rs, s2_unlock.rs).                  *)
(*                                                                         *)
(* The desktop program connects, asks the daemon for the vault's status,   *)
(* and shows the screen that answer calls for.  A request is served by the *)
(* daemon in one step and its answer handled in a later one; another       *)
(* window may create, open or lock the same vault, and the daemon may be   *)
(* restarted, in between.                                                  *)
(***************************************************************************)
EXTENDS Naturals

CONSTANTS
  Secrets,     \* passphrases that are typed
  MaxMishaps,  \* bound on restarts of the daemon, failures and other windows' doings
  MaxTries     \* bound on what the owner asks for

NoSecret == ""

VARIABLES
  screen,  \* "start", "failure", "setup", "unlock" or "main"
  form,    \* the form shown: [word, confirm, agreed, busy, error, toast]
  task,    \* the request in flight: [kind, word, answer]
  link,    \* the connection the program holds is alive
  toasts,  \* timers that will hide the error, and whether one is of an older error
  vault,   \* [exists, secret, open, cached]
  mishaps, tries

vars == <<screen, form, task, link, toasts, vault, mishaps, tries>>

Blank  == [word |-> NoSecret, confirm |-> NoSecret, agreed |-> FALSE, busy |-> FALSE,
           error |-> FALSE, toast |-> FALSE]
NoTask == [kind |-> "none", word |-> NoSecret, answer |-> ""]

Init ==
  /\ screen = "start" /\ form = Blank
  /\ task = [NoTask EXCEPT !.kind = "connect"]
  /\ link = FALSE
  /\ toasts = [timers |-> 0, shown |-> 0]
  /\ vault \in {[exists |-> s # NoSecret, secret |-> s, open |-> FALSE, cached |-> FALSE] :
                  s \in Secrets \cup {NoSecret}}
  /\ mishaps = 0 /\ tries = 0

Request(kind, word) == task' = [kind |-> kind, word |-> word, answer |-> ""]
Shows(s) == screen' = s /\ form' = Blank
Failure == Shows("failure") /\ task' = NoTask
Mishap == mishaps < MaxMishaps /\ mishaps' = mishaps + 1
Try == tries < MaxTries /\ tries' = tries + 1

-----------------------------------------------------------------------------
(* The owner.                                                              *)

\* The fields; typing on the unlock screen takes the error away.
TypeSetup(word, confirm, agreed) ==
  /\ screen = "setup"
  /\ form' = [form EXCEPT !.word = word, !.confirm = confirm, !.agreed = agreed]
  /\ UNCHANGED <<screen, task, link, toasts, vault, mishaps, tries>>

TypeUnlock(word) ==
  /\ screen = "unlock"
  /\ form' = [form EXCEPT !.word = word, !.error = FALSE, !.toast = FALSE]
  /\ UNCHANGED <<screen, task, link, toasts, vault, mishaps, tries>>

\* The button of the setup screen, once both fields agree and the risk is accepted.
SetupCreateVault ==
  /\ screen = "setup" /\ ~form.busy
  /\ form.word # NoSecret /\ form.word = form.confirm /\ form.agreed
  /\ Try
  /\ form' = [form EXCEPT !.busy = TRUE, !.error = FALSE]
  /\ Request("create", form.word)
  /\ UNCHANGED <<screen, link, toasts, vault, mishaps>>

\* The button of the unlock screen, and Enter.
UnlockVault ==
  /\ screen = "unlock" /\ ~form.busy /\ form.word # NoSecret
  /\ Try
  /\ form' = [form EXCEPT !.busy = TRUE, !.error = FALSE]
  /\ Request("unlock", form.word)
  /\ UNCHANGED <<screen, link, toasts, vault, mishaps>>

RetryConnection ==
  /\ screen = "failure" /\ task = NoTask
  /\ Request("connect", NoSecret)
  /\ UNCHANGED <<screen, form, link, toasts, vault, mishaps, tries>>

-----------------------------------------------------------------------------
(* The daemon.                                                             *)

Answers(a) == task' = [task EXCEPT !.answer = a]

\* create_vault: opened, even if the synchronisation cannot be set up.
Create ==
  /\ task.kind = "create" /\ task.answer = "" /\ link
  /\ \/ vault.exists /\ Answers("error") /\ UNCHANGED <<vault, mishaps>>
     \/ /\ ~vault.exists
        /\ vault' = [vault EXCEPT !.exists = TRUE, !.secret = task.word, !.open = TRUE]
        /\ \/ Answers("ok") /\ UNCHANGED mishaps
           \/ Answers("error") /\ Mishap
  /\ UNCHANGED <<screen, form, link, toasts, tries>>

\* unlock, with "remember" on or off: likewise.
Unlock ==
  /\ task.kind = "unlock" /\ task.answer = "" /\ link
  /\ \/ task.word # vault.secret /\ Answers("error") /\ UNCHANGED <<vault, mishaps>>
     \/ /\ task.word = vault.secret
        /\ \E remember \in BOOLEAN :
             vault' = [vault EXCEPT !.open = TRUE, !.cached = remember]
        /\ \/ Answers("ok") /\ UNCHANGED mishaps
           \/ Answers("error") /\ Mishap
  /\ UNCHANGED <<screen, form, link, toasts, tries>>

\* vault_status and list_hosts.
Look ==
  /\ task.kind \in {"status", "list"} /\ task.answer = "" /\ link
  /\ Answers(CASE vault.open -> "open" [] ~vault.exists -> "none" [] OTHER -> "locked")
  /\ UNCHANGED <<screen, form, link, toasts, vault, mishaps, tries>>

\* A daemon is found, or is not up yet.
Connect ==
  /\ task.kind = "connect" /\ task.answer = ""
  /\ \/ Answers("ok") /\ UNCHANGED mishaps
     \/ Answers("error") /\ Mishap
  /\ UNCHANGED <<screen, form, link, toasts, vault, tries>>

\* The daemon is restarted, and opens a vault whose passphrase it finds cached.
Restart ==
  /\ Mishap
  /\ link' = FALSE
  /\ vault' = [vault EXCEPT !.open = vault.cached]
  /\ UNCHANGED <<screen, form, task, toasts, tries>>

\* A request over a connection that is dead.
Fails ==
  /\ task.kind \in {"create", "unlock", "status", "list"} /\ task.answer = "" /\ ~link
  /\ Answers("error")
  /\ UNCHANGED <<screen, form, link, toasts, vault, mishaps, tries>>

\* Another window creates the vault, opens it or locks it.
Elsewhere ==
  /\ Mishap
  /\ \/ ~vault.exists /\ \E s \in Secrets :
          vault' = [vault EXCEPT !.exists = TRUE, !.secret = s, !.open = TRUE]
     \/ vault.exists /\ vault' = [vault EXCEPT !.open = ~@, !.cached = FALSE]
  /\ UNCHANGED <<screen, form, task, link, toasts, tries>>

-----------------------------------------------------------------------------
(* The answers.                                                            *)

\* WsConnected asks for the status; WsError.
Connected ==
  /\ task.kind = "connect" /\ task.answer # ""
  /\ IF task.answer = "ok"
     THEN link' = TRUE /\ Request("status", NoSecret) /\ UNCHANGED <<screen, form>>
     ELSE Failure /\ UNCHANGED link
  /\ UNCHANGED <<toasts, vault, mishaps, tries>>

DaemonChecked ==
  /\ task.kind = "status" /\ task.answer # ""
  /\ CASE task.answer = "none"   -> Shows("setup") /\ task' = NoTask
       [] task.answer = "locked" -> Shows("unlock") /\ task' = NoTask
       [] task.answer = "open"   -> Request("list", NoSecret) /\ UNCHANGED <<screen, form>>
       [] OTHER                  -> Failure
  /\ UNCHANGED <<link, toasts, vault, mishaps, tries>>

HostsLoaded ==
  /\ task.kind = "list" /\ task.answer # ""
  /\ IF task.answer = "open" THEN Shows("main") /\ task' = NoTask ELSE Failure
  /\ UNCHANGED <<link, toasts, vault, mishaps, tries>>

SetupVaultCreated ==
  /\ task.kind = "create" /\ task.answer # ""
  /\ IF task.answer = "ok" THEN Request("list", NoSecret) /\ UNCHANGED <<screen, form>>
     ELSE Failure
  /\ UNCHANGED <<link, toasts, vault, mishaps, tries>>

UnlockSuccess ==
  /\ task.kind = "unlock" /\ task.answer = "ok"
  /\ Request("list", NoSecret)
  /\ UNCHANGED <<screen, form, link, toasts, vault, mishaps, tries>>

\* Mutant: the button stays as it is.
StillUnlocking ==
  /\ task.kind = "unlock" /\ task.answer = "error"
  /\ form' = [form EXCEPT !.error = TRUE, !.toast = TRUE]
  /\ toasts' = [timers |-> toasts.timers + 1, shown |-> toasts.timers + 1]
  /\ task' = NoTask
  /\ UNCHANGED <<screen, link, vault, mishaps, tries>>

\* The error is shown, and a timer started to hide it after three seconds.
UnlockFailed ==
  /\ task.kind = "unlock" /\ task.answer = "error"
  /\ form' = [form EXCEPT !.busy = FALSE, !.error = TRUE, !.toast = TRUE]
  /\ toasts' = [timers |-> toasts.timers + 1, shown |-> toasts.timers + 1]
  /\ task' = NoTask
  /\ UNCHANGED <<screen, link, vault, mishaps, tries>>

\* Timers end in the order they were started.
UnlockToastHide ==
  /\ toasts.timers > 0
  /\ form' = IF screen = "unlock" THEN [form EXCEPT !.toast = FALSE] ELSE form
  /\ toasts' = [timers |-> toasts.timers - 1,
                shown |-> IF toasts.shown > 0 THEN toasts.shown - 1 ELSE 0]
  /\ UNCHANGED <<screen, task, link, vault, mishaps, tries>>

-----------------------------------------------------------------------------
Serve  == Create \/ Unlock \/ Look \/ Connect \/ Fails
Handle == Connected \/ DaemonChecked \/ HostsLoaded \/ SetupVaultCreated \/ UnlockSuccess
            \/ UnlockFailed

Next ==
  \/ \E word, confirm \in Secrets, agreed \in BOOLEAN : TypeSetup(word, confirm, agreed)
  \/ \E word \in Secrets : TypeUnlock(word)
  \/ SetupCreateVault
  \/ UnlockVault
  \/ RetryConnection
  \/ Create
  \/ Unlock
  \/ Look
  \/ Connect
  \/ Restart
  \/ Fails
  \/ Elsewhere
  \/ Connected
  \/ DaemonChecked
  \/ HostsLoaded
  \/ SetupVaultCreated
  \/ UnlockSuccess
  \/ UnlockFailed
  \/ UnlockToastHide

Spec == Init /\ [][Next]_vars

\* The daemon answers or its connection breaks, and the program handles answers.
FairSpec == Spec /\ WF_vars(Serve) /\ WF_vars(Handle)

-----------------------------------------------------------------------------
\* The variables keep their types.
TypeOK ==
  /\ screen \in {"start", "failure", "setup", "unlock", "main"}
  /\ task.kind \in {"none", "connect", "status", "create", "unlock", "list"}
  /\ form.busy => screen \in {"setup", "unlock"} /\ task # NoTask
  /\ vault.exists <=> vault.secret # NoSecret
  /\ vault.open => vault.exists

\* No screen stays busy: in the end a form can be used again, or another screen
\* has taken its place.
Busy == form.busy
ButtonsComeBack == <>[]~Busy

\* (Observation.) An error is shown until it is typed away or three seconds have
\* passed; an older error's timer hides it earlier.
ErrorsStay == [][UnlockToastHide => ~(form.toast /\ toasts.shown > 1)]_vars

\* (Observation.) An unlocking that is refused leaves the vault locked; false when
\* the synchronisation cannot be set up.
RefusedIsLocked ==
  [][Unlock /\ task'.answer = "error" => vault'.open = vault.open]_vars

\* (Observation.) The unlock screen is no dead end: with the connection gone, an
\* attempt leads to the screen that offers to connect again.  It does not.
UnlockReconnects == [][UnlockFailed /\ ~link => screen' = "failure"]_vars
=================================================================================
