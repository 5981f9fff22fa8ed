-------------------------------- MODULE SshLogin --------------------------------
(***************************************************************************)
(* How the system's ssh and sftp get a host's secrets: an inline key in a  *)
(* temporary file (pty/mod.rs, sftp.rs), a password or a passphrase from a *)
(* broker, a thread that answers the askpass helper on a loopback socket   *)
(* (ssh_auth.rs).                                                          *)
(*                                                                         *)
(* A use is a terminal, which lives in the session host, or a transfer,    *)
(* which lives in the daemon.  When it ends, or fails at any point, its    *)
(* broker is stopped and waited for, and its key file removed.  A process  *)
(* that dies leaves the file, and the next session host to start removes   *)
(* every key file it finds.                                                *)
(***************************************************************************)
EXTENDS Naturals

CONSTANTS
  Uses,      \* terminals and transfers, numbered in the order they are begun
  Inherits,  \* accepted sockets are non-blocking like their listener (BSD, macOS)
  Plans      \* bounds: the uses there may be, their logins, how often one ssh asks, and
             \* starts of a host

\* A login: a terminal's or a transfer's, with an inline key or not, with a secret or not.
Logins == [kind : {"terminal", "transfer"}, inline : BOOLEAN, secret : BOOLEAN]

\* What the proofs about this module suppose of its constants.
LoginConstants == \A p \in Plans : p.uses \subseteq Uses /\ p.logins \subseteq Logins

VARIABLES
  use,     \* use[u]: [pc, kind, inline, secret]
  files,   \* uses whose key file exists
  torn,    \* uses whose key file could not be written whole
  broker,  \* broker[u]: [pc, stop, late]
  helper,  \* helper[u]: the askpass helper ssh has started, and asks so far
  left     \* bounds, with the starts of a session host that are left

vars == <<use, files, torn, broker, helper, left>>

Idle     == [pc |-> "idle", kind |-> "", inline |-> FALSE, secret |-> FALSE]
NoBroker == [pc |-> "none", stop |-> FALSE, late |-> FALSE]
NoHelper == [pc |-> "none", asks |-> 0]

Init ==
  /\ use = [u \in Uses |-> Idle]
  /\ files = {} /\ torn = {}
  /\ broker = [u \in Uses |-> NoBroker]
  /\ helper = [u \in Uses |-> NoHelper]
  /\ left \in Plans

At(u, pc) == use[u].pc = pc
Goes(u, pc) == use' = [use EXCEPT ![u].pc = pc]
Busy(u) == use[u].pc \in {"keyed", "ready", "running", "stopping", "joined"}

-----------------------------------------------------------------------------
(* The daemon and the session host.                                        *)

\* write_inline_key, and prepare_auth: the file is created, then written.
Prepare(u, login) ==
  /\ At(u, "idle") /\ \A v \in Uses : v < u => ~At(v, "idle")
  /\ use' = [use EXCEPT ![u] = [pc |-> "keyed", kind |-> login.kind,
                                inline |-> login.inline, secret |-> login.secret]]
  /\ files' = IF login.inline THEN files \cup {u} ELSE files
  /\ UNCHANGED <<torn, broker, helper, left>>

\* A key that cannot be written: the terminal's file is removed again, the
\* transfer's has no owner yet.
PrepareFails(u, login) ==
  /\ At(u, "idle") /\ \A v \in Uses : v < u => ~At(v, "idle")
  /\ login.inline
  /\ use' = [use EXCEPT ![u] = [pc |-> "ended", kind |-> login.kind, inline |-> TRUE,
                                secret |-> FALSE]]
  /\ IF login.kind = "transfer" THEN files' = files \cup {u} /\ torn' = torn \cup {u}
     ELSE UNCHANGED <<files, torn>>
  /\ UNCHANGED <<broker, helper, left>>

\* AskpassBroker::start, where there is a secret.
StartBroker(u) ==
  /\ At(u, "keyed")
  /\ Goes(u, "ready")
  /\ broker' = IF use[u].secret THEN [broker EXCEPT ![u].pc = "listening"] ELSE broker
  /\ UNCHANGED <<files, torn, helper, left>>

Spawn(u) ==
  /\ At(u, "ready")
  /\ Goes(u, "running")
  /\ UNCHANGED <<files, torn, broker, helper, left>>

\* Mutant: the broker's thread is not told.
JoinedOnly(u) ==
  Goes(u, "stopping") /\ UNCHANGED broker

\* SessionCleanup::run and the drops of prepare_auth's result begin with stop.
CleanUp(u) ==
  /\ Goes(u, "stopping")
  /\ broker' = [broker EXCEPT ![u].stop = TRUE]

\* No broker, or no process: what was prepared is dropped.
StartFails(u) ==
  /\ use[u].pc \in {"keyed", "ready"}
  /\ CleanUp(u)
  /\ UNCHANGED <<files, torn, helper, left>>

\* ssh or sftp exits; the owner closes the terminal, which kills it; a batch
\* that cannot be written ends the transfer.
Over(u) ==
  /\ At(u, "running")
  /\ CleanUp(u)
  /\ UNCHANGED <<files, torn, helper, left>>

\* The join of AskpassBroker::stop.
Join(u) ==
  /\ At(u, "stopping") /\ broker[u].pc \in {"none", "gone"}
  /\ Goes(u, "joined")
  /\ UNCHANGED <<files, torn, broker, helper, left>>

\* Mutant: the file stays.
KeepKey(u) == At(u, "joined") /\ Goes(u, "ended") /\ UNCHANGED <<files, torn, broker, helper, left>>

RemoveKey(u) ==
  /\ At(u, "joined")
  /\ Goes(u, "ended")
  /\ files' = files \ {u}
  /\ UNCHANGED <<torn, broker, helper, left>>

\* The session host dies with its terminals, or a daemon with its transfers.
Die(kind) ==
  /\ \E u \in Uses : Busy(u) /\ use[u].kind = kind
  /\ LET gone == {u \in Uses : Busy(u) /\ use[u].kind = kind}
     IN /\ use' = [u \in Uses |-> IF u \in gone THEN [use[u] EXCEPT !.pc = "dead"] ELSE use[u]]
        /\ broker' = [u \in Uses |-> IF u \in gone /\ broker[u].pc # "none"
                                     THEN [broker[u] EXCEPT !.pc = "gone"] ELSE broker[u]]
  /\ UNCHANGED <<files, torn, helper, left>>

\* cleanup_stale_inline_keys, at the start of every session host: also of a
\* second one, started by a daemon that could not reach the first.
HostStarts ==
  /\ left.starts > 0
  /\ left' = [left EXCEPT !.starts = @ - 1]
  /\ files' = {} /\ torn' = {}
  /\ UNCHANGED <<use, broker, helper>>

-----------------------------------------------------------------------------
(* The broker's thread.                                                    *)

Accept(u) ==
  /\ broker[u].pc = "listening" /\ ~broker[u].stop /\ ~broker[u].late
  /\ helper[u].pc \in {"connected", "sent"}
  /\ broker' = [broker EXCEPT ![u].pc = "reading"]
  /\ UNCHANGED <<use, files, torn, helper, left>>

\* read_to_end waits for the helper's end of the stream; a socket that does not
\* block fails at once, and is dropped.
Read(u) ==
  /\ broker[u].pc = "reading"
  /\ \/ helper[u].pc = "sent" /\ helper' = [helper EXCEPT ![u].pc = "answered"]
     \/ Inherits /\ helper[u].pc = "connected" /\ helper' = [helper EXCEPT ![u].pc = "refused"]
     \/ helper[u].pc = "gone" /\ UNCHANGED helper
  /\ broker' = [broker EXCEPT ![u].pc = "listening"]
  /\ UNCHANGED <<use, files, torn, left>>

\* 120 seconds.
Deadline(u) ==
  /\ broker[u].pc \in {"listening", "reading"} /\ ~broker[u].late
  /\ broker' = [broker EXCEPT ![u].late = TRUE]
  /\ UNCHANGED <<use, files, torn, helper, left>>

\* Mutant: one answer only.
OneShot(u) ==
  /\ broker[u].pc = "listening" /\ (broker[u].stop \/ broker[u].late \/ helper[u].pc = "answered")
  /\ broker' = [broker EXCEPT ![u].pc = "gone"]
  /\ UNCHANGED <<use, files, torn, helper, left>>

BrokerEnds(u) ==
  /\ broker[u].pc = "listening" /\ (broker[u].stop \/ broker[u].late)
  /\ broker' = [broker EXCEPT ![u].pc = "gone"]
  /\ UNCHANGED <<use, files, torn, helper, left>>

-----------------------------------------------------------------------------
(* ssh and its askpass helper.                                             *)

\* ssh asks for a password again when it was wrong.
Ask(u) ==
  /\ At(u, "running") /\ use[u].secret
  /\ helper[u].pc \in {"none", "answered", "refused"} /\ helper[u].asks < left.asks
  /\ helper' = [helper EXCEPT ![u] = [pc |-> "started", asks |-> @.asks + 1]]
  /\ UNCHANGED <<use, files, torn, broker, left>>

\* run_helper_if_requested: connect ...
HelperConnects(u) ==
  /\ helper[u].pc = "started"
  /\ helper' = [helper EXCEPT ![u].pc =
                  IF broker[u].pc \in {"listening", "reading"} THEN "connected" ELSE "refused"]
  /\ UNCHANGED <<use, files, torn, broker, left>>

\* ... write the token, shut down ...
HelperSends(u) ==
  /\ helper[u].pc = "connected"
  /\ helper' = [helper EXCEPT ![u].pc = "sent"]
  /\ UNCHANGED <<use, files, torn, broker, left>>

\* ... and read: the broker that ends closes what it had not accepted.
HelperFails(u) ==
  /\ helper[u].pc \in {"connected", "sent"} /\ broker[u].pc = "gone"
  /\ helper' = [helper EXCEPT ![u].pc = "refused"]
  /\ UNCHANGED <<use, files, torn, broker, left>>

\* The helper may be killed with the ssh that started it.
HelperDies(u) ==
  /\ ~At(u, "running") /\ helper[u].pc \in {"started", "connected", "sent"}
  /\ helper' = [helper EXCEPT ![u].pc = "gone"]
  /\ UNCHANGED <<use, files, torn, broker, left>>

-----------------------------------------------------------------------------
BrokerStep(u) == Accept(u) \/ Read(u) \/ BrokerEnds(u)
HelperStep(u) == HelperConnects(u) \/ HelperSends(u) \/ HelperFails(u)
CleanUpStep(u) == Join(u) \/ RemoveKey(u)

Next ==
  \/ \E u \in left.uses, login \in left.logins : Prepare(u, login)
  \/ \E u \in left.uses, login \in left.logins : PrepareFails(u, login)
  \/ \E u \in Uses : StartBroker(u)
  \/ \E u \in Uses : Spawn(u)
  \/ \E u \in Uses : StartFails(u)
  \/ \E u \in Uses : Over(u)
  \/ \E u \in Uses : Join(u)
  \/ \E u \in Uses : RemoveKey(u)
  \/ \E kind \in {"terminal", "transfer"} : Die(kind)
  \/ HostStarts
  \/ \E u \in Uses : Accept(u)
  \/ \E u \in Uses : Read(u)
  \/ \E u \in Uses : Deadline(u)
  \/ \E u \in Uses : BrokerEnds(u)
  \/ \E u \in Uses : Ask(u)
  \/ \E u \in Uses : HelperConnects(u)
  \/ \E u \in Uses : HelperSends(u)
  \/ \E u \in Uses : HelperFails(u)
  \/ \E u \in Uses : HelperDies(u)

Spec == Init /\ [][Next]_vars

\* A thread that can go on does, and so does the helper.
FairSpec ==
  Spec /\ \A u \in Uses : WF_vars(BrokerStep(u)) /\ WF_vars(HelperStep(u)) /\ WF_vars(CleanUpStep(u))

-----------------------------------------------------------------------------
\* The variables keep their types.
TypeOK ==
  /\ \A u \in Uses :
       /\ use[u].pc \in {"idle", "keyed", "ready", "running", "stopping", "joined", "ended",
                         "dead"}
       /\ broker[u].pc \in {"none", "listening", "reading", "gone"}
       /\ helper[u].pc \in {"none", "started", "connected", "sent", "answered", "refused", "gone"}
  /\ files \subseteq Uses /\ torn \subseteq files

\* No secret outlives its use: once a terminal or a transfer has ended, however
\* it ended, its key file is removed and its broker is no more.  What a process
\* that died leaves is the next session host's, as is a transfer's key that
\* could not be written.
SecretsGo ==
  \A u \in Uses : use[u].pc = "ended" =>
    /\ u \in files => u \in torn
    /\ broker[u].pc \in {"none", "gone"}

\* A helper that reached its broker is answered, unless its use is over or the
\* broker's 120 seconds are.
HelpersAreAnswered ==
  \A u \in Uses : helper[u].pc = "refused" => broker[u].late \/ broker[u].stop \/ ~Busy(u)

\* Closing a terminal returns: the broker that is told to stop ends, also when
\* it waits for a helper.
Closing(u) == use[u].pc \in {"stopping", "joined"}
ClosesReturn == <>[](\A u \in Uses : ~Closing(u))

\* (Observation.) The key is removed as soon as the operation is over; false of a
\* transfer whose key could not be written whole.
KeysGoAtOnce == \A u \in Uses : use[u].pc = "ended" => u \notin files

\* (Observation.) A use that has not ended keeps its key file; false when another
\* session host starts.
KeysStayWhileUsed ==
  \A u \in Uses : use[u].pc \in {"keyed", "ready", "running"} /\ use[u].inline => u \in files
=================================================================================
