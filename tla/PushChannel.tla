----------------------------- MODULE PushChannel -----------------------------
(***************************************************************************)
(* The bounded "drop the oldest, keep the newest" channel that carries     *)
(* terminal frames from a session to one subscriber (pty/push.rs).         *)
(*                                                                         *)
(* The channel is two objects that the code updates one after the other: a *)
(* VecDeque behind a mutex (`queue') and an unbounded mpsc channel of unit *)
(* tokens (`tokens') that wakes the receiver.  send_drop_oldest pushes the *)
(* item, releases the mutex and only then sends the token; recv takes one  *)
(* token, throws away every other token and pops ONE item.  Each of those  *)
(* steps is an action here, so the two sides interleave between them.      *)
(*                                                                         *)
(* All sends of one channel are made under the session's subscriber lock   *)
(* (or by the one reader thread of a hosted subscription), so at most one  *)
(* send is in progress.  Items are numbered in the order they are sent.    *)
(***************************************************************************)
EXTENDS Integers, Sequences

CONSTANTS
  Capacity,   \* PUSH_CHANNEL_CAPACITY, 4 in the code
  Pollings,   \* the receivers considered: subset of BOOLEAN, see `polling'
  MaxSends    \* bound on the number of items sent

\* With a capacity of 2 the channel could report a premature end: see
\* NoPrematureEnd, whose proof needs 3.  The code has 4.
ASSUME CapacityAssumption == Capacity \in Nat /\ Capacity >= 3
ASSUME PollingsAssumption == Pollings \subseteq BOOLEAN
ASSUME MaxSendsAssumption == MaxSends \in Nat

VARIABLES
  queue,     \* the VecDeque: item numbers, oldest first
  tokens,    \* notifications waiting in the mpsc channel
  sent,      \* items pushed so far; the newest item has this number
  midSend,   \* TRUE between push_back and notify.send of one send
  sender,    \* the BoundedSender is alive
  receiver,  \* the BoundedReceiver is alive
  rpc,       \* where the receiver is inside recv / try_recv
  got,       \* the number of the item received last, 0 before the first
  polling    \* TRUE: the receiver polls with try_recv; FALSE: it blocks in recv

chanVars == <<queue, tokens, sent, midSend, sender, receiver, rpc, got, polling>>

ReceiverPC == {"idle", "drain", "pop", "none"}

ChannelInit ==
  /\ queue = <<>>
  /\ tokens = 0
  /\ sent = 0
  /\ midSend = FALSE
  /\ sender = TRUE
  /\ receiver = TRUE
  /\ rpc = "idle"
  /\ got = 0
  /\ polling \in Pollings

-----------------------------------------------------------------------------
(* The sending side.                                                       *)

\* Mutant: a full queue refuses the new item instead of dropping the oldest.
PushDropsNewest ==
  /\ sender /\ ~midSend
  /\ queue' = IF Len(queue) >= Capacity THEN queue ELSE Append(queue, sent + 1)
  /\ sent' = sent + 1
  /\ midSend' = TRUE
  /\ UNCHANGED <<tokens, sender, receiver, rpc, got, polling>>

\* send_drop_oldest, under the queue's mutex: make room, then push_back.
Push ==
  /\ sender /\ ~midSend
  /\ queue' = Append(IF Len(queue) >= Capacity THEN Tail(queue) ELSE queue, sent + 1)
  /\ sent' = sent + 1
  /\ midSend' = TRUE
  /\ UNCHANGED <<tokens, sender, receiver, rpc, got, polling>>

\* notify.send.  With the receiver gone it fails, send_drop_oldest returns
\* FALSE and the caller's `retain' drops the sender.
Notify ==
  /\ midSend
  /\ midSend' = FALSE
  /\ tokens' = IF receiver THEN tokens + 1 ELSE tokens
  /\ sender' = receiver
  /\ UNCHANGED <<queue, sent, receiver, rpc, got, polling>>

\* The owner of the sender drops it: the session is closed and removed, or
\* the host connection ended.
DropSender ==
  /\ sender /\ ~midSend
  /\ sender' = FALSE
  /\ UNCHANGED <<queue, tokens, sent, midSend, receiver, rpc, got, polling>>

-----------------------------------------------------------------------------
(* The receiving side.                                                     *)

\* recv blocks in notify.recv until there is a token.
Take ==
  /\ ~polling
  /\ receiver /\ rpc = "idle" /\ tokens > 0
  /\ tokens' = tokens - 1
  /\ rpc' = "drain"
  /\ UNCHANGED <<queue, sent, midSend, sender, receiver, got, polling>>

\* notify.recv fails once the sender is gone and no token is left: recv
\* returns None whatever the queue still holds.
Disconnected ==
  /\ ~polling
  /\ receiver /\ rpc = "idle" /\ tokens = 0 /\ ~sender
  /\ rpc' = "none"
  /\ UNCHANGED <<queue, tokens, sent, midSend, sender, receiver, got, polling>>

\* try_recv starts by draining, whether or not there is a token.
Poll ==
  /\ polling
  /\ receiver /\ rpc = "idle"
  /\ rpc' = "drain"
  /\ UNCHANGED <<queue, tokens, sent, midSend, sender, receiver, got, polling>>

\* Mutant: the token channel is not drained.
NoDrain ==
  /\ receiver /\ rpc = "drain"
  /\ rpc' = "pop"
  /\ UNCHANGED <<queue, tokens, sent, midSend, sender, receiver, got, polling>>

\* Mutant: the drain counts on a token being there.
DrainUnchecked ==
  /\ receiver /\ rpc = "drain"
  /\ tokens' = tokens - 1
  /\ rpc' = "pop"
  /\ UNCHANGED <<queue, sent, midSend, sender, receiver, got, polling>>

\* One iteration of `while notify.try_recv().is_ok() {}', or its last test.
Drain ==
  /\ receiver /\ rpc = "drain"
  /\ \/ tokens > 0 /\ tokens' = tokens - 1 /\ UNCHANGED rpc
     \/ tokens = 0 /\ rpc' = "pop" /\ UNCHANGED tokens
  /\ UNCHANGED <<queue, sent, midSend, sender, receiver, got, polling>>

\* Mutant: pop_back in place of pop_front.
PopNewest ==
  /\ receiver /\ rpc = "pop" /\ queue # <<>>
  /\ got' = queue[Len(queue)]
  /\ queue' = SubSeq(queue, 1, Len(queue) - 1)
  /\ rpc' = "idle"
  /\ UNCHANGED <<tokens, sent, midSend, sender, receiver, polling>>

\* queue.pop_front.
Pop ==
  /\ receiver /\ rpc = "pop" /\ queue # <<>>
  /\ got' = Head(queue)
  /\ queue' = Tail(queue)
  /\ rpc' = "idle"
  /\ UNCHANGED <<tokens, sent, midSend, sender, receiver, polling>>

\* pop_front on an empty queue.  The poller sleeps and retries; the loop
\* `while let Some(payload) = rx.recv()' ends for good.
PopNothing ==
  /\ receiver /\ rpc = "pop" /\ queue = <<>>
  /\ rpc' = IF polling THEN "idle" ELSE "none"
  /\ UNCHANGED <<queue, tokens, sent, midSend, sender, receiver, got, polling>>

\* The receiver is dropped: after its loop ended, or by unsubscribe or a lost
\* connection between two receives.
DropReceiver ==
  /\ receiver /\ rpc \in {"idle", "none"}
  /\ receiver' = FALSE
  /\ UNCHANGED <<queue, tokens, sent, midSend, sender, rpc, got, polling>>

-----------------------------------------------------------------------------
Receive == Take \/ Disconnected \/ Poll \/ Drain \/ Pop \/ PopNothing

ChannelNext ==
  \/ sent < MaxSends /\ Push
  \/ Notify
  \/ DropSender
  \/ Receive
  \/ DropReceiver

ChannelSpec == ChannelInit /\ [][ChannelNext]_chanVars

\* A subscriber that stays and threads that keep running: the sender finishes
\* a send it started, the receiving thread runs whenever it can.  Nothing
\* obliges the terminal to produce a frame, or either end to be dropped.
FairChannelSpec == ChannelSpec /\ WF_chanVars(Notify) /\ WF_chanVars(Receive)

-----------------------------------------------------------------------------
ChannelTypeOK ==
  /\ queue \in Seq(Nat)
  /\ tokens \in Nat
  /\ sent \in Nat
  /\ midSend \in BOOLEAN
  /\ sender \in BOOLEAN
  /\ receiver \in BOOLEAN
  /\ rpc \in ReceiverPC
  /\ got \in Nat
  /\ polling \in BOOLEAN

\* The queue never exceeds its capacity and holds exactly the newest items
\* sent, in order: drop-oldest never loses a newer item, in particular not
\* the last one, and never reorders.
NewestKept ==
  /\ Len(queue) <= Capacity
  /\ Len(queue) <= sent - got
  /\ \A i \in 1..Len(queue) : queue[i] = sent - Len(queue) + i

\* recv does not report the end of the stream while the sender is alive: the
\* tokens and the queue are updated apart, and a token must never be found
\* with no item behind it, or the subscription would end silently.
NoPrematureEnd == rpc = "none" => ~sender

\* Frames reach the subscriber in the order they were sent, without repeats.
ReceivedInOrder == [][got' # got => got' > got]_chanVars

\* Whenever the terminal falls silent the subscriber catches up with the last
\* item sent, as long as it stays subscribed: a burst's final state arrives.
CatchesUp == []<>(got = sent \/ ~receiver)

\* The same of the polling receiver of the WebSocket bridge, which looks at the
\* queue whether or not it has been woken.
PollerCatchesUp == polling => CatchesUp
=============================================================================
