------------------------------ MODULE PushProofs ------------------------------
(***************************************************************************)
(* Proofs about what the daemon pushes to its clients: PushChannel,        *)
(* ScreenPush, which uses it, and Connection, which the pushes go through. *)
(*                                                                         *)
(* Of the channel: its types, that it keeps the newest items, that recv    *)
(* does not end while the sender lives, that items arrive in order.  Of    *)
(* the screen: its types; that the channel in it is that of PushChannel;   *)
(* that a client's row never goes back; that no row is lost unless the     *)
(* queue overflows; and that a client that has taken the last item of an   *)
(* ended session shows its final screen.  Of the connection: its types and *)
(* the bounds of its queues, and that what is pushed over a living         *)
(* connection comes in order and is missed only where a channel overflows. *)
(***************************************************************************)
EXTENDS ScreenPush, TLAPS

CONSTANTS
  WireRoom, QueueRoom, EventRoom, ChannelRoom, MaxFrames, MaxEvents, MaxKeys, Subscribes  \* Connection

VARIABLES
  wire, client, asked, tab, owner, daemon, bridges, pushq, events, shell

Link == INSTANCE Connection


-----------------------------------------------------------------------------
(* The channel alone, for every capacity of at least 3.                    *)
(*                                                                         *)
(* The argument for NoPrematureEnd relates the notifications still to come *)
(* to the items that back them.  `Owed' counts the tokens in the channel   *)
(* and the one a send in progress has yet to deposit.  A send adds one to  *)
(* both sides, but a full queue stays full while tokens pile up, and a pop *)
(* takes one item while several tokens may have arrived since the drain.   *)
(* Hence the minimum with the capacity, and the different bound at each    *)
(* point of recv; the drain brings Owed down to at most one before the pop,*)
(* which is what restores the bound.                                       *)

\* What PushChannel assumes of its capacity and its polling.
ChannelConstants == Capacity \in Nat /\ Capacity >= 3 /\ Pollings \subseteq BOOLEAN

Owed == tokens + (IF midSend THEN 1 ELSE 0)

AtLeast(n, cap) == Len(queue) >= n \/ Len(queue) >= cap

Backed ==
  ~polling =>
    /\ rpc = "idle"  => AtLeast(Owed, Capacity - 1)
    /\ rpc = "drain" => AtLeast(Owed + 1, Capacity - 1)
    /\ rpc = "pop"   => AtLeast(Owed + 1, Capacity)

\* The inductive invariant.
ChannelInv ==
  /\ ChannelTypeOK
  /\ NewestKept
  /\ Backed
  /\ midSend => sender
  /\ polling => rpc # "none"
  /\ NoPrematureEnd

-----------------------------------------------------------------------------
\* What push_back with drop-oldest does to a queue of the newest items.
LEMMA PushShape ==
  ASSUME ChannelConstants, ChannelTypeOK, NewestKept, Push
  PROVE  /\ queue' \in Seq(Nat)
         /\ Len(queue') = IF Len(queue) >= Capacity THEN Len(queue) ELSE Len(queue) + 1
         /\ \A i \in 1..Len(queue') : queue'[i] = sent + 1 - Len(queue') + i
<1>0. Len(queue) \in Nat /\ sent \in Nat /\ queue \in Seq(Nat)
  BY DEF ChannelTypeOK
<1>1. PICK kept \in Seq(Nat), gap \in {0, 1} :
        /\ queue' = Append(kept, sent + 1)
        /\ gap = IF Len(queue) >= Capacity THEN 1 ELSE 0
        /\ Len(kept) = Len(queue) - gap
        /\ \A i \in 1..Len(kept) : kept[i] = queue[i + gap]
  <2>1. CASE Len(queue) >= Capacity
    <3>1. queue # <<>>
      BY <1>0, <2>1 DEF ChannelConstants
    <3>2. /\ Tail(queue) \in Seq(Nat)
          /\ Len(Tail(queue)) = Len(queue) - 1
          /\ \A i \in 1..Len(queue) - 1 : Tail(queue)[i] = queue[i + 1]
      BY <1>0, <3>1
    <3>3. queue' = Append(Tail(queue), sent + 1)
      BY <2>1 DEF Push
    <3>4. QED
      BY <2>1, <3>2, <3>3
  <2>2. CASE ~(Len(queue) >= Capacity)
    <3>1. queue' = Append(queue, sent + 1)
      BY <2>2 DEF Push
    <3>2. QED
      BY <1>0, <2>2, <3>1
  <2>3. QED
    BY <2>1, <2>2
<1>2. Len(kept) \in Nat
  BY <1>1
<1>3. \A i \in 1..Len(kept) : kept[i] = sent - Len(kept) + i
  <2> SUFFICES ASSUME NEW i \in 1..Len(kept)
               PROVE  kept[i] = sent - Len(kept) + i
    OBVIOUS
  <2>1. kept[i] = queue[i + gap] /\ i + gap \in 1..Len(queue)
    BY <1>0, <1>1, <1>2
  <2>2. QED
    BY <1>0, <1>1, <1>2, <2>1 DEF NewestKept
<1>5. /\ queue' \in Seq(Nat)
      /\ Len(queue') = Len(kept) + 1
      /\ \A i \in 1..Len(kept) : queue'[i] = kept[i]
      /\ queue'[Len(kept) + 1] = sent + 1
  BY <1>0, <1>1
<1>6. \A i \in 1..Len(queue') : queue'[i] = sent + 1 - Len(queue') + i
  <2> SUFFICES ASSUME NEW i \in 1..Len(queue')
               PROVE  queue'[i] = sent + 1 - Len(queue') + i
    OBVIOUS
  <2>1. CASE i = Len(kept) + 1
    BY <1>0, <1>2, <1>5, <2>1
  <2>2. CASE i \in 1..Len(kept)
    BY <1>0, <1>2, <1>3, <1>5, <2>2
  <2>3. QED
    BY <1>2, <1>5, <2>1, <2>2
<1>7. Len(queue') = IF Len(queue) >= Capacity THEN Len(queue) ELSE Len(queue) + 1
  BY <1>0, <1>1, <1>5
<1>8. QED
  BY <1>5, <1>6, <1>7

\* The initial state, with an empty queue and no token, satisfies it.
LEMMA InitChannelInv == ChannelConstants /\ ChannelInit => ChannelInv
<1> SUFFICES ASSUME ChannelConstants, ChannelInit PROVE ChannelInv
  OBVIOUS
<1>1. queue = <<>> /\ Len(queue) = 0 /\ queue \in Seq(Nat)
  BY DEF ChannelInit
<1>2. ChannelTypeOK
  BY <1>1 DEF ChannelConstants, ChannelInit, ChannelTypeOK, ReceiverPC
<1>3. NewestKept
  BY <1>1 DEF ChannelConstants, ChannelInit, NewestKept
<1>4. Backed
  BY <1>1 DEF ChannelInit, Backed, AtLeast, Owed
<1>5. QED
  BY <1>2, <1>3, <1>4 DEF ChannelInit, ChannelInv, NoPrematureEnd

\* Every step preserves the invariant.
LEMMA StepChannelInv ==
  ChannelConstants /\ ChannelInv /\ [ChannelNext]_chanVars => ChannelInv'
<1> SUFFICES ASSUME ChannelConstants, ChannelInv, [ChannelNext]_chanVars
             PROVE  ChannelInv'
  OBVIOUS
<1>00. Capacity \in Nat /\ Capacity >= 3
  BY DEF ChannelConstants
<1>0. Len(queue) \in Nat
  BY DEF ChannelInv, ChannelTypeOK
<1>1. ASSUME Push PROVE ChannelInv'
  <2>1. /\ queue' \in Seq(Nat)
        /\ Len(queue') = IF Len(queue) >= Capacity THEN Len(queue) ELSE Len(queue) + 1
        /\ \A i \in 1..Len(queue') : queue'[i] = sent + 1 - Len(queue') + i
    BY <1>1, PushShape DEF ChannelInv
  <2>2. ChannelTypeOK'
    BY <1>1, <2>1 DEF ChannelInv, ChannelTypeOK, Push
  <2>3. NewestKept'
    <3>1. sent' = sent + 1 /\ got' = got /\ sent \in Nat /\ got \in Nat
      BY <1>1 DEF ChannelInv, ChannelTypeOK, Push
    <3>2. Len(queue) <= Capacity /\ Len(queue) <= sent - got
      BY DEF ChannelInv, NewestKept
    <3>3. Capacity \in Nat /\ Len(queue') \in Nat
      BY <1>00, <2>1
    <3>4. Len(queue') <= Capacity
      BY <1>0, <1>00, <2>1, <3>2, <3>3
    <3>5. Len(queue') <= sent' - got'
      BY <1>0, <1>00, <2>1, <3>1, <3>2
    <3>6. (\A i \in 1..Len(queue) : queue[i] = sent - Len(queue) + i)'
      <4> SUFFICES ASSUME NEW i \in 1..Len(queue')
                   PROVE  queue'[i] = sent' - Len(queue') + i
        BY Zenon
      <4>1. queue'[i] = sent + 1 - Len(queue') + i
        BY <2>1
      <4>2. QED
        BY <3>1, <4>1
    <3>7. QED
      BY <3>4, <3>5, <3>6, Zenon DEF NewestKept
  <2>4. Backed'
    BY <1>0, <1>00, <1>1, <2>1 DEF ChannelInv, ChannelTypeOK, Backed, AtLeast, Owed,
           Push
  <2>5. sender' /\ rpc' = rpc /\ sender /\ polling' = polling
    BY <1>1 DEF Push
  <2>6. rpc # "none" /\ (polling => rpc # "none")
    BY <2>5 DEF ChannelInv, NoPrematureEnd
  <2>7. QED
    BY <2>2, <2>3, <2>4, <2>5, <2>6 DEF ChannelInv, NoPrematureEnd
<1>2. ASSUME Notify PROVE ChannelInv'
  <2>1. ChannelTypeOK' /\ NewestKept'
    <3>1. /\ midSend' = FALSE
          /\ sender' = receiver
          /\ UNCHANGED <<queue, sent, receiver, rpc, got, polling>>
      BY <1>2 DEF Notify
    <3>2. tokens' \in Nat
      BY <1>2 DEF ChannelInv, ChannelTypeOK, Notify
    <3>3. ChannelTypeOK'
      BY <3>1, <3>2 DEF ChannelInv, ChannelTypeOK
    <3>4. NewestKept'
      BY <3>1 DEF ChannelInv, NewestKept
    <3>5. QED
      BY <3>3, <3>4
  <2>2. sender /\ rpc' = rpc /\ rpc # "none" /\ polling' = polling
    BY <1>2 DEF ChannelInv, NoPrematureEnd, Notify
  <2>3. Owed \in Nat /\ Owed' \in Nat /\ Owed' <= Owed
    BY <1>2 DEF ChannelInv, ChannelTypeOK, Owed, Notify
  <2>4. Backed'
    BY <1>0, <1>00, <1>2, <2>3 DEF ChannelInv, Backed, AtLeast, Notify
  <2>5. QED
    BY <1>2, <2>1, <2>2, <2>4 DEF ChannelInv, NoPrematureEnd, Notify
<1>3. ASSUME DropSender PROVE ChannelInv'
  BY <1>00, <1>3
     DEF ChannelInv, ChannelTypeOK, NewestKept, Backed, AtLeast, Owed,
         NoPrematureEnd, DropSender
<1>4. ASSUME Take PROVE ChannelInv'
  BY <1>0, <1>00, <1>4
     DEF ChannelInv, ChannelTypeOK, NewestKept, Backed, AtLeast, Owed,
         NoPrematureEnd, Take, ReceiverPC
<1>5. ASSUME Disconnected PROVE ChannelInv'
  BY <1>5
     DEF ChannelInv, ChannelTypeOK, NewestKept, Backed, AtLeast, Owed,
         NoPrematureEnd, Disconnected, ReceiverPC
<1>6. ASSUME Poll PROVE ChannelInv'
  BY <1>6
     DEF ChannelInv, ChannelTypeOK, NewestKept, Backed, AtLeast, Owed,
         NoPrematureEnd, Poll, ReceiverPC
<1>7. ASSUME Drain PROVE ChannelInv'
  <2>1. CASE tokens > 0 /\ tokens' = tokens - 1 /\ UNCHANGED rpc
    BY <1>0, <1>00, <1>7, <2>1
       DEF ChannelInv, ChannelTypeOK, NewestKept, Backed, AtLeast, Owed,
           NoPrematureEnd, Drain
  <2>2. CASE tokens = 0 /\ rpc' = "pop" /\ UNCHANGED tokens
    <3>1. ChannelTypeOK' /\ NewestKept'
      BY <1>7, <2>2 DEF ChannelInv, ChannelTypeOK, NewestKept, Drain,
             ReceiverPC
    <3>2. Owed' = Owed /\ Owed \in 0..1 /\ Len(queue') = Len(queue) /\ polling' = polling
      BY <1>7, <2>2 DEF Owed, Drain
    <3>3. ~polling => AtLeast(Owed + 1, Capacity - 1)
      BY <1>7 DEF ChannelInv, Backed, Drain
    <3>4. ~polling => AtLeast(Owed + 1, Capacity)
      BY <1>0, <1>00, <3>2, <3>3 DEF AtLeast
    <3>5. Backed'
      BY <1>7, <2>2, <3>2, <3>4 DEF Backed, AtLeast
    <3>6. QED
      BY <1>7, <2>2, <3>1, <3>5 DEF ChannelInv, NoPrematureEnd, Drain
  <2>3. QED
    BY <1>7, <2>1, <2>2 DEF Drain
<1>8. ASSUME Pop PROVE ChannelInv'
  <2>1. /\ queue # <<>>
        /\ queue' \in Seq(Nat)
        /\ Len(queue') = Len(queue) - 1
        /\ \A i \in 1..Len(queue') : queue'[i] = queue[i + 1]
        /\ Head(queue) = queue[1]
        /\ Head(queue) \in Nat
    BY <1>8 DEF ChannelInv, ChannelTypeOK, Pop
  <2>2. ChannelTypeOK'
    BY <1>8, <2>1 DEF ChannelInv, ChannelTypeOK, Pop, ReceiverPC
  <2>3. NewestKept'
    BY <1>0, <1>00, <1>8, <2>1 DEF ChannelInv, ChannelTypeOK, NewestKept, Pop
  <2>4. Backed'
    BY <1>0, <1>00, <1>8, <2>1 DEF ChannelInv, ChannelTypeOK, Backed, AtLeast, Owed,
           Pop
  <2>5. QED
    BY <1>8, <2>2, <2>3, <2>4 DEF ChannelInv, NoPrematureEnd, Pop
<1>9. ASSUME PopNothing PROVE ChannelInv'
  <2>1. Len(queue) = 0
    BY <1>9 DEF PopNothing
  <2>2. polling
    BY <1>0, <1>00, <1>9, <2>1 DEF ChannelInv, ChannelTypeOK, Backed, AtLeast, Owed,
           PopNothing
  <2>3. QED
    BY <1>9, <2>2
       DEF ChannelInv, ChannelTypeOK, NewestKept, Backed, AtLeast, Owed,
           NoPrematureEnd, PopNothing, ReceiverPC
<1>10. ASSUME DropReceiver PROVE ChannelInv'
  BY <1>00, <1>10
     DEF ChannelInv, ChannelTypeOK, NewestKept, Backed, AtLeast, Owed,
         NoPrematureEnd, DropReceiver
<1>11. ASSUME UNCHANGED chanVars PROVE ChannelInv'
  BY <1>11
     DEF ChannelInv, ChannelTypeOK, NewestKept, Backed, AtLeast, Owed,
         NoPrematureEnd, chanVars
<1>12. QED
  BY <1>1, <1>2, <1>3, <1>4, <1>5, <1>6, <1>7, <1>8, <1>9, <1>10, <1>11 DEF ChannelNext,
         Receive

\* Every reachable state of the channel satisfies the inductive invariant.
LEMMA ChannelInvariance ==
  ASSUME ChannelConstants
  PROVE  ChannelSpec => []ChannelInv
BY InitChannelInv, StepChannelInv, PTL DEF ChannelSpec

-----------------------------------------------------------------------------
\* The variables keep their types (pty/push.rs, bounded_channel).
THEOREM ChannelTypeCorrect ==
  ASSUME ChannelConstants
  PROVE  ChannelSpec => []ChannelTypeOK
<1>1. ChannelInv => ChannelTypeOK
  BY DEF ChannelInv
<1>2. QED
  BY <1>1, ChannelInvariance, PTL

\* Whatever the interleaving of sends and receives, the queue holds exactly
\* the newest items, in order and at most Capacity of them: drop-oldest can
\* never lose the last frame sent.
THEOREM KeepsNewest ==
  ASSUME ChannelConstants
  PROVE  ChannelSpec => []NewestKept
<1>1. ChannelInv => NewestKept
  BY DEF ChannelInv
<1>2. QED
  BY <1>1, ChannelInvariance, PTL

\* recv never returns None while the sender is alive, for any capacity of at
\* least 3: the subscription thread of the session host does not end early.
THEOREM EndOnlyAfterSender ==
  ASSUME ChannelConstants
  PROVE  ChannelSpec => []NoPrematureEnd
<1>1. ChannelInv => NoPrematureEnd
  BY DEF ChannelInv
<1>2. QED
  BY <1>1, ChannelInvariance, PTL

\* A subscriber sees frames in the order they were sent, each at most once.
THEOREM InOrder ==
  ASSUME ChannelConstants
  PROVE  ChannelSpec => ReceivedInOrder
<1>1. ChannelInv /\ [ChannelNext]_chanVars
        => [got' # got => got' > got]_chanVars
  <2> SUFFICES ASSUME ChannelInv, [ChannelNext]_chanVars, got' # got
               PROVE  got' > got
    BY DEF chanVars
  <2>1. Pop
    BY DEF ChannelNext, Push, Notify, DropSender, Receive,
           Take, Disconnected, Poll, Drain,
           PopNothing, DropReceiver, chanVars
  <2>2. Len(queue) \in Nat /\ Len(queue) > 0
    BY <2>1 DEF Pop, ChannelInv, ChannelTypeOK
  <2>3. got' = queue[1]
    BY <2>1 DEF Pop, ChannelInv, ChannelTypeOK
  <2>4. QED
    BY <2>2, <2>3 DEF ChannelInv, ChannelTypeOK, NewestKept
<1>2. QED
  BY <1>1, ChannelInvariance, PTL DEF ChannelSpec, ReceivedInOrder

-----------------------------------------------------------------------------
(* The channel in the composition.                                         *)

Oldest == sent - Len(queue) + 1

\* The items in the queue are the newest ones.
LEMMA QueuedAreNewest ==
  ASSUME ChannelTypeOK, NewestKept
  PROVE  Queued = Oldest..sent /\ Oldest \in Nat \ {0}
<1>1. sent \in Nat /\ got \in Nat /\ Len(queue) \in Nat
  BY DEF ChannelTypeOK
<1>2. /\ Len(queue) <= sent - got
      /\ \A i \in 1..Len(queue) : queue[i] = sent - Len(queue) + i
  BY DEF NewestKept
<1>3. ASSUME NEW i \in 1..Len(queue) PROVE queue[i] \in Oldest..sent
  BY <1>1, <1>2, <1>3 DEF Oldest
<1>4. ASSUME NEW n \in Oldest..sent PROVE n \in Queued
  <2> DEFINE i == n - Oldest + 1
  <2>1. i \in 1..Len(queue) /\ sent - Len(queue) + i = n
    BY <1>1, <1>2, <1>4 DEF Oldest
  <2> HIDE DEF i
  <2>2. queue[i] = n
    BY <1>2, <2>1
  <2> QED
    BY <2>1, <2>2 DEF Queued
<1>5. Queued \subseteq Oldest..sent
  BY <1>3 DEF Queued
<1>6. Oldest \in Nat \ {0}
  BY <1>1, <1>2 DEF Oldest
<1> QED
  BY <1>4, <1>5, <1>6

\* A send makes room in a full queue and adds the next number.
LEMMA PushMoves ==
  ASSUME ScreenConstants, ChannelTypeOK, NewestKept, Push
  PROVE  /\ ChannelTypeOK' /\ NewestKept'
         /\ sent' = sent + 1 /\ got' = got
         /\ sent + 1 \in Queued' /\ sent + 1 \notin Queued
         /\ Queued' \subseteq Queued \cup {sent + 1}
         /\ Len(queue) < Capacity => Queued \subseteq Queued'
<1>0. /\ sent \in Nat /\ got \in Nat /\ Len(queue) \in Nat
      /\ Capacity \in Nat /\ Capacity >= 3 /\ ChannelConstants
      /\ Len(queue) <= Capacity /\ Len(queue) <= sent - got
  BY DEF ChannelTypeOK, NewestKept, ScreenConstants, ChannelConstants
<1>1. /\ queue' \in Seq(Nat)
      /\ Len(queue') = IF Len(queue) >= Capacity THEN Len(queue) ELSE Len(queue) + 1
      /\ \A i \in 1..Len(queue') : queue'[i] = sent + 1 - Len(queue') + i
  BY <1>0, PushShape
<1>3. /\ sent' = sent + 1 /\ midSend' = TRUE
      /\ UNCHANGED <<tokens, sender, receiver, rpc, got, polling>>
  BY DEF Push
<1>5. ChannelTypeOK'
  BY <1>0, <1>1, <1>3 DEF ChannelTypeOK
<1>6. \A i \in 1..Len(queue') : queue'[i] = sent' - Len(queue') + i
  <2> TAKE i \in 1..Len(queue')
  <2>1. queue'[i] = sent + 1 - Len(queue') + i
    BY <1>1
  <2>2. sent' = sent + 1 /\ Len(queue') \in Nat
    BY <1>0, <1>1, <1>3
  <2> QED
    BY <1>0, <2>1, <2>2
<1>7. Len(queue') <= Capacity /\ Len(queue') <= sent' - got'
  BY <1>0, <1>1, <1>3
<1>8. NewestKept'
  BY <1>6, <1>7 DEF NewestKept
<1>9. Queued = Oldest..sent
  BY QueuedAreNewest
<1>10. (Queued = Oldest..sent)'
  <2>1. (ChannelTypeOK /\ NewestKept => Queued = Oldest..sent)'
    BY QueuedAreNewest, PTL
  <2> QED
    BY <1>5, <1>8, <2>1
<1>11. Queued' = sent + 2 - Len(queue')..sent + 1
  BY <1>0, <1>1, <1>3, <1>10 DEF Oldest
<1>12. /\ sent + 1 \in Queued' /\ sent + 1 \notin Queued
       /\ Queued' \subseteq Queued \cup {sent + 1}
       /\ Len(queue) < Capacity => Queued \subseteq Queued'
  <2>1. Queued = sent + 1 - Len(queue)..sent
    BY <1>0, <1>9 DEF Oldest
  <2>2. /\ Len(queue') \in Nat /\ Len(queue') >= 1 /\ Len(queue') <= Len(queue) + 1
        /\ Len(queue) < Capacity => Len(queue') = Len(queue) + 1
    BY <1>0, <1>1
  <2>3. sent + 1 \in Queued' /\ sent + 1 \notin Queued
    BY <1>0, <1>11, <2>1, <2>2
  <2>4. ASSUME NEW i \in Queued' PROVE i \in Queued \/ i = sent + 1
    BY <1>0, <1>11, <2>1, <2>2, <2>4
  <2>5. ASSUME NEW i \in Queued, Len(queue) < Capacity PROVE i \in Queued'
    BY <1>0, <1>11, <2>1, <2>2, <2>5
  <2> QED
    BY <2>3, <2>4, <2>5
<1> QED
  BY <1>3, <1>5, <1>8, <1>12

\* A receive takes the oldest item.
LEMMA PopMoves ==
  ASSUME ScreenConstants, ChannelTypeOK, NewestKept, Pop
  PROVE  /\ ChannelTypeOK' /\ NewestKept'
         /\ sent' = sent /\ got' > got /\ got' \in Queued
         /\ Queued' = Queued \ {got'}
         /\ \A i \in Queued' : got' < i
         /\ got' # sent => sent \in Queued'
<1>0. /\ sent \in Nat /\ got \in Nat /\ queue \in Seq(Nat) /\ Len(queue) \in Nat
      /\ Len(queue) <= Capacity /\ Len(queue) <= sent - got
      /\ \A i \in 1..Len(queue) : queue[i] = sent - Len(queue) + i
  BY DEF ChannelTypeOK, NewestKept
<1>1. /\ queue # <<>> /\ got' = queue[1] /\ queue' = Tail(queue) /\ rpc' = "idle"
      /\ UNCHANGED <<tokens, sent, midSend, sender, receiver, polling>>
  BY <1>0 DEF Pop
<1>2. /\ queue' \in Seq(Nat) /\ Len(queue) > 0 /\ Len(queue') = Len(queue) - 1
      /\ \A i \in 1..Len(queue') : queue'[i] = queue[i + 1]
  BY <1>0, <1>1
<1>3. got' = Oldest
  BY <1>0, <1>1, <1>2 DEF Oldest
<1>4. ChannelTypeOK'
  BY <1>0, <1>1, <1>2, <1>3 DEF ChannelTypeOK, ReceiverPC, Oldest
<1>5. \A i \in 1..Len(queue') : queue'[i] = sent' - Len(queue') + i
  BY <1>0, <1>1, <1>2
<1>7. NewestKept'
  BY <1>0, <1>1, <1>2, <1>3, <1>5 DEF NewestKept, Oldest, ScreenConstants
<1>8. Queued = Oldest..sent
  BY QueuedAreNewest
<1>9. (Queued = Oldest..sent)'
  <2>1. (ChannelTypeOK /\ NewestKept => Queued = Oldest..sent)'
    BY QueuedAreNewest, PTL
  <2> QED
    BY <1>4, <1>7, <2>1
<1> QED
  BY <1>0, <1>1, <1>2, <1>3, <1>4, <1>7, <1>8, <1>9 DEF Oldest

\* The other channel steps leave the items where they are.
LEMMA OthersMove ==
  ASSUME ChannelTypeOK, NewestKept,
         Notify \/ Poll \/ Drain \/ PopNothing \/ UNCHANGED chanVars
  PROVE  ChannelTypeOK' /\ NewestKept' /\ UNCHANGED <<queue, sent, got>>
<1>1. UNCHANGED <<queue, sent, got>>
  BY DEF Notify, Poll, Drain, PopNothing, chanVars
<1>2. NewestKept'
  BY <1>1 DEF NewestKept
<1>3. ChannelTypeOK'
  <2>1. CASE Notify
    <3>1. /\ midSend' = FALSE /\ sender' = receiver
          /\ UNCHANGED <<queue, sent, receiver, rpc, got, polling>>
      BY <2>1 DEF Notify
    <3>2. tokens' \in Nat
      BY <2>1 DEF ChannelTypeOK, Notify
    <3> QED
      BY <3>1, <3>2 DEF ChannelTypeOK
  <2>2. CASE Poll
    BY <2>2 DEF ChannelTypeOK, Poll, ReceiverPC
  <2>3. CASE Drain
    BY <2>3 DEF ChannelTypeOK, Drain, ReceiverPC
  <2>4. CASE PopNothing
    BY <2>4 DEF ChannelTypeOK, PopNothing, ReceiverPC
  <2>5. CASE UNCHANGED chanVars
    BY <2>5 DEF ChannelTypeOK, chanVars
  <2> QED
    BY <2>1, <2>2, <2>3, <2>4, <2>5
<1> QED
  BY <1>1, <1>2, <1>3

\* What a step of the session or the client does to the channel, a step of the channel
\* does, with an end that nobody drops and a receiver that polls.
LEMMA StepIsChannelStep == [Next]_screenVars => [ChannelNext]_chanVars
<1> SUFFICES ASSUME [Next]_screenVars, ~UNCHANGED chanVars PROVE ChannelNext
  BY DEF chanVars
<1>1. CASE sent < MaxSends /\ (Subscribe \/ Tick \/ Finalize)
  BY <1>1 DEF Subscribe, Tick, Finalize, Send, ChannelNext
<1>2. CASE Notified
  BY <1>2 DEF Notified, ChannelNext
<1>3. CASE Client
  BY <1>3 DEF Client, Paint, Polled, Drained, FoundNothing, ChannelNext, Receive
<1>4. CASE (\E r \in Rows : Write(r)) \/ UNCHANGED screenVars
  BY <1>4 DEF Write, screenVars
<1> QED
  BY <1>1, <1>2, <1>3, <1>4 DEF Next

-----------------------------------------------------------------------------
(* The invariant.                                                          *)

\* Contents grow from the client's screen over the frames in the queue to the terminal.
Ordered ==
  /\ \A r \in Rows : grid[r] <= term[r]
  /\ \A i \in Queued : \A r \in DOMAIN frames[i] :
       grid[r] <= frames[i][r] /\ frames[i][r] <= term[r]
  /\ \A i, j \in Queued : \A r \in DOMAIN frames[i] \cap DOMAIN frames[j] :
       i < j => frames[i][r] <= frames[j][r]

\* The present content of row r is shown or on its way.
Delivered(r) ==
  \/ grid[r] = term[r]
  \/ \E i \in Queued : r \in DOMAIN frames[i] /\ frames[i][r] = term[r]

\* The frame the push loop compares with is no newer than the terminal, and what it has
\* of the present contents has been sent.
LastInv ==
  /\ last \in Frames
  /\ \A r \in DOMAIN last : last[r] <= term[r]
  /\ subscribed /\ ~dropped => \A r \in DOMAIN last : last[r] = term[r] => Delivered(r)

\* A row that is not damaged has been sent.
DamageInv ==
  subscribed /\ ~dropped => \A r \in Rows : Delivered(r) \/ (r \in damage /\ ~ended)

\* The last item of an ended session is its whole screen.
FinalInv ==
  ended /\ subscribed =>
    (got = sent /\ grid = term) \/ (sent \in Queued /\ frames[sent] = term)

ScreenInv ==
  TypeOK /\ NewestKept /\ Ordered /\ LastInv /\ DamageInv /\ FinalInv

LEMMA FrameShape ==
  /\ \A f \in Frames : DOMAIN f \subseteq Rows /\ \A r \in DOMAIN f : f[r] \in 0..MaxWrites
  /\ \A S \in SUBSET Rows : \A f \in [S -> 0..MaxWrites] : f \in Frames /\ DOMAIN f = S
BY DEF Frames

LEMMA InitInv == ScreenConstants /\ Init => ScreenInv
<1> SUFFICES ASSUME ScreenConstants, Init PROVE ScreenInv
  OBVIOUS
<1>1. /\ queue = <<>> /\ Len(queue) = 0 /\ queue \in Seq(Nat) /\ sent = 0 /\ got = 0
      /\ Queued = {}
  BY DEF Init, ChannelInit, Queued
<1>2. ChannelTypeOK /\ NewestKept
  <2>1. ChannelTypeOK
    <3>1. polling \in BOOLEAN
      BY DEF Init, ChannelInit, ScreenConstants
    <3>2. /\ tokens = 0 /\ midSend = FALSE /\ sender = TRUE /\ receiver = TRUE
          /\ rpc = "idle"
      BY DEF Init, ChannelInit
    <3> QED
      BY <1>1, <3>1, <3>2 DEF ChannelTypeOK, ReceiverPC
  <2>2. NewestKept
    BY <1>1 DEF NewestKept, ScreenConstants
  <2> QED
    BY <2>1, <2>2
<1>3. /\ term = Blank /\ grid = Blank /\ Blank \in [Rows -> 0..MaxWrites]
      /\ cursor \in Rows /\ damage = Rows /\ ended = FALSE /\ dropped = FALSE
      /\ DOMAIN last = {} /\ DOMAIN frames = {}
  BY DEF Init, Blank, ScreenConstants
<1>4. last \in [{} -> 0..MaxWrites] /\ frames \in [Queued -> Frames]
  BY <1>1 DEF Init
<1>5. last \in Frames
  BY <1>4, FrameShape
<1>6. TypeOK
  BY <1>2, <1>3, <1>4 DEF TypeOK
<1>7. Ordered
  BY <1>1, <1>3 DEF Ordered, Blank
<1>8. LastInv /\ DamageInv /\ FinalInv
  BY <1>1, <1>3, <1>5 DEF LastInv, DamageInv, FinalInv, subscribed
<1> QED
  BY <1>2, <1>6, <1>7, <1>8 DEF ScreenInv

-----------------------------------------------------------------------------
(* Every step keeps the invariant.                                         *)

\* What the channel holds after a send, and what has been delivered by then.
LEMMA SendKeeps ==
  ASSUME ScreenConstants, ScreenInv, NEW frame \in Frames, Send(frame),
         \A r \in DOMAIN frame : frame[r] = term[r],
         UNCHANGED <<term, grid>>
  PROVE  /\ ChannelTypeOK' /\ NewestKept'
         /\ frames' \in [Queued' -> Frames] /\ dropped' \in BOOLEAN
         /\ Ordered'
         /\ sent' \in Queued' /\ frames'[sent'] = frame
         /\ \A r \in DOMAIN frame : Delivered(r)'
         /\ ~dropped' => ~dropped /\ \A r \in Rows : Delivered(r) => Delivered(r)'
<1>0. /\ TypeOK /\ ChannelTypeOK /\ NewestKept /\ Ordered
      /\ term \in [Rows -> 0..MaxWrites] /\ grid \in [Rows -> 0..MaxWrites]
      /\ frames \in [Queued -> Frames] /\ dropped \in BOOLEAN
      /\ sent \in Nat /\ Len(queue) \in Nat /\ Capacity \in Nat
      /\ MaxWrites \in Nat
  BY DEF ScreenInv, TypeOK, ChannelTypeOK, ScreenConstants
<1>1. /\ Push
      /\ frames' = [i \in Queued' |-> IF i = sent + 1 THEN frame ELSE frames[i]]
      /\ dropped' = (dropped \/ Len(queue) >= Capacity)
      /\ term' = term /\ grid' = grid
  BY DEF Send
<1>2. /\ ChannelTypeOK' /\ NewestKept'
      /\ sent' = sent + 1 /\ sent + 1 \in Queued' /\ sent + 1 \notin Queued
      /\ Queued' \subseteq Queued \cup {sent + 1}
      /\ Len(queue) < Capacity => Queued \subseteq Queued'
  BY <1>0, <1>1, PushMoves
<1>3. \A i \in Queued : i \in Nat /\ i <= sent
  BY <1>0, QueuedAreNewest DEF Oldest
<1>4. /\ frames'[sent + 1] = frame
      /\ \A i \in Queued' : i # sent + 1 => i \in Queued /\ frames'[i] = frames[i]
  BY <1>1, <1>2
<1>5. /\ DOMAIN frame \subseteq Rows
      /\ \A i \in Queued : DOMAIN frames[i] \subseteq Rows
      /\ \A i \in Queued : \A r \in DOMAIN frames[i] : frames[i][r] \in 0..MaxWrites
  BY <1>0, FrameShape
<1>6. frames' \in [Queued' -> Frames]
  BY <1>0, <1>1, <1>2
<1>7. dropped' \in BOOLEAN
  BY <1>0, <1>1
<1>8. \A i \in Queued' : \A r \in DOMAIN frames'[i] :
        grid'[r] <= frames'[i][r] /\ frames'[i][r] <= term'[r]
  <2> SUFFICES ASSUME NEW i \in Queued', NEW r \in DOMAIN frames'[i]
               PROVE  grid'[r] <= frames'[i][r] /\ frames'[i][r] <= term'[r]
    OBVIOUS
  <2>1. CASE i = sent + 1
    <3>1. r \in Rows /\ frames'[i][r] = term[r] /\ grid[r] <= term[r]
      BY <1>0, <1>4, <1>5, <2>1 DEF Ordered
    <3> QED
      BY <1>0, <1>1, <3>1
  <2>2. CASE i # sent + 1
    BY <1>0, <1>1, <1>4, <2>2 DEF Ordered
  <2> QED
    BY <2>1, <2>2
<1>9. \A i, j \in Queued' : \A r \in DOMAIN frames'[i] \cap DOMAIN frames'[j] :
        i < j => frames'[i][r] <= frames'[j][r]
  <2> SUFFICES ASSUME NEW i \in Queued', NEW j \in Queued',
                      NEW r \in DOMAIN frames'[i] \cap DOMAIN frames'[j], i < j
               PROVE  frames'[i][r] <= frames'[j][r]
    OBVIOUS
  <2>1. i # sent + 1
    BY <1>0, <1>2, <1>3
  <2>2. CASE j = sent + 1
    <3>1. frames'[j][r] = term[r] /\ frames'[i][r] <= term'[r]
      BY <1>4, <1>8, <2>2
    <3> QED
      BY <1>1, <3>1
  <2>3. CASE j # sent + 1
    BY <1>0, <1>4, <2>1, <2>3 DEF Ordered
  <2> QED
    BY <2>2, <2>3
<1>10. Ordered'
  <2>1. \A r \in Rows : grid'[r] <= term'[r]
    BY <1>0, <1>1 DEF Ordered
  <2> QED
    BY <1>8, <1>9, <2>1 DEF Ordered
<1>11. \A r \in DOMAIN frame : Delivered(r)'
  <2> SUFFICES ASSUME NEW r \in DOMAIN frame PROVE Delivered(r)'
    OBVIOUS
  <2>1. sent + 1 \in Queued' /\ r \in DOMAIN frames'[sent + 1] /\ frames'[sent + 1][r] = term'[r]
    BY <1>1, <1>2, <1>4
  <2> QED
    BY <2>1 DEF Delivered
<1>12. ~dropped' => ~dropped /\ Len(queue) < Capacity
  <2>1. ~dropped' => ~dropped /\ ~(Len(queue) >= Capacity)
    BY <1>1, Zenon
  <2>2. ~(Len(queue) >= Capacity) => Len(queue) < Capacity
    BY <1>0
  <2> QED
    BY <2>1, <2>2
<1>13. ASSUME ~dropped', NEW r \in Rows, Delivered(r) PROVE Delivered(r)'
  <2>1. CASE grid[r] = term[r]
    BY <1>1, <2>1 DEF Delivered
  <2>2. CASE \E i \in Queued : r \in DOMAIN frames[i] /\ frames[i][r] = term[r]
    <3>1. PICK i \in Queued : r \in DOMAIN frames[i] /\ frames[i][r] = term[r]
      BY <2>2
    <3>2. i \in Queued' /\ frames'[i] = frames[i]
      BY <1>2, <1>4, <1>12, <1>13, <3>1
    <3> QED
      BY <1>1, <3>1, <3>2 DEF Delivered
  <2> QED
    BY <1>13, <2>1, <2>2 DEF Delivered
<1> QED
  BY <1>2, <1>4, <1>6, <1>7, <1>10, <1>11, <1>12, <1>13

\* Where neither terminal, channel nor client moves, what was delivered stays so.
LEMMA StillDelivered ==
  ASSUME UNCHANGED <<term, grid, frames, queue>>
  PROVE  /\ Queued' = Queued
         /\ Ordered => Ordered'
         /\ \A r \in Rows : Delivered(r) => Delivered(r)'
<1>1. Queued' = Queued
  BY DEF Queued
<1> QED
  BY <1>1 DEF Ordered, Delivered

LEMMA WriteKeeps ==
  ASSUME ScreenConstants, ScreenInv, NEW w \in Rows, Write(w)
  PROVE  ScreenInv'
<1>0. /\ TypeOK /\ ChannelTypeOK /\ NewestKept /\ Ordered /\ LastInv /\ DamageInv
      /\ term \in [Rows -> 0..MaxWrites] /\ grid \in [Rows -> 0..MaxWrites]
      /\ frames \in [Queued -> Frames]
  BY DEF ScreenInv, TypeOK
<1>1. /\ ~ended /\ term[w] < MaxWrites
      /\ term' = [term EXCEPT ![w] = @ + 1] /\ cursor' = w
      /\ damage' \subseteq Rows /\ damage \subseteq damage' /\ w \in damage'
      /\ UNCHANGED <<last, ended, frames, grid, dropped, chanVars>>
  BY <1>0 DEF Write, TypeOK
<1>2. UNCHANGED <<queue, sent, got>> /\ Queued' = Queued
  BY <1>1 DEF chanVars, Queued
<1>3. /\ \A r \in Rows : term[r] \in Nat /\ term'[r] \in Nat /\ term[r] <= term'[r]
      /\ term'[w] = term[w] + 1
      /\ \A r \in Rows : r # w => term'[r] = term[r]
      /\ term' \in [Rows -> 0..MaxWrites]
  <2>1. MaxWrites \in Nat
    BY DEF ScreenConstants
  <2> QED
    BY <1>0, <1>1, <2>1
<1>4. ChannelTypeOK' /\ NewestKept'
  BY <1>0, <1>1, OthersMove
<1>5. TypeOK'
  BY <1>0, <1>1, <1>2, <1>3, <1>4 DEF TypeOK
<1>6. /\ \A i \in Queued : DOMAIN frames[i] \subseteq Rows
      /\ \A i \in Queued : \A r \in DOMAIN frames[i] : frames[i][r] \in 0..MaxWrites
      /\ DOMAIN last \subseteq Rows /\ \A r \in DOMAIN last : last[r] \in 0..MaxWrites
  BY <1>0, FrameShape DEF LastInv
<1>7. Ordered'
  <2>1. \A r \in Rows : grid'[r] <= term'[r]
    BY <1>0, <1>1, <1>3 DEF Ordered
  <2>2. \A i \in Queued : \A r \in DOMAIN frames[i] :
          grid[r] <= frames[i][r] /\ frames[i][r] <= term'[r]
    BY <1>0, <1>3, <1>6 DEF Ordered
  <2> QED
    BY <1>0, <1>1, <1>2, <2>1, <2>2 DEF Ordered
<1>8. ASSUME NEW r \in Rows, r # w, Delivered(r) PROVE Delivered(r)'
  BY <1>1, <1>2, <1>3, <1>8 DEF Delivered
<1>9. ASSUME NEW r \in DOMAIN last PROVE last[r] <= term'[r] /\ (last[r] = term'[r] => r # w)
  <2>1. last[r] <= term[r] /\ r \in Rows /\ last[r] \in 0..MaxWrites
    BY <1>0, <1>6 DEF LastInv
  <2> QED
    BY <1>3, <2>1
<1>10. LastInv'
  <2>1. subscribed' = subscribed /\ dropped' = dropped /\ last' = last
    BY <1>1, <1>2 DEF subscribed
  <2>2. ASSUME subscribed, ~dropped, NEW r \in DOMAIN last, last[r] = term'[r]
        PROVE  Delivered(r)'
    <3>1. r # w /\ r \in Rows
      BY <1>6, <1>9, <2>2
    <3>2. last[r] = term[r]
      BY <1>3, <2>2, <3>1
    <3> QED
      BY <1>0, <1>8, <2>2, <3>1, <3>2 DEF LastInv
  <2> QED
    BY <1>0, <1>9, <2>1, <2>2 DEF LastInv
<1>11. DamageInv'
  <2>1. subscribed' = subscribed /\ dropped' = dropped /\ ended' = ended
    BY <1>1, <1>2 DEF subscribed
  <2> QED
    BY <1>0, <1>1, <1>8, <2>1 DEF DamageInv
<1>12. FinalInv'
  BY <1>1 DEF FinalInv
<1> QED
  BY <1>4, <1>5, <1>7, <1>10, <1>11, <1>12 DEF ScreenInv

LEMMA SubscribeKeeps ==
  ASSUME ScreenConstants, ScreenInv, Subscribe
  PROVE  ScreenInv'
<1>0. /\ TypeOK /\ LastInv /\ term \in [Rows -> 0..MaxWrites]
  BY DEF ScreenInv, TypeOK
<1>1. /\ Send(term) /\ UNCHANGED <<term, cursor, damage, last, ended, grid>>
  BY DEF Subscribe
<1>2. term \in Frames /\ DOMAIN term = Rows
  BY <1>0, FrameShape
<1>3. /\ ChannelTypeOK' /\ NewestKept'
      /\ frames' \in [Queued' -> Frames] /\ dropped' \in BOOLEAN
      /\ Ordered'
      /\ sent' \in Queued' /\ frames'[sent'] = term
      /\ \A r \in Rows : Delivered(r)'
  BY <1>1, <1>2, SendKeeps
<1>4. TypeOK'
  BY <1>0, <1>1, <1>3 DEF TypeOK
<1>5. LastInv'
  <2>1. DOMAIN last \subseteq Rows
    BY <1>0, FrameShape DEF LastInv
  <2> QED
    BY <1>0, <1>1, <1>3, <2>1 DEF LastInv
<1>6. DamageInv' /\ FinalInv'
  BY <1>1, <1>3 DEF DamageInv, FinalInv
<1> QED
  BY <1>3, <1>4, <1>5, <1>6 DEF ScreenInv

LEMMA TickKeeps ==
  ASSUME ScreenConstants, ScreenInv, Tick
  PROVE  ScreenInv'
<1> DEFINE frame == Lines(damage \cup {cursor})
<1>0. /\ TypeOK /\ ChannelTypeOK /\ NewestKept /\ Ordered /\ LastInv /\ DamageInv
      /\ FinalInv
      /\ term \in [Rows -> 0..MaxWrites] /\ grid \in [Rows -> 0..MaxWrites]
      /\ damage \subseteq Rows /\ cursor \in Rows
  BY DEF ScreenInv, TypeOK
<1>1. /\ ~ended /\ damage' = {} /\ last' = frame
      /\ UNCHANGED <<term, cursor, ended, grid>>
      /\ \/ (frame = last \/ ~subscribed) /\ UNCHANGED <<frames, dropped, chanVars>>
         \/ subscribed /\ frame # last /\ Send(frame)
  BY DEF Tick
<1>2. /\ frame \in Frames /\ DOMAIN frame = damage \cup {cursor}
      /\ \A r \in DOMAIN frame : r \in Rows /\ frame[r] = term[r]
  <2>1. frame \in [damage \cup {cursor} -> 0..MaxWrites] /\ damage \cup {cursor} \in SUBSET Rows
    BY <1>0 DEF Lines
  <2>2. \A r \in damage \cup {cursor} : frame[r] = term[r]
    BY DEF Lines
  <2> HIDE DEF frame
  <2> QED
    BY <2>1, <2>2, FrameShape
<1> HIDE DEF frame
<1>3. \A r \in DOMAIN frame : term'[r] = frame[r] /\ term[r] \in Nat
  BY <1>0, <1>1, <1>2
<1>4. CASE (frame = last \/ ~subscribed) /\ UNCHANGED <<frames, dropped, chanVars>>
  <2>1. /\ Queued' = Queued /\ Ordered' /\ \A r \in Rows : Delivered(r) => Delivered(r)'
        /\ subscribed' = subscribed
    BY <1>0, <1>1, <1>4, StillDelivered DEF chanVars, subscribed
  <2>2. ChannelTypeOK' /\ NewestKept'
    BY <1>0, <1>4, OthersMove
  <2>3. TypeOK'
    BY <1>0, <1>1, <1>4, <2>1, <2>2 DEF TypeOK
  <2>4. ASSUME subscribed, ~dropped, NEW r \in DOMAIN frame PROVE Delivered(r)'
    BY <1>0, <1>2, <1>4, <2>1, <2>4 DEF LastInv
  <2>5. LastInv'
    BY <1>1, <1>2, <1>3, <1>4, <2>1, <2>4 DEF LastInv
  <2>6. DamageInv'
    <3>1. ASSUME subscribed, ~dropped, NEW r \in Rows PROVE Delivered(r)'
      BY <1>0, <1>2, <2>1, <2>4, <3>1 DEF DamageInv
    <3> QED
      BY <1>4, <2>1, <3>1 DEF DamageInv
  <2>7. FinalInv'
    BY <1>1 DEF FinalInv
  <2> QED
    BY <2>1, <2>2, <2>3, <2>5, <2>6, <2>7 DEF ScreenInv
<1>5. CASE subscribed /\ Send(frame)
  <2>1. /\ ChannelTypeOK' /\ NewestKept'
        /\ frames' \in [Queued' -> Frames] /\ dropped' \in BOOLEAN
        /\ Ordered'
        /\ \A r \in DOMAIN frame : Delivered(r)'
        /\ ~dropped' => ~dropped /\ \A r \in Rows : Delivered(r) => Delivered(r)'
    BY <1>1, <1>2, <1>5, SendKeeps
  <2>2. TypeOK'
    BY <1>0, <1>1, <2>1 DEF TypeOK
  <2>3. LastInv'
    BY <1>1, <1>2, <1>3, <2>1 DEF LastInv
  <2>4. DamageInv'
    <3>1. ASSUME ~dropped', NEW r \in Rows PROVE Delivered(r)'
      BY <1>0, <1>2, <1>5, <2>1, <3>1 DEF DamageInv
    <3> QED
      BY <3>1 DEF DamageInv
  <2>5. FinalInv'
    BY <1>1 DEF FinalInv
  <2> QED
    BY <2>1, <2>2, <2>3, <2>4, <2>5 DEF ScreenInv
<1> QED
  BY <1>1, <1>4, <1>5

LEMMA FinalizeKeeps ==
  ASSUME ScreenConstants, ScreenInv, Finalize
  PROVE  ScreenInv'
<1>0. /\ TypeOK /\ ChannelTypeOK /\ NewestKept /\ Ordered /\ LastInv
      /\ term \in [Rows -> 0..MaxWrites]
  BY DEF ScreenInv, TypeOK
<1>1. /\ ended' = TRUE /\ UNCHANGED <<term, cursor, damage, last, grid>>
      /\ \/ ~subscribed /\ UNCHANGED <<frames, dropped, chanVars>>
         \/ Send(term)
  BY DEF Finalize
<1>2. term \in Frames /\ DOMAIN term = Rows
  BY <1>0, FrameShape
<1>3. CASE ~subscribed /\ UNCHANGED <<frames, dropped, chanVars>>
  <2>1. /\ Queued' = Queued /\ Ordered' /\ ~subscribed'
    BY <1>0, <1>1, <1>3, StillDelivered DEF chanVars, subscribed
  <2>2. ChannelTypeOK' /\ NewestKept'
    BY <1>0, <1>3, OthersMove
  <2>3. TypeOK'
    BY <1>0, <1>1, <1>3, <2>1, <2>2 DEF TypeOK
  <2>4. LastInv' /\ DamageInv' /\ FinalInv'
    BY <1>0, <1>1, <2>1 DEF LastInv, DamageInv, FinalInv
  <2> QED
    BY <2>1, <2>2, <2>3, <2>4 DEF ScreenInv
<1>4. CASE Send(term)
  <2>1. /\ ChannelTypeOK' /\ NewestKept'
        /\ frames' \in [Queued' -> Frames] /\ dropped' \in BOOLEAN
        /\ Ordered'
        /\ sent' \in Queued' /\ frames'[sent'] = term
        /\ \A r \in Rows : Delivered(r)'
    BY <1>1, <1>2, <1>4, SendKeeps
  <2>2. TypeOK'
    BY <1>0, <1>1, <2>1 DEF TypeOK
  <2>3. LastInv'
    <3>1. DOMAIN last \subseteq Rows
      BY <1>0, FrameShape DEF LastInv
    <3> QED
      BY <1>0, <1>1, <2>1, <3>1 DEF LastInv
  <2>4. DamageInv' /\ FinalInv'
    BY <1>1, <2>1 DEF DamageInv, FinalInv
  <2> QED
    BY <2>1, <2>2, <2>3, <2>4 DEF ScreenInv
<1> QED
  BY <1>1, <1>3, <1>4

\* The client paints a frame whose rows are no older than what it shows, and of the
\* frames behind it none is older.
LEMMA PaintKeeps ==
  ASSUME ScreenConstants, ScreenInv, Paint
  PROVE  /\ ScreenInv'
         /\ \A r \in Rows : grid'[r] >= grid[r]
<1>0. /\ TypeOK /\ ChannelTypeOK /\ NewestKept /\ Ordered /\ LastInv /\ DamageInv
      /\ FinalInv
      /\ term \in [Rows -> 0..MaxWrites] /\ grid \in [Rows -> 0..MaxWrites]
      /\ frames \in [Queued -> Frames]
      /\ sent \in Nat /\ got \in Nat /\ Len(queue) \in Nat
  BY DEF ScreenInv, TypeOK, ChannelTypeOK
<1> DEFINE f == frames[got']
<1>1. /\ Pop
      /\ grid' = [r \in Rows |-> IF r \in DOMAIN f THEN f[r] ELSE grid[r]]
      /\ frames' = [i \in Queued' |-> frames[i]]
      /\ UNCHANGED <<term, cursor, damage, last, ended, dropped>>
  BY DEF Paint
<1>2. /\ ChannelTypeOK' /\ NewestKept'
      /\ sent' = sent /\ got' > got /\ got' \in Queued
      /\ Queued' = Queued \ {got'}
      /\ \A i \in Queued' : got' < i
      /\ got' # sent => sent \in Queued'
  BY <1>0, <1>1, PopMoves
<1>3. /\ \A i \in Queued : DOMAIN frames[i] \subseteq Rows
      /\ \A i \in Queued : \A r \in DOMAIN frames[i] : frames[i][r] \in 0..MaxWrites
      /\ f = frames[got']
  BY <1>0, FrameShape
<1>4. \A i \in Queued' : i \in Queued /\ i # got' /\ frames'[i] = frames[i]
  BY <1>1, <1>2
<1> HIDE DEF f
<1>5. /\ DOMAIN f \subseteq Rows
      /\ \A r \in DOMAIN f : f[r] \in 0..MaxWrites /\ grid[r] <= f[r] /\ f[r] <= term[r]
  BY <1>0, <1>2, <1>3 DEF Ordered
<1>6. \A r \in Rows : /\ grid'[r] = IF r \in DOMAIN f THEN f[r] ELSE grid[r]
                      /\ grid'[r] \in 0..MaxWrites
                      /\ grid'[r] >= grid[r] /\ grid'[r] <= term[r]
  <2> SUFFICES ASSUME NEW r \in Rows
               PROVE  /\ grid'[r] = IF r \in DOMAIN f THEN f[r] ELSE grid[r]
                      /\ grid'[r] \in 0..MaxWrites
                      /\ grid'[r] >= grid[r] /\ grid'[r] <= term[r]
    OBVIOUS
  <2>1. grid'[r] = IF r \in DOMAIN f THEN f[r] ELSE grid[r]
    BY <1>1
  <2>2. grid[r] \in 0..MaxWrites /\ grid[r] <= term[r]
    BY <1>0 DEF Ordered
  <2>3. MaxWrites \in Nat
    BY DEF ScreenConstants
  <2> QED
    BY <1>5, <2>1, <2>2, <2>3
<1>7. grid' \in [Rows -> 0..MaxWrites]
  BY <1>1, <1>6
<1>8. frames' \in [Queued' -> Frames]
  BY <1>0, <1>1, <1>2
<1>9. TypeOK'
  BY <1>0, <1>1, <1>2, <1>7, <1>8 DEF TypeOK
<1>10. ASSUME NEW i \in Queued', NEW r \in DOMAIN frames'[i]
       PROVE  /\ frames'[i][r] = frames[i][r] /\ r \in Rows
              /\ grid'[r] <= frames'[i][r] /\ frames'[i][r] <= term'[r]
  <2>1. frames'[i] = frames[i] /\ i \in Queued /\ r \in Rows /\ got' < i
    BY <1>2, <1>3, <1>4
  <2>2. grid[r] <= frames[i][r] /\ frames[i][r] <= term[r]
    BY <1>0, <2>1 DEF Ordered
  <2>3. r \in DOMAIN f => f[r] <= frames[i][r]
    BY <1>0, <1>2, <1>3, <2>1 DEF Ordered
  <2> QED
    BY <1>1, <1>6, <2>1, <2>2, <2>3
<1>11. Ordered'
  <2>1. \A r \in Rows : grid'[r] <= term'[r]
    BY <1>1, <1>6
  <2>2. \A i \in Queued' : \A r \in DOMAIN frames'[i] :
          grid'[r] <= frames'[i][r] /\ frames'[i][r] <= term'[r]
    BY <1>10
  <2>3. ASSUME NEW i \in Queued', NEW j \in Queued',
               NEW r \in DOMAIN frames'[i] \cap DOMAIN frames'[j], i < j
        PROVE  frames'[i][r] <= frames'[j][r]
    BY <1>0, <1>4, <2>3 DEF Ordered
  <2> QED
    BY <2>1, <2>2, <2>3 DEF Ordered
<1>12. ASSUME NEW r \in Rows, Delivered(r) PROVE Delivered(r)'
  <2>1. CASE grid[r] = term[r]
    <3>1. grid'[r] = term[r]
      BY <1>0, <1>6, <2>1
    <3> QED
      BY <1>1, <3>1 DEF Delivered
  <2>2. CASE \E i \in Queued : r \in DOMAIN frames[i] /\ frames[i][r] = term[r]
    <3>1. PICK i \in Queued : r \in DOMAIN frames[i] /\ frames[i][r] = term[r]
      BY <2>2
    <3>2. CASE i = got'
      <4>1. r \in DOMAIN f /\ grid'[r] = term[r]
        BY <1>3, <1>6, <3>1, <3>2
      <4> QED
        BY <1>1, <4>1 DEF Delivered
    <3>3. CASE i # got'
      <4>1. i \in Queued' /\ frames'[i] = frames[i]
        BY <1>2, <1>4, <3>3
      <4> QED
        BY <1>1, <3>1, <4>1 DEF Delivered
    <3> QED
      BY <3>2, <3>3
  <2> QED
    BY <1>12, <2>1, <2>2 DEF Delivered
<1>13. subscribed' = subscribed
  BY <1>2 DEF subscribed
<1>14. LastInv'
  <2>1. DOMAIN last \subseteq Rows
    BY <1>0, FrameShape DEF LastInv
  <2> QED
    BY <1>0, <1>1, <1>12, <1>13, <2>1 DEF LastInv
<1>15. DamageInv'
  BY <1>0, <1>1, <1>12, <1>13 DEF DamageInv
<1>16. FinalInv'
  <2> SUFFICES ASSUME ended, subscribed
               PROVE  \/ got' = sent' /\ grid' = term'
                      \/ sent' \in Queued' /\ frames'[sent'] = term'
    BY <1>1, <1>13 DEF FinalInv
  <2>1. sent \in Queued /\ frames[sent] = term
    <3>1. Queued = Oldest..sent
      BY <1>0, QueuedAreNewest
    <3>2. got # sent
      BY <1>0, <1>2, <3>1 DEF Oldest, NewestKept
    <3> QED
      BY <1>0, <3>2 DEF FinalInv
  <2>2. CASE got' = sent
    <3>1. f = term
      BY <1>3, <2>1, <2>2
    <3>2. grid' = [r \in Rows |-> term[r]]
      BY <1>0, <1>1, <1>6, <1>7, <3>1
    <3> QED
      BY <1>0, <1>1, <1>2, <2>2, <3>2
  <2>3. CASE got' # sent
    BY <1>1, <1>2, <1>4, <2>1, <2>3
  <2> QED
    BY <2>2, <2>3
<1> QED
  BY <1>2, <1>6, <1>9, <1>11, <1>14, <1>15, <1>16 DEF ScreenInv

LEMMA QuietKeeps ==
  ASSUME ScreenInv, Notified \/ Polled \/ Drained \/ FoundNothing \/ UNCHANGED screenVars
  PROVE  ScreenInv' /\ UNCHANGED grid
<1>0. /\ TypeOK /\ ChannelTypeOK /\ NewestKept /\ Ordered /\ LastInv /\ DamageInv
      /\ FinalInv
  BY DEF ScreenInv, TypeOK
<1>1. /\ UNCHANGED <<term, cursor, damage, last, ended, frames, grid, dropped>>
      /\ Notify \/ Poll \/ Drain \/ PopNothing
           \/ UNCHANGED chanVars
  BY DEF Notified, Polled, Drained, FoundNothing, screenVars, sessionVars
<1>2. ChannelTypeOK' /\ NewestKept' /\ UNCHANGED <<queue, sent, got>>
  BY <1>0, <1>1, OthersMove
<1>3. Queued' = Queued /\ Ordered' /\ \A r \in Rows : Delivered(r) => Delivered(r)'
  BY <1>0, <1>1, <1>2, StillDelivered
<1>4. TypeOK'
  BY <1>0, <1>1, <1>2, <1>3 DEF TypeOK
<1>5. LastInv'
  <2>1. DOMAIN last \subseteq Rows
    BY <1>0, FrameShape DEF LastInv
  <2> QED
    BY <1>0, <1>1, <1>2, <1>3, <2>1 DEF LastInv, subscribed
<1>6. DamageInv' /\ FinalInv'
  BY <1>0, <1>1, <1>2, <1>3 DEF DamageInv, FinalInv, subscribed
<1> QED
  BY <1>1, <1>2, <1>3, <1>4, <1>5, <1>6 DEF ScreenInv

LEMMA StepInv ==
  ASSUME ScreenConstants, ScreenInv, [Next]_screenVars
  PROVE  ScreenInv' /\ RowsGoOn
<1>1. ASSUME UNCHANGED grid PROVE RowsGoOn
  <2>1. \A r \in Rows : grid[r] \in 0..MaxWrites
    BY DEF ScreenInv, TypeOK
  <2> QED
    BY <1>1, <2>1 DEF RowsGoOn
<1>2. CASE \E w \in Rows : Write(w)
  BY <1>1, <1>2, WriteKeeps DEF Write
<1>3. CASE Subscribe \/ Tick \/ Finalize
  BY <1>1, <1>3, SubscribeKeeps, TickKeeps, FinalizeKeeps DEF Subscribe, Tick, Finalize
<1>4. CASE Paint
  BY <1>4, PaintKeeps DEF RowsGoOn
<1>5. CASE Notified \/ Polled \/ Drained \/ FoundNothing \/ UNCHANGED screenVars
  BY <1>1, <1>5, QuietKeeps
<1> QED
  BY <1>2, <1>3, <1>4, <1>5 DEF Next, Client

LEMMA InvAlways ==
  ASSUME ScreenConstants
  PROVE  Spec => []ScreenInv
<1>1. Init => ScreenInv
  BY InitInv
<1>2. ScreenInv /\ [Next]_screenVars => ScreenInv'
  BY StepInv
<1> QED
  BY <1>1, <1>2, PTL DEF Spec

-----------------------------------------------------------------------------
(* The results.                                                            *)

\* Every state of the session, the channel and the client is well typed, for any number
\* of rows, writes and sends and every capacity from 3 on.
THEOREM ScreenTypes ==
  ASSUME ScreenConstants
  PROVE  Spec => []TypeOK
<1>1. ScreenInv => TypeOK
  BY DEF ScreenInv
<1> QED
  BY <1>1, InvAlways, PTL

\* The channel of a screen behaves as PushChannel allows, so that what is proved there of
\* every channel holds of this one.
THEOREM ScreenUsesChannel == Spec => ChannelSpec
<1>1. Init => ChannelInit
  BY DEF Init
<1> QED
  BY <1>1, StepIsChannelStep, PTL DEF Spec, ChannelSpec

\* As long as the queue does not overflow no row is lost: not by resetting the damage,
\* skipping equal frames, subscribing in mid-session or the end of the session.
THEOREM NoRowLost ==
  ASSUME ScreenConstants
  PROVE  Spec => []LossOnlyByOverflow
<1>1. ScreenInv => LossOnlyByOverflow
  BY DEF ScreenInv, DamageInv, Delivered, LossOnlyByOverflow, UpToDate
<1> QED
  BY <1>1, InvAlways, PTL

\* A client that has taken the last item of an ended session shows its final screen,
\* whatever was dropped before.
THEOREM ShowsFinalScreen ==
  ASSUME ScreenConstants
  PROVE  Spec => []FinalScreen
<1>1. ASSUME ScreenInv, ended, subscribed, got = sent PROVE grid = term
  <2>1. /\ ChannelTypeOK /\ NewestKept
        /\ (got = sent /\ grid = term) \/ sent \in Queued
    BY <1>1 DEF ScreenInv, TypeOK, FinalInv
  <2>2. Queued = Oldest..sent /\ sent \in Nat /\ Len(queue) \in Nat
    BY <2>1, QueuedAreNewest DEF ChannelTypeOK
  <2>3. sent \notin Queued
    BY <1>1, <2>1, <2>2 DEF NewestKept, Oldest
  <2> QED
    BY <2>1, <2>3
<1>2. ScreenInv => FinalScreen
  BY <1>1 DEF FinalScreen
<1> QED
  BY <1>2, InvAlways, PTL

\* No row of the client goes back to an older content, although frames are dropped and
\* whole screens come between the frames of the push loop.
THEOREM RowsOnlyGoOn ==
  ASSUME ScreenConstants
  PROVE  Spec => RowsNeverGoBack
<1>1. ScreenInv /\ [Next]_screenVars => [RowsGoOn]_screenVars
  BY StepInv
<1> QED
  BY <1>1, InvAlways, PTL DEF Spec, RowsNeverGoBack

-----------------------------------------------------------------------------
(* The connection.                                                         *)
(*                                                                         *)
(* The invariant follows what is on its way.  A request is in one place    *)
(* only, the client's queue, its hand or the socket, and is answered when  *)
(* it has been handled and not before (Requests), so that there are as     *)
(* many bridges as subscriptions handled.  Once the list was handled,      *)
(* every approval announced is known to the window, or in the list or an   *)
(* event on its way to it, unless the receiver lagged (Approvals).  A      *)
(* frame passes seven stations from the session to the tab; what a station *)
(* holds is in order and later than what the stations before it hold; all  *)
(* together, and with what the two channels dropped, there is every frame  *)
(* from the first one on, which alone is of the whole screen; and what was *)
(* dropped was not the last of them (Pipe).  When nothing is on its way    *)
(* any more the first station has the last.  A connection that is          *)
(* subscribed a second time is followed up to that point.                  *)

Texts == {"auth", "key"} \cup Link!Waited
Notes == Link!Frames \cup [kind : {"auth", "key", "event"} \cup Link!Waited, n : 0 .. MaxEvents, full : {FALSE}]
Outcomes == {"no", "asked", "ok", "error"}
Wires == [up : Seq(Texts), down : Seq(Notes), open : BOOLEAN]
Clients == [pc : {"auth", "select", "writing", "ended"}, text : Texts \cup {"none"},
            queue : Seq(Texts), pending : SUBSET Texts, typed : Nat]
Tabs == [sender : BOOLEAN, prepared : BOOLEAN, taken : BOOLEAN, late : BOOLEAN,
         ended : BOOLEAN, got : Seq(Link!Frames)]
Owners == [sender : BOOLEAN, got : SUBSET (1 .. MaxEvents)]
Daemons == [pc : {"select", "swap", "writing", "ended"}, owner : BOOLEAN, out : Seq(Notes)]
Channel == {q \in Seq(Link!Frames) : Len(q) <= ChannelRoom}
Bridges == [on : BOOLEAN, hold : Seq(Link!Frames), chan : Channel, wake : BOOLEAN, host : Channel]
Receivers == [waiting : Seq(1 .. MaxEvents), lagged : BOOLEAN]
Shells == [frames : 0 .. MaxFrames, exited : BOOLEAN, told : BOOLEAN, announced : 0 .. MaxEvents,
           lost : SUBSET Link!Frames]

ConnTypes ==
  /\ wire \in Wires /\ client \in Clients /\ asked \in [Link!Waited -> Outcomes] /\ tab \in Tabs
  /\ owner \in Owners /\ daemon \in Daemons /\ bridges \in Seq(Bridges)
  /\ pushq \in Seq(Link!Frames) /\ events \in Receivers /\ shell \in Shells

\* What the bounded queues hold, and what the two tasks are at.
Ends ==
  /\ Len(wire.up) <= WireRoom /\ Len(wire.down) <= WireRoom
  /\ Len(pushq) <= QueueRoom /\ Len(events.waiting) <= EventRoom
  /\ Len(bridges) <= Subscribes
  /\ daemon.pc \in {"select", "ended"} => daemon.out = <<>>
  /\ daemon.pc \in {"swap", "writing"} => Len(daemon.out) = 1
  /\ client.pc = "writing" => client.text \in Texts
  /\ ~wire.open => wire.up = <<>> /\ wire.down = <<>>
  /\ wire.open => client.pc # "ended" /\ daemon.pc # "ended"
  /\ wire.open => \A r \in Link!Waited : asked[r] # "error"
  /\ client.pc = "auth" => \A r \in Link!Waited : asked[r] = "no"
  /\ client.pc \in {"select", "writing"} => owner.sender
  /\ tab.taken => asked["sub"] = "ok"
  /\ asked["sub"] = "no" => ~tab.sender
  /\ asked["again"] # "no" => Subscribes = 2 /\ asked["sub"] = "ok"
  /\ shell.told => shell.exited

\* A request on its way to the daemon, and one that has been handled.
In(s, x) == \E i \in DOMAIN s : s[i] = x
Lone(s, x) == \A i, j \in DOMAIN s : s[i] = x /\ s[j] = x => i = j
Writes(r) == client.pc = "writing" /\ client.text = r
Coming(r) == In(client.queue, r) \/ Writes(r) \/ In(wire.up, r)
Handled(r) == asked[r] # "no" /\ ~Coming(r)
Tells(s, r) == \E i \in DOMAIN s : s[i].kind = r

\* Each request is made once, and answered when it has been handled.
Request(r) ==
  /\ Lone(client.queue, r) /\ Lone(wire.up, r)
  /\ ~(In(client.queue, r) /\ Writes(r))
  /\ ~(In(client.queue, r) /\ In(wire.up, r))
  /\ ~(Writes(r) /\ In(wire.up, r))
  /\ asked[r] = "no" => ~Coming(r)
  /\ asked[r] = "ok" \/ Tells(daemon.out, r) \/ Tells(wire.down, r) => Handled(r)

One(r) == IF Handled(r) THEN 1 ELSE 0
Requests ==
  wire.open => /\ \A r \in Link!Waited : Request(r)
               /\ Len(bridges) = One("sub") + One("again")

\* The approvals the window knows of, or that are on their way to it.
EventsIn(s) == {s[i].n : i \in {j \in DOMAIN s : s[j].kind = "event"}}
Listed(s) == UNION {1 .. s[i].n : i \in {j \in DOMAIN s : s[j].kind = "list"}}
Items(s) == {s[i] : i \in DOMAIN s}
Known ==
  owner.got \cup EventsIn(wire.down) \cup Listed(wire.down) \cup EventsIn(daemon.out)
    \cup Listed(daemon.out) \cup Items(events.waiting)
Approvals ==
  wire.open => /\ Known \subseteq 1 .. shell.announced
               /\ Handled("list") =>
                    daemon.owner /\ (events.lagged \/ 1 .. shell.announced \subseteq Known)

\* The frames in a sequence, and their places among all that is pushed.
Pushes(s) == {i \in DOMAIN s : s[i].kind \in {"frame", "closed"}}
Places(s) == {Link!Place(s[i]) : i \in Pushes(s)}
Rising(s) == \A i, j \in Pushes(s) : i < j => Link!Place(s[i]) < Link!Place(s[j])
Last(n, over) == n + (IF over THEN 1 ELSE 0)

\* The first one alone is of the whole screen; n frames were made, and the session may be over.
Sound(m, first, n, over) ==
  /\ m.full <=> Link!Place(m) = first
  /\ m.full => m.kind = "frame"
  /\ m.n <= n
  /\ m.kind = "closed" => over /\ m.n = n

\* The stations of a frame on its way from the session to the tab.  A station after another
\* holds later frames, all together and with those that were dropped (L) the ones from the
\* first on; the newest was not dropped.
Stations == 1 .. 7
Way ==
  <<tab.got, wire.down, daemon.out, pushq, bridges[1].hold, bridges[1].chan, bridges[1].host>>

FlowOrdered(W) ==
  \A j, k \in Stations : j < k => \A x \in Places(W[j]), y \in Places(W[k]) : x < y
All(W) == UNION {Places(W[k]) : k \in Stations}
Flow(W, L, first, n, over) ==
  /\ \A k \in Stations : Rising(W[k])
  /\ FlowOrdered(W) /\ All(W) \cup Link!Places(L) = first .. Last(n, over)
  /\ \A k \in Stations : \A i \in Pushes(W[k]) : Sound(W[k][i], first, n, over)
  /\ \A m \in L : Sound(m, first, n, over) /\ Link!Place(m) < Last(n, over)

\* The tab's receiver is ready before the subscription, no frame comes before the
\* subscription, and all of them come after it.
Ready == asked["sub"] # "no" => tab.sender /\ (tab.taken \/ tab.prepared)
Silent ==
  /\ tab.got = <<>> /\ pushq = <<>> /\ Pushes(wire.down) = {} /\ Pushes(daemon.out) = {}
  /\ ~shell.told /\ shell.lost = {}
Flows ==
  /\ bridges[1].on /\ Len(bridges[1].hold) <= 1
  /\ \E first \in 0 .. shell.frames : Flow(Way, shell.lost, first, shell.frames, shell.told)

Pipe ==
  wire.open /\ asked["again"] = "no" =>
    daemon.pc # "swap" /\ Ready /\ IF Handled("sub") THEN Flows ELSE Silent

ConnInv ==
  /\ ConnTypes /\ Ends /\ Requests /\ Approvals /\ Pipe
  /\ asked["again"] = "no" => Link!LostAtMost(tab.got, shell.lost)

-----------------------------------------------------------------------------
(* Sequences: what one holds after an item is added or the first is taken. *)

LEMMA Appended ==
  ASSUME NEW S, NEW s \in Seq(S), NEW x \in S
  PROVE  /\ Append(s, x) \in Seq(S) /\ Len(s) \in Nat
         /\ DOMAIN s = 1 .. Len(s) /\ DOMAIN Append(s, x) = 1 .. Len(s) + 1
         /\ Len(Append(s, x)) = Len(s) + 1
         /\ \A i \in 1 .. Len(s) : Append(s, x)[i] = s[i]
         /\ Append(s, x)[Len(s) + 1] = x
OBVIOUS

LEMMA Rest ==
  ASSUME NEW S, NEW s \in Seq(S), s # <<>>
  PROVE  /\ Tail(s) \in Seq(S) /\ Len(s) \in Nat \ {0} /\ Head(s) \in S
         /\ DOMAIN s = 1 .. Len(s) /\ DOMAIN Tail(s) = 1 .. Len(s) - 1
         /\ Len(Tail(s)) = Len(s) - 1
         /\ \A i \in 1 .. Len(s) - 1 : Tail(s)[i] = s[i + 1]
         /\ Head(s) = s[1]
OBVIOUS

LEMMA Empty ==
  ASSUME NEW S, NEW s \in Seq(S)
  PROVE  (s = <<>> <=> Len(s) = 0) /\ (s # <<>> /\ Len(s) <= 1 => Len(s) = 1)
<1>1. Len(<<>>) = 0
  OBVIOUS
<1>2. s # <<>> => Len(s) \in Nat \ {0}
  BY Rest
<1>3. \A n \in Nat \ {0} : n <= 1 => n = 1
  OBVIOUS
<1> QED
  BY <1>1, <1>2, <1>3

LEMMA OneItem ==
  ASSUME NEW S, NEW s \in Seq(S), Len(s) = 1
  PROVE  s # <<>> /\ Head(s) \in S /\ s = <<Head(s)>> /\ Tail(s) = <<>>
<1>1. DOMAIN s = 1 .. 1 /\ s[1] \in S /\ Head(s) = s[1]
  OBVIOUS
<1>2. s # <<>>
  BY Empty
<1>3. Tail(s) \in Seq(S) /\ Len(Tail(s)) = 0
  <2>1. Tail(s) \in Seq(S) /\ Len(Tail(s)) = Len(s) - 1
    BY <1>2, Rest
  <2> QED
    BY <2>1
<1>4. Tail(s) = <<>>
  BY <1>3, Empty
<1>5. s = <<s[1]>>
  BY <1>1
<1> QED
  BY <1>1, <1>2, <1>4, <1>5

LEMMA InAppended ==
  ASSUME NEW S, NEW s \in Seq(S), NEW x \in S, NEW r
  PROVE  /\ In(Append(s, x), r) <=> In(s, r) \/ x = r
         /\ Lone(s, r) /\ ~(In(s, r) /\ x = r) => Lone(Append(s, x), r)
BY Appended DEF In, Lone

LEMMA InRest ==
  ASSUME NEW S, NEW s \in Seq(S), s # <<>>, NEW r
  PROVE  /\ In(s, r) <=> Head(s) = r \/ In(Tail(s), r)
         /\ Lone(s, r) => Lone(Tail(s), r)
         /\ Lone(s, r) /\ Head(s) = r => ~In(Tail(s), r)
<1> USE Rest
<1>1. In(Tail(s), r) => In(s, r)
  BY DEF In
<1>2. In(s, r) /\ s[1] # r => In(Tail(s), r)
  <2>1. SUFFICES ASSUME NEW i \in DOMAIN s, s[i] = r, s[1] # r PROVE In(Tail(s), r)
    BY DEF In
  <2>2. i - 1 \in DOMAIN Tail(s) /\ Tail(s)[i - 1] = r
    BY <2>1
  <2> QED
    BY <2>2 DEF In
<1>3. Lone(s, r) => Lone(Tail(s), r)
  BY DEF Lone
<1>4. Lone(s, r) /\ s[1] = r => ~In(Tail(s), r)
  BY DEF Lone, In
<1> QED
  BY <1>1, <1>2, <1>3, <1>4 DEF In

LEMMA TellsAppended ==
  ASSUME NEW s \in Seq(Notes), NEW m \in Notes
  PROVE  /\ \A r : Tells(Append(s, m), r) <=> Tells(s, r) \/ m.kind = r
         /\ EventsIn(Append(s, m)) =
              EventsIn(s) \cup (IF m.kind = "event" THEN {m.n} ELSE {})
         /\ Listed(Append(s, m)) = Listed(s) \cup (IF m.kind = "list" THEN 1 .. m.n ELSE {})
<1> DEFINE t == Append(s, m)
<1>1. /\ Len(s) \in Nat /\ DOMAIN s = 1 .. Len(s) /\ DOMAIN t = 1 .. Len(s) + 1
      /\ \A i \in 1 .. Len(s) : t[i] = s[i]
      /\ t[Len(s) + 1] = m
  BY Appended
<1> HIDE DEF t
<1>2. \A r : Tells(t, r) <=> Tells(s, r) \/ m.kind = r
  BY <1>1 DEF Tells
<1>3. EventsIn(t) = EventsIn(s) \cup (IF m.kind = "event" THEN {m.n} ELSE {})
  BY <1>1 DEF EventsIn
<1>4. Listed(t) = Listed(s) \cup (IF m.kind = "list" THEN 1 .. m.n ELSE {})
  BY <1>1 DEF Listed
<1> QED
  BY <1>2, <1>3, <1>4 DEF t

LEMMA TellsRest ==
  ASSUME NEW s \in Seq(Notes), s # <<>>
  PROVE  /\ \A r : Tells(s, r) <=> Tells(Tail(s), r) \/ Head(s).kind = r
         /\ EventsIn(s) =
              EventsIn(Tail(s)) \cup (IF Head(s).kind = "event" THEN {Head(s).n} ELSE {})
         /\ Listed(s) =
              Listed(Tail(s)) \cup (IF Head(s).kind = "list" THEN 1 .. Head(s).n ELSE {})
<1> DEFINE t == Tail(s)
<1>1. /\ Len(s) \in Nat \ {0} /\ DOMAIN s = 1 .. Len(s) /\ DOMAIN t = 1 .. Len(s) - 1
      /\ \A i \in 1 .. Len(s) - 1 : t[i] = s[i + 1]
      /\ Head(s) = s[1]
  BY Rest
<1> HIDE DEF t
<1>2. \A i \in DOMAIN s : i = 1 \/ (i - 1 \in DOMAIN t /\ s[i] = t[i - 1])
  BY <1>1
<1>3. \A i \in DOMAIN t : i + 1 \in DOMAIN s /\ s[i + 1] = t[i]
  BY <1>1
<1>4. 1 \in DOMAIN s
  BY <1>1
<1>5. \A r : Tells(s, r) <=> Tells(t, r) \/ s[1].kind = r
  BY <1>2, <1>3, <1>4 DEF Tells
<1>6. EventsIn(s) = EventsIn(t) \cup (IF s[1].kind = "event" THEN {s[1].n} ELSE {})
  BY <1>2, <1>3, <1>4 DEF EventsIn
<1>7. Listed(s) = Listed(t) \cup (IF s[1].kind = "list" THEN 1 .. s[1].n ELSE {})
  BY <1>2, <1>3, <1>4 DEF Listed
<1> QED
  BY <1>1, <1>5, <1>6, <1>7 DEF t

LEMMA PlacesAppended ==
  ASSUME NEW s \in Seq(Notes), NEW m \in Notes
  PROVE  /\ m.kind \notin {"frame", "closed"} =>
              /\ Places(Append(s, m)) = Places(s)
              /\ Pushes(Append(s, m)) = Pushes(s)
              /\ Rising(s) => Rising(Append(s, m))
         /\ m.kind \in {"frame", "closed"} =>
              /\ Places(Append(s, m)) = Places(s) \cup {Link!Place(m)}
              /\ Rising(s) /\ (\A x \in Places(s) : x < Link!Place(m)) => Rising(Append(s, m))
         /\ \A i \in Pushes(Append(s, m)) :
              (i \in Pushes(s) /\ Append(s, m)[i] = s[i]) \/ Append(s, m)[i] = m
<1> DEFINE t == Append(s, m)
<1>1. /\ Len(s) \in Nat /\ DOMAIN s = 1 .. Len(s) /\ DOMAIN t = 1 .. Len(s) + 1
      /\ \A i \in 1 .. Len(s) : t[i] = s[i]
      /\ t[Len(s) + 1] = m
  BY Appended
<1> HIDE DEF t
<1>2. ASSUME m.kind \notin {"frame", "closed"} PROVE Pushes(t) = Pushes(s)
  BY <1>1, <1>2 DEF Pushes
<1>3. \A i \in Pushes(s) : i \in 1 .. Len(s) /\ t[i] = s[i]
  BY <1>1 DEF Pushes
<1>4. ASSUME m.kind \in {"frame", "closed"} PROVE Pushes(t) = Pushes(s) \cup {Len(s) + 1}
  BY <1>1, <1>4 DEF Pushes
<1>5. \A i \in Pushes(t) : (i \in Pushes(s) /\ t[i] = s[i]) \/ t[i] = m
  BY <1>1 DEF Pushes
<1>6. ASSUME m.kind \notin {"frame", "closed"}
      PROVE  Places(t) = Places(s) /\ (Rising(s) => Rising(t))
  BY <1>2, <1>3, <1>6 DEF Places, Rising
<1>7. ASSUME m.kind \in {"frame", "closed"} PROVE Places(t) = Places(s) \cup {Link!Place(m)}
  BY <1>1, <1>3, <1>4, <1>7 DEF Places
<1>8. ASSUME m.kind \in {"frame", "closed"}, Rising(s), \A x \in Places(s) : x < Link!Place(m)
      PROVE  Rising(t)
  BY <1>1, <1>3, <1>4, <1>8 DEF Places, Rising
<1> QED
  BY <1>2, <1>5, <1>6, <1>7, <1>8 DEF t

LEMMA PlacesRest ==
  ASSUME NEW s \in Seq(Notes), s # <<>>
  PROVE  /\ Rising(s) => Rising(Tail(s))
         /\ Head(s).kind \notin {"frame", "closed"} => Places(Tail(s)) = Places(s)
         /\ Head(s).kind \in {"frame", "closed"} =>
              /\ Link!Place(Head(s)) \in Places(s)
              /\ Places(s) = Places(Tail(s)) \cup {Link!Place(Head(s))}
              /\ Rising(s) => \A x \in Places(Tail(s)) : Link!Place(Head(s)) < x
         /\ \A i \in Pushes(Tail(s)) : i + 1 \in Pushes(s) /\ Tail(s)[i] = s[i + 1]
         /\ Head(s).kind \in {"frame", "closed"} => 1 \in Pushes(s) /\ s[1] = Head(s)
<1> DEFINE t == Tail(s)
<1>1. /\ Len(s) \in Nat \ {0} /\ DOMAIN s = 1 .. Len(s) /\ DOMAIN t = 1 .. Len(s) - 1
      /\ \A i \in 1 .. Len(s) - 1 : t[i] = s[i + 1]
      /\ Head(s) = s[1]
  BY Rest
<1> HIDE DEF t
<1>2. \A i \in Pushes(t) : i \in Nat /\ i + 1 \in Pushes(s) /\ t[i] = s[i + 1]
  BY <1>1 DEF Pushes
<1>3. \A i \in Pushes(s) : i = 1 \/ (i - 1 \in Pushes(t) /\ s[i] = t[i - 1])
  BY <1>1 DEF Pushes
<1>4. s[1].kind \in {"frame", "closed"} <=> 1 \in Pushes(s)
  BY <1>1 DEF Pushes
<1>5. Rising(s) => Rising(t)
  BY <1>2 DEF Rising
<1>6. Places(t) \subseteq Places(s)
  BY <1>2 DEF Places
<1>7. ASSUME 1 \notin Pushes(s) PROVE Places(s) \subseteq Places(t)
  BY <1>3, <1>7 DEF Places
<1>8. ASSUME 1 \in Pushes(s) PROVE Places(s) = Places(t) \cup {Link!Place(s[1])}
  BY <1>3, <1>6, <1>8 DEF Places
<1>9. ASSUME 1 \in Pushes(s), Rising(s) PROVE \A x \in Places(t) : Link!Place(s[1]) < x
  <2>1. SUFFICES ASSUME NEW i \in Pushes(t) PROVE Link!Place(s[1]) < Link!Place(t[i])
    BY DEF Places
  <2>2. i + 1 \in Pushes(s) /\ 1 < i + 1 /\ t[i] = s[i + 1]
    BY <1>1, <1>2 DEF Pushes
  <2> QED
    BY <1>9, <2>2 DEF Rising
<1> QED
  BY <1>1, <1>2, <1>4, <1>5, <1>6, <1>7, <1>8, <1>9 DEF t, Places

-----------------------------------------------------------------------------
(* Frames on their way.                                                    *)

LEMMA NoteFields ==
  ASSUME Link!ConnectionConstants, NEW m \in Notes
  PROVE  m.n \in Nat /\ Link!Place(m) \in Nat /\ m.full \in BOOLEAN
<1>0. MaxFrames \in Nat /\ MaxEvents \in Nat
  BY DEF Link!ConnectionConstants
<1>1. m \in Link!Frames => m.n \in Nat /\ m.full \in BOOLEAN
  BY <1>0 DEF Link!Frames
<1>2. ASSUME m \notin Link!Frames PROVE m.n \in Nat /\ m.full \in BOOLEAN
  <2>1. m \in [kind : {"auth", "key", "event"} \cup Link!Waited, n : 0 .. MaxEvents, full : {FALSE}]
    BY <1>2 DEF Notes
  <2>2. m.n \in 0 .. MaxEvents /\ m.full = FALSE
    BY <2>1
  <2>3. m.n \in Nat
    BY <1>0, <2>2
  <2>4. m.full \in BOOLEAN
    BY <2>2
  <2> QED
    BY <2>3, <2>4
<1>3. m.n \in Nat => Link!Place(m) \in Nat
  BY DEF Link!Place
<1> QED
  BY <1>1, <1>2, <1>3

LEMMA PlacesAreNumbers ==
  ASSUME Link!ConnectionConstants, NEW s \in Seq(Notes)
  PROVE  Places(s) \subseteq Nat
<1>1. \A i \in DOMAIN s : s[i] \in Notes
  OBVIOUS
<1> QED
  BY <1>1, NoteFields DEF Places, Pushes

LEMMA LastIs ==
  ASSUME NEW n \in Nat
  PROVE  /\ Last(n, TRUE) = n + 1 /\ Last(n, FALSE) = n
         /\ \A a \in 0 .. n : (a .. n) \cup {n + 1} = a .. n + 1
         /\ {n} = n .. n /\ {n, n + 1} = n .. n + 1
BY DEF Last

LEMMA InAll ==
  ASSUME NEW W, NEW x
  PROVE  x \in All(W) <=> \E k \in Stations : x \in Places(W[k])
BY DEF All

\* The first of a station moves to the one before it.
LEMMA OrderedMoves ==
  ASSUME NEW W, NEW V, \A j \in Stations : Places(W[j]) \subseteq Nat,
         NEW k \in 1 .. 6, NEW x \in Nat, FlowOrdered(W),
         Places(V[k]) = Places(W[k]) \cup {x}, Places(W[k + 1]) = Places(V[k + 1]) \cup {x},
         \A y \in Places(V[k + 1]) : x < y,
         \A j \in Stations : j \notin {k, k + 1} => Places(V[j]) = Places(W[j])
  PROVE  FlowOrdered(V) /\ All(V) = All(W) /\ \A y \in Places(W[k]) : y < x
<1>0. k \in Stations /\ k + 1 \in Stations /\ k < k + 1 /\ Stations \subseteq Nat
  BY DEF Stations
<1>1. \A y \in Places(W[k]) : y < x
  BY <1>0 DEF FlowOrdered
<1>2. ASSUME NEW i \in Stations, NEW j \in Stations, i < j,
             NEW y \in Places(V[i]), NEW z \in Places(V[j])
      PROVE  y < z
  <2>0. \A h \in Stations : \A u \in Places(V[h]) :
          u \in Places(W[h]) \/ (h = k /\ u = x)
    BY <1>0
  <2>1. CASE y \in Places(W[i]) /\ z \in Places(W[j])
    BY <1>2, <2>1 DEF FlowOrdered
  <2>2. CASE y \notin Places(W[i])
    <3>1. i = k /\ y = x
      BY <2>0, <2>2
    <3>2. CASE j = k + 1
      BY <3>1, <3>2
    <3>3. CASE j # k + 1
      <4>1. k + 1 < j /\ z \in Places(W[j])
        BY <1>0, <1>2, <2>0, <3>1, <3>3
      <4> QED
        BY <1>0, <3>1, <4>1 DEF FlowOrdered
    <3> QED
      BY <3>2, <3>3
  <2>3. CASE z \notin Places(W[j])
    <3>1. j = k /\ z = x
      BY <2>0, <2>3
    <3>2. i < k + 1 /\ y \in Places(W[i])
      BY <1>0, <1>2, <2>0, <3>1
    <3> QED
      BY <1>0, <3>1, <3>2 DEF FlowOrdered
  <2> QED
    BY <2>1, <2>2, <2>3
<1>3. \A u : u \in All(V) <=> u \in All(W)
  <2>1. \A u, j \in Stations : u \in Places(V[j]) => \E h \in Stations : u \in Places(W[h])
    BY <1>0
  <2>2. \A u, j \in Stations : u \in Places(W[j]) => \E h \in Stations : u \in Places(V[h])
    BY <1>0
  <2>3. \A u : (\E j \in Stations : u \in Places(V[j])) <=> (\E j \in Stations : u \in Places(W[j]))
    BY <1>0
  <2> QED
    BY <2>3, InAll
<1> QED
  BY <1>1, <1>2, <1>3 DEF FlowOrdered

LEMMA FlowMoves ==
  ASSUME Link!ConnectionConstants, NEW W \in [Stations -> Seq(Notes)], NEW V, NEW k \in 1 .. 6,
         NEW L, NEW first, NEW n, NEW over
  PROVE  /\ Flow(W, L, first, n, over)
         /\ W[k + 1] # <<>> /\ Head(W[k + 1]).kind \in {"frame", "closed"}
         /\ V[k] = Append(W[k], Head(W[k + 1])) /\ V[k + 1] = Tail(W[k + 1])
         /\ \A j \in Stations : j \notin {k, k + 1} => V[j] = W[j]
         => Flow(V, L, first, n, over)
<1>a. SUFFICES ASSUME Flow(W, L, first, n, over), W[k + 1] # <<>>,
                      Head(W[k + 1]).kind \in {"frame", "closed"},
                      V[k] = Append(W[k], Head(W[k + 1])), V[k + 1] = Tail(W[k + 1]),
                      \A j \in Stations : j \notin {k, k + 1} => V[j] = W[j]
               PROVE  Flow(V, L, first, n, over)
  OBVIOUS
<1> DEFINE m == Head(W[k + 1])
           s == W[k]
           t == W[k + 1]
<1>0. k \in Stations /\ k + 1 \in Stations
  BY DEF Stations
<1>1. s \in Seq(Notes) /\ t \in Seq(Notes) /\ t # <<>> /\ m = Head(t)
  BY <1>0, <1>a
<1>2. m.kind \in {"frame", "closed"} /\ V[k] = Append(s, m) /\ V[k + 1] = Tail(t)
  BY <1>a
<1>3. Rising(s) /\ Rising(t) /\ FlowOrdered(W)
  BY <1>0, <1>a DEF Flow
<1>4. \A i \in Pushes(s) : Sound(s[i], first, n, over)
  BY <1>0, <1>a DEF Flow
<1>5. \A i \in Pushes(t) : Sound(t[i], first, n, over)
  BY <1>0, <1>a DEF Flow
<1>6. \A j \in Stations : W[j] \in Seq(Notes)
  OBVIOUS
<1>7. Places(W[k]) = Places(s) /\ Places(W[k + 1]) = Places(t)
  OBVIOUS
<1> HIDE DEF m, s, t
<1>8. m \in Notes /\ Tail(t) \in Seq(Notes)
  BY <1>1, Rest
<1>9. /\ Places(t) = Places(Tail(t)) \cup {Link!Place(m)}
      /\ \A x \in Places(Tail(t)) : Link!Place(m) < x
      /\ Rising(Tail(t))
      /\ \A i \in Pushes(Tail(t)) : i + 1 \in Pushes(t) /\ Tail(t)[i] = t[i + 1]
      /\ 1 \in Pushes(t) /\ t[1] = m
  BY <1>1, <1>2, <1>3, PlacesRest
<1>10. /\ Places(Append(s, m)) = Places(s) \cup {Link!Place(m)}
       /\ (\A x \in Places(s) : x < Link!Place(m)) => Rising(Append(s, m))
       /\ \A i \in Pushes(Append(s, m)) :
            (i \in Pushes(s) /\ Append(s, m)[i] = s[i]) \/ Append(s, m)[i] = m
  BY <1>1, <1>2, <1>3, <1>8, PlacesAppended
<1>11. FlowOrdered(V) /\ All(V) = All(W) /\ \A y \in Places(s) : y < Link!Place(m)
  <2>1. \A j \in Stations : Places(W[j]) \subseteq Nat
    BY <1>6, PlacesAreNumbers
  <2>2. Link!Place(m) \in Nat
    BY <1>8, NoteFields
  <2>3. /\ Places(V[k]) = Places(W[k]) \cup {Link!Place(m)}
        /\ Places(W[k + 1]) = Places(V[k + 1]) \cup {Link!Place(m)}
        /\ \A y \in Places(V[k + 1]) : Link!Place(m) < y
    BY <1>2, <1>7, <1>9, <1>10
  <2>4. \A j \in Stations : j \notin {k, k + 1} => Places(V[j]) = Places(W[j])
    BY <1>a
  <2> QED
    BY <1>3, <1>7, <2>1, <2>2, <2>3, <2>4, OrderedMoves
<1>12. \A j \in Stations : Rising(V[j])
  <2>1. Rising(V[k]) /\ Rising(V[k + 1])
    BY <1>2, <1>9, <1>10, <1>11
  <2>2. \A j \in Stations : j \notin {k, k + 1} => Rising(V[j])
    BY <1>a DEF Flow
  <2> QED
    BY <2>1, <2>2
<1>13. ASSUME NEW j \in Stations, NEW i \in Pushes(V[j]) PROVE Sound(V[j][i], first, n, over)
  <2>0. Sound(m, first, n, over)
    BY <1>5, <1>9
  <2>1. CASE j = k
    BY <1>2, <1>4, <1>10, <2>0, <2>1
  <2>2. CASE j = k + 1
    BY <1>2, <1>5, <1>9, <2>2
  <2>3. CASE j \notin {k, k + 1}
    BY <1>a, <2>3 DEF Flow
  <2> QED
    BY <2>1, <2>2, <2>3
<1>14. /\ All(V) \cup Link!Places(L) = first .. Last(n, over)
       /\ \A x \in L : Sound(x, first, n, over) /\ Link!Place(x) < Last(n, over)
  BY <1>11, <1>a DEF Flow
<1> QED
  BY <1>11, <1>12, <1>13, <1>14 DEF Flow

\* What is not a frame comes and goes beside them.
Beside(s, t) ==
  /\ Places(t) = Places(s) /\ (Rising(s) => Rising(t))
  /\ \A i \in Pushes(t) : \E j \in Pushes(s) : t[i] = s[j]

LEMMA FlowBeside ==
  ASSUME NEW W, NEW V, NEW L, NEW first, NEW n, NEW over, Flow(W, L, first, n, over),
         \A k \in Stations : Beside(W[k], V[k])
  PROVE  Flow(V, L, first, n, over)
<1>1. FlowOrdered(V) /\ All(V) = All(W)
  BY DEF Flow, FlowOrdered, All, Beside
<1>2. \A k \in Stations : Rising(V[k])
  BY DEF Flow, Beside
<1>3. \A k \in Stations : \A i \in Pushes(V[k]) : Sound(V[k][i], first, n, over)
  BY DEF Flow, Beside
<1> QED
  BY <1>1, <1>2, <1>3 DEF Flow

LEMMA BesideMoves ==
  ASSUME NEW s \in Seq(Notes)
  PROVE  /\ Beside(s, s)
         /\ s # <<>> /\ Head(s).kind \notin {"frame", "closed"} => Beside(s, Tail(s))
         /\ \A m \in Notes : m.kind \notin {"frame", "closed"} =>
              Beside(s, Append(s, m)) /\ Beside(<<>>, <<m>>) /\ Beside(<<m>>, <<>>)
<1>1. Beside(s, s)
  BY DEF Beside
<1>2. s # <<>> /\ Head(s).kind \notin {"frame", "closed"} => Beside(s, Tail(s))
  BY PlacesRest DEF Beside
<1>3. ASSUME NEW m \in Notes, m.kind \notin {"frame", "closed"}
      PROVE  Beside(s, Append(s, m)) /\ Beside(<<>>, <<m>>) /\ Beside(<<m>>, <<>>)
  <2>1. /\ Places(Append(s, m)) = Places(s) /\ Pushes(Append(s, m)) = Pushes(s)
        /\ Rising(s) => Rising(Append(s, m))
    BY <1>3, PlacesAppended
  <2>2. \A i \in Pushes(s) : Append(s, m)[i] = s[i]
    BY Appended DEF Pushes
  <2>3. Pushes(<<m>>) = {} /\ Pushes(<<>>) = {}
    BY <1>3 DEF Pushes
  <2>4. \A t, u : Pushes(t) = {} /\ Pushes(u) = {} => Beside(t, u)
    BY DEF Beside, Places, Rising
  <2> QED
    BY <2>1, <2>2, <2>3, <2>4 DEF Beside
<1> QED
  BY <1>1, <1>2, <1>3

\* What was dropped is one more of those that were.
LEMMA PlacesOf ==
  ASSUME NEW S, NEW m
  PROVE  Link!Places(S \cup {m}) = Link!Places(S) \cup {Link!Place(m)}
BY DEF Link!Places

\* A station loses its first item, which is not the newest of all.
LEMMA FlowDrops ==
  ASSUME Link!ConnectionConstants, NEW W \in [Stations -> Seq(Notes)], NEW V, NEW k \in Stations,
         NEW L, NEW first, NEW n, NEW over
  PROVE  /\ Flow(W, L, first, n, over)
         /\ W[k] # <<>> /\ Head(W[k]).kind \in {"frame", "closed"}
         /\ Link!Place(Head(W[k])) < Last(n, over)
         /\ V[k] = Tail(W[k]) /\ \A j \in Stations : j # k => V[j] = W[j]
         => Flow(V, L \cup {Head(W[k])}, first, n, over)
<1>a. SUFFICES ASSUME Flow(W, L, first, n, over), W[k] # <<>>,
                      Head(W[k]).kind \in {"frame", "closed"},
                      Link!Place(Head(W[k])) < Last(n, over), V[k] = Tail(W[k]),
                      \A j \in Stations : j # k => V[j] = W[j]
               PROVE  Flow(V, L \cup {Head(W[k])}, first, n, over)
  OBVIOUS
<1> DEFINE t == W[k]
           m == Head(W[k])
<1>1. t \in Seq(Notes) /\ t # <<>> /\ m = Head(t) /\ m.kind \in {"frame", "closed"} /\ V[k] = Tail(t)
  BY <1>a
<1>2. Rising(t) /\ \A i \in Pushes(t) : Sound(t[i], first, n, over)
  BY <1>a DEF Flow
<1>3. W[k] = t /\ Link!Place(m) < Last(n, over)
  BY <1>a
<1> HIDE DEF t, m
<1>4. /\ Places(t) = Places(Tail(t)) \cup {Link!Place(m)}
      /\ Rising(Tail(t))
      /\ \A i \in Pushes(Tail(t)) : i + 1 \in Pushes(t) /\ Tail(t)[i] = t[i + 1]
      /\ 1 \in Pushes(t) /\ t[1] = m
  BY <1>1, <1>2, PlacesRest
<1>5. Sound(m, first, n, over)
  BY <1>2, <1>4
<1>6. \A j \in Stations : /\ Places(V[j]) \subseteq Places(W[j])
                           /\ Places(W[j]) \subseteq Places(V[j]) \cup {Link!Place(m)}
  <2>1. Places(V[k]) \subseteq Places(W[k]) /\ Places(W[k]) \subseteq Places(V[k]) \cup {Link!Place(m)}
    BY <1>1, <1>3, <1>4
  <2>2. \A j \in Stations : j # k => Places(V[j]) = Places(W[j])
    BY <1>a
  <2> QED
    BY <2>1, <2>2
<1>7. FlowOrdered(V)
  BY <1>6, <1>a DEF Flow, FlowOrdered
<1>8. All(V) \cup Link!Places(L \cup {m}) = first .. Last(n, over)
  <2>1. All(V) \cup {Link!Place(m)} = All(W) \cup {Link!Place(m)}
    BY <1>6 DEF All
  <2>2. Link!Place(m) \in All(W)
    BY <1>3, <1>4, InAll
  <2>3. All(W) \cup Link!Places(L) = first .. Last(n, over)
    BY <1>a DEF Flow
  <2> QED
    BY <2>1, <2>2, <2>3, PlacesOf
<1>9. \A j \in Stations : Rising(V[j])
  <2>1. Rising(V[k])
    BY <1>1, <1>4
  <2>2. \A j \in Stations : j # k => Rising(V[j])
    BY <1>a DEF Flow
  <2> QED
    BY <2>1, <2>2
<1>10. \A j \in Stations : \A i \in Pushes(V[j]) : Sound(V[j][i], first, n, over)
  <2>1. \A i \in Pushes(V[k]) : Sound(V[k][i], first, n, over)
    BY <1>1, <1>2, <1>4
  <2>2. \A j \in Stations : j # k => \A i \in Pushes(V[j]) : Sound(V[j][i], first, n, over)
    BY <1>a DEF Flow
  <2> QED
    BY <2>1, <2>2
<1>11. \A x \in L \cup {m} : Sound(x, first, n, over) /\ Link!Place(x) < Last(n, over)
  BY <1>3, <1>5, <1>a DEF Flow
<1>12. Flow(V, L \cup {m}, first, n, over)
  BY <1>7, <1>8, <1>9, <1>10, <1>11 DEF Flow
<1> QED
  BY <1>12 DEF m

LEMMA LastAdded ==
  ASSUME NEW q \in Seq(Link!Frames), q # <<>>, NEW m \in Link!Frames
  PROVE  /\ Append(q, m) # <<>> /\ Head(Append(q, m)) = Head(q) /\ Append(q, m)[1] = Head(q)
         /\ Tail(Append(q, m)) = Append(Tail(q), m)
         /\ 1 \in DOMAIN Append(q, m) /\ Len(q) + 1 \in DOMAIN Append(q, m)
         /\ 1 < Len(q) + 1 /\ Append(q, m)[Len(q) + 1] = m
         /\ Head(q) \in Link!Frames
<1>1. /\ Len(q) \in Nat \ {0} /\ Head(q) = q[1] /\ Head(q) \in Link!Frames
      /\ Tail(q) \in Seq(Link!Frames) /\ Len(Tail(q)) = Len(q) - 1
      /\ \A i \in 1 .. Len(q) - 1 : Tail(q)[i] = q[i + 1]
  BY Rest
<1>2. /\ Append(q, m) \in Seq(Link!Frames) /\ Len(Append(q, m)) = Len(q) + 1
      /\ DOMAIN Append(q, m) = 1 .. Len(q) + 1
      /\ \A i \in 1 .. Len(q) : Append(q, m)[i] = q[i]
      /\ Append(q, m)[Len(q) + 1] = m
  BY Appended
<1>3. Append(q, m) # <<>>
  BY <1>1, <1>2, Empty
<1>4. /\ Head(Append(q, m)) = Append(q, m)[1] /\ Tail(Append(q, m)) \in Seq(Link!Frames)
      /\ Len(Tail(Append(q, m))) = Len(q)
      /\ \A i \in 1 .. Len(q) : Tail(Append(q, m))[i] = Append(q, m)[i + 1]
  BY <1>1, <1>2, <1>3, Rest
<1>5. /\ Append(Tail(q), m) \in Seq(Link!Frames) /\ Len(Append(Tail(q), m)) = Len(q)
      /\ \A i \in 1 .. Len(q) - 1 : Append(Tail(q), m)[i] = Tail(q)[i]
      /\ Append(Tail(q), m)[Len(q)] = m
  BY <1>1, Appended
<1>6. \A i \in 1 .. Len(q) : Tail(Append(q, m))[i] = Append(Tail(q), m)[i]
  <2>1. SUFFICES ASSUME NEW i \in 1 .. Len(q) PROVE Tail(Append(q, m))[i] = Append(Tail(q), m)[i]
    OBVIOUS
  <2>2. CASE i = Len(q)
    BY <1>1, <1>2, <1>4, <1>5, <2>2
  <2>3. CASE i # Len(q)
    <3>1. i \in 1 .. Len(q) - 1 /\ i + 1 \in 1 .. Len(q)
      <4>1. \A n \in Nat \ {0} : \A k \in 1 .. n : k # n => k \in 1 .. n - 1 /\ k + 1 \in 1 .. n
        OBVIOUS
      <4> QED
        BY <1>1, <2>1, <2>3, <4>1
    <3> QED
      BY <1>1, <1>2, <1>4, <1>5, <2>1, <3>1
  <2> QED
    BY <2>2, <2>3
<1>7. \A s, t \in Seq(Link!Frames) :
        Len(s) = Len(t) /\ (\A i \in 1 .. Len(s) : s[i] = t[i]) => s = t
  OBVIOUS
<1>8. Tail(Append(q, m)) = Append(Tail(q), m)
  BY <1>4, <1>5, <1>6, <1>7
<1> QED
  BY <1>1, <1>2, <1>3, <1>4, <1>8

\* An item m arrives in the channel at k, where the items q are, and in the last channel.
Overflowed(W, V, k, q, m) ==
  /\ W \in [Stations -> Seq(Notes)] /\ k \in Stations
  /\ q \in Seq(Link!Frames) /\ m \in Link!Frames
  /\ W[k] = Append(q, m) /\ V[k] = Link!Kept(q, m) /\ \A j \in Stations : j # k => V[j] = W[j]
Grown(W, V, m) == V[7] = Append(W[7], m) /\ \A j \in Stations : j # 7 => V[j] = W[j]

\* A full channel makes room for an item that arrives.
LEMMA FlowOverflows ==
  ASSUME Link!ConnectionConstants, NEW W, NEW V, NEW k, NEW L, NEW q, NEW m,
         NEW first \in Nat, NEW n \in Nat, NEW over \in BOOLEAN
  PROVE  Flow(W, L, first, n, over) /\ Overflowed(W, V, k, q, m)
         => Flow(V, L \cup Link!Dropped(q), first, n, over)
<1>a. SUFFICES ASSUME W \in [Stations -> Seq(Notes)], k \in Stations,
                      q \in Seq(Link!Frames), m \in Link!Frames,
                      Flow(W, L, first, n, over), W[k] = Append(q, m),
                      V[k] = Link!Kept(q, m), \A j \in Stations : j # k => V[j] = W[j]
               PROVE  Flow(V, L \cup Link!Dropped(q), first, n, over)
  BY DEF Overflowed
<1>1. CASE Len(q) < ChannelRoom
  <2>1. \A j \in Stations : V[j] = W[j]
    BY <1>1, <1>a DEF Link!Kept
  <2>2. \A j \in Stations : Beside(W[j], V[j])
    <3>1. \A j \in Stations : W[j] \in Seq(Notes)
      BY <1>a
    <3> QED
      BY <2>1, <3>1, BesideMoves
  <2>3. L \cup Link!Dropped(q) = L
    BY <1>1 DEF Link!Dropped
  <2> QED
    BY <1>a, <2>2, <2>3, FlowBeside
<1>2. CASE ~(Len(q) < ChannelRoom)
  <2>1. q # <<>>
    <3>1. Len(<<>>) = 0 /\ 0 < ChannelRoom
      BY DEF Link!ConnectionConstants
    <3> QED
      BY <1>2, <3>1
  <2>2. /\ W[k] # <<>> /\ Head(W[k]) = Head(q) /\ W[k][1] = Head(q) /\ Tail(W[k]) = Append(Tail(q), m)
        /\ 1 \in DOMAIN W[k] /\ Len(q) + 1 \in DOMAIN W[k] /\ 1 < Len(q) + 1
        /\ W[k][Len(q) + 1] = m /\ Head(q) \in Link!Frames
    BY <1>a, <2>1, LastAdded
  <2>3. Head(q).kind \in {"frame", "closed"} /\ m.kind \in {"frame", "closed"}
    BY <1>a, <2>2 DEF Link!Frames
  <2>4. V[k] = Tail(W[k]) /\ Link!Dropped(q) = {Head(W[k])}
    BY <1>2, <1>a, <2>2 DEF Link!Kept, Link!Dropped
  <2>5. Link!Place(Head(W[k])) < Last(n, over)
    <3>1. 1 \in Pushes(W[k]) /\ Len(q) + 1 \in Pushes(W[k])
      BY <2>2, <2>3 DEF Pushes
    <3>2. Link!Place(Head(q)) < Link!Place(m)
      BY <1>a, <2>2, <3>1 DEF Flow, Rising
    <3>3. {Link!Place(Head(q)), Link!Place(m)} \subseteq Places(W[k])
      BY <2>2, <3>1 DEF Places
    <3>4. {Link!Place(Head(q)), Link!Place(m)} \subseteq first .. Last(n, over)
      BY <1>a, <3>3, InAll DEF Flow
    <3>5. Last(n, over) \in Nat
      BY DEF Last
    <3> QED
      BY <2>2, <3>2, <3>4, <3>5
  <2> QED
    BY <1>a, <2>2, <2>3, <2>4, <2>5, FlowDrops
<1> QED
  BY <1>1, <1>2

\* The session pushes one more.
LEMMA FlowGrows ==
  ASSUME Link!ConnectionConstants, NEW W \in [Stations -> Seq(Notes)], NEW V,
         NEW n \in Nat, NEW first \in 0 .. n, NEW n1 \in Nat, NEW over, NEW L,
         NEW m \in Link!Frames
  PROVE  /\ Flow(W, L, first, n, FALSE) /\ Grown(W, V, m)
         /\ ~m.full /\ m.n = n1 /\ n <= n1 /\ (m.kind = "closed" => over)
         /\ Link!Place(m) = n + 1 /\ Last(n1, over) = n + 1
         => Flow(V, L, first, n1, over)
<1>a. SUFFICES ASSUME Flow(W, L, first, n, FALSE), V[7] = Append(W[7], m),
                      \A j \in Stations : j # 7 => V[j] = W[j],
                      ~m.full, m.n = n1, n <= n1, m.kind = "closed" => over,
                      Link!Place(m) = n + 1, Last(n1, over) = n + 1
               PROVE  Flow(V, L, first, n1, over)
  BY DEF Grown
<1> DEFINE s == W[7]
<1>0. 7 \in Stations /\ Stations \subseteq Nat /\ \A j \in Stations : j <= 7
  BY DEF Stations
<1>1. s \in Seq(Notes) /\ m \in Notes /\ V[7] = Append(s, m) /\ m.kind \in {"frame", "closed"}
  BY <1>0, <1>a DEF Notes, Link!Frames
<1>2. Rising(s) /\ FlowOrdered(W) /\ All(W) \cup Link!Places(L) = first .. n /\ W[7] = s
  BY <1>0, <1>a, LastIs DEF Flow
<1> HIDE DEF s
<1>3. /\ Places(V[7]) = Places(s) \cup {n + 1}
      /\ (\A x \in Places(s) : x < n + 1) => Rising(V[7])
      /\ \A i \in Pushes(V[7]) : (i \in Pushes(s) /\ V[7][i] = s[i]) \/ V[7][i] = m
  <2>1. /\ Places(Append(s, m)) = Places(s) \cup {Link!Place(m)}
        /\ Rising(s) /\ (\A x \in Places(s) : x < Link!Place(m)) => Rising(Append(s, m))
        /\ \A i \in Pushes(Append(s, m)) :
             (i \in Pushes(s) /\ Append(s, m)[i] = s[i]) \/ Append(s, m)[i] = m
    BY <1>1, PlacesAppended
  <2>2. Link!Place(m) = n + 1
    BY <1>a
  <2> QED
    BY <1>1, <1>2, <2>1, <2>2
<1>4. \A j \in Stations : \A x \in Places(W[j]) : x <= n
  <2>1. \A x \in first .. n : x <= n
    OBVIOUS
  <2> QED
    BY <1>2, <2>1, InAll
<1>5. \A j \in Stations : Places(V[j]) = IF j = 7 THEN Places(W[7]) \cup {n + 1} ELSE Places(W[j])
  BY <1>2, <1>3, <1>a
<1>6. \A j \in Stations : \A x \in Places(W[j]) : x \in Nat
  <2>1. \A j \in Stations : W[j] \in Seq(Notes)
    OBVIOUS
  <2> QED
    BY <2>1, PlacesAreNumbers
<1>7. ASSUME NEW i \in Stations, NEW j \in Stations, i < j,
             NEW x \in Places(V[i]), NEW y \in Places(V[j])
      PROVE  x < y
  <2>1. i # 7 /\ x \in Places(W[i])
    BY <1>0, <1>5, <1>7
  <2>2. CASE y \in Places(W[j])
    BY <1>2, <1>7, <2>1, <2>2 DEF FlowOrdered
  <2>3. CASE y \notin Places(W[j])
    <3>1. y = n + 1
      BY <1>5, <2>3
    <3> QED
      BY <1>4, <1>6, <2>1, <3>1
  <2> QED
    BY <2>2, <2>3
<1>8. All(V) \cup Link!Places(L) = first .. n + 1
  <2>1. \A x : x \in All(V) <=> x \in All(W) \/ x = n + 1
    <3>1. \A x : x \in All(V) <=> \E j \in Stations : x \in Places(V[j])
      BY InAll
    <3>2. \A x : x \in All(W) <=> \E j \in Stations : x \in Places(W[j])
      BY InAll
    <3> QED
      BY <1>0, <1>5, <3>1, <3>2
  <2>2. \A x : x \in first .. n + 1 <=> x \in first .. n \/ x = n + 1
    OBVIOUS
  <2>3. \A x : x \in first .. n + 1 <=> x \in All(V) \cup Link!Places(L)
    BY <1>2, <2>1, <2>2
  <2> QED
    BY <2>3
<1>9. \A j \in Stations : Rising(V[j])
  <2>1. Rising(V[7])
    BY <1>0, <1>2, <1>3, <1>4, <1>6
  <2> QED
    BY <1>a, <2>1 DEF Flow
<1>10. ASSUME NEW j \in Stations, NEW i \in Pushes(V[j]) PROVE Sound(V[j][i], first, n1, over)
  <2>1. ASSUME NEW p \in Notes, Sound(p, first, n, FALSE) PROVE Sound(p, first, n1, over)
    BY <1>a, <2>1, NoteFields DEF Sound
  <2>2. Sound(m, first, n1, over)
    BY <1>a DEF Sound, Link!Frames
  <2>3. CASE j = 7 /\ V[7][i] = m
    BY <2>2, <2>3
  <2>4. CASE ~(j = 7 /\ V[7][i] = m)
    <3>1. i \in Pushes(W[j]) /\ V[j][i] = W[j][i]
      BY <1>2, <1>3, <1>a, <2>4
    <3>2. Sound(W[j][i], first, n, FALSE)
      BY <1>a, <3>1 DEF Flow
    <3>3. W[j][i] \in Notes
      BY <3>1 DEF Pushes
    <3> QED
      BY <2>1, <3>1, <3>2, <3>3
  <2> QED
    BY <2>3, <2>4
<1>11. ASSUME NEW x \in L PROVE Sound(x, first, n1, over) /\ Link!Place(x) < n + 1
  <2>1. Sound(x, first, n, FALSE) /\ Link!Place(x) < n
    BY <1>a, LastIs DEF Flow
  <2>2. x.kind # "closed" /\ x.n < n /\ Link!Place(x) = x.n
    BY <2>1 DEF Sound, Link!Place
  <2>3. x.n \in first .. n
    BY <1>2, <2>2 DEF Link!Places
  <2> QED
    BY <1>a, <2>1, <2>2, <2>3 DEF Sound
<1> QED
  BY <1>7, <1>8, <1>9, <1>10, <1>11, <1>a DEF Flow, FlowOrdered

\* A new subscription begins with the whole screen.
LEMMA FlowBegins ==
  ASSUME Link!ConnectionConstants, NEW W, NEW n \in 0 .. MaxFrames,
         \A k \in 1 .. 6 : Pushes(W[k]) = {}
  PROVE  W[7] = <<[kind |-> "frame", n |-> n, full |-> TRUE]>> => Flow(W, {}, n, n, FALSE)
<1>a. SUFFICES ASSUME W[7] = <<[kind |-> "frame", n |-> n, full |-> TRUE]>>
               PROVE  Flow(W, {}, n, n, FALSE)
  OBVIOUS
<1> DEFINE f == [kind |-> "frame", n |-> n, full |-> TRUE]
<1>0. n \in Nat /\ Link!Place(f) = n
  BY DEF Link!ConnectionConstants, Link!Place
<1>1. f.kind = "frame" /\ f.full /\ f.n = n
  OBVIOUS
<1>2. W[7] = <<f>>
  BY <1>a
<1> HIDE DEF f
<1>3. Stations = (1 .. 6) \cup {7}
  BY DEF Stations
<1>4. Pushes(W[7]) = {1} /\ W[7][1] = f
  BY <1>1, <1>2 DEF Pushes
<1>6. \A k \in 1 .. 6 : Places(W[k]) = {} /\ Rising(W[k])
  BY DEF Places, Rising
<1>7. Rising(W[7]) /\ Places(W[7]) = n .. Last(n, FALSE)
  <2>1. Rising(W[7])
    BY <1>4 DEF Rising
  <2>2. Places(W[7]) = {Link!Place(W[7][1])}
    BY <1>4 DEF Places
  <2> QED
    BY <1>0, <1>4, <2>1, <2>2, LastIs
<1>8. FlowOrdered(W) /\ All(W) \cup Link!Places({}) = n .. Last(n, FALSE)
  <2>1. FlowOrdered(W)
    BY <1>3, <1>6 DEF FlowOrdered
  <2>2. \A x : x \in All(W) <=> x \in Places(W[7])
    BY <1>3, <1>6, InAll
  <2>3. Link!Places({}) = {}
    BY DEF Link!Places
  <2> QED
    BY <1>7, <2>1, <2>2, <2>3
<1>9. \A i \in Pushes(W[7]) : Sound(W[7][i], n, n, FALSE)
  <2>1. Sound(f, n, n, FALSE)
    BY <1>0, <1>1 DEF Sound
  <2> QED
    BY <1>4, <2>1
<1> QED
  BY <1>3, <1>6, <1>7, <1>8, <1>9 DEF Flow

\* What the tab has not heard, up to what it has, was dropped.
LEMMA FlowHeard ==
  ASSUME Link!ConnectionConstants, NEW W, NEW L, NEW n \in Nat, NEW first \in 0 .. n,
         NEW over \in BOOLEAN, Flow(W, L, first, n, over),
         \A j \in Stations : Places(W[j]) \subseteq Nat, W[1] \in Seq(Link!Frames)
  PROVE  Link!LostAtMost(W[1], L)
<1> DEFINE s == W[1]
<1>0. /\ 1 \in Stations /\ Stations \subseteq Nat /\ \A j \in Stations : j = 1 \/ 1 < j
      /\ Last(n, over) \in Nat /\ n <= Last(n, over)
  BY DEF Stations, Last
<1>1. /\ Rising(s) /\ \A i \in Pushes(s) : Sound(s[i], first, n, over)
      /\ \A i \in DOMAIN s : s[i] \in Link!Frames
  BY <1>0 DEF Flow
<1>2. Pushes(s) = DOMAIN s /\ DOMAIN s = 1 .. Len(s) /\ Len(s) \in Nat
  BY <1>1 DEF Pushes, Link!Frames
<1>3. \A j \in Stations : j # 1 => \A i \in DOMAIN s : \A y \in Places(W[j]) : Link!Place(s[i]) < y
  BY <1>0, <1>2 DEF Flow, FlowOrdered, Places
<1>4. \A x \in first .. Last(n, over) :
        (\E m \in Link!Heard(s) \cup L : x = Link!Place(m))
          \/ (\A i \in DOMAIN s : Link!Place(s[i]) < x)
  <2>1. SUFFICES ASSUME NEW x \in All(W) \cup Link!Places(L)
                 PROVE  (\E m \in Link!Heard(s) \cup L : x = Link!Place(m))
                          \/ (\A i \in DOMAIN s : Link!Place(s[i]) < x)
    BY DEF Flow
  <2>2. CASE x \in Link!Places(L)
    BY <2>2 DEF Link!Places
  <2>3. CASE x \in All(W)
    <3>1. PICK j \in Stations : x \in Places(W[j])
      BY <2>3, InAll
    <3>2. CASE j = 1
      BY <1>2, <3>1, <3>2 DEF Places, Link!Heard
    <3>3. CASE j # 1
      BY <1>3, <3>1, <3>3
    <3> QED
      BY <3>2, <3>3
  <2> QED
    BY <2>1, <2>2, <2>3
<1>5. \A i \in DOMAIN s : Link!Place(s[i]) \in first .. Last(n, over)
  <2>1. \A i \in DOMAIN s : Link!Place(s[i]) \in Places(W[1])
    BY <1>2 DEF Places
  <2> QED
    BY <1>0, <2>1, InAll DEF Flow
<1>6. \A m \in Link!Heard(s) \cup L : Sound(m, first, n, over)
  BY <1>1, <1>2 DEF Flow, Link!Heard
<1>7. \A i, j \in DOMAIN s : i < j => Link!Place(s[i]) < Link!Place(s[j])
  BY <1>1, <1>2 DEF Rising
<1> HIDE DEF s
<1>8. ASSUME NEW i \in DOMAIN s
      PROVE  \E m \in Link!Heard(s) \cup L :
               m.full /\ m.n .. Link!Place(s[i]) \subseteq Link!Places(Link!Heard(s) \cup L)
  <2> DEFINE p == Link!Place(s[i])
  <2>1. p \in first .. Last(n, over)
    BY <1>5
  <2>2. first \in first .. Last(n, over) /\ ~(p < first)
    BY <1>0, <2>1
  <2>3. PICK m \in Link!Heard(s) \cup L : first = Link!Place(m)
    BY <1>4, <2>2
  <2>4. m.full /\ m.n = first
    BY <1>6, <2>3 DEF Sound, Link!Place
  <2>5. \A x \in first .. p : x \in Link!Places(Link!Heard(s) \cup L)
    <3>1. SUFFICES ASSUME NEW x \in first .. p PROVE x \in Link!Places(Link!Heard(s) \cup L)
      OBVIOUS
    <3>2. x \in first .. Last(n, over) /\ ~(p < x)
      BY <1>0, <2>1
    <3>3. \E h \in Link!Heard(s) \cup L : x = Link!Place(h)
      BY <1>4, <3>2
    <3> QED
      BY <3>3 DEF Link!Places
  <2> QED
    BY <2>4, <2>5
<1>9. Link!LostAtMost(s, L)
  BY <1>7, <1>8 DEF Link!LostAtMost
<1> QED
  BY <1>9 DEF s

\* With nothing on its way, the tab has heard everything.
LEMMA FlowEnds ==
  ASSUME Link!ConnectionConstants, NEW W, NEW L, NEW n \in Nat, NEW first \in 0 .. n, NEW over \in BOOLEAN,
         Flow(W, L, first, n, over), W[1] \in Seq(Link!Frames),
         \A j \in Stations : j # 1 => Pushes(W[j]) = {}
  PROVE  /\ W[1] # <<>> /\ W[1][Len(W[1])].n = n
         /\ over => W[1][Len(W[1])].kind = "closed"
<1> DEFINE s == W[1]
           l == Last(n, over)
<1>0. /\ 1 \in Stations
      /\ l \in Nat /\ l = (IF over THEN n + 1 ELSE n) /\ l \in first .. l
  BY DEF Stations, Last
<1>1. /\ Rising(s) /\ \A i \in Pushes(s) : Sound(s[i], first, n, over)
      /\ \A i \in DOMAIN s : s[i] \in Link!Frames
  BY <1>0 DEF Flow
<1>2. Pushes(s) = DOMAIN s /\ DOMAIN s = 1 .. Len(s) /\ Len(s) \in Nat
  BY <1>1 DEF Pushes, Link!Frames
<1>3. All(W) \cup Link!Places(L) = first .. l /\ (\A x \in Link!Places(L) : x < l) /\ \A j \in Stations : j # 1 => Places(W[j]) = {}
  BY DEF Flow, Places, Link!Places
<1>4. PICK i \in DOMAIN s : l = Link!Place(s[i])
  <2>1. l \in All(W) \cup Link!Places(L) /\ ~(l < l)
    BY <1>0, <1>3
  <2>2. l \in All(W)
    BY <1>3, <2>1
  <2>3. PICK k \in Stations : l \in Places(W[k])
    BY <2>2, InAll
  <2>4. l \in Places(W[1])
    BY <1>3, <2>3
  <2> QED
    BY <1>2, <2>4 DEF Places
<1>5. \A j \in DOMAIN s : Link!Place(s[j]) \in first .. l
  BY <1>0, <1>2, <1>3, InAll DEF Places
<1> HIDE DEF s, l
<1>6. i = Len(s)
  <2>1. SUFFICES ASSUME i < Len(s) PROVE FALSE
    BY <1>2
  <2>2. Len(s) \in DOMAIN s /\ Link!Place(s[i]) < Link!Place(s[Len(s)])
    BY <1>1, <1>2, <2>1 DEF Rising
  <2> QED
    BY <1>0, <1>4, <1>5, <2>2
<1>7. Sound(s[i], first, n, over) /\ s[i].kind \in {"frame", "closed"} /\ s[i].n \in Nat
  <2>1. MaxFrames \in Nat
    BY DEF Link!ConnectionConstants
  <2> QED
    BY <1>1, <1>2, <2>1 DEF Link!Frames
<1>8. s[i].n = n /\ (over => s[i].kind = "closed")
  BY <1>0, <1>4, <1>7 DEF Sound, Link!Place
<1>9. s # <<>>
  BY <1>2, <1>4
<1> QED
  BY <1>6, <1>8, <1>9 DEF s

-----------------------------------------------------------------------------
(* The types.                                                              *)

LEMMA Fields ==
  ASSUME ConnTypes
  PROVE  /\ wire.up \in Seq(Texts) /\ wire.down \in Seq(Notes) /\ wire.open \in BOOLEAN
         /\ client.pc \in {"auth", "select", "writing", "ended"}
         /\ client.text \in Texts \cup {"none"} /\ client.queue \in Seq(Texts)
         /\ client.pending \in SUBSET Texts /\ client.typed \in Nat
         /\ \A r \in Link!Waited : asked[r] \in Outcomes
         /\ {tab.sender, tab.prepared, tab.taken, tab.late, tab.ended} \subseteq BOOLEAN
         /\ tab.got \in Seq(Link!Frames)
         /\ owner.sender \in BOOLEAN /\ owner.got \in SUBSET (1 .. MaxEvents)
         /\ daemon.pc \in {"select", "swap", "writing", "ended"} /\ daemon.owner \in BOOLEAN
         /\ daemon.out \in Seq(Notes)
         /\ events.waiting \in Seq(1 .. MaxEvents) /\ events.lagged \in BOOLEAN
         /\ shell.frames \in 0 .. MaxFrames /\ shell.exited \in BOOLEAN
         /\ shell.announced \in 0 .. MaxEvents
         /\ shell.told \in BOOLEAN /\ shell.lost \in SUBSET Link!Frames
<1> USE DEF ConnTypes
<1>1. wire.up \in Seq(Texts) /\ wire.down \in Seq(Notes) /\ wire.open \in BOOLEAN
  BY DEF Wires
<1>2. /\ client.pc \in {"auth", "select", "writing", "ended"}
      /\ client.text \in Texts \cup {"none"} /\ client.queue \in Seq(Texts)
      /\ client.pending \in SUBSET Texts /\ client.typed \in Nat
  BY DEF Clients
<1>3. /\ {tab.sender, tab.prepared, tab.taken, tab.late, tab.ended} \subseteq BOOLEAN
      /\ tab.got \in Seq(Link!Frames)
  BY DEF Tabs
<1>4. owner.sender \in BOOLEAN /\ owner.got \in SUBSET (1 .. MaxEvents)
  BY DEF Owners
<1>5. /\ daemon.pc \in {"select", "swap", "writing", "ended"} /\ daemon.owner \in BOOLEAN
      /\ daemon.out \in Seq(Notes)
  BY DEF Daemons
<1>6. events.waiting \in Seq(1 .. MaxEvents) /\ events.lagged \in BOOLEAN
  BY DEF Receivers
<1>7. /\ shell.frames \in 0 .. MaxFrames /\ shell.exited \in BOOLEAN
      /\ shell.announced \in 0 .. MaxEvents
      /\ shell.told \in BOOLEAN /\ shell.lost \in SUBSET Link!Frames
  BY DEF Shells
<1> QED
  BY <1>1, <1>2, <1>3, <1>4, <1>5, <1>6, <1>7

LEMMA FieldsOfBridges ==
  ASSUME ConnTypes, NEW b \in DOMAIN bridges
  PROVE  /\ bridges[b] \in Bridges /\ bridges[b].on \in BOOLEAN
         /\ bridges[b].hold \in Seq(Link!Frames) /\ bridges[b].chan \in Seq(Link!Frames)
         /\ bridges[b].host \in Seq(Link!Frames) /\ bridges[b].wake \in BOOLEAN
         /\ bridges[b].chan \in Channel /\ bridges[b].host \in Channel
<1>1. bridges[b] \in Bridges
  BY DEF ConnTypes
<1>2. /\ bridges[b].on \in BOOLEAN /\ bridges[b].hold \in Seq(Link!Frames)
      /\ bridges[b].chan \in Channel /\ bridges[b].host \in Channel /\ bridges[b].wake \in BOOLEAN
  BY <1>1 DEF Bridges
<1> QED
  BY <1>1, <1>2 DEF Channel

\* A channel after an item has arrived, or left.
LEMMA Channels ==
  ASSUME Link!ConnectionConstants, NEW q \in Channel
  PROVE  /\ \A m \in Link!Frames : Link!Kept(q, m) \in Channel /\ <<m>> \in Channel
         /\ Link!Dropped(q) \subseteq Link!Frames /\ <<>> \in Channel
         /\ q # <<>> => Head(q) \in Link!Frames /\ Tail(q) \in Channel
<1>0. q \in Seq(Link!Frames) /\ Len(q) <= ChannelRoom /\ Len(q) \in Nat
      /\ ChannelRoom \in Nat /\ 1 <= ChannelRoom
  BY DEF Channel, Link!ConnectionConstants
<1>1. q # <<>> => /\ Head(q) \in Link!Frames /\ Tail(q) \in Seq(Link!Frames)
                  /\ Len(Tail(q)) = Len(q) - 1
  BY <1>0, Rest
<1>2. ASSUME NEW m \in Link!Frames PROVE Link!Kept(q, m) \in Channel
  <2>1. CASE Len(q) < ChannelRoom
    <3>1. Append(q, m) \in Seq(Link!Frames) /\ Len(Append(q, m)) = Len(q) + 1
      BY <1>0, Appended
    <3> QED
      BY <1>0, <2>1, <3>1 DEF Link!Kept, Channel
  <2>2. CASE ~(Len(q) < ChannelRoom)
    <3>1. q # <<>>
      <4>1. Len(<<>>) = 0
        OBVIOUS
      <4> QED
        BY <1>0, <2>2, <4>1
    <3>2. Append(Tail(q), m) \in Seq(Link!Frames) /\ Len(Append(Tail(q), m)) = Len(q)
      BY <1>0, <1>1, <3>1, Appended
    <3> QED
      BY <1>0, <2>2, <3>2 DEF Link!Kept, Channel
  <2> QED
    BY <2>1, <2>2
<1>3. \A m \in Link!Frames : <<m>> \in Channel
  <2>1. \A m \in Link!Frames : <<m>> \in Seq(Link!Frames) /\ Len(<<m>>) = 1
    OBVIOUS
  <2> QED
    BY <1>0, <2>1 DEF Channel
<1>4. <<>> \in Channel
  <2>1. <<>> \in Seq(Link!Frames) /\ Len(<<>>) = 0
    OBVIOUS
  <2> QED
    BY <1>0, <2>1 DEF Channel
<1>5. Link!Dropped(q) \subseteq Link!Frames
  <2>1. CASE Len(q) < ChannelRoom
    BY <2>1 DEF Link!Dropped
  <2>2. CASE ~(Len(q) < ChannelRoom)
    <3>1. q # <<>>
      <4>1. Len(<<>>) = 0
        OBVIOUS
      <4> QED
        BY <1>0, <2>2, <4>1
    <3> QED
      BY <1>1, <2>2, <3>1 DEF Link!Dropped
  <2> QED
    BY <2>1, <2>2
<1>6. q # <<>> => Tail(q) \in Channel
  BY <1>0, <1>1 DEF Channel
<1> QED
  BY <1>1, <1>2, <1>3, <1>4, <1>5, <1>6

LEMMA Overflows ==
  ASSUME Link!ConnectionConstants, ConnTypes
  PROVE  Link!Overflown \subseteq Link!Frames
<1>1. \A b \in Link!LiveBridges : Link!Dropped(bridges[b].host) \subseteq Link!Frames
  BY FieldsOfBridges, Channels DEF Link!LiveBridges
<1> QED
  BY <1>1 DEF Link!Overflown

LEMMA ConnInitial ==
  ASSUME Link!ConnectionConstants, Link!Init
  PROVE  ConnInv
<1>0. MaxFrames \in Nat /\ MaxEvents \in Nat /\ {WireRoom, QueueRoom, EventRoom} \subseteq Nat \ {0}
  BY DEF Link!ConnectionConstants
<1>1. wire.up = <<"auth">> /\ wire.down = <<>> /\ wire.open
  BY DEF Link!Init
<1>2. client.pc = "auth" /\ client.queue = <<>>
  BY DEF Link!Init
<1>3. \A r \in Link!Waited : asked[r] = "no"
  BY DEF Link!Init
<1>4. /\ tab.got = <<>> /\ ~tab.sender /\ ~tab.taken /\ owner.got = {}
      /\ daemon.pc = "select" /\ daemon.out = <<>>
      /\ bridges = <<>> /\ pushq = <<>> /\ events.waiting = <<>>
      /\ ~shell.told /\ shell.lost = {}
  BY DEF Link!Init
<1>5. ConnTypes
  <2>1. wire \in Wires
    BY DEF Link!Init, Wires, Texts
  <2>2. client \in Clients
    BY DEF Link!Init, Clients
  <2>3. asked \in [Link!Waited -> Outcomes]
    BY DEF Link!Init, Outcomes
  <2>4. tab \in Tabs
    BY DEF Link!Init, Tabs
  <2>5. owner \in Owners
    BY DEF Link!Init, Owners
  <2>6. daemon \in Daemons
    BY DEF Link!Init, Daemons
  <2>7. bridges \in Seq(Bridges) /\ pushq \in Seq(Link!Frames)
    BY DEF Link!Init
  <2>8. events \in Receivers
    BY DEF Link!Init, Receivers
  <2>9. shell \in Shells
    BY <1>0 DEF Link!Init, Shells
  <2> QED
    BY <2>1, <2>2, <2>3, <2>4, <2>5, <2>6, <2>7, <2>8, <2>9 DEF ConnTypes
<1>6. Ends
  <2>1. /\ Len(wire.up) = 1 /\ Len(wire.down) = 0 /\ Len(pushq) = 0
        /\ Len(events.waiting) = 0 /\ Len(bridges) = 0
    BY <1>1, <1>4
  <2>2. /\ Len(wire.up) <= WireRoom /\ Len(wire.down) <= WireRoom /\ Len(pushq) <= QueueRoom
        /\ Len(events.waiting) <= EventRoom /\ Len(bridges) <= Subscribes
    BY <1>0, <2>1 DEF Link!ConnectionConstants
  <2> QED
    BY <1>1, <1>2, <1>3, <1>4, <2>2 DEF Ends, Link!Waited
<1>7. \A r \in Link!Waited : ~Coming(r) /\ ~Handled(r)
  BY <1>1, <1>2, <1>3 DEF Coming, Writes, In, Link!Waited, Handled
<1>8. Requests
  <2>1. \A r \in Link!Waited : Request(r)
    BY <1>1, <1>2, <1>3, <1>4 DEF Request, Coming, Writes, In, Lone, Tells, Link!Waited
  <2> QED
    BY <1>4, <1>7, <2>1 DEF Requests, One, Link!Waited
<1>9. Approvals
  <2>1. Known = {}
    <3>1. EventsIn(<<>>) = {} /\ Listed(<<>>) = {} /\ Items(<<>>) = {}
      BY DEF EventsIn, Listed, Items
    <3> QED
      BY <1>1, <1>4, <3>1 DEF Known
  <2> QED
    BY <1>7, <2>1 DEF Approvals, Link!Waited
<1>10. Pipe
  <2>1. Pushes(<<>>) = {}
    BY DEF Pushes
  <2> QED
    BY <1>1, <1>3, <1>4, <1>7, <2>1 DEF Pipe, Ready, Silent, Link!Waited
<1>11. Link!LostAtMost(tab.got, shell.lost)
  BY <1>4 DEF Link!LostAtMost
<1> QED
  BY <1>5, <1>6, <1>8, <1>9, <1>10, <1>11 DEF ConnInv

LEMMA NoteKinds ==
  ASSUME NEW m \in Notes
  PROVE  /\ m.kind \in {"frame", "closed"} => m \in Link!Frames
         /\ m.kind \notin {"frame", "closed"} => m.n \in 0 .. MaxEvents
         /\ m.kind \in Texts \cup {"event", "frame", "closed"}
<1>1. CASE m \in Link!Frames
  BY <1>1 DEF Link!Frames, Texts
<1>2. CASE m \notin Link!Frames
  <2>1. m \in [kind : {"auth", "key", "event"} \cup Link!Waited, n : 0 .. MaxEvents, full : {FALSE}]
    BY <1>2 DEF Notes
  <2>2. m.kind \in {"auth", "key", "event"} \cup Link!Waited /\ m.n \in 0 .. MaxEvents
    BY <2>1
  <2> QED
    BY <2>2 DEF Texts, Link!Waited
<1> QED
  BY <1>1, <1>2

LEMMA NotesMade ==
  /\ Link!Frames \subseteq Notes /\ Seq(Link!Frames) \subseteq Seq(Notes)
  /\ \A k \in Texts \cup {"event"}, x \in 0 .. MaxEvents :
       /\ Link!Note(k, x) \in Notes /\ Link!Note(k, x).kind = k /\ Link!Note(k, x).n = x
       /\ k \notin {"frame", "closed"}
  /\ \A x \in 0 .. MaxFrames : Link!Note("frame", x) \in Link!Frames /\ Link!Note("closed", x) \in Link!Frames
  /\ \A x : /\ Link!Note("frame", x).kind = "frame" /\ Link!Note("frame", x).n = x /\ ~Link!Note("frame", x).full
            /\ Link!Note("closed", x).kind = "closed" /\ Link!Note("closed", x).n = x
            /\ ~Link!Note("closed", x).full
<1>1. Link!Frames \subseteq Notes
  BY DEF Notes
<1>2. \A k \in Texts \cup {"event"}, x \in 0 .. MaxEvents :
        /\ Link!Note(k, x) \in Notes /\ Link!Note(k, x).kind = k /\ Link!Note(k, x).n = x
        /\ k \notin {"frame", "closed"}
  BY DEF Link!Note, Notes, Texts, Link!Waited
<1>3. \A x \in 0 .. MaxFrames : Link!Note("frame", x) \in Link!Frames /\ Link!Note("closed", x) \in Link!Frames
  BY DEF Link!Note, Link!Frames
<1>4. \A x : /\ Link!Note("frame", x).kind = "frame" /\ Link!Note("frame", x).n = x /\ ~Link!Note("frame", x).full
             /\ Link!Note("closed", x).kind = "closed" /\ Link!Note("closed", x).n = x
             /\ ~Link!Note("closed", x).full
  BY DEF Link!Note
<1> QED
  BY <1>1, <1>2, <1>3, <1>4

LEMMA NewBridgeType ==
  ASSUME Link!ConnectionConstants, ConnTypes
  PROVE  /\ Link!NewBridge \in Bridges /\ Link!NewBridge.on /\ Link!NewBridge.hold = <<>>
         /\ Link!NewBridge.chan = <<>>
         /\ Link!NewBridge.host = <<[kind |-> "frame", n |-> shell.frames, full |-> TRUE]>>
<1>1. [kind |-> "frame", n |-> shell.frames, full |-> TRUE] \in Link!Frames
  BY Fields DEF Link!Frames
<1> DEFINE f == [kind |-> "frame", n |-> shell.frames, full |-> TRUE]
<1>2. Link!NewBridge = [on |-> TRUE, hold |-> <<>>, chan |-> <<>>, wake |-> TRUE, host |-> <<f>>]
  BY DEF Link!NewBridge
<1>3. <<>> \in Channel
  <2>1. <<>> \in Seq(Link!Frames) /\ Len(<<>>) = 0 /\ 0 <= ChannelRoom
    BY DEF Link!ConnectionConstants
  <2> QED
    BY <2>1 DEF Channel
<1>4. <<f>> \in Channel
  BY <1>1, <1>3, Channels
<1> HIDE DEF f
<1>5. Link!NewBridge \in Bridges
  BY <1>2, <1>3, <1>4 DEF Bridges
<1>6. /\ Link!NewBridge.on /\ Link!NewBridge.hold = <<>> /\ Link!NewBridge.chan = <<>>
      /\ Link!NewBridge.host = <<f>>
  BY <1>2
<1> QED
  BY <1>5, <1>6 DEF f

\* The end of the client.
LEMMA ClientTypes ==
  ASSUME Link!ConnectionConstants, ConnInv
  PROVE  Link!Connected \/ Link!Receive \/ Link!TakeRequest \/ Link!WriteRequest \/ Link!TaskEnds => ConnTypes'
<1>0. ConnTypes /\ Ends
  BY DEF ConnInv
<1>a. /\ wire \in Wires /\ client \in Clients /\ asked \in [Link!Waited -> Outcomes]
      /\ tab \in Tabs /\ owner \in Owners
  BY <1>0 DEF ConnTypes
<1>b. MaxEvents \in Nat
  BY DEF Link!ConnectionConstants
<1>1. ASSUME Link!Connected PROVE ConnTypes'
  <2>1. Tail(wire.down) \in Seq(Notes)
    BY <1>0, <1>1, Fields, Rest DEF Link!Connected
  <2>2. wire' \in Wires
    BY <1>a, <1>1, <2>1 DEF Link!Connected, Wires
  <2>3. client' \in Clients
    BY <1>a, <1>1 DEF Link!Connected, Clients
  <2>4. owner' \in Owners
    BY <1>a, <1>1 DEF Link!Connected, Owners
  <2> QED
    BY <1>0, <1>1, <2>2, <2>3, <2>4 DEF Link!Connected, ConnTypes
<1>2. ASSUME Link!Receive PROVE ConnTypes'
  <2> DEFINE m == Head(wire.down)
  <2>1. Tail(wire.down) \in Seq(Notes) /\ m \in Notes
    BY <1>0, <1>2, Fields, Rest DEF Link!Receive
  <2>2. wire' \in Wires
    BY <1>a, <1>2, <2>1 DEF Link!Receive, Wires
  <2>3. client' \in Clients
    BY <1>a, <1>2 DEF Link!Receive, Link!Dispatched, Clients
  <2>4. asked' \in [Link!Waited -> Outcomes]
    BY <1>a, <1>2 DEF Link!Receive, Link!Dispatched, Outcomes
  <2>5. tab' \in Tabs
    <3>1. CASE m.kind \in {"frame", "closed"} /\ tab.sender
      <4>1. m \in Link!Frames
        BY <2>1, <3>1, NoteKinds
      <4>2. Append(tab.got, m) \in Seq(Link!Frames)
        BY <1>0, <4>1, Fields, Appended
      <4>3. tab' = [tab EXCEPT !.got = Append(tab.got, m)]
        BY <1>2, <3>1 DEF Link!Receive, Link!Dispatched
      <4> HIDE DEF m
      <4> QED
        BY <1>a, <4>2, <4>3 DEF Tabs
    <3>2. CASE ~(m.kind \in {"frame", "closed"} /\ tab.sender)
      BY <1>a, <1>2, <3>2 DEF Link!Receive, Link!Dispatched
    <3> QED
      BY <3>1, <3>2
  <2>6. owner' \in Owners
    <3>0. owner.got \in SUBSET (1 .. MaxEvents)
      BY <1>0, Fields
    <3>1. CASE m.kind = "list"
      <4>1. m.n \in 0 .. MaxEvents
        BY <2>1, <3>1, NoteKinds
      <4>2. owner.got \cup 1 .. m.n \in SUBSET (1 .. MaxEvents)
        BY <1>b, <3>0, <4>1
      <4>3. owner' = [owner EXCEPT !.got = owner.got \cup 1 .. m.n]
        BY <1>2, <3>1 DEF Link!Receive, Link!Dispatched
      <4> HIDE DEF m
      <4> QED
        BY <1>a, <4>2, <4>3 DEF Owners
    <3>2. CASE m.kind = "event" /\ owner.sender
      <4>1. wire.down # <<>> /\ wire.open
        BY <1>0, <1>2 DEF Link!Receive, Ends
      <4>2. m.n \in EventsIn(wire.down)
        BY <1>0, <3>2, <4>1, Fields, TellsRest
      <4>3. m.n \in 1 .. shell.announced
        BY <4>1, <4>2 DEF ConnInv, Approvals, Known
      <4>4. owner.got \cup {m.n} \in SUBSET (1 .. MaxEvents)
        BY <1>0, <1>b, <3>0, <4>3, Fields
      <4>5. owner' = [owner EXCEPT !.got = owner.got \cup {m.n}]
        BY <1>2, <3>2 DEF Link!Receive, Link!Dispatched
      <4> HIDE DEF m
      <4> QED
        BY <1>a, <4>4, <4>5 DEF Owners
    <3>3. CASE m.kind # "list" /\ ~(m.kind = "event" /\ owner.sender)
      BY <1>a, <1>2, <3>3 DEF Link!Receive, Link!Dispatched
    <3> QED
      BY <3>1, <3>2, <3>3
  <2> QED
    BY <1>0, <1>2, <2>2, <2>3, <2>4, <2>5, <2>6 DEF Link!Receive, ConnTypes
<1>3. ASSUME Link!TakeRequest PROVE ConnTypes'
  <2>1. Tail(client.queue) \in Seq(Texts) /\ Head(client.queue) \in Texts
    BY <1>0, <1>3, Fields, Rest DEF Link!TakeRequest
  <2>2. client' \in Clients
    BY <1>a, <1>3, <2>1 DEF Link!TakeRequest, Clients
  <2> QED
    BY <1>0, <1>3, <2>2 DEF Link!TakeRequest, ConnTypes
<1>4. ASSUME Link!WriteRequest PROVE ConnTypes'
  <2>1. Append(wire.up, client.text) \in Seq(Texts)
    BY <1>0, <1>4, Fields, Appended DEF Link!WriteRequest, Ends
  <2>2. wire' \in Wires
    BY <1>a, <1>4, <2>1 DEF Link!WriteRequest, Wires
  <2>3. client' \in Clients
    BY <1>a, <1>4 DEF Link!WriteRequest, Clients
  <2> QED
    BY <1>0, <1>4, <2>2, <2>3 DEF Link!WriteRequest, ConnTypes
<1>5. ASSUME Link!TaskEnds PROVE ConnTypes'
  <2>1. client' \in Clients
    <3>1. <<>> \in Seq(Texts) /\ {} \in SUBSET Texts
      OBVIOUS
    <3> QED
      BY <1>a, <1>5, <3>1 DEF Link!TaskEnds, Clients
  <2>2. asked' \in [Link!Waited -> Outcomes]
    BY <1>a, <1>5 DEF Link!TaskEnds, Outcomes
  <2>3. tab' \in Tabs
    BY <1>a, <1>5 DEF Link!TaskEnds, Link!SendersDropped, Link!Unregistered, Tabs
  <2>4. owner' \in Owners
    BY <1>a, <1>5 DEF Link!TaskEnds, Link!SendersDropped, Owners
  <2> QED
    BY <1>0, <1>5, <2>1, <2>2, <2>3, <2>4 DEF Link!TaskEnds, ConnTypes
<1> QED
  BY <1>1, <1>2, <1>3, <1>4, <1>5

\* The window.
LEMMA WindowTypes ==
  ASSUME Link!ConnectionConstants, ConnInv
  PROVE  (\E r \in Link!Waited : Link!Ask(r)) \/ Link!Subscribe \/ Link!SubscribeAgain \/ Link!Unsubscribe
           \/ Link!StreamStarts \/ Link!Type
         => ConnTypes'
<1>0. ConnTypes
  BY DEF ConnInv
<1>a. client \in Clients /\ asked \in [Link!Waited -> Outcomes] /\ tab \in Tabs
  BY <1>0 DEF ConnTypes
<1>b. ASSUME NEW r \in Link!Waited, Link!Queued(r)
      PROVE  client' \in Clients /\ asked' \in [Link!Waited -> Outcomes]
  <2>1. r \in Texts
    BY DEF Texts
  <2>2. Append(client.queue, r) \in Seq(Texts)
    BY <1>0, <2>1, Fields, Appended
  <2>3. asked' \in [Link!Waited -> Outcomes]
    BY <1>a, <1>b DEF Link!Queued, Outcomes
  <2>4. client' \in Clients
    BY <1>a, <1>b, <2>2 DEF Link!Queued, Clients
  <2> QED
    BY <2>3, <2>4
<1>c. Link!Prepared => tab' \in Tabs
  BY <1>a DEF Link!Prepared, Tabs
<1>1. ASSUME NEW r \in Link!Waited, Link!Ask(r) PROVE ConnTypes'
  BY <1>0, <1>1, <1>b DEF Link!Ask, ConnTypes
<1>2. ASSUME Link!Subscribe PROVE ConnTypes'
  BY <1>0, <1>2, <1>b, <1>c DEF Link!Subscribe, ConnTypes, Link!Waited
<1>3. ASSUME Link!SubscribeAgain PROVE ConnTypes'
  BY <1>0, <1>3, <1>b, <1>c DEF Link!SubscribeAgain, ConnTypes, Link!Waited
<1>4. ASSUME Link!Unsubscribe PROVE ConnTypes'
  <2>1. tab' \in Tabs
    BY <1>a, <1>4 DEF Link!Unsubscribe, Link!Unregistered, Tabs
  <2> QED
    BY <1>0, <1>4, <2>1 DEF Link!Unsubscribe, ConnTypes
<1>5. ASSUME Link!StreamStarts PROVE ConnTypes'
  <2>0. <<>> \in Seq(Link!Frames)
    OBVIOUS
  <2>1. tab' \in Tabs
    BY <1>a, <1>5, <2>0 DEF Link!StreamStarts, Tabs
  <2> QED
    BY <1>0, <1>5, <2>1 DEF Link!StreamStarts, ConnTypes
<1>6. ASSUME Link!Type PROVE ConnTypes'
  <2>1. Append(client.queue, "key") \in Seq(Texts)
    BY <1>0, Fields, Appended DEF Texts
  <2>2. client.typed + 1 \in Nat
    BY <1>0, Fields
  <2>3. client' = [client EXCEPT !.queue = Append(client.queue, "key"), !.typed = client.typed + 1]
    BY <1>6 DEF Link!Type
  <2>4. client' \in Clients
    BY <1>a, <2>1, <2>2, <2>3 DEF Clients
  <2> QED
    BY <1>0, <1>6, <2>4 DEF Link!Type, ConnTypes
<1> QED
  BY <1>1, <1>2, <1>3, <1>4, <1>5, <1>6

\* The daemon and its bridges.
LEMMA DaemonTypes ==
  ASSUME Link!ConnectionConstants, ConnInv
  PROVE  Link!Handle \/ Link!Swap \/ Link!TakePush \/ Link!TakeEvent \/ Link!WriteDown \/ Link!ConnectionEnds
           \/ (\E b \in 1 .. Subscribes : Link!BridgeTakes(b))
           \/ (\E b \in 1 .. Subscribes : Link!BridgeSends(b))
           \/ (\E b \in 1 .. Subscribes : Link!HostForwards(b))
         => ConnTypes'
<1>0. ConnTypes /\ Ends
  BY DEF ConnInv
<1>a. /\ wire \in Wires /\ daemon \in Daemons /\ bridges \in Seq(Bridges)
      /\ pushq \in Seq(Link!Frames) /\ events \in Receivers /\ shell \in Shells
  BY <1>0 DEF ConnTypes
<1>b. \A m \in Notes : <<m>> \in Seq(Notes)
  OBVIOUS
<1>1. ASSUME Link!Handle PROVE ConnTypes'
  <2> DEFINE r == Head(wire.up)
             m == IF r = "list" THEN Link!Note(r, shell.announced) ELSE Link!Answer(r)
  <2>1. Tail(wire.up) \in Seq(Texts) /\ r \in Texts
    BY <1>0, <1>1, Fields, Rest DEF Link!Handle
  <2>2. wire' \in Wires
    BY <1>a, <1>1, <2>1 DEF Link!Handle, Wires
  <2>3. m \in Notes
    <3>1. shell.announced \in 0 .. MaxEvents /\ 0 \in 0 .. MaxEvents
      BY <1>0, Fields DEF Link!ConnectionConstants
    <3>2. Link!Note(r, shell.announced) \in Notes /\ Link!Note(r, 0) \in Notes
      BY <2>1, <3>1, NotesMade
    <3> QED
      BY <3>2 DEF Link!Answer
  <2>4. daemon' \in Daemons
    <3>1. <<m>> \in Seq(Notes)
      BY <1>b, <2>3
    <3>2. daemon'.out = <<m>> /\ daemon'.owner = TRUE /\ daemon'.pc \in {"swap", "writing"}
          /\ daemon' = [pc |-> daemon'.pc, owner |-> TRUE, out |-> <<m>>]
      BY <1>1 DEF Link!Handle
    <3> QED
      BY <3>1, <3>2 DEF Daemons
  <2>5. bridges' \in Seq(Bridges)
    <3>1. Append(bridges, Link!NewBridge) \in Seq(Bridges)
      BY <1>0, <1>a, NewBridgeType, Appended
    <3> QED
      BY <1>1, <1>a, <3>1 DEF Link!Handle
  <2> QED
    BY <1>0, <1>1, <2>2, <2>4, <2>5 DEF Link!Handle, ConnTypes
<1>2. ASSUME Link!Swap PROVE ConnTypes'
  <2>1. Link!Aborted \in Bridges
    <3>1. <<>> \in Seq(Link!Frames) /\ Len(<<>>) = 0 /\ 0 <= ChannelRoom
      BY DEF Link!ConnectionConstants
    <3>2. <<>> \in Channel
      BY <3>1 DEF Channel
    <3> QED
      BY <3>1, <3>2 DEF Link!Aborted, Bridges
  <2>2. bridges' \in Seq(Bridges)
    <3>1. \A b \in DOMAIN bridges : bridges'[b] \in Bridges
      BY <1>a, <1>2, <2>1 DEF Link!Swap
    <3>2. bridges' = [b \in 1 .. Len(bridges) |-> bridges'[b]] /\ Len(bridges) \in Nat
      BY <1>a, <1>2 DEF Link!Swap
    <3>3. \A b \in 1 .. Len(bridges) : bridges'[b] \in Bridges
      BY <1>a, <3>1
    <3> QED
      BY <3>2, <3>3
  <2>3. daemon' \in Daemons
    BY <1>a, <1>2 DEF Link!Swap, Daemons
  <2> QED
    BY <1>0, <1>2, <2>2, <2>3 DEF Link!Swap, ConnTypes
<1>3. ASSUME Link!TakePush PROVE ConnTypes'
  <2>1. Tail(pushq) \in Seq(Link!Frames) /\ Head(pushq) \in Link!Frames
    BY <1>a, <1>3, Rest DEF Link!TakePush
  <2>2. <<Head(pushq)>> \in Seq(Notes)
    BY <1>b, <2>1, NotesMade
  <2>3. daemon' \in Daemons
    BY <1>a, <1>3, <2>2 DEF Link!TakePush, Daemons
  <2> QED
    BY <1>0, <1>3, <2>1, <2>3 DEF Link!TakePush, ConnTypes
<1>4. ASSUME Link!TakeEvent PROVE ConnTypes'
  <2>1. Tail(events.waiting) \in Seq(1 .. MaxEvents) /\ Head(events.waiting) \in 1 .. MaxEvents
    BY <1>0, <1>4, Fields, Rest DEF Link!TakeEvent
  <2>2. events' \in Receivers
    BY <1>a, <1>4, <2>1 DEF Link!TakeEvent, Receivers
  <2>3. <<Link!Note("event", Head(events.waiting))>> \in Seq(Notes)
    <3>1. Head(events.waiting) \in 0 .. MaxEvents
      BY <2>1 DEF Link!ConnectionConstants
    <3>2. Link!Note("event", Head(events.waiting)) \in Notes
      BY <3>1, NotesMade
    <3> QED
      BY <1>b, <3>2
  <2>4. daemon' \in Daemons
    BY <1>a, <1>4, <2>3 DEF Link!TakeEvent, Daemons
  <2> QED
    BY <1>0, <1>4, <2>2, <2>4 DEF Link!TakeEvent, ConnTypes
<1>5. ASSUME Link!WriteDown PROVE ConnTypes'
  <2>1. Len(daemon.out) = 1 /\ daemon.out \in Seq(Notes)
    BY <1>0, <1>5, Fields DEF Link!WriteDown, Ends
  <2>2. Head(daemon.out) \in Notes
    BY <2>1
  <2>3. Append(wire.down, Head(daemon.out)) \in Seq(Notes)
    BY <1>0, <2>2, Fields, Appended
  <2>4. wire' \in Wires
    BY <1>a, <1>5, <2>3 DEF Link!WriteDown, Wires
  <2>5. <<>> \in Seq(Notes)
    OBVIOUS
  <2>6. daemon' \in Daemons
    BY <1>a, <1>5, <2>5 DEF Link!WriteDown, Daemons
  <2> QED
    BY <1>0, <1>5, <2>4, <2>6 DEF Link!WriteDown, ConnTypes
<1>6. ASSUME Link!ConnectionEnds PROVE ConnTypes'
  <2>1. /\ <<>> \in Seq(Notes) /\ <<>> \in Seq(Bridges)
        /\ <<>> \in Seq(Link!Frames) /\ <<>> \in Seq(1 .. MaxEvents)
    OBVIOUS
  <2>2. daemon' \in Daemons
    BY <1>a, <1>6, <2>1 DEF Link!ConnectionEnds, Daemons
  <2>3. events' \in Receivers
    BY <1>a, <1>6, <2>1 DEF Link!ConnectionEnds, Receivers
  <2> QED
    BY <1>0, <1>6, <2>1, <2>2, <2>3 DEF Link!ConnectionEnds, ConnTypes
<1>7. ASSUME NEW b \in 1 .. Subscribes, Link!BridgeTakes(b) PROVE ConnTypes'
  <2>1. b \in DOMAIN bridges /\ bridges[b] \in Bridges /\ bridges[b].chan \in Channel
    BY <1>0, <1>7, FieldsOfBridges DEF Link!BridgeTakes, Link!LiveBridges
  <2>2. Tail(bridges[b].chan) \in Channel /\ <<Head(bridges[b].chan)>> \in Seq(Link!Frames)
    <3>1. Tail(bridges[b].chan) \in Channel /\ Head(bridges[b].chan) \in Link!Frames
      BY <1>7, <2>1, Channels DEF Link!BridgeTakes
    <3> QED
      BY <3>1
  <2>3. [bridges[b] EXCEPT !.hold = <<Head(bridges[b].chan)>>, !.chan = Tail(bridges[b].chan)] \in Bridges
    BY <2>1, <2>2 DEF Bridges
  <2>4. bridges' = [bridges EXCEPT ![b] =
          [bridges[b] EXCEPT !.hold = <<Head(bridges[b].chan)>>, !.chan = Tail(bridges[b].chan)]]
    BY <1>7, <2>1 DEF Link!BridgeTakes, Bridges
  <2>5. bridges' \in Seq(Bridges)
    BY <1>a, <2>1, <2>3, <2>4
  <2> QED
    BY <1>0, <1>7, <2>5 DEF Link!BridgeTakes, ConnTypes
<1>8. ASSUME NEW b \in 1 .. Subscribes, Link!BridgeSends(b) PROVE ConnTypes'
  <2>1. b \in DOMAIN bridges /\ bridges[b] \in Bridges /\ bridges[b].hold \in Seq(Link!Frames)
    BY <1>0, <1>8, FieldsOfBridges DEF Link!BridgeSends, Link!LiveBridges
  <2>2. Head(bridges[b].hold) \in Link!Frames /\ <<>> \in Seq(Link!Frames)
    BY <1>8, <2>1, Rest DEF Link!BridgeSends
  <2>3. pushq' \in Seq(Link!Frames)
    BY <1>a, <1>8, <2>2, Appended DEF Link!BridgeSends
  <2>4. [bridges[b] EXCEPT !.hold = <<>>] \in Bridges
    BY <2>1, <2>2 DEF Bridges
  <2>5. bridges' = [bridges EXCEPT ![b] = [bridges[b] EXCEPT !.hold = <<>>]]
    BY <1>8, <2>1 DEF Link!BridgeSends
  <2>6. bridges' \in Seq(Bridges)
    BY <1>a, <2>1, <2>4, <2>5
  <2> QED
    BY <1>0, <1>8, <2>3, <2>6 DEF Link!BridgeSends, ConnTypes
<1>9. ASSUME NEW b \in 1 .. Subscribes, Link!HostForwards(b) PROVE ConnTypes'
  <2>1. b \in DOMAIN bridges /\ bridges[b] \in Bridges /\ bridges[b].host # <<>>
        /\ bridges[b].chan \in Channel /\ bridges[b].host \in Channel
    BY <1>0, <1>9, FieldsOfBridges DEF Link!HostForwards, Link!LiveBridges
  <2> DEFINE h == Head(bridges[b].host)
             c == Link!Kept(bridges[b].chan, h)
  <2>2. Tail(bridges[b].host) \in Channel /\ c \in Channel
    BY <2>1, Channels
  <2>3. Link!Dropped(bridges[b].chan) \subseteq Link!Frames
    BY <2>1, Channels
  <2>4. bridges' = [bridges EXCEPT ![b] =
          [bridges[b] EXCEPT !.wake = FALSE, !.host = Tail(bridges[b].host), !.chan = c]]
    BY <1>9, <2>1 DEF Link!HostForwards, Bridges
  <2> HIDE DEF c, h
  <2>5. [bridges[b] EXCEPT !.wake = FALSE, !.host = Tail(bridges[b].host), !.chan = c] \in Bridges
    BY <2>1, <2>2 DEF Bridges
  <2>6. bridges' \in Seq(Bridges)
    BY <1>a, <2>1, <2>4, <2>5
  <2>7. shell' \in Shells
    BY <1>9, <1>a, <2>3 DEF Link!HostForwards, Shells
  <2> QED
    BY <1>0, <1>9, <2>6, <2>7 DEF Link!HostForwards, ConnTypes
<1> QED
  BY <1>1, <1>2, <1>3, <1>4, <1>5, <1>6, <1>7, <1>8, <1>9

\* The session, the agent and the network.
LEMMA ShellTypes ==
  ASSUME Link!ConnectionConstants, ConnInv
  PROVE  Link!Output \/ Link!Exit \/ Link!Announce \/ Link!Break => ConnTypes'
<1>0. ConnTypes
  BY DEF ConnInv
<1>a. wire \in Wires /\ bridges \in Seq(Bridges) /\ events \in Receivers /\ shell \in Shells
  BY <1>0 DEF ConnTypes
<1>b. MaxFrames \in Nat /\ MaxEvents \in Nat
  BY DEF Link!ConnectionConstants
<1>c. ASSUME NEW m \in Link!Frames, Link!Pushed(m) PROVE bridges' \in Seq(Bridges)
  <2> DEFINE new(b) == [bridges[b] EXCEPT !.wake = TRUE, !.host = Link!Kept(bridges[b].host, m)]
  <2>1. \A b \in DOMAIN bridges : new(b) \in Bridges /\ bridges[b] \in Bridges
    <3>1. SUFFICES ASSUME NEW b \in DOMAIN bridges PROVE new(b) \in Bridges /\ bridges[b] \in Bridges
      OBVIOUS
    <3>2. bridges[b] \in Bridges /\ bridges[b].host \in Channel
      BY <1>0, FieldsOfBridges
    <3>3. Link!Kept(bridges[b].host, m) \in Channel
      BY <3>2, Channels
    <3> QED
      BY <3>2, <3>3 DEF Bridges
  <2>2. bridges' = [b \in DOMAIN bridges |-> IF bridges[b].on THEN new(b) ELSE bridges[b]]
    BY <1>c DEF Link!Pushed
  <2> HIDE DEF new
  <2>3. DOMAIN bridges = 1 .. Len(bridges) /\ Len(bridges) \in Nat
    BY <1>a
  <2>4. \A b \in 1 .. Len(bridges) : (IF bridges[b].on THEN new(b) ELSE bridges[b]) \in Bridges
    BY <2>1, <2>3
  <2> QED
    BY <2>2, <2>3, <2>4
<1>d. Link!Overflown \subseteq Link!Frames
  BY <1>0, Overflows
<1>1. ASSUME Link!Output PROVE ConnTypes'
  <2>1. shell.frames \in 0 .. MaxFrames /\ shell.frames < MaxFrames
    BY <1>0, <1>1, Fields DEF Link!Output
  <2>2. shell.frames + 1 \in 0 .. MaxFrames
    BY <1>b, <2>1
  <2>3. shell' \in Shells
    BY <1>a, <1>d, <1>1, <2>2 DEF Link!Output, Shells
  <2>4. bridges' \in Seq(Bridges)
    BY <1>1, <1>c, <2>2, NotesMade DEF Link!Output
  <2> QED
    BY <1>0, <1>1, <2>3, <2>4 DEF Link!Output, ConnTypes
<1>2. ASSUME Link!Exit PROVE ConnTypes'
  <2>1. shell' \in Shells
    BY <1>a, <1>d, <1>2 DEF Link!Exit, Shells
  <2>2. bridges' \in Seq(Bridges)
    BY <1>0, <1>2, <1>c, Fields, NotesMade DEF Link!Exit
  <2> QED
    BY <1>0, <1>2, <2>1, <2>2 DEF Link!Exit, ConnTypes
<1>3. ASSUME Link!Announce PROVE ConnTypes'
  <2>1. shell.announced \in 0 .. MaxEvents /\ shell.announced < MaxEvents
    BY <1>0, <1>3, Fields DEF Link!Announce
  <2>2. shell.announced + 1 \in 0 .. MaxEvents /\ shell.announced + 1 \in 1 .. MaxEvents
    BY <1>b, <2>1
  <2>3. shell' \in Shells
    BY <1>a, <1>3, <2>2 DEF Link!Announce, Shells
  <2>4. events' \in Receivers
    <3>0. events.waiting \in Seq(1 .. MaxEvents)
      BY <1>0, Fields
    <3>1. Append(events.waiting, shell.announced + 1) \in Seq(1 .. MaxEvents)
      BY <2>2, <3>0, Appended
    <3>2. CASE events.waiting = <<>>
      <4>1. Len(events.waiting) = 0 /\ 0 < EventRoom
        BY <3>2 DEF Link!ConnectionConstants
      <4>2. events' \in {events, [events EXCEPT !.waiting = Append(events.waiting, shell.announced + 1)]}
        BY <1>3, <4>1 DEF Link!Announce
      <4> QED
        BY <1>a, <3>1, <4>2 DEF Receivers
    <3>3. CASE events.waiting # <<>>
      <4>1. Append(Tail(events.waiting), shell.announced + 1) \in Seq(1 .. MaxEvents)
        BY <2>2, <3>0, <3>3, Rest, Appended
      <4> QED
        BY <1>a, <1>3, <3>1, <4>1 DEF Link!Announce, Receivers
    <3> QED
      BY <3>2, <3>3
  <2> QED
    BY <1>0, <1>3, <2>3, <2>4 DEF Link!Announce, ConnTypes
<1>4. ASSUME Link!Break PROVE ConnTypes'
  <2>1. wire' \in Wires
    BY <1>4 DEF Link!Break, Wires
  <2> QED
    BY <1>0, <1>4, <2>1 DEF Link!Break, ConnTypes
<1> QED
  BY <1>1, <1>2, <1>3, <1>4

LEMMA TypesStep ==
  ASSUME Link!ConnectionConstants, ConnInv, Link!Next
  PROVE  ConnTypes'
BY ClientTypes, WindowTypes, DaemonTypes, ShellTypes DEF Link!Next

-----------------------------------------------------------------------------
(* The bounds of the queues, and what the tasks are at.                    *)

LEMMA Longer ==
  ASSUME NEW S, NEW s \in Seq(S), NEW x \in S, NEW n \in Nat
  PROVE  /\ Len(s) < n => Len(Append(s, x)) <= n
         /\ Len(s) <= n /\ s # <<>> => Len(Tail(s)) <= n /\ Len(Append(Tail(s), x)) <= n
OBVIOUS

LEMMA EndsStep ==
  ASSUME Link!ConnectionConstants, ConnInv, Link!Next
  PROVE  Ends'
<1>0. ConnTypes /\ Ends /\ Requests /\ Pipe
  BY DEF ConnInv
<1>a. /\ wire \in Wires /\ client \in Clients /\ asked \in [Link!Waited -> Outcomes] /\ tab \in Tabs
      /\ owner \in Owners /\ daemon \in Daemons /\ bridges \in Seq(Bridges)
      /\ pushq \in Seq(Link!Frames) /\ events \in Receivers /\ shell \in Shells
  BY <1>0 DEF ConnTypes
<1>b. {WireRoom, QueueRoom, EventRoom} \subseteq Nat /\ Subscribes \in {1, 2}
  BY DEF Link!ConnectionConstants
<1>1. ASSUME Link!Connected PROVE Ends'
  <2>1. Len(Tail(wire.down)) <= WireRoom
    BY <1>0, <1>1, <1>b, Fields, Longer, Rest DEF Link!Connected, Ends
  <2>2. wire.open /\ wire'.open /\ wire'.up = wire.up /\ wire'.down = Tail(wire.down)
    BY <1>0, <1>a, <1>1 DEF Link!Connected, Ends, Wires
  <2>3. client'.pc = "select"
    BY <1>a, <1>1 DEF Link!Connected, Clients
  <2>4. owner'.sender
    BY <1>a, <1>1 DEF Link!Connected, Owners
  <2> QED
    BY <1>0, <1>1, <2>1, <2>2, <2>3, <2>4 DEF Link!Connected, Ends
<1>2. ASSUME Link!Receive PROVE Ends'
  <2>1. Len(Tail(wire.down)) <= WireRoom
    BY <1>0, <1>2, <1>b, Fields, Longer, Rest DEF Link!Receive, Ends
  <2>2. wire.open /\ wire'.open /\ wire'.up = wire.up /\ wire'.down = Tail(wire.down)
    BY <1>0, <1>a, <1>2 DEF Link!Receive, Ends, Wires
  <2>3. client'.pc = "select" /\ client'.text = client.text
    BY <1>a, <1>2 DEF Link!Receive, Link!Dispatched, Clients
  <2>4. tab'.sender = tab.sender /\ tab'.taken = tab.taken
    BY <1>a, <1>2 DEF Link!Receive, Link!Dispatched, Tabs
  <2>5. owner'.sender = owner.sender
    BY <1>a, <1>2 DEF Link!Receive, Link!Dispatched, Owners
  <2>6. \A r \in Link!Waited : /\ asked'[r] \in {asked[r], "ok"}
                               /\ asked'[r] # asked[r] => Handled(r)
    <3>1. ASSUME NEW r \in Link!Waited
          PROVE  asked'[r] \in {asked[r], "ok"} /\ (asked'[r] # asked[r] => Tells(wire.down, r))
      <4>1. Head(wire.down).kind = r => Tells(wire.down, r)
        BY <1>0, <1>2, Fields, TellsRest DEF Link!Receive
      <4>2. asked'[r] = IF r = Head(wire.down).kind /\ r \in client.pending THEN "ok" ELSE asked[r]
        BY <1>2 DEF Link!Receive, Link!Dispatched
      <4> QED
        BY <4>1, <4>2
    <3> QED
      BY <1>0, <2>2, <3>1 DEF Requests, Request
  <2>7. \A r \in Link!Waited : /\ asked'[r] = "no" <=> asked[r] = "no"
                               /\ asked[r] = "ok" => asked'[r] = "ok"
                               /\ asked'[r] # "error"
    BY <1>0, <2>2, <2>6 DEF Ends, Handled
  <2>8. daemon' = daemon /\ bridges' = bridges /\ pushq' = pushq /\ events' = events /\ client.pc = "select"
        /\ shell' = shell
    BY <1>2 DEF Link!Receive
  <2> QED
    BY <1>0, <2>1, <2>2, <2>3, <2>4, <2>5, <2>7, <2>8 DEF Ends, Link!Waited
<1>3. ASSUME Link!TakeRequest PROVE Ends'
  <2>1. Head(client.queue) \in Texts
    BY <1>0, <1>3, Fields, Rest DEF Link!TakeRequest
  <2>2. client.pc = "select" /\ client'.pc = "writing" /\ client'.text = Head(client.queue)
    BY <1>a, <1>3 DEF Link!TakeRequest, Clients
  <2> QED
    BY <1>0, <1>3, <2>1, <2>2 DEF Link!TakeRequest, Ends
<1>4. ASSUME Link!WriteRequest PROVE Ends'
  <2>1. Len(Append(wire.up, client.text)) <= WireRoom
    BY <1>0, <1>4, <1>b, Fields, Longer DEF Link!WriteRequest, Ends
  <2>2. wire.open /\ wire'.open /\ wire'.down = wire.down /\ wire'.up = Append(wire.up, client.text)
    BY <1>a, <1>4 DEF Link!WriteRequest, Wires
  <2>3. client.pc = "writing" /\ client'.pc = "select"
    BY <1>a, <1>4 DEF Link!WriteRequest, Clients
  <2> QED
    BY <1>0, <1>4, <2>1, <2>2, <2>3 DEF Link!WriteRequest, Ends
<1>5. ASSUME Link!TaskEnds PROVE Ends'
  <2>1. ~wire.open /\ client'.pc = "ended"
    BY <1>a, <1>5 DEF Link!TaskEnds, Clients
  <2>2. \A r \in Link!Waited : /\ asked'[r] = "no" <=> asked[r] = "no"
                               /\ asked[r] = "ok" => asked'[r] = "ok"
    BY <1>5 DEF Link!TaskEnds
  <2>3. tab'.taken = tab.taken /\ ~tab'.sender
    BY <1>a, <1>5 DEF Link!TaskEnds, Link!SendersDropped, Link!Unregistered, Tabs
  <2> QED
    BY <1>0, <1>5, <2>1, <2>2, <2>3 DEF Link!TaskEnds, Ends, Link!Waited
<1>6. ASSUME NEW r \in Link!Waited, Link!Queued(r), client.pc # "auth", asked[r] = "no"
      PROVE  /\ client'.pc = client.pc /\ client'.text = client.text
             /\ \A q \in Link!Waited : q # r => asked'[q] = asked[q]
             /\ asked'[r] = IF client.pc = "ended" THEN "error" ELSE "asked"
  BY <1>a, <1>6 DEF Link!Queued, Clients
<1>7. ASSUME NEW r \in Link!Waited, Link!Ask(r) PROVE Ends'
  <2>1. r \in {"list", "open"} /\ client.pc # "auth" /\ asked[r] = "no"
    BY <1>7 DEF Link!Ask
  <2>2. /\ client'.pc = client.pc /\ client'.text = client.text
        /\ \A q \in Link!Waited : q # r => asked'[q] = asked[q]
        /\ asked'[r] = IF client.pc = "ended" THEN "error" ELSE "asked"
    BY <1>6, <1>7, <2>1 DEF Link!Ask
  <2>3. asked'["sub"] = asked["sub"] /\ asked'["again"] = asked["again"]
    BY <2>1, <2>2 DEF Link!Waited
  <2> QED
    BY <1>0, <1>7, <2>1, <2>2, <2>3 DEF Link!Ask, Ends
<1>8. ASSUME Link!Subscribe PROVE Ends'
  <2>0. client.pc # "auth" /\ "sub" \in Link!Waited /\ asked["sub"] = "no" /\ asked["open"] = "ok"
    BY <1>0, <1>8 DEF Link!Subscribe, Ends, Link!Waited
  <2>2. /\ client'.pc = client.pc /\ client'.text = client.text
        /\ \A q \in Link!Waited : q # "sub" => asked'[q] = asked[q]
        /\ asked'["sub"] = IF client.pc = "ended" THEN "error" ELSE "asked"
    BY <1>6, <1>8, <2>0 DEF Link!Subscribe
  <2>3. asked'["again"] = asked["again"]
    BY <2>2 DEF Link!Waited
  <2>4. tab'.taken = tab.taken
    BY <1>a, <1>8 DEF Link!Subscribe, Link!Prepared, Tabs
  <2>5. ~tab.taken /\ asked["again"] = "no"
    BY <1>0, <2>0 DEF Ends
  <2>6. \A q \in Link!Waited : wire.open => asked'[q] # "error"
    BY <1>0, <2>2 DEF Ends
  <2> QED
    BY <1>0, <1>8, <2>0, <2>2, <2>3, <2>4, <2>5, <2>6 DEF Link!Subscribe, Ends
<1>9. ASSUME Link!SubscribeAgain PROVE Ends'
  <2>0. client.pc # "auth" /\ "again" \in Link!Waited /\ asked["again"] = "no" /\ asked["sub"] = "ok"
        /\ Subscribes = 2
    BY <1>0, <1>9 DEF Link!SubscribeAgain, Ends, Link!Waited
  <2>2. /\ client'.pc = client.pc /\ client'.text = client.text
        /\ \A q \in Link!Waited : q # "again" => asked'[q] = asked[q]
        /\ asked'["again"] = IF client.pc = "ended" THEN "error" ELSE "asked"
    BY <1>6, <1>9, <2>0 DEF Link!SubscribeAgain
  <2>3. asked'["sub"] = "ok"
    BY <2>0, <2>2 DEF Link!Waited
  <2>6. \A q \in Link!Waited : wire.open => asked'[q] # "error"
    BY <1>0, <2>2 DEF Ends
  <2> QED
    BY <1>0, <1>9, <2>0, <2>2, <2>3, <2>6 DEF Link!SubscribeAgain, Ends
<1>10. ASSUME Link!Unsubscribe PROVE Ends'
  <2>1. tab'.taken = tab.taken /\ ~tab'.sender
    BY <1>a, <1>10 DEF Link!Unsubscribe, Link!Unregistered, Tabs
  <2> QED
    BY <1>0, <1>10, <2>1 DEF Link!Unsubscribe, Ends
<1>11. ASSUME Link!StreamStarts PROVE Ends'
  BY <1>0, <1>11 DEF Link!StreamStarts, Ends
<1>12. ASSUME Link!Type PROVE Ends'
  <2>1. client'.pc = client.pc /\ client'.text = client.text
    BY <1>a, <1>12 DEF Link!Type, Clients
  <2> QED
    BY <1>0, <1>12, <2>1 DEF Link!Type, Ends
<1>13. ASSUME Link!Handle PROVE Ends'
  <2>1. Len(Tail(wire.up)) <= WireRoom
    BY <1>0, <1>13, <1>b, Fields, Longer, Rest DEF Link!Handle, Ends
  <2>2. wire.open /\ wire'.open /\ wire'.down = wire.down /\ wire'.up = Tail(wire.up)
    BY <1>0, <1>a, <1>13 DEF Link!Handle, Ends, Wires
  <2>3. daemon'.pc \in {"swap", "writing"} /\ Len(daemon'.out) = 1
    BY <1>13 DEF Link!Handle
  <2>4. Len(bridges') <= Subscribes
    <3>1. CASE Head(wire.up) \in {"sub", "again"}
      <4> DEFINE r == Head(wire.up)
      <4>1. In(wire.up, r) /\ r \in Link!Waited
        BY <1>0, <1>13, <3>1, Fields, InRest DEF Link!Handle, Link!Waited
      <4>2. Coming(r) /\ ~Handled(r) /\ asked[r] # "no"
        BY <1>0, <2>2, <4>1 DEF Coming, Handled, Requests, Request
      <4>3. Len(bridges) = One("sub") + One("again")
        BY <1>0, <2>2 DEF Requests
      <4>4. asked["again"] # "no" => Subscribes = 2
        BY <1>0 DEF Ends
      <4>5. Len(bridges) + 1 <= Subscribes
        <5>1. CASE r = "sub"
          <6>1. One("sub") = 0
            BY <4>2, <5>1 DEF One
          <6>2. One("again") = 0 \/ (One("again") = 1 /\ asked["again"] # "no")
            BY DEF One, Handled
          <6> QED
            BY <1>b, <4>3, <4>4, <6>1, <6>2
        <5>2. CASE r = "again"
          <6>1. One("again") = 0 /\ Subscribes = 2
            BY <4>2, <4>4, <5>2 DEF One
          <6>2. One("sub") \in {0, 1}
            BY DEF One
          <6> QED
            BY <4>3, <6>1, <6>2
        <5> QED
          BY <3>1, <5>1, <5>2
      <4>6. bridges' = Append(bridges, Link!NewBridge)
        BY <1>13, <3>1 DEF Link!Handle
      <4>7. Len(bridges') = Len(bridges) + 1
        BY <1>0, <1>a, <4>6, NewBridgeType, Appended
      <4> QED
        BY <4>5, <4>7
    <3>2. CASE Head(wire.up) \notin {"sub", "again"}
      BY <1>0, <1>13, <3>2 DEF Link!Handle, Ends
    <3> QED
      BY <3>1, <3>2
  <2> QED
    BY <1>0, <1>13, <2>1, <2>2, <2>3, <2>4 DEF Link!Handle, Ends
<1>14. ASSUME Link!Swap PROVE Ends'
  <2>1. daemon'.pc = "writing" /\ daemon'.out = daemon.out /\ daemon.pc = "swap"
    BY <1>a, <1>14 DEF Link!Swap, Daemons
  <2>2. bridges' \in Seq(Bridges) /\ DOMAIN bridges' = DOMAIN bridges
    BY <1>14, TypesStep DEF Link!Swap, ConnTypes
  <2>3. Len(bridges') = Len(bridges)
    BY <1>a, <2>2
  <2> QED
    BY <1>0, <1>14, <2>1, <2>3 DEF Link!Swap, Ends
<1>15. ASSUME Link!TakePush PROVE Ends'
  <2>1. Len(pushq') <= QueueRoom
    BY <1>0, <1>a, <1>b, <1>15, Longer, Rest DEF Link!TakePush, Ends
  <2>2. daemon.pc = "select" /\ daemon'.pc = "writing" /\ Len(daemon'.out) = 1
    BY <1>a, <1>15 DEF Link!TakePush, Daemons
  <2> QED
    BY <1>0, <1>15, <2>1, <2>2 DEF Link!TakePush, Ends
<1>16. ASSUME Link!TakeEvent PROVE Ends'
  <2>1. Len(Tail(events.waiting)) <= EventRoom
    BY <1>0, <1>b, <1>16, Fields, Longer, Rest DEF Link!TakeEvent, Ends
  <2>2. events'.waiting = Tail(events.waiting)
    BY <1>a, <1>16 DEF Link!TakeEvent, Receivers
  <2>3. daemon.pc = "select" /\ (daemon' = daemon \/ (daemon'.pc = "writing" /\ Len(daemon'.out) = 1))
    BY <1>a, <1>16 DEF Link!TakeEvent, Daemons
  <2> QED
    BY <1>0, <1>16, <2>1, <2>2, <2>3 DEF Link!TakeEvent, Ends
<1>17. ASSUME Link!WriteDown PROVE Ends'
  <2>0. Len(daemon.out) = 1 /\ daemon.out \in Seq(Notes)
    BY <1>0, <1>17, Fields DEF Link!WriteDown, Ends
  <2>1. Len(Append(wire.down, Head(daemon.out))) <= WireRoom
    <3>1. Head(daemon.out) \in Notes
      BY <2>0
    <3> QED
      BY <1>0, <1>17, <1>b, <3>1, Fields, Longer DEF Link!WriteDown
  <2>2. wire.open /\ wire'.open /\ wire'.up = wire.up /\ wire'.down = Append(wire.down, Head(daemon.out))
    BY <1>a, <1>17 DEF Link!WriteDown, Wires
  <2>3. daemon'.pc = "select" /\ daemon'.out = <<>>
    BY <1>a, <1>17 DEF Link!WriteDown, Daemons
  <2> QED
    BY <1>0, <1>17, <2>1, <2>2, <2>3 DEF Link!WriteDown, Ends
<1>18. ASSUME Link!ConnectionEnds PROVE Ends'
  <2>1. ~wire.open /\ daemon'.pc = "ended" /\ daemon'.out = <<>> /\ events'.waiting = <<>>
    BY <1>a, <1>18 DEF Link!ConnectionEnds, Daemons, Receivers
  <2>2. Len(bridges') = 0 /\ Len(pushq') = 0 /\ Len(events'.waiting) = 0
    BY <1>18, <2>1 DEF Link!ConnectionEnds
  <2> QED
    BY <1>0, <1>18, <1>b, <2>1, <2>2 DEF Link!ConnectionEnds, Ends
<1>19. ASSUME NEW b \in 1 .. Subscribes, Link!BridgeTakes(b) PROVE Ends'
  <2>1. Len(bridges') = Len(bridges)
    BY <1>a, <1>19 DEF Link!BridgeTakes
  <2> QED
    BY <1>0, <1>19, <2>1 DEF Link!BridgeTakes, Ends
<1>20. ASSUME NEW b \in 1 .. Subscribes, Link!BridgeSends(b) PROVE Ends'
  <2>1. Len(bridges') = Len(bridges)
    BY <1>a, <1>20 DEF Link!BridgeSends
  <2>2. bridges[b].hold \in Seq(Link!Frames) /\ bridges[b].hold # <<>>
    BY <1>0, <1>20, FieldsOfBridges DEF Link!BridgeSends, Link!LiveBridges
  <2>3. Len(pushq') <= QueueRoom
    BY <1>a, <1>b, <1>20, <2>2, Longer, Rest DEF Link!BridgeSends
  <2> QED
    BY <1>0, <1>20, <2>1, <2>3 DEF Link!BridgeSends, Ends
<1>25. ASSUME NEW b \in 1 .. Subscribes, Link!HostForwards(b) PROVE Ends'
  <2>1. Len(bridges') = Len(bridges)
    BY <1>a, <1>25 DEF Link!HostForwards
  <2>2. shell'.told = shell.told /\ shell'.exited = shell.exited
    BY <1>a, <1>25 DEF Link!HostForwards, Shells
  <2> QED
    BY <1>0, <1>25, <2>1, <2>2 DEF Link!HostForwards, Ends
<1>21. ASSUME NEW m, Link!Pushed(m) PROVE bridges' \in Seq(Bridges) => Len(bridges') = Len(bridges)
  <2>1. DOMAIN bridges' = DOMAIN bridges
    BY <1>21 DEF Link!Pushed
  <2> QED
    BY <1>a, <2>1
<1>22. ASSUME Link!Output \/ Link!Exit PROVE Ends'
  <2>1. bridges' \in Seq(Bridges)
    BY TypesStep DEF ConnTypes
  <2>2. Len(bridges') = Len(bridges)
    BY <1>21, <1>22, <2>1 DEF Link!Output, Link!Exit
  <2>3. shell'.told => shell'.exited
    BY <1>0, <1>a, <1>22 DEF Link!Output, Link!Exit, Ends, Shells
  <2> QED
    BY <1>0, <1>22, <2>2, <2>3 DEF Link!Output, Link!Exit, Ends
<1>23. ASSUME Link!Announce PROVE Ends'
  <2>1. Len(events'.waiting) <= EventRoom
    <3>1. events.waiting \in Seq(1 .. MaxEvents) /\ shell.announced + 1 \in 1 .. MaxEvents
          /\ Len(events.waiting) <= EventRoom
      <4>1. shell.announced \in 0 .. MaxEvents /\ shell.announced < MaxEvents /\ MaxEvents \in Nat
        BY <1>0, <1>23, Fields DEF Link!Announce, Link!ConnectionConstants
      <4>2. shell.announced + 1 \in 1 .. MaxEvents
        BY <4>1
      <4> QED
        BY <1>0, <4>2, Fields DEF Ends
    <3>2. CASE Len(events.waiting) < EventRoom
      <4>1. events'.waiting \in {events.waiting, Append(events.waiting, shell.announced + 1)}
        BY <1>a, <1>23, <3>2 DEF Link!Announce, Receivers
      <4> QED
        BY <1>b, <3>1, <3>2, <4>1, Longer
    <3>3. CASE ~(Len(events.waiting) < EventRoom)
      <4>0. EventRoom > 0
        BY DEF Link!ConnectionConstants
      <4>1. events.waiting # <<>>
        BY <3>1, <3>3, <4>0, <1>b
      <4>2. events'.waiting \in {events.waiting, Append(Tail(events.waiting), shell.announced + 1)}
        BY <1>23, <3>3 DEF Link!Announce
      <4> QED
        BY <1>b, <3>1, <4>1, <4>2, Longer
    <3> QED
      BY <3>2, <3>3
  <2>2. shell'.told = shell.told /\ shell'.exited = shell.exited
    BY <1>a, <1>23 DEF Link!Announce, Shells
  <2> QED
    BY <1>0, <1>23, <2>1, <2>2 DEF Link!Announce, Ends
<1>24. ASSUME Link!Break PROVE Ends'
  <2>1. wire'.up = <<>> /\ wire'.down = <<>> /\ ~wire'.open /\ Len(wire'.up) = 0 /\ Len(wire'.down) = 0
    BY <1>24 DEF Link!Break
  <2> QED
    BY <1>0, <1>24, <1>b, <2>1 DEF Link!Break, Ends
<1> QED
  BY <1>1, <1>2, <1>3, <1>4, <1>5, <1>7, <1>8, <1>9, <1>10, <1>11, <1>12, <1>13, <1>14, <1>15,
     <1>16, <1>17, <1>18, <1>19, <1>20, <1>22, <1>23, <1>24, <1>25 DEF Link!Next

-----------------------------------------------------------------------------
(* The requests.                                                           *)

\* A request is handled by the daemon's handler and by nothing else.
HandledStep ==
  \A r \in Link!Waited : Handled(r)' <=> Handled(r) \/ (Link!Handle /\ r = Head(wire.up))

Answered(r) == asked[r] = "ok" \/ Tells(daemon.out, r) \/ Tells(wire.down, r)

LEMMA SameRequests ==
  ASSUME Requests, wire.open, wire'.up = wire.up, client'.queue = client.queue,
         client'.pc = "writing" <=> client.pc = "writing", client'.text = client.text,
         NEW r \in Link!Waited, asked'[r] = "no" <=> asked[r] = "no",
         Answered(r)' => Answered(r)
  PROVE  Request(r)' /\ (Handled(r)' <=> Handled(r))
<1>1. In(client.queue, r)' = In(client.queue, r) /\ In(wire.up, r)' = In(wire.up, r)
  BY DEF In
<1>2. Lone(client.queue, r)' = Lone(client.queue, r) /\ Lone(wire.up, r)' = Lone(wire.up, r)
  BY DEF Lone
<1>3. Writes(r)' = Writes(r)
  BY DEF Writes
<1>4. Coming(r)' = Coming(r)
  BY <1>1, <1>3 DEF Coming
<1>5. Handled(r)' = Handled(r)
  BY <1>4 DEF Handled
<1>6. Request(r) /\ (Answered(r) => Handled(r))
  BY DEF Requests, Request, Answered
<1>7. (asked'[r] = "no" => ~Coming(r)') /\ (Answered(r)' => Handled(r)')
  BY <1>4, <1>5, <1>6 DEF Request
<1> QED
  BY <1>1, <1>2, <1>3, <1>5, <1>6, <1>7 DEF Request, Answered

\* A request moves on, or another text does.
LEMMA MovedRequests ==
  ASSUME Requests, wire.open, asked' = asked, daemon' = daemon, wire'.down = wire.down,
         NEW r \in Link!Waited, Coming(r)' <=> Coming(r),
         Lone(client.queue, r)' /\ Lone(wire.up, r)',
         ~(In(client.queue, r)' /\ Writes(r)'), ~(In(client.queue, r)' /\ In(wire.up, r)'),
         ~(Writes(r)' /\ In(wire.up, r)')
  PROVE  Request(r)' /\ (Handled(r)' <=> Handled(r))
<1>1. Handled(r)' <=> Handled(r)
  BY DEF Handled
<1>2. Request(r)
  BY DEF Requests
<1>3. Tells(daemon.out, r)' = Tells(daemon.out, r) /\ Tells(wire.down, r)' = Tells(wire.down, r)
  BY DEF Tells
<1> QED
  BY <1>1, <1>2, <1>3 DEF Request

\* A new one.
LEMMA QueuedRequest ==
  ASSUME ConnTypes, Requests, wire.open, NEW q \in Link!Waited, asked[q] = "no",
         client.pc # "ended", Link!Queued(q), daemon' = daemon, wire' = wire
  PROVE  \A r \in Link!Waited : Request(r)' /\ (Handled(r)' <=> Handled(r))
<1>0. q \in Texts /\ client \in Clients /\ asked \in [Link!Waited -> Outcomes] /\ client.queue \in Seq(Texts)
  BY Fields DEF Texts, ConnTypes
<1>1. /\ client'.queue = Append(client.queue, q) /\ client'.pc = client.pc
      /\ client'.text = client.text
      /\ \A r \in Link!Waited : asked'[r] = IF r = q THEN "asked" ELSE asked[r]
  BY <1>0 DEF Link!Queued, Clients
<1>2. ASSUME NEW r \in Link!Waited PROVE Request(r)' /\ (Handled(r)' <=> Handled(r))
  <2>1. Request(r)
    BY DEF Requests
  <2>2. In(client.queue, r)' <=> In(client.queue, r) \/ r = q
    BY <1>0, <1>1, InAppended
  <2>3. Writes(r)' <=> Writes(r)
    BY <1>1 DEF Writes
  <2>4. In(wire.up, r)' = In(wire.up, r) /\ Lone(wire.up, r)' = Lone(wire.up, r)
    BY DEF In, Lone
  <2>5. Lone(client.queue, r)'
    <3>1. Lone(client.queue, r) /\ ~(In(client.queue, r) /\ q = r)
      BY <2>1 DEF Request, Coming
    <3> QED
      BY <1>0, <1>1, <3>1, InAppended
  <2>6. Coming(r)' <=> Coming(r) \/ r = q
    BY <2>2, <2>3, <2>4 DEF Coming
  <2>7. Handled(r)' <=> Handled(r)
    BY <1>1, <2>6 DEF Handled
  <2>8. Answered(r)' => Answered(r)
    BY <1>1 DEF Answered, Tells
  <2>9. r = q => ~Coming(r) /\ ~Handled(r)
    BY <2>1 DEF Request, Handled
  <2>10. (asked'[r] = "no" => ~Coming(r)') /\ (Answered(r)' => Handled(r)')
    BY <1>1, <2>1, <2>6, <2>7, <2>8 DEF Request, Answered
  <2>11. /\ ~(In(client.queue, r)' /\ Writes(r)')
         /\ ~(In(client.queue, r)' /\ In(wire.up, r)')
         /\ ~(Writes(r)' /\ In(wire.up, r)')
    BY <2>1, <2>2, <2>3, <2>4, <2>9 DEF Request, Coming
  <2>12. Lone(client.queue, r)' /\ Lone(wire.up, r)'
    BY <2>1, <2>4, <2>5 DEF Request
  <2> QED
    BY <2>7, <2>10, <2>11, <2>12 DEF Request, Answered
<1> QED
  BY <1>2

LEMMA ClientRequests ==
  ASSUME Link!ConnectionConstants, ConnInv, wire.open
  PROVE  Link!Connected \/ Link!Receive \/ Link!TakeRequest \/ Link!WriteRequest
         => \A r \in Link!Waited : Request(r)' /\ (Handled(r)' <=> Handled(r))
<1>0. ConnTypes /\ Ends /\ Requests
  BY DEF ConnInv
<1>a. wire \in Wires /\ client \in Clients
  BY <1>0 DEF ConnTypes
<1>b. \A r \in Link!Waited : Request(r)
  BY <1>0 DEF Requests
<1>1. ASSUME Link!Connected, NEW r \in Link!Waited PROVE Request(r)' /\ (Handled(r)' <=> Handled(r))
  <2>1. wire'.up = wire.up /\ wire'.down = Tail(wire.down)
    BY <1>a, <1>1 DEF Link!Connected, Wires
  <2>2. client'.queue = client.queue /\ client'.text = client.text
        /\ client'.pc # "writing" /\ client.pc # "writing"
    BY <1>a, <1>1 DEF Link!Connected, Clients
  <2>3. Tells(wire'.down, r) => Tells(wire.down, r)
    BY <1>0, <1>1, <2>1, Fields, TellsRest DEF Link!Connected
  <2>4. asked' = asked /\ daemon' = daemon
    BY <1>1 DEF Link!Connected
  <2>5. Answered(r)' => Answered(r)
    BY <2>3, <2>4 DEF Answered
  <2> QED
    BY <1>0, <2>1, <2>2, <2>4, <2>5, SameRequests
<1>2. ASSUME Link!Receive, NEW r \in Link!Waited PROVE Request(r)' /\ (Handled(r)' <=> Handled(r))
  <2>1. wire'.up = wire.up /\ wire'.down = Tail(wire.down)
    BY <1>a, <1>2 DEF Link!Receive, Wires
  <2>2. client'.queue = client.queue /\ client'.text = client.text
        /\ client'.pc # "writing" /\ client.pc # "writing"
    BY <1>a, <1>2 DEF Link!Receive, Link!Dispatched, Clients
  <2>3. Tells(wire.down, r) <=> Tells(wire'.down, r) \/ Head(wire.down).kind = r
    BY <1>0, <1>2, <2>1, Fields, TellsRest DEF Link!Receive
  <2>4. daemon' = daemon
        /\ asked'[r] = IF r = Head(wire.down).kind /\ r \in client.pending THEN "ok" ELSE asked[r]
    BY <1>2 DEF Link!Receive, Link!Dispatched
  <2>5. Answered(r)' => Answered(r)
    BY <2>3, <2>4 DEF Answered
  <2>6. asked'[r] # asked[r] => Handled(r) /\ asked'[r] = "ok"
    BY <1>b, <2>3, <2>4 DEF Request
  <2>7. asked'[r] = "no" <=> asked[r] = "no"
    BY <2>6 DEF Handled
  <2> QED
    BY <1>0, <2>1, <2>2, <2>5, <2>7, SameRequests
<1>3. ASSUME Link!TakeRequest, NEW r \in Link!Waited PROVE Request(r)' /\ (Handled(r)' <=> Handled(r))
  <2>1. /\ client'.queue = Tail(client.queue) /\ client'.text = Head(client.queue)
        /\ client'.pc = "writing" /\ client.pc # "writing" /\ client.queue # <<>>
    BY <1>a, <1>3 DEF Link!TakeRequest, Clients
  <2>2. /\ In(client.queue, r) <=> Head(client.queue) = r \/ In(client.queue, r)'
        /\ Lone(client.queue, r) => Lone(client.queue, r)'
        /\ Lone(client.queue, r) /\ Head(client.queue) = r => ~In(client.queue, r)'
    BY <1>0, <2>1, Fields, InRest
  <2>3. (Writes(r)' <=> Head(client.queue) = r) /\ ~Writes(r)
    BY <2>1 DEF Writes
  <2>4. wire' = wire /\ asked' = asked /\ daemon' = daemon
    BY <1>3 DEF Link!TakeRequest
  <2>5. In(wire.up, r)' = In(wire.up, r) /\ Lone(wire.up, r)' = Lone(wire.up, r)
    BY <2>4 DEF In, Lone
  <2>6. Coming(r)' <=> Coming(r)
    BY <2>2, <2>3, <2>5 DEF Coming
  <2>7. /\ Lone(client.queue, r)' /\ Lone(wire.up, r)'
        /\ ~(In(client.queue, r)' /\ Writes(r)')
        /\ ~(In(client.queue, r)' /\ In(wire.up, r)')
        /\ ~(Writes(r)' /\ In(wire.up, r)')
    BY <1>b, <2>2, <2>3, <2>5 DEF Request
  <2> QED
    BY <1>0, <2>4, <2>6, <2>7, MovedRequests
<1>4. ASSUME Link!WriteRequest, NEW r \in Link!Waited PROVE Request(r)' /\ (Handled(r)' <=> Handled(r))
  <2>1. /\ wire'.up = Append(wire.up, client.text) /\ wire'.down = wire.down
        /\ client'.queue = client.queue /\ client'.pc # "writing" /\ client.pc = "writing"
    BY <1>a, <1>4 DEF Link!WriteRequest, Clients, Wires
  <2>2. /\ In(wire.up, r)' <=> In(wire.up, r) \/ client.text = r
        /\ Lone(wire.up, r) /\ ~(In(wire.up, r) /\ client.text = r) => Lone(wire.up, r)'
    BY <1>0, <2>1, Fields, InAppended DEF Ends
  <2>3. ~Writes(r)' /\ (Writes(r) <=> client.text = r)
    BY <2>1 DEF Writes
  <2>4. asked' = asked /\ daemon' = daemon
    BY <1>4 DEF Link!WriteRequest
  <2>5. In(client.queue, r)' = In(client.queue, r) /\ Lone(client.queue, r)' = Lone(client.queue, r)
    BY <2>1 DEF In, Lone
  <2>6. Coming(r)' <=> Coming(r)
    BY <2>2, <2>3, <2>5 DEF Coming
  <2>7. /\ Lone(client.queue, r)' /\ Lone(wire.up, r)'
        /\ ~(In(client.queue, r)' /\ Writes(r)')
        /\ ~(In(client.queue, r)' /\ In(wire.up, r)')
        /\ ~(Writes(r)' /\ In(wire.up, r)')
    BY <1>b, <2>2, <2>3, <2>5 DEF Request
  <2> QED
    BY <1>0, <2>1, <2>4, <2>6, <2>7, MovedRequests
<1> QED
  BY <1>1, <1>2, <1>3, <1>4

LEMMA WindowRequests ==
  ASSUME Link!ConnectionConstants, ConnInv, wire.open
  PROVE  (\E q \in Link!Waited : Link!Ask(q)) \/ Link!Subscribe \/ Link!SubscribeAgain \/ Link!Unsubscribe
           \/ Link!StreamStarts \/ Link!Type
         => \A r \in Link!Waited : Request(r)' /\ (Handled(r)' <=> Handled(r))
<1>0. ConnTypes /\ Ends /\ Requests
  BY DEF ConnInv
<1>a. client \in Clients /\ client.pc # "ended"
  BY <1>0 DEF ConnTypes, Ends
<1>b. \A r \in Link!Waited : Request(r)
  BY <1>0 DEF Requests
<1>c. {"sub", "again"} \subseteq Link!Waited
  BY DEF Link!Waited
<1>1. ASSUME NEW q \in Link!Waited, Link!Ask(q)
      PROVE  \A r \in Link!Waited : Request(r)' /\ (Handled(r)' <=> Handled(r))
  <2>1. asked[q] = "no" /\ Link!Queued(q) /\ daemon' = daemon /\ wire' = wire
    BY <1>1 DEF Link!Ask
  <2> QED
    BY <1>0, <1>a, <2>1, QueuedRequest
<1>2. ASSUME Link!Subscribe
      PROVE  \A r \in Link!Waited : Request(r)' /\ (Handled(r)' <=> Handled(r))
  <2>1. asked["sub"] = "no" /\ Link!Queued("sub") /\ daemon' = daemon /\ wire' = wire
    BY <1>2 DEF Link!Subscribe
  <2> QED
    BY <1>0, <1>a, <1>c, <2>1, QueuedRequest
<1>3. ASSUME Link!SubscribeAgain
      PROVE  \A r \in Link!Waited : Request(r)' /\ (Handled(r)' <=> Handled(r))
  <2>1. asked["again"] = "no" /\ Link!Queued("again") /\ daemon' = daemon /\ wire' = wire
    BY <1>3 DEF Link!SubscribeAgain
  <2> QED
    BY <1>0, <1>a, <1>c, <2>1, QueuedRequest
<1>4. ASSUME Link!Unsubscribe \/ Link!StreamStarts, NEW r \in Link!Waited
      PROVE  Request(r)' /\ (Handled(r)' <=> Handled(r))
  <2>1. wire' = wire /\ client' = client /\ asked' = asked /\ daemon' = daemon
    BY <1>4 DEF Link!Unsubscribe, Link!StreamStarts
  <2>2. Answered(r)' => Answered(r)
    BY <2>1 DEF Answered
  <2> QED
    BY <1>0, <2>1, <2>2, SameRequests
<1>5. ASSUME Link!Type, NEW r \in Link!Waited PROVE Request(r)' /\ (Handled(r)' <=> Handled(r))
  <2>1. /\ client'.queue = Append(client.queue, "key") /\ client'.pc = client.pc
        /\ client'.text = client.text
    BY <1>a, <1>5 DEF Link!Type, Clients
  <2>2. "key" \in Texts /\ "key" # r
    BY DEF Texts, Link!Waited
  <2>3. /\ In(client.queue, r)' <=> In(client.queue, r)
        /\ Lone(client.queue, r) => Lone(client.queue, r)'
    BY <1>0, <2>1, <2>2, Fields, InAppended
  <2>4. wire' = wire /\ asked' = asked /\ daemon' = daemon
    BY <1>5 DEF Link!Type
  <2>5. /\ Writes(r)' = Writes(r)
        /\ In(wire.up, r)' = In(wire.up, r) /\ Lone(wire.up, r)' = Lone(wire.up, r)
    BY <2>1, <2>4 DEF Writes, In, Lone
  <2>6. Coming(r)' <=> Coming(r)
    BY <2>3, <2>5 DEF Coming
  <2>7. /\ Lone(client.queue, r)' /\ Lone(wire.up, r)'
        /\ ~(In(client.queue, r)' /\ Writes(r)')
        /\ ~(In(client.queue, r)' /\ In(wire.up, r)')
        /\ ~(Writes(r)' /\ In(wire.up, r)')
    BY <1>b, <2>3, <2>5 DEF Request
  <2> QED
    BY <1>0, <2>4, <2>6, <2>7, MovedRequests
<1> QED
  BY <1>1, <1>2, <1>3, <1>4, <1>5

LEMMA HandleRequests ==
  ASSUME Link!ConnectionConstants, ConnInv, wire.open, Link!Handle
  PROVE  /\ \A r \in Link!Waited : Request(r)' /\ (Handled(r)' <=> Handled(r) \/ r = Head(wire.up))
         /\ Head(wire.up) \in Link!Waited => ~Handled(Head(wire.up))
<1>0. ConnTypes /\ Ends /\ Requests
  BY DEF ConnInv
<1>1. wire'.up = Tail(wire.up) /\ wire'.down = wire.down /\ wire.up # <<>>
  BY <1>0 DEF ConnTypes, Wires, Link!Handle
<1>2. client' = client /\ asked' = asked /\ daemon.out = <<>>
  BY <1>0 DEF Link!Handle, Ends
<1> DEFINE h == Head(wire.up)
           m == IF h = "list" THEN Link!Note(h, shell.announced) ELSE Link!Answer(h)
<1>3. daemon'.out = <<m>> /\ m.kind = h
  BY DEF Link!Handle, Link!Answer, Link!Note
<1> HIDE DEF m, h
<1>4. \A r \in Link!Waited : Tells(daemon.out, r)' <=> r = h
  BY <1>3 DEF Tells
<1>5. ASSUME NEW r \in Link!Waited
      PROVE  Request(r)' /\ (Handled(r)' <=> Handled(r) \/ r = h) /\ (r = h => ~Handled(r))
  <2>1. Request(r)
    BY <1>0 DEF Requests
  <2>2. /\ In(wire.up, r) <=> h = r \/ In(wire.up, r)'
        /\ Lone(wire.up, r) => Lone(wire.up, r)'
        /\ Lone(wire.up, r) /\ h = r => ~In(wire.up, r)'
    <3>1. /\ In(wire.up, r) <=> h = r \/ In(Tail(wire.up), r)
          /\ Lone(wire.up, r) => Lone(Tail(wire.up), r)
          /\ Lone(wire.up, r) /\ h = r => ~In(Tail(wire.up), r)
      BY <1>0, <1>1, Fields, InRest DEF h
    <3>2. In(wire.up, r)' = In(Tail(wire.up), r) /\ Lone(wire.up, r)' = Lone(Tail(wire.up), r)
      BY <1>1 DEF In, Lone
    <3> QED
      BY <3>1, <3>2
  <2>3. Writes(r)' = Writes(r) /\ In(client.queue, r)' = In(client.queue, r)
        /\ Lone(client.queue, r)' = Lone(client.queue, r)
    BY <1>2 DEF Writes, In, Lone
  <2>4. r = h => ~Coming(r)' /\ Coming(r) /\ asked[r] # "no"
    BY <2>1, <2>2, <2>3 DEF Coming, Request
  <2>5. r # h => (Coming(r)' <=> Coming(r))
    BY <2>2, <2>3 DEF Coming
  <2>6. (Handled(r)' <=> Handled(r) \/ r = h) /\ (r = h => ~Handled(r))
    BY <1>2, <2>4, <2>5 DEF Handled
  <2>7. Answered(r)' => Answered(r) \/ r = h
    BY <1>1, <1>2, <1>4 DEF Answered
  <2>8. Answered(r)' => Handled(r)'
    BY <2>1, <2>6, <2>7 DEF Request, Answered
  <2>9. asked'[r] = "no" => ~Coming(r)'
    BY <1>2, <2>1, <2>4, <2>5 DEF Request
  <2> QED
    BY <2>1, <2>2, <2>3, <2>6, <2>8, <2>9 DEF Request, Answered
<1> QED
  BY <1>5 DEF h

LEMMA DaemonRequests ==
  ASSUME Link!ConnectionConstants, ConnInv, wire.open
  PROVE  Link!Swap \/ Link!TakePush \/ Link!TakeEvent \/ Link!WriteDown
           \/ (\E b \in 1 .. Subscribes : Link!BridgeTakes(b))
           \/ (\E b \in 1 .. Subscribes : Link!BridgeSends(b))
           \/ (\E b \in 1 .. Subscribes : Link!HostForwards(b))
           \/ Link!Output \/ Link!Exit \/ Link!Announce
         => \A r \in Link!Waited : Request(r)' /\ (Handled(r)' <=> Handled(r))
<1>0. ConnTypes /\ Ends /\ Requests
  BY DEF ConnInv
<1>a. daemon \in Daemons /\ wire \in Wires
  BY <1>0 DEF ConnTypes
<1>1. ASSUME NEW r \in Link!Waited, wire'.up = wire.up, client' = client, asked' = asked,
             Tells(daemon'.out, r) \/ Tells(wire'.down, r) =>
               Tells(daemon.out, r) \/ Tells(wire.down, r)
      PROVE  Request(r)' /\ (Handled(r)' <=> Handled(r))
  <2>1. Answered(r)' => Answered(r)
    BY <1>1 DEF Answered
  <2> QED
    BY <1>0, <1>1, <2>1, SameRequests
<1>2. ASSUME NEW r \in Link!Waited, wire' = wire, client' = client, asked' = asked,
             daemon'.out = daemon.out
      PROVE  Request(r)' /\ (Handled(r)' <=> Handled(r))
  BY <1>1, <1>2
<1>3. ASSUME NEW r \in Link!Waited, NEW m, daemon.out = <<>>, daemon'.out = <<m>>,
             m.kind \in {"frame", "closed", "event"},
             wire' = wire, client' = client, asked' = asked
      PROVE  Request(r)' /\ (Handled(r)' <=> Handled(r))
  <2>1. ~Tells(daemon'.out, r)
    BY <1>3 DEF Tells, Link!Waited
  <2> QED
    BY <1>1, <1>3, <2>1
<1>4. ASSUME NEW r \in Link!Waited, Link!Swap PROVE Request(r)' /\ (Handled(r)' <=> Handled(r))
  <2>1. daemon'.out = daemon.out
    BY <1>a, <1>4 DEF Link!Swap, Daemons
  <2> QED
    BY <1>2, <1>4, <2>1 DEF Link!Swap
<1>5. ASSUME NEW r \in Link!Waited, Link!TakePush PROVE Request(r)' /\ (Handled(r)' <=> Handled(r))
  <2>1. Head(pushq) \in Link!Frames
    BY <1>0, <1>5, Rest DEF Link!TakePush, ConnTypes
  <2>2. Head(pushq).kind \in {"frame", "closed", "event"}
    BY <2>1 DEF Link!Frames
  <2>3. daemon.out = <<>> /\ daemon'.out = <<Head(pushq)>>
    BY <1>0, <1>a, <1>5 DEF Link!TakePush, Ends, Daemons
  <2> QED
    BY <1>3, <1>5, <2>2, <2>3 DEF Link!TakePush
<1>6. ASSUME NEW r \in Link!Waited, Link!TakeEvent PROVE Request(r)' /\ (Handled(r)' <=> Handled(r))
  <2> DEFINE m == Link!Note("event", Head(events.waiting))
  <2>1. m.kind \in {"frame", "closed", "event"}
    BY DEF Link!Note
  <2>2. daemon.out = <<>> /\ daemon'.out \in {daemon.out, <<m>>}
    BY <1>0, <1>a, <1>6 DEF Link!TakeEvent, Ends, Daemons
  <2> HIDE DEF m
  <2> QED
    BY <1>2, <1>3, <1>6, <2>1, <2>2 DEF Link!TakeEvent
<1>7. ASSUME NEW r \in Link!Waited, Link!WriteDown PROVE Request(r)' /\ (Handled(r)' <=> Handled(r))
  <2> DEFINE m == Head(daemon.out)
  <2>1. Len(daemon.out) = 1 /\ daemon.out \in Seq(Notes)
    BY <1>0, <1>7, Fields DEF Link!WriteDown, Ends
  <2>2. m \in Notes /\ m = daemon.out[1] /\ 1 \in DOMAIN daemon.out
    BY <2>1
  <2>3. wire'.up = wire.up /\ wire'.down = Append(wire.down, m) /\ daemon'.out = <<>>
    BY <1>a, <1>7 DEF Link!WriteDown, Wires, Daemons
  <2> HIDE DEF m
  <2>4. Tells(wire'.down, r) <=> Tells(wire.down, r) \/ m.kind = r
    BY <1>0, <2>2, <2>3, Fields, TellsAppended
  <2>5. m.kind = r => Tells(daemon.out, r)
    BY <2>2 DEF Tells
  <2>6. ~Tells(daemon'.out, r)
    BY <2>3 DEF Tells
  <2> QED
    BY <1>1, <1>7, <2>3, <2>4, <2>5, <2>6 DEF Link!WriteDown
<1>8. ASSUME NEW r \in Link!Waited,
             \/ \E b \in 1 .. Subscribes : Link!BridgeTakes(b)
             \/ \E b \in 1 .. Subscribes : Link!BridgeSends(b)
             \/ \E b \in 1 .. Subscribes : Link!HostForwards(b)
             \/ Link!Output \/ Link!Exit \/ Link!Announce
      PROVE  Request(r)' /\ (Handled(r)' <=> Handled(r))
  BY <1>2, <1>8 DEF Link!BridgeTakes, Link!BridgeSends, Link!HostForwards, Link!Output, Link!Exit, Link!Announce
<1> QED
  BY <1>4, <1>5, <1>6, <1>7, <1>8

LEMMA OpenBefore ==
  ASSUME ConnTypes, Link!Next, wire'.open
  PROVE  wire.open /\ ~Link!TaskEnds /\ ~Link!ConnectionEnds /\ ~Link!Break
<1>0. wire \in Wires
  BY DEF ConnTypes
<1>1. wire'.open = wire.open \/ Link!Break
  BY <1>0 DEF Link!Next, Link!Connected, Link!Receive, Link!TakeRequest, Link!WriteRequest, Link!TaskEnds, Link!Ask, Link!Subscribe,
       Link!SubscribeAgain, Link!Unsubscribe, Link!StreamStarts, Link!Type, Link!Handle, Link!Swap, Link!TakePush, Link!TakeEvent,
       Link!WriteDown, Link!ConnectionEnds, Link!BridgeTakes, Link!BridgeSends, Link!HostForwards, Link!Output, Link!Exit, Link!Announce, Wires
<1>2. ~Link!Break
  BY DEF Link!Break
<1>3. wire.open
  BY <1>1, <1>2
<1>4. ~Link!TaskEnds /\ ~Link!ConnectionEnds
  BY <1>3 DEF Link!TaskEnds, Link!ConnectionEnds
<1> QED
  BY <1>2, <1>3, <1>4

LEMMA BridgesKept ==
  ASSUME Link!ConnectionConstants, ConnInv, Link!Next, wire.open, wire'.open, ~Link!Handle
  PROVE  Len(bridges') = Len(bridges)
<1>0. ConnTypes /\ bridges \in Seq(Bridges)
  BY DEF ConnInv, ConnTypes
<1>1. bridges' \in Seq(Bridges)
  BY TypesStep DEF ConnTypes
<1>2. \A m : Link!Pushed(m) => DOMAIN bridges' = DOMAIN bridges
  BY DEF Link!Pushed
<1>3. DOMAIN bridges' = DOMAIN bridges
  <2>1. \/ bridges' = bridges \/ Link!Swap \/ Link!Output \/ Link!Exit
        \/ \E b \in 1 .. Subscribes : Link!BridgeTakes(b) \/ Link!BridgeSends(b) \/ Link!HostForwards(b)
    BY <1>0, OpenBefore DEF Link!Next, Link!Connected, Link!Receive, Link!TakeRequest, Link!WriteRequest, Link!Ask, Link!Subscribe,
       Link!SubscribeAgain, Link!Unsubscribe, Link!StreamStarts, Link!Type, Link!TakePush, Link!TakeEvent,
       Link!WriteDown, Link!Announce
  <2>2. ASSUME NEW b \in 1 .. Subscribes,
               Link!BridgeTakes(b) \/ Link!BridgeSends(b) \/ Link!HostForwards(b)
        PROVE DOMAIN bridges' = DOMAIN bridges
    BY <2>2 DEF Link!BridgeTakes, Link!BridgeSends, Link!HostForwards
  <2>3. ASSUME Link!Swap \/ Link!Output \/ Link!Exit PROVE DOMAIN bridges' = DOMAIN bridges
    BY <1>2, <2>3 DEF Link!Swap, Link!Output, Link!Exit
  <2> QED
    BY <2>1, <2>2, <2>3
<1> QED
  BY <1>0, <1>1, <1>3

LEMMA RequestsStep ==
  ASSUME Link!ConnectionConstants, ConnInv, Link!Next
  PROVE  Requests' /\ (wire'.open => HandledStep)
<1>a. SUFFICES ASSUME wire'.open
               PROVE  /\ \A r \in Link!Waited : Request(r)'
                      /\ Len(bridges') = One("sub")' + One("again")'
                      /\ HandledStep
  BY DEF Requests
<1>0. ConnTypes /\ Ends /\ Requests
  BY DEF ConnInv
<1>1. wire.open /\ ~Link!TaskEnds /\ ~Link!ConnectionEnds /\ ~Link!Break
  BY <1>0, <1>a, OpenBefore
<1>2. Len(bridges) = One("sub") + One("again") /\ {"sub", "again"} \subseteq Link!Waited
  BY <1>0, <1>1 DEF Requests, Link!Waited
<1>3. CASE Link!Handle
  <2> DEFINE h == Head(wire.up)
  <2>1. /\ \A r \in Link!Waited : Request(r)' /\ (Handled(r)' <=> Handled(r) \/ r = h)
        /\ h \in Link!Waited => ~Handled(h)
    BY <1>1, <1>3, HandleRequests
  <2>2. bridges' = IF h \in {"sub", "again"} THEN Append(bridges, Link!NewBridge) ELSE bridges
    BY <1>3 DEF Link!Handle
  <2>3. Len(Append(bridges, Link!NewBridge)) = Len(bridges) + 1 /\ Len(bridges) \in Nat
    BY <1>0, NewBridgeType, Appended DEF ConnTypes
  <2> HIDE DEF h
  <2>4. CASE h = "sub"
    <3>1. One("sub") = 0 /\ One("sub")' = 1 /\ One("again")' = One("again")
      BY <1>2, <2>1, <2>4 DEF One
    <3>2. Len(bridges') = One("sub")' + One("again")' /\ One("again") \in Nat
      BY <1>2, <2>2, <2>3, <2>4, <3>1 DEF One
    <3> QED
      BY <1>3, <2>1, <3>2 DEF HandledStep, h
  <2>5. CASE h = "again"
    <3>1. One("again") = 0 /\ One("again")' = 1 /\ One("sub")' = One("sub")
      BY <1>2, <2>1, <2>5 DEF One
    <3>2. One("sub") \in Nat
      BY DEF One
    <3>3. Len(bridges') = One("sub")' + One("again")'
      BY <1>2, <2>2, <2>3, <2>5, <3>1, <3>2
    <3> QED
      BY <1>3, <2>1, <3>3 DEF HandledStep, h
  <2>6. CASE h \notin {"sub", "again"}
    <3>1. One("again")' = One("again") /\ One("sub")' = One("sub")
      BY <1>2, <2>1, <2>6 DEF One
    <3> QED
      BY <1>2, <1>3, <2>1, <2>2, <2>6, <3>1 DEF HandledStep, h
  <2> QED
    BY <2>4, <2>5, <2>6
<1>4. CASE ~Link!Handle
  <2>1. \A r \in Link!Waited : Request(r)' /\ (Handled(r)' <=> Handled(r))
    BY <1>1, <1>4, ClientRequests, WindowRequests, DaemonRequests DEF Link!Next
  <2>2. Len(bridges') = Len(bridges)
    BY <1>1, <1>4, <1>a, BridgesKept
  <2>3. One("sub")' = One("sub") /\ One("again")' = One("again")
    BY <1>2, <2>1 DEF One
  <2> QED
    BY <1>2, <1>4, <2>1, <2>2, <2>3 DEF HandledStep
<1> QED
  BY <1>3, <1>4

-----------------------------------------------------------------------------
(* The approvals.                                                          *)

LEMMA Single ==
  /\ EventsIn(<<>>) = {} /\ Listed(<<>>) = {}
  /\ \A m \in Notes : /\ EventsIn(<<m>>) = IF m.kind = "event" THEN {m.n} ELSE {}
                      /\ Listed(<<m>>) = IF m.kind = "list" THEN 1 .. m.n ELSE {}
<1>1. EventsIn(<<>>) = {} /\ Listed(<<>>) = {}
  BY DEF EventsIn, Listed
<1>2. ASSUME NEW m \in Notes
      PROVE  /\ EventsIn(<<m>>) = IF m.kind = "event" THEN {m.n} ELSE {}
             /\ Listed(<<m>>) = IF m.kind = "list" THEN 1 .. m.n ELSE {}
  <2>1. <<m>> = Append(<<>>, m) /\ <<>> \in Seq(Notes)
    OBVIOUS
  <2>2. /\ EventsIn(Append(<<>>, m)) = EventsIn(<<>>) \cup (IF m.kind = "event" THEN {m.n} ELSE {})
        /\ Listed(Append(<<>>, m)) = Listed(<<>>) \cup (IF m.kind = "list" THEN 1 .. m.n ELSE {})
    BY <2>1, TellsAppended
  <2> QED
    BY <1>1, <2>1, <2>2
<1> QED
  BY <1>1, <1>2

LEMMA ItemsMove ==
  ASSUME NEW S, NEW s \in Seq(S), NEW x \in S
  PROVE  /\ Items(Append(s, x)) = Items(s) \cup {x}
         /\ s # <<>> => Items(s) = Items(Tail(s)) \cup {Head(s)} /\ Tail(s) \in Seq(S)
<1>1. Items(Append(s, x)) = Items(s) \cup {x}
  <2>1. /\ DOMAIN s = 1 .. Len(s) /\ DOMAIN Append(s, x) = 1 .. Len(s) + 1 /\ Len(s) \in Nat
        /\ \A i \in 1 .. Len(s) : Append(s, x)[i] = s[i]
        /\ Append(s, x)[Len(s) + 1] = x
    BY Appended
  <2>2. ASSUME NEW y \in Items(Append(s, x)) PROVE y \in Items(s) \cup {x}
    BY <2>1, <2>2 DEF Items
  <2>3. Items(s) \subseteq Items(Append(s, x)) /\ x \in Items(Append(s, x))
    BY <2>1 DEF Items
  <2> QED
    BY <2>2, <2>3
<1>2. ASSUME s # <<>> PROVE Items(s) = Items(Tail(s)) \cup {Head(s)} /\ Tail(s) \in Seq(S)
  <2>1. /\ DOMAIN s = 1 .. Len(s) /\ DOMAIN Tail(s) = 1 .. Len(s) - 1 /\ Len(s) \in Nat \ {0}
        /\ \A i \in 1 .. Len(s) - 1 : Tail(s)[i] = s[i + 1]
        /\ Head(s) = s[1] /\ Tail(s) \in Seq(S)
    BY <1>2, Rest
  <2>2. \A i \in DOMAIN s : i = 1 \/ (i - 1 \in DOMAIN Tail(s) /\ s[i] = Tail(s)[i - 1])
    BY <2>1
  <2>3. \A i \in DOMAIN Tail(s) : i + 1 \in DOMAIN s /\ Tail(s)[i] = s[i + 1]
    BY <2>1
  <2>4. 1 \in DOMAIN s
    BY <2>1
  <2>5. ASSUME NEW y \in Items(s) PROVE y \in Items(Tail(s)) \cup {Head(s)}
    BY <2>1, <2>2, <2>5 DEF Items
  <2>6. Items(Tail(s)) \subseteq Items(s) /\ Head(s) \in Items(s)
    BY <2>1, <2>3, <2>4 DEF Items
  <2> QED
    BY <2>1, <2>5, <2>6
<1> QED
  BY <1>1, <1>2

LEMMA KnownNext ==
  Known' = owner'.got \cup EventsIn(wire'.down) \cup Listed(wire'.down) \cup EventsIn(daemon'.out)
             \cup Listed(daemon'.out) \cup Items(events'.waiting)
BY DEF Known, Items, EventsIn, Listed

LEMMA ApprovalsKept ==
  ASSUME Approvals, wire.open, shell'.announced = shell.announced, Known' \subseteq Known,
         Handled("list")' => /\ Handled("list") /\ Known \subseteq Known'
                             /\ daemon.owner => daemon'.owner
                             /\ events'.lagged = events.lagged
  PROVE  Approvals'
BY DEF Approvals

LEMMA ClientApprovals ==
  ASSUME Link!ConnectionConstants, ConnInv, wire.open, Handled("list")' => Handled("list")
  PROVE  Link!Connected \/ Link!Receive => Approvals'
<1>0. ConnTypes /\ Ends /\ Approvals
  BY DEF ConnInv
<1>a. wire \in Wires /\ owner \in Owners
  BY <1>0 DEF ConnTypes
<1>b. "list" \in Link!Waited
  BY DEF Link!Waited
<1>1. ASSUME Link!Connected \/ Link!Receive
      PROVE  /\ wire'.down = Tail(wire.down) /\ daemon' = daemon /\ events' = events /\ shell' = shell
             /\ EventsIn(wire.down) = EventsIn(Tail(wire.down))
                  \cup (IF Head(wire.down).kind = "event" THEN {Head(wire.down).n} ELSE {})
             /\ Listed(wire.down) = Listed(Tail(wire.down))
                  \cup (IF Head(wire.down).kind = "list" THEN 1 .. Head(wire.down).n ELSE {})
  <2>1. wire'.down = Tail(wire.down) /\ wire.down # <<>>
    BY <1>a, <1>1 DEF Link!Connected, Link!Receive, Wires
  <2> QED
    BY <1>0, <1>1, <2>1, Fields, TellsRest DEF Link!Connected, Link!Receive
<1>2. ASSUME Link!Connected PROVE Approvals'
  <2>1. owner'.got = owner.got
    BY <1>a, <1>2 DEF Link!Connected, Owners
  <2>2. ~Handled("list")
    BY <1>0, <1>2, <1>b DEF Link!Connected, Ends, Handled
  <2>3. Known' \subseteq Known
    BY <1>1, <1>2, <2>1, KnownNext DEF Known
  <2> QED
    BY <1>0, <1>1, <1>2, <2>2, <2>3, ApprovalsKept
<1>3. ASSUME Link!Receive PROVE Approvals'
  <2> DEFINE m == Head(wire.down)
  <2>1. owner.sender
    BY <1>0, <1>3 DEF Link!Receive, Ends
  <2>2. owner'.got = owner.got \cup (IF m.kind = "event" THEN {m.n} ELSE {})
                     \cup (IF m.kind = "list" THEN 1 .. m.n ELSE {})
    <3>1. CASE m.kind = "list"
      BY <1>a, <1>3, <3>1 DEF Link!Receive, Link!Dispatched, Owners
    <3>2. CASE m.kind = "event"
      BY <1>a, <1>3, <2>1, <3>2 DEF Link!Receive, Link!Dispatched, Owners
    <3>3. CASE m.kind \notin {"list", "event"}
      BY <1>a, <1>3, <3>3 DEF Link!Receive, Link!Dispatched, Owners
    <3> QED
      BY <3>1, <3>2, <3>3
  <2> HIDE DEF m
  <2>3. Known' = Known
    BY <1>1, <1>3, <2>2, KnownNext DEF Known, m
  <2> QED
    BY <1>0, <1>1, <1>3, <2>3, ApprovalsKept
<1> QED
  BY <1>2, <1>3

LEMMA DaemonApprovals ==
  ASSUME Link!ConnectionConstants, ConnInv, wire.open,
         Handled("list")' => Handled("list") \/ (Link!Handle /\ Head(wire.up) = "list")
  PROVE  Link!Handle \/ Link!TakePush \/ Link!TakeEvent \/ Link!WriteDown \/ Link!Announce => Approvals'
<1>0. ConnTypes /\ Ends /\ Approvals
  BY DEF ConnInv
<1>a. /\ wire \in Wires /\ daemon \in Daemons /\ pushq \in Seq(Link!Frames) /\ events \in Receivers
      /\ shell \in Shells
  BY <1>0 DEF ConnTypes
<1>b. daemon.out = <<>> => EventsIn(daemon.out) = {} /\ Listed(daemon.out) = {}
  BY Single
<1>c. /\ Known \subseteq 1 .. shell.announced
      /\ Handled("list") => daemon.owner /\ (events.lagged \/ 1 .. shell.announced \subseteq Known)
      /\ shell.announced \in Nat
  <2>1. shell.announced \in 0 .. MaxEvents
    BY <1>0, Fields
  <2> QED
    BY <1>0, <2>1 DEF Approvals
<1>1. ASSUME Link!Handle PROVE Approvals'
  <2> DEFINE r == Head(wire.up)
             m == IF r = "list" THEN Link!Note(r, shell.announced) ELSE Link!Answer(r)
  <2>0. r \in Texts /\ shell.announced \in 0 .. MaxEvents /\ 0 \in 0 .. MaxEvents
    BY <1>0, <1>1, Fields, Rest DEF Link!Handle, Link!ConnectionConstants
  <2>1. m \in Notes /\ m.kind = r /\ m.kind # "event" /\ (r = "list" => m.n = shell.announced)
    BY <2>0, NotesMade DEF Link!Answer, Texts, Link!Waited
  <2>2. wire'.down = wire.down /\ daemon.out = <<>> /\ daemon'.out = <<m>> /\ daemon'.owner
        /\ owner' = owner /\ events' = events /\ shell' = shell
    BY <1>0, <1>a, <1>1 DEF Link!Handle, Ends, Wires
  <2> HIDE DEF m, r
  <2>3. EventsIn(<<m>>) = {} /\ Listed(<<m>>) = IF r = "list" THEN 1 .. shell.announced ELSE {}
    BY <2>1, Single
  <2>4. Known' = Known \cup (IF r = "list" THEN 1 .. shell.announced ELSE {})
    BY <1>b, <2>2, <2>3, KnownNext DEF Known
  <2>5. Handled("list")' => Handled("list") \/ r = "list"
    BY DEF r
  <2> QED
    BY <1>c, <2>2, <2>4, <2>5 DEF Approvals
<1>2. ASSUME Link!TakePush PROVE Approvals'
  <2>1. Head(pushq) \in Link!Frames
    BY <1>a, <1>2, Rest DEF Link!TakePush
  <2>2. EventsIn(<<Head(pushq)>>) = {} /\ Listed(<<Head(pushq)>>) = {}
    <3>1. Head(pushq) \in Notes /\ Head(pushq).kind \notin {"event", "list"}
      BY <2>1, NotesMade DEF Link!Frames
    <3> QED
      BY <3>1, Single
  <2>3. daemon.out = <<>> /\ daemon'.out = <<Head(pushq)>> /\ daemon'.owner = daemon.owner
        /\ wire' = wire /\ owner' = owner /\ events' = events /\ shell' = shell
    BY <1>0, <1>a, <1>2 DEF Link!TakePush, Ends, Daemons
  <2>4. Known' = Known
    BY <1>b, <2>2, <2>3, KnownNext DEF Known
  <2>5. ~Link!Handle
    BY <1>0, <1>2, <2>3 DEF Link!Handle, Link!TakePush, ConnTypes, Wires
  <2> QED
    BY <1>0, <2>3, <2>4, <2>5, ApprovalsKept
<1>3. ASSUME Link!TakeEvent PROVE Approvals'
  <2> DEFINE x == Head(events.waiting)
             s == events.waiting
  <2>0. s \in Seq(1 .. MaxEvents) /\ s # <<>> /\ s = events.waiting /\ x = Head(s)
    BY <1>0, <1>3, Fields DEF Link!TakeEvent
  <2>1. /\ events'.waiting = Tail(s) /\ events'.lagged = events.lagged
        /\ wire' = wire /\ owner' = owner /\ shell' = shell /\ daemon.out = <<>>
        /\ daemon.owner => daemon'.out = <<Link!Note("event", x)>> /\ daemon'.owner
        /\ ~daemon.owner => daemon' = daemon
    BY <1>0, <1>a, <1>3 DEF Link!TakeEvent, Ends, Daemons, Receivers
  <2> HIDE DEF x, s
  <2>2. Link!Note("event", x) \in Notes /\ Link!Note("event", x).kind = "event" /\ Link!Note("event", x).n = x
    <3>1. x \in 0 .. MaxEvents
      <4>1. x \in 1 .. MaxEvents
        BY <2>0, Rest
      <4> QED
        BY <4>1 DEF Link!ConnectionConstants
    <3> QED
      BY <3>1, NotesMade
  <2>3. EventsIn(<<Link!Note("event", x)>>) = {x} /\ Listed(<<Link!Note("event", x)>>) = {}
    BY <2>2, Single
  <2>4. Items(s) = Items(Tail(s)) \cup {x}
    <3>1. Head(s) \in 1 .. MaxEvents
      BY <2>0, Rest
    <3> QED
      BY <2>0, <3>1, ItemsMove
  <2>5. Known = Known' \cup {x} /\ (daemon.owner => Known' = Known)
    <3>1. Known = owner.got \cup EventsIn(wire.down) \cup Listed(wire.down)
                    \cup Items(Tail(s)) \cup {x}
      BY <1>b, <2>0, <2>1, <2>4 DEF Known
    <3>2. CASE daemon.owner
      BY <2>1, <2>3, <3>1, <3>2, KnownNext
    <3>3. CASE ~daemon.owner
      BY <1>b, <2>1, <3>1, <3>3, KnownNext
    <3> QED
      BY <3>2, <3>3
  <2>6. Handled("list")' => Handled("list")
    <3>1. ~Link!Handle
      BY <2>0, <2>1, <1>0, <1>3 DEF Link!Handle, Link!TakeEvent, ConnTypes, Receivers
    <3> QED
      BY <3>1
  <2>7. Known' \subseteq Known
    BY <2>5
  <2>8. Handled("list") => Known \subseteq Known' /\ daemon'.owner
    BY <1>c, <2>1, <2>5
  <2> QED
    BY <1>0, <2>1, <2>6, <2>7, <2>8, ApprovalsKept
<1>4. ASSUME Link!WriteDown PROVE Approvals'
  <2> DEFINE m == Head(daemon.out)
  <2>1. Len(daemon.out) = 1 /\ daemon.out \in Seq(Notes)
    BY <1>0, <1>4, Fields DEF Link!WriteDown, Ends
  <2>2. m \in Notes /\ daemon.out = <<m>>
    BY <2>1
  <2>3. wire'.down = Append(wire.down, m) /\ daemon'.out = <<>> /\ daemon'.owner = daemon.owner
        /\ owner' = owner /\ events' = events /\ shell' = shell
    BY <1>a, <1>4 DEF Link!WriteDown, Wires, Daemons
  <2> HIDE DEF m
  <2>4. EventsIn(wire'.down) = EventsIn(wire.down) \cup EventsIn(daemon.out)
        /\ Listed(wire'.down) = Listed(wire.down) \cup Listed(daemon.out)
    <3>1. wire.down \in Seq(Notes)
      BY <1>0, Fields
    <3>2. /\ EventsIn(Append(wire.down, m)) =
               EventsIn(wire.down) \cup (IF m.kind = "event" THEN {m.n} ELSE {})
          /\ Listed(Append(wire.down, m)) =
               Listed(wire.down) \cup (IF m.kind = "list" THEN 1 .. m.n ELSE {})
      BY <2>2, <3>1, TellsAppended
    <3>3. /\ EventsIn(<<m>>) = IF m.kind = "event" THEN {m.n} ELSE {}
          /\ Listed(<<m>>) = IF m.kind = "list" THEN 1 .. m.n ELSE {}
      BY <2>2, Single
    <3> QED
      BY <2>2, <2>3, <3>2, <3>3
  <2>5. EventsIn(daemon'.out) = {} /\ Listed(daemon'.out) = {}
    BY <2>3, Single
  <2>6. Known' = Known
    BY <2>3, <2>4, <2>5, KnownNext DEF Known
  <2>7. ~Link!Handle
    BY <1>4 DEF Link!Handle, Link!WriteDown
  <2> QED
    BY <1>0, <2>3, <2>6, <2>7, ApprovalsKept
<1>5. ASSUME Link!Announce PROVE Approvals'
  <2> DEFINE n == shell.announced
             s == events.waiting
  <2>0. s \in Seq(1 .. MaxEvents) /\ s = events.waiting /\ n = shell.announced /\ n \in 0 .. MaxEvents
        /\ n < MaxEvents /\ MaxEvents \in Nat
    BY <1>0, <1>5, Fields DEF Link!Announce, Link!ConnectionConstants
  <2>1. /\ wire' = wire /\ owner' = owner /\ daemon' = daemon
        /\ shell'.announced = n + 1 /\ daemon.pc # "ended"
    BY <1>0, <1>a, <1>5 DEF Link!Announce, Shells, Ends
  <2>2. \/ events'.waiting = Append(s, n + 1) /\ events'.lagged = events.lagged
        \/ s # <<>> /\ events'.waiting = Append(Tail(s), n + 1) /\ events'.lagged
    <3>1. CASE Len(s) < EventRoom
      BY <1>a, <1>5, <2>1, <3>1 DEF Link!Announce, Receivers
    <3>2. CASE ~(Len(s) < EventRoom)
      <4>1. s # <<>>
        <5>1. EventRoom \in Nat \ {0}
          BY DEF Link!ConnectionConstants
        <5> QED
          BY <2>0, <3>2, <5>1
      <4> QED
        BY <1>5, <2>1, <3>2, <4>1 DEF Link!Announce
    <3> QED
      BY <3>1, <3>2
  <2> HIDE DEF n, s
  <2>3. n + 1 \in 1 .. MaxEvents
    BY <2>0
  <2>4. \A t \in Seq(1 .. MaxEvents) : Items(Append(t, n + 1)) = Items(t) \cup {n + 1}
    <3> DEFINE E == 1 .. MaxEvents
    <3>1. n + 1 \in E
      BY <2>3
    <3> HIDE DEF E
    <3>2. \A t \in Seq(E) : Items(Append(t, n + 1)) = Items(t) \cup {n + 1}
      BY <3>1, ItemsMove
    <3> QED
      BY <3>2 DEF E
  <2>5. s # <<>> => Items(Append(Tail(s), n + 1)) \subseteq Items(s) \cup {n + 1}
    <3>1. s # <<>> => Items(s) = Items(Tail(s)) \cup {Head(s)} /\ Tail(s) \in Seq(1 .. MaxEvents)
      BY <2>0, <2>3, ItemsMove
    <3>2. ASSUME s # <<>> PROVE Items(Append(Tail(s), n + 1)) = Items(Tail(s)) \cup {n + 1}
      <4>1. Tail(s) \in Seq(1 .. MaxEvents)
        BY <3>1, <3>2
      <4> QED
        BY <2>4, <4>1
    <3> QED
      BY <3>1, <3>2
  <2>6. /\ Known' \subseteq Known \cup {n + 1}
        /\ events'.lagged \/ (Known' = Known \cup {n + 1} /\ events'.lagged = events.lagged)
    <3> DEFINE others == owner.got \cup EventsIn(wire.down) \cup Listed(wire.down)
                           \cup EventsIn(daemon.out) \cup Listed(daemon.out)
    <3>1. Known = others \cup Items(s) /\ Known' = others \cup Items(events'.waiting)
      BY <2>0, <2>1, KnownNext DEF Known
    <3> HIDE DEF others
    <3>2. CASE events'.waiting = Append(s, n + 1) /\ events'.lagged = events.lagged
      BY <2>0, <2>4, <3>1, <3>2
    <3>3. CASE s # <<>> /\ events'.waiting = Append(Tail(s), n + 1) /\ events'.lagged
      BY <2>5, <3>1, <3>3
    <3> QED
      BY <2>2, <3>2, <3>3
  <2>7. ~Link!Handle
    BY <1>5 DEF Link!Handle, Link!Announce, Shells
  <2>8. (1 .. n) \cup {n + 1} = 1 .. n + 1
    BY <2>0
  <2>9. Known \subseteq 1 .. n /\ (Handled("list") => daemon.owner /\ (events.lagged \/ 1 .. n \subseteq Known))
    BY <1>c, <2>0
  <2>10. Known' \subseteq 1 .. shell'.announced
    BY <2>1, <2>6, <2>8, <2>9
  <2>11. Handled("list")' => daemon'.owner /\ (events'.lagged \/ 1 .. shell'.announced \subseteq Known')
    BY <2>1, <2>6, <2>7, <2>8, <2>9
  <2> QED
    BY <2>10, <2>11 DEF Approvals
<1> QED
  BY <1>1, <1>2, <1>3, <1>4, <1>5

LEMMA ApprovalsStep ==
  ASSUME Link!ConnectionConstants, ConnInv, Link!Next
  PROVE  Approvals'
<1>a. SUFFICES ASSUME wire'.open PROVE Approvals'
  BY DEF Approvals
<1>0. ConnTypes /\ Approvals
  BY DEF ConnInv
<1>1. wire.open /\ ~Link!TaskEnds /\ ~Link!ConnectionEnds /\ ~Link!Break
  BY <1>0, <1>a, OpenBefore
<1>2. Handled("list")' <=> Handled("list") \/ (Link!Handle /\ Head(wire.up) = "list")
  BY <1>a, RequestsStep DEF HandledStep, Link!Waited
<1>3. CASE Link!Connected \/ Link!Receive
  <2>1. ~Link!Handle
    BY <1>0, <1>3 DEF Link!Connected, Link!Receive, Link!Handle, ConnTypes, Wires, Clients
  <2> QED
    BY <1>1, <1>2, <1>3, <2>1, ClientApprovals
<1>4. CASE Link!Handle \/ Link!TakePush \/ Link!TakeEvent \/ Link!WriteDown \/ Link!Announce
  BY <1>1, <1>2, <1>4, DaemonApprovals
<1>5. CASE ~(Link!Connected \/ Link!Receive) /\ ~(Link!Handle \/ Link!TakePush \/ Link!TakeEvent \/ Link!WriteDown \/ Link!Announce)
  <2>1. owner' = owner /\ wire'.down = wire.down /\ events' = events /\ daemon'.out = daemon.out
        /\ daemon'.owner = daemon.owner /\ shell'.announced = shell.announced
    BY <1>0, <1>1, <1>5 DEF Link!Next, Link!TakeRequest, Link!WriteRequest, Link!Ask, Link!Subscribe, Link!SubscribeAgain,
       Link!Unsubscribe, Link!StreamStarts, Link!Type, Link!Swap, Link!BridgeTakes, Link!BridgeSends, Link!HostForwards, Link!Output, Link!Exit,
       ConnTypes, Wires, Daemons, Shells
  <2>2. Known' = Known
    BY <2>1, KnownNext DEF Known
  <2> QED
    BY <1>0, <1>1, <1>2, <1>5, <2>1, <2>2, ApprovalsKept
<1> QED
  BY <1>3, <1>4, <1>5

-----------------------------------------------------------------------------
(* The way from the session to the tab.                                    *)

LEMMA NoPushes ==
  /\ Pushes(<<>>) = {}
  /\ \A m \in Notes : m.kind \notin {"frame", "closed"} => Pushes(<<m>>) = {}
  /\ \A s \in Seq(Notes), m \in Notes :
       Pushes(s) = {} /\ m.kind \notin {"frame", "closed"} => Pushes(Append(s, m)) = {}
  /\ \A s \in Seq(Notes) :
       Pushes(s) = {} /\ s # <<>> => Pushes(Tail(s)) = {} /\ Head(s).kind \notin {"frame", "closed"}
<1>1. Pushes(<<>>) = {}
  BY DEF Pushes
<1>2. ASSUME NEW m \in Notes, m.kind \notin {"frame", "closed"} PROVE Pushes(<<m>>) = {}
  BY <1>2 DEF Pushes
<1>3. ASSUME NEW s \in Seq(Notes), NEW m \in Notes, Pushes(s) = {}, m.kind \notin {"frame", "closed"}
      PROVE  Pushes(Append(s, m)) = {}
  BY <1>3, PlacesAppended
<1>4. ASSUME NEW s \in Seq(Notes), Pushes(s) = {}, s # <<>>
      PROVE  Pushes(Tail(s)) = {} /\ Head(s).kind \notin {"frame", "closed"}
  BY <1>4, PlacesRest
<1> QED
  BY <1>1, <1>2, <1>3, <1>4

\* Before and after a step over a living connection that is subscribed to once.
Lively ==
  /\ Link!ConnectionConstants /\ ConnInv /\ Link!Next /\ ConnTypes' /\ HandledStep
  /\ wire.open /\ wire'.open /\ asked["again"] = "no" /\ asked'["again"] = "no"

LEMMA AgainStays ==
  ASSUME ConnTypes, Link!Next, asked'["again"] = "no"
  PROVE  asked["again"] = "no"
<1>0. "again" \in Link!Waited /\ client \in Clients
  BY DEF ConnTypes, Link!Waited
<1>1. ASSUME NEW q \in Link!Waited, Link!Queued(q)
      PROVE  asked'["again"] \in {asked["again"], "asked", "error"}
  BY <1>0, <1>1 DEF Link!Queued
<1>2. asked'["again"] \in {asked["again"], "ok", "asked", "error"}
  BY <1>0, <1>1 DEF Link!Next, Link!Connected, Link!Receive, Link!Dispatched, Link!TakeRequest, Link!WriteRequest, Link!TaskEnds,
     Link!Ask,
     Link!Subscribe, Link!SubscribeAgain, Link!Unsubscribe, Link!StreamStarts, Link!Type, Link!Handle, Link!Swap, Link!TakePush, Link!TakeEvent,
     Link!WriteDown, Link!ConnectionEnds, Link!BridgeTakes, Link!BridgeSends, Link!HostForwards, Link!Output, Link!Exit, Link!Announce, Link!Break, Link!Waited
<1> QED
  BY <1>2

LEMMA LivelyStep ==
  ASSUME Link!ConnectionConstants, ConnInv, Link!Next, wire'.open, asked'["again"] = "no"
  PROVE  Lively
<1>1. ConnTypes
  BY DEF ConnInv
<1>2. wire.open /\ asked["again"] = "no"
  BY <1>1, OpenBefore, AgainStays
<1> QED
  BY <1>2, TypesStep, RequestsStep DEF Lively

LEMMA LivelyFacts ==
  ASSUME Lively
  PROVE  /\ ConnTypes /\ Ends /\ Requests /\ daemon.pc # "swap" /\ Ready
         /\ Handled("sub") => Flows /\ Len(bridges) = 1
         /\ ~Handled("sub") => Silent /\ Len(bridges) = 0
         /\ asked["sub"] = "ok" => Handled("sub")
         /\ ~In(wire.up, "again") /\ \A r \in Link!Waited : asked[r] # "error"
<1>1. ConnTypes /\ Ends /\ Requests /\ Pipe /\ {"sub", "again"} \subseteq Link!Waited
  BY DEF Lively, ConnInv, Link!Waited
<1>2. daemon.pc # "swap" /\ Ready /\ IF Handled("sub") THEN Flows ELSE Silent
  BY <1>1 DEF Lively, Pipe
<1>3. \A r \in Link!Waited : asked[r] # "error"
  BY <1>1 DEF Lively, Ends
<1>4. Request("sub") /\ Request("again") /\ Len(bridges) = One("sub") + One("again")
  BY <1>1 DEF Lively, Requests
<1>5. ~Handled("again") /\ One("again") = 0 /\ ~In(wire.up, "again")
  BY <1>4 DEF Lively, Handled, One, Request, Coming
<1>6. asked["sub"] = "ok" => Handled("sub")
  BY <1>4 DEF Request
<1> QED
  BY <1>1, <1>2, <1>3, <1>4, <1>5, <1>6 DEF One

LEMMA ReadyStep ==
  ASSUME Lively
  PROVE  Ready'
<1>0. ConnTypes /\ Ends /\ Ready /\ (asked["sub"] = "ok" => Handled("sub")) /\ "sub" \in Link!Waited
  BY LivelyFacts DEF Link!Waited
<1>a. tab \in Tabs /\ client \in Clients
  BY <1>0 DEF ConnTypes
<1>1. ASSUME Link!Receive PROVE Ready'
  <2>1. tab'.sender = tab.sender /\ tab'.taken = tab.taken /\ tab'.prepared = tab.prepared
    BY <1>a, <1>1 DEF Link!Receive, Link!Dispatched, Tabs
  <2>2. asked'["sub"] # "no" => asked["sub"] # "no"
    <3>1. asked'["sub"] # asked["sub"] => Tells(wire.down, "sub")
      <4>1. Head(wire.down).kind = "sub" => Tells(wire.down, "sub")
        BY <1>0, <1>1, Fields, TellsRest DEF Link!Receive
      <4> QED
        BY <1>0, <1>1, <4>1 DEF Link!Receive, Link!Dispatched
    <3>2. Tells(wire.down, "sub") => Handled("sub")
      BY <1>0, LivelyFacts DEF Requests, Request, Lively
    <3> QED
      BY <3>1, <3>2 DEF Handled
  <2> QED
    BY <1>0, <2>1, <2>2 DEF Ready
<1>2. ASSUME NEW r \in Link!Waited, Link!Ask(r) PROVE Ready'
  <2>1. asked'["sub"] = asked["sub"] /\ tab' = tab
    BY <1>0, <1>2 DEF Link!Ask, Link!Queued
  <2> QED
    BY <1>0, <2>1 DEF Ready
<1>3. ASSUME Link!Subscribe PROVE Ready'
  <2>1. ~tab.sender
    BY <1>0, <1>3 DEF Link!Subscribe, Ends
  <2>2. tab'.sender /\ tab'.prepared
    BY <1>a, <1>3, <2>1 DEF Link!Subscribe, Link!Prepared, Tabs
  <2> QED
    BY <2>2 DEF Ready
<1>4. ~Link!SubscribeAgain
  <2>1. SUFFICES ASSUME Link!SubscribeAgain PROVE FALSE
    OBVIOUS
  <2>2. Link!Queued("again") /\ "again" \in Link!Waited
    BY <2>1 DEF Link!SubscribeAgain, Link!Waited
  <2>3. asked'["again"] # "no"
    BY <2>2 DEF Link!Queued
  <2> QED
    BY <2>3 DEF Lively
<1>5. ~Link!Unsubscribe
  BY LivelyFacts DEF Link!Unsubscribe, Link!Waited
<1>6. ASSUME Link!StreamStarts PROVE Ready'
  <2>1. asked' = asked /\ tab'.taken /\ (tab'.sender \/ tab'.sender = tab.sender)
    BY <1>a, <1>6 DEF Link!StreamStarts, Tabs
  <2> QED
    BY <1>0, <2>1 DEF Ready
<1>7. ASSUME tab' = tab, asked' = asked PROVE Ready'
  BY <1>0, <1>7 DEF Ready
<1>8. ~Link!TaskEnds
  BY <1>0, OpenBefore DEF Lively
<1> QED
  BY <1>1, <1>2, <1>3, <1>4, <1>5, <1>6, <1>7, <1>8 DEF Lively, Link!Next, Link!Connected, Link!TakeRequest,
     Link!WriteRequest, Link!Type, Link!Handle, Link!Swap, Link!TakePush, Link!TakeEvent, Link!WriteDown, Link!ConnectionEnds,
     Link!BridgeTakes, Link!BridgeSends, Link!HostForwards, Link!Output, Link!Exit, Link!Announce, Link!Break

LEMMA NoSwap ==
  ASSUME Lively
  PROVE  daemon'.pc # "swap"
<1>0. ConnTypes /\ daemon.pc # "swap" /\ daemon \in Daemons
  BY LivelyFacts DEF ConnTypes
<1>1. ASSUME Link!Handle PROVE daemon'.pc # "swap"
  <2>1. SUFFICES ASSUME Head(wire.up) \in {"sub", "again"}, Link!LiveBridges # {} PROVE FALSE
    BY <1>1 DEF Link!Handle
  <2>2. In(wire.up, Head(wire.up)) /\ Head(wire.up) # "again"
    BY <1>0, <1>1, Fields, InRest, LivelyFacts DEF Link!Handle
  <2>3. Head(wire.up) = "sub" /\ "sub" \in Link!Waited
    BY <2>1, <2>2 DEF Link!Waited
  <2>4. ~Handled("sub")
    BY <2>2, <2>3 DEF Handled, Coming
  <2>5. bridges \in Seq(Bridges) /\ Len(bridges) = 0
    BY <1>0, <2>4, LivelyFacts DEF ConnTypes
  <2> QED
    BY <2>1, <2>5 DEF Link!LiveBridges
<1>2. ~Link!Swap
  BY <1>0 DEF Link!Swap
<1>3. ASSUME Link!TakePush \/ Link!TakeEvent \/ Link!WriteDown PROVE daemon'.pc # "swap"
  BY <1>0, <1>3 DEF Link!TakePush, Link!TakeEvent, Link!WriteDown, Daemons
<1>4. ~Link!ConnectionEnds
  BY <1>0, OpenBefore DEF Lively
<1> QED
  BY <1>0, <1>1, <1>2, <1>3, <1>4 DEF Lively, Link!Next, Link!Connected, Link!Receive, Link!TakeRequest, Link!WriteRequest,
     Link!TaskEnds, Link!Ask, Link!Subscribe, Link!SubscribeAgain, Link!Unsubscribe, Link!StreamStarts, Link!Type,
     Link!BridgeTakes, Link!BridgeSends, Link!HostForwards, Link!Output, Link!Exit, Link!Announce, Link!Break

LEMMA SilentStep ==
  ASSUME Lively, ~Handled("sub")'
  PROVE  Silent'
<1>0. ConnTypes /\ Ends /\ "sub" \in Link!Waited /\ (asked["sub"] = "ok" => Handled("sub"))
  BY LivelyFacts DEF Link!Waited
<1>a. /\ wire \in Wires /\ tab \in Tabs /\ daemon \in Daemons /\ wire.down \in Seq(Notes)
      /\ daemon.out \in Seq(Notes)
  BY <1>0, Fields DEF ConnTypes
<1>1. ~Handled("sub") /\ ~(Link!Handle /\ Head(wire.up) = "sub")
  BY <1>0 DEF Lively, HandledStep
<1>2. /\ tab.got = <<>> /\ pushq = <<>> /\ Pushes(wire.down) = {} /\ Pushes(daemon.out) = {}
      /\ Len(bridges) = 0 /\ ~shell.told /\ shell.lost = {}
  BY <1>1, LivelyFacts DEF Silent
<1>3. Link!LiveBridges = {}
  BY <1>0, <1>2 DEF Link!LiveBridges, ConnTypes
<1>4. /\ Pushes(wire.down)' = Pushes(wire'.down)
      /\ Pushes(daemon.out)' = Pushes(daemon'.out)
  BY DEF Pushes
<1>5. ASSUME tab'.got = <<>>, pushq' = <<>>, Pushes(wire'.down) = {}, Pushes(daemon'.out) = {},
             ~shell'.told, shell'.lost = {}
      PROVE  Silent'
  BY <1>4, <1>5 DEF Silent
<1>6. ASSUME Link!Connected \/ Link!Receive PROVE Silent'
  <2>1. wire.down # <<>> /\ wire'.down = Tail(wire.down) /\ daemon' = daemon /\ pushq' = pushq
        /\ shell' = shell
    BY <1>a, <1>6 DEF Link!Connected, Link!Receive, Wires
  <2>2. Pushes(Tail(wire.down)) = {} /\ Head(wire.down).kind \notin {"frame", "closed"}
    BY <1>a, <1>2, <2>1, NoPushes
  <2>3. tab' = tab
    BY <1>6, <2>2 DEF Link!Connected, Link!Receive, Link!Dispatched
  <2> QED
    BY <1>2, <1>5, <2>1, <2>2, <2>3
<1>7. ASSUME Link!Handle PROVE Silent'
  <2> DEFINE r == Head(wire.up)
             m == IF r = "list" THEN Link!Note(r, shell.announced) ELSE Link!Answer(r)
  <2>1. r \in Texts /\ shell.announced \in 0 .. MaxEvents /\ 0 \in 0 .. MaxEvents
    BY <1>0, <1>7, Fields, Rest DEF Link!Handle, Lively, Link!ConnectionConstants
  <2>2. m \in Notes /\ m.kind \notin {"frame", "closed"}
    BY <2>1, NotesMade DEF Link!Answer
  <2>3. daemon'.out = <<m>> /\ wire'.down = wire.down /\ tab' = tab /\ pushq' = pushq
        /\ shell' = shell
    BY <1>a, <1>7 DEF Link!Handle, Wires
  <2> HIDE DEF m, r
  <2> QED
    BY <1>2, <1>5, <2>2, <2>3, NoPushes
<1>8. ASSUME Link!TakeEvent PROVE Silent'
  <2> DEFINE m == Link!Note("event", Head(events.waiting))
  <2>1. m \in Notes /\ m.kind \notin {"frame", "closed"}
    <3>1. Head(events.waiting) \in 1 .. MaxEvents
      BY <1>0, <1>8, Fields, Rest DEF Link!TakeEvent
    <3>2. Head(events.waiting) \in 0 .. MaxEvents
      BY <3>1 DEF Lively, Link!ConnectionConstants
    <3> QED
      BY <3>2, NotesMade
  <2>2. daemon'.out \in {daemon.out, <<m>>} /\ wire' = wire /\ tab' = tab /\ pushq' = pushq
        /\ shell' = shell
    BY <1>a, <1>8 DEF Link!TakeEvent, Daemons
  <2> HIDE DEF m
  <2> QED
    BY <1>2, <1>5, <2>1, <2>2, NoPushes
<1>9. ASSUME Link!WriteDown PROVE Silent'
  <2>1. Len(daemon.out) = 1
    BY <1>0, <1>9 DEF Link!WriteDown, Ends
  <2>2. daemon.out # <<>> /\ Head(daemon.out) \in Notes
    BY <1>a, <2>1, OneItem
  <2>3. Head(daemon.out).kind \notin {"frame", "closed"}
    BY <1>2, <1>a, <2>2, NoPushes
  <2>4. wire'.down = Append(wire.down, Head(daemon.out)) /\ daemon'.out = <<>>
        /\ tab' = tab /\ pushq' = pushq /\ shell' = shell
    BY <1>a, <1>9 DEF Link!WriteDown, Wires, Daemons
  <2> QED
    BY <1>2, <1>5, <1>a, <2>2, <2>3, <2>4, NoPushes
<1>10. ~Link!TakePush /\ ~Link!StreamStarts /\ ~Link!TaskEnds /\ ~Link!ConnectionEnds /\ ~Link!Break
  BY <1>0, <1>1, <1>2, OpenBefore DEF Link!TakePush, Link!StreamStarts, Lively
<1>11. \A b \in 1 .. Subscribes : ~Link!BridgeTakes(b) /\ ~Link!BridgeSends(b) /\ ~Link!HostForwards(b)
  BY <1>3 DEF Link!BridgeTakes, Link!BridgeSends, Link!HostForwards
<1>12. ASSUME wire'.down = wire.down, daemon'.out = daemon.out, pushq' = pushq, tab'.got = tab.got,
              ~shell'.told, shell'.lost = {}
       PROVE  Silent'
  BY <1>2, <1>5, <1>12
<1>13. ASSUME Link!TakeRequest \/ Link!WriteRequest \/ (\E r \in Link!Waited : Link!Ask(r)) \/ Link!Subscribe
                \/ Link!SubscribeAgain \/ Link!Unsubscribe \/ Link!Type \/ Link!Swap \/ Link!Output \/ Link!Exit \/ Link!Announce
       PROVE  Silent'
  <2>1. wire'.down = wire.down /\ daemon'.out = daemon.out /\ pushq' = pushq /\ tab'.got = tab.got
    BY <1>13, <1>a DEF Link!TakeRequest, Link!WriteRequest, Link!Ask, Link!Subscribe, Link!SubscribeAgain, Link!Prepared,
       Link!Unsubscribe, Link!Unregistered, Link!Type, Link!Swap, Link!Output, Link!Exit, Link!Announce, Wires, Tabs, Daemons
  <2>2. shell \in Shells /\ Link!Overflown = {}
    BY <1>0, <1>3 DEF ConnTypes, Link!Overflown
  <2>3. ~shell'.told /\ shell'.lost = {}
    <3>1. CASE Link!Output
      BY <1>2, <2>2, <3>1 DEF Link!Output, Shells
    <3>2. CASE Link!Exit
      BY <1>2, <1>3, <2>2, <3>2 DEF Link!Exit, Shells
    <3>3. CASE Link!Announce
      BY <1>2, <2>2, <3>3 DEF Link!Announce, Shells
    <3>4. CASE ~Link!Output /\ ~Link!Exit /\ ~Link!Announce
      BY <1>2, <1>13, <3>4 DEF Link!TakeRequest, Link!WriteRequest, Link!Ask, Link!Subscribe,
         Link!SubscribeAgain, Link!Unsubscribe, Link!Type, Link!Swap
    <3> QED
      BY <3>1, <3>2, <3>3, <3>4
  <2> QED
    BY <1>12, <2>1, <2>3
<1> QED
  BY <1>6, <1>7, <1>8, <1>9, <1>10, <1>11, <1>13 DEF Lively, Link!Next

LEMMA WayIs ==
  ASSUME ConnTypes, 1 \in DOMAIN bridges
  PROVE  /\ Way \in [Stations -> Seq(Notes)]
         /\ Way[1] = tab.got /\ Way[2] = wire.down /\ Way[3] = daemon.out /\ Way[4] = pushq
         /\ Way[5] = bridges[1].hold /\ Way[6] = bridges[1].chan /\ Way[7] = bridges[1].host
         /\ Stations = {1, 2, 3, 4, 5, 6, 7}
<1>1. /\ tab.got \in Seq(Notes) /\ wire.down \in Seq(Notes) /\ daemon.out \in Seq(Notes)
      /\ pushq \in Seq(Notes) /\ bridges[1].hold \in Seq(Notes) /\ bridges[1].chan \in Seq(Notes)
      /\ bridges[1].host \in Seq(Notes)
  BY Fields, FieldsOfBridges, NotesMade DEF ConnTypes
<1>2. \A a, b, c, d, e, f, g \in Seq(Notes) : <<a, b, c, d, e, f, g>> \in [1 .. 7 -> Seq(Notes)]
  OBVIOUS
<1>3. Stations = {1, 2, 3, 4, 5, 6, 7}
  BY DEF Stations
<1> QED
  BY <1>1, <1>2, <1>3 DEF Way, Stations

LEMMA WayNext ==
  /\ Way'[1] = tab'.got /\ Way'[2] = wire'.down /\ Way'[3] = daemon'.out /\ Way'[4] = pushq'
  /\ Way'[5] = bridges'[1].hold /\ Way'[6] = bridges'[1].chan /\ Way'[7] = bridges'[1].host
BY DEF Way

\* The same first frame, before and after a step.
LEMMA FlowsAfter ==
  ASSUME NEW first \in 0 .. shell'.frames, bridges'[1].on, Len(bridges'[1].hold) <= 1,
         Flow(Way', shell'.lost, first, shell'.frames, shell'.told)
  PROVE  Flows'
BY DEF Flows

\* A frame moves from one station to the one before it.
LEMMA FlowsMove ==
  ASSUME Lively, Handled("sub"), NEW k \in 1 .. 6,
         Way[k + 1] # <<>>, Head(Way[k + 1]).kind \in {"frame", "closed"},
         Way'[k] = Append(Way[k], Head(Way[k + 1])), Way'[k + 1] = Tail(Way[k + 1]),
         \A j \in Stations : j \notin {k, k + 1} => Way'[j] = Way[j],
         bridges'[1].on, Len(bridges'[1].hold) <= 1,
         shell'.frames = shell.frames, shell'.told = shell.told, shell'.lost = shell.lost
  PROVE  Flows'
<1>1. ConnTypes /\ Flows /\ 1 \in DOMAIN bridges /\ Link!ConnectionConstants
  BY LivelyFacts DEF ConnTypes, Lively
<1>2. PICK first \in 0 .. shell.frames : Flow(Way, shell.lost, first, shell.frames, shell.told)
  BY <1>1 DEF Flows
<1>3. Way \in [Stations -> Seq(Notes)]
  BY <1>1, WayIs
<1>4. Flow(Way', shell.lost, first, shell.frames, shell.told)
  BY <1>1, <1>2, <1>3, FlowMoves
<1> QED
  BY <1>4, FlowsAfter

\* Something else moves.
LEMMA FlowsBeside ==
  ASSUME Lively, Handled("sub"), \A k \in Stations : Beside(Way[k], Way'[k]),
         bridges'[1].on, Len(bridges'[1].hold) <= 1,
         shell'.frames = shell.frames, shell'.told = shell.told, shell'.lost = shell.lost
  PROVE  Flows'
<1>1. Flows
  BY LivelyFacts
<1>2. PICK first \in 0 .. shell.frames : Flow(Way, shell.lost, first, shell.frames, shell.told)
  BY <1>1 DEF Flows
<1>4. Flow(Way', shell.lost, first, shell.frames, shell.told)
  BY <1>2, FlowBeside
<1> QED
  BY <1>4, FlowsAfter

\* The last two stations hold something else.
Replaced(W, U, x, y) ==
  /\ U \in [Stations -> Seq(Notes)] /\ U[6] = x /\ U[7] = y
  /\ \A j \in Stations : j \notin {6, 7} => U[j] = W[j]

LEMMA ReplacedIs ==
  ASSUME NEW W \in [Stations -> Seq(Notes)], NEW x \in Seq(Notes), NEW y \in Seq(Notes)
  PROVE  \E U : Replaced(W, U, x, y)
<1> DEFINE U == [j \in Stations |-> IF j = 6 THEN x ELSE IF j = 7 THEN y ELSE W[j]]
<1>1. 6 \in Stations /\ 7 \in Stations
  BY DEF Stations
<1>2. Replaced(W, U, x, y)
  BY <1>1 DEF Replaced
<1> QED
  BY <1>2

\* The host's thread moves a frame, and the daemon's channel may overflow.
LEMMA FlowsForward ==
  ASSUME Lively, Handled("sub"), NEW h \in Link!Frames
  PROVE  /\ bridges[1].host # <<>> /\ h = Head(bridges[1].host)
         /\ Way'[6] = Link!Kept(bridges[1].chan, h) /\ Way'[7] = Tail(bridges[1].host)
         /\ \A j \in Stations : j \notin {6, 7} => Way'[j] = Way[j]
         /\ bridges'[1].on /\ Len(bridges'[1].hold) <= 1
         /\ shell'.frames = shell.frames /\ shell'.told = shell.told
         /\ shell'.lost = shell.lost \cup Link!Dropped(bridges[1].chan)
         => Flows'
<1>a. SUFFICES ASSUME bridges[1].host # <<>>, h = Head(bridges[1].host),
                      Way'[6] = Link!Kept(bridges[1].chan, h), Way'[7] = Tail(bridges[1].host),
                      \A j \in Stations : j \notin {6, 7} => Way'[j] = Way[j],
                      bridges'[1].on, Len(bridges'[1].hold) <= 1,
                      shell'.frames = shell.frames, shell'.told = shell.told,
                      shell'.lost = shell.lost \cup Link!Dropped(bridges[1].chan)
               PROVE  Flows'
  OBVIOUS
<1>1. ConnTypes /\ Flows /\ 1 \in DOMAIN bridges /\ Link!ConnectionConstants
  BY LivelyFacts DEF ConnTypes, Lively
<1>2. PICK first \in 0 .. shell.frames : Flow(Way, shell.lost, first, shell.frames, shell.told)
  BY <1>1 DEF Flows
<1>3. Way \in [Stations -> Seq(Notes)] /\ Way[6] = bridges[1].chan /\ Way[7] = bridges[1].host
  BY <1>1, WayIs
<1>4. /\ shell.frames \in 0 .. MaxFrames /\ shell.told \in BOOLEAN
      /\ bridges[1].chan \in Seq(Link!Frames) /\ bridges[1].host \in Seq(Link!Frames)
  BY <1>1, Fields, FieldsOfBridges
<1>5. shell.frames \in Nat /\ first \in Nat
  BY <1>1, <1>4 DEF Link!ConnectionConstants
<1>6. h.kind \in {"frame", "closed"} /\ h \in Notes
  BY NotesMade DEF Link!Frames
<1>7. Append(bridges[1].chan, h) \in Seq(Notes) /\ Tail(bridges[1].host) \in Seq(Notes)
  BY <1>4, <1>6, <1>a, Appended, Rest, NotesMade
<1>8. 6 \in Stations /\ 7 \in Stations
  BY DEF Stations
<1>13. PICK U : Replaced(Way, U, Append(bridges[1].chan, h), Tail(bridges[1].host))
  BY <1>3, <1>7, ReplacedIs
<1>9. /\ U \in [Stations -> Seq(Notes)] /\ U[6] = Append(bridges[1].chan, h)
      /\ U[7] = Tail(bridges[1].host) /\ \A j \in Stations : j \notin {6, 7} => U[j] = Way[j]
  BY <1>13 DEF Replaced
<1>10. Flow(U, shell.lost, first, shell.frames, shell.told)
  <2>1. /\ 6 \in 1 .. 6 /\ Way[6 + 1] = Way[7] /\ U[6 + 1] = U[7]
        /\ \A j \in Stations : j \notin {6, 6 + 1} => j \notin {6, 7}
    OBVIOUS
  <2>2. /\ Way[6 + 1] # <<>> /\ Head(Way[6 + 1]).kind \in {"frame", "closed"}
        /\ U[6] = Append(Way[6], Head(Way[6 + 1])) /\ U[6 + 1] = Tail(Way[6 + 1])
        /\ \A j \in Stations : j \notin {6, 6 + 1} => U[j] = Way[j]
    BY <1>3, <1>6, <1>9, <1>a, <2>1
  <2> QED
    BY <1>1, <1>2, <1>3, <2>1, <2>2, FlowMoves
<1>11. /\ Way'[6] = Link!Kept(bridges[1].chan, h) /\ \A j \in Stations : j # 6 => Way'[j] = U[j]
  <2>1. Way'[7] = U[7]
    BY <1>9, <1>a
  <2>2. \A j \in Stations : j \notin {6, 7} => Way'[j] = U[j]
    BY <1>9, <1>a
  <2> QED
    BY <1>a, <2>1, <2>2
<1>12. Flow(Way', shell.lost \cup Link!Dropped(bridges[1].chan), first, shell.frames, shell.told)
  <2>1. Overflowed(U, Way', 6, bridges[1].chan, h)
    BY <1>4, <1>8, <1>9, <1>11 DEF Overflowed
  <2>2. first \in Nat /\ shell.frames \in Nat /\ shell.told \in BOOLEAN
    BY <1>4, <1>5
  <2> QED
    BY <1>1, <1>10, <2>1, <2>2, FlowOverflows
<1> QED
  BY <1>12, <1>a, FlowsAfter

\* The session pushes a frame or its end.
LEMMA FlowsGrow ==
  ASSUME Lively, Handled("sub"), NEW m \in Link!Frames
  PROVE  /\ ~shell.exited /\ Way'[7] = Link!Kept(bridges[1].host, m)
         /\ \A j \in Stations : j # 7 => Way'[j] = Way[j]
         /\ ~m.full /\ m.n = shell'.frames /\ shell'.frames \in Nat /\ shell.frames <= shell'.frames
         /\ (m.kind = "closed" => shell'.told) /\ Link!Place(m) = shell.frames + 1
         /\ shell'.told \in BOOLEAN /\ Last(shell'.frames, shell'.told) = shell.frames + 1
         /\ shell'.lost = shell.lost \cup Link!Dropped(bridges[1].host)
         /\ bridges'[1].on /\ Len(bridges'[1].hold) <= 1
         => Flows'
<1>a. SUFFICES ASSUME ~shell.exited, Way'[7] = Link!Kept(bridges[1].host, m),
                      \A j \in Stations : j # 7 => Way'[j] = Way[j],
                      ~m.full, m.n = shell'.frames, shell'.frames \in Nat,
                      shell.frames <= shell'.frames, m.kind = "closed" => shell'.told,
                      Link!Place(m) = shell.frames + 1, shell'.told \in BOOLEAN,
                      Last(shell'.frames, shell'.told) = shell.frames + 1,
                      shell'.lost = shell.lost \cup Link!Dropped(bridges[1].host),
                      bridges'[1].on, Len(bridges'[1].hold) <= 1
               PROVE  Flows'
  OBVIOUS
<1>1. ConnTypes /\ Ends /\ Flows /\ 1 \in DOMAIN bridges /\ Link!ConnectionConstants
  BY LivelyFacts DEF ConnTypes, Lively
<1>2. PICK first \in 0 .. shell.frames : Flow(Way, shell.lost, first, shell.frames, shell.told)
  BY <1>1 DEF Flows
<1>3. /\ Way \in [Stations -> Seq(Notes)] /\ shell.frames \in Nat /\ first \in Nat
      /\ Way[7] = bridges[1].host /\ bridges[1].host \in Seq(Link!Frames)
  <2>1. shell.frames \in 0 .. MaxFrames /\ bridges[1].host \in Seq(Link!Frames)
    BY <1>1, Fields, FieldsOfBridges
  <2> QED
    BY <1>1, <2>1, WayIs
<1>4. shell.told = FALSE
  BY <1>1, <1>a, Fields DEF Ends
<1>5. Flow(Way, shell.lost, first, shell.frames, FALSE)
  BY <1>2, <1>4
<1> DEFINE U == [Way EXCEPT ![7] = Append(bridges[1].host, m)]
<1>6. 7 \in Stations /\ Append(bridges[1].host, m) \in Seq(Notes)
  BY <1>3, Appended, NotesMade DEF Stations
<1>7. /\ U \in [Stations -> Seq(Notes)] /\ U[7] = Append(bridges[1].host, m)
      /\ \A j \in Stations : j # 7 => U[j] = Way[j]
  BY <1>3, <1>6
<1> HIDE DEF U
<1>8. Flow(U, shell.lost, first, shell'.frames, shell'.told)
  <2>1. Grown(Way, U, m)
    BY <1>3, <1>7 DEF Grown
  <2> QED
    BY <1>1, <1>3, <1>5, <1>a, <2>1, FlowGrows
<1>9. \A j \in Stations : j # 7 => Way'[j] = U[j]
  BY <1>7, <1>a
<1>10. Flow(Way', shell.lost \cup Link!Dropped(bridges[1].host), first, shell'.frames, shell'.told)
  <2>1. Overflowed(U, Way', 7, bridges[1].host, m)
    BY <1>3, <1>6, <1>7, <1>9, <1>a DEF Overflowed
  <2>2. first \in Nat /\ shell'.frames \in Nat /\ shell'.told \in BOOLEAN
    BY <1>3, <1>a
  <2> QED
    BY <1>1, <1>8, <2>1, <2>2, FlowOverflows
<1>11. first \in 0 .. shell'.frames
  BY <1>3, <1>a
<1> QED
  BY <1>10, <1>11, <1>a, FlowsAfter

\* A subscription begins.
LEMMA FlowsBegin ==
  ASSUME Lively, ~Handled("sub"), Handled("sub")'
  PROVE  Flows'
<1>0. /\ ConnTypes /\ Ends /\ Silent /\ Len(bridges) = 0 /\ Link!ConnectionConstants /\ ConnTypes'
      /\ "sub" \in Link!Waited
  BY LivelyFacts DEF Lively, Link!Waited
<1>a. /\ wire \in Wires /\ bridges \in Seq(Bridges)
      /\ shell.frames \in 0 .. MaxFrames /\ shell.exited \in BOOLEAN
      /\ shell.lost = {} /\ shell.told = FALSE
  <2>1. shell.frames \in 0 .. MaxFrames /\ shell.exited \in BOOLEAN /\ shell.told \in BOOLEAN
    BY <1>0, Fields
  <2> QED
    BY <1>0, <2>1 DEF ConnTypes, Silent
<1>1. Link!Handle /\ Head(wire.up) = "sub"
  BY <1>0 DEF Lively, HandledStep
<1>2. bridges = <<>> /\ Link!LiveBridges = {}
  BY <1>0, <1>a, Empty DEF Link!LiveBridges
<1>3. bridges' = <<Link!NewBridge>>
  BY <1>1, <1>2 DEF Link!Handle
<1>4. /\ bridges'[1].on /\ bridges'[1].hold = <<>> /\ bridges'[1].chan = <<>>
      /\ bridges'[1].host = <<[kind |-> "frame", n |-> shell.frames, full |-> TRUE]>>
  BY <1>0, <1>3, NewBridgeType
<1>5. /\ daemon'.out = <<Link!Note("sub", 0)>> /\ wire'.down = wire.down /\ tab' = tab /\ pushq' = pushq
      /\ shell' = shell
  BY <1>1, <1>a DEF Link!Handle, Link!Answer, Wires
<1>6. Link!Note("sub", 0) \in Notes /\ Link!Note("sub", 0).kind \notin {"frame", "closed"}
  <2>1. 0 \in 0 .. MaxEvents /\ "sub" \in Texts
    BY <1>0 DEF Link!ConnectionConstants, Texts
  <2> QED
    BY <2>1, NotesMade
<1>7. \A k \in 1 .. 6 : Pushes(Way'[k]) = {}
  <2>1. Pushes(Way'[1]) = {} /\ Pushes(Way'[2]) = {} /\ Pushes(Way'[3]) = {} /\ Pushes(Way'[4]) = {}
        /\ Pushes(Way'[5]) = {} /\ Pushes(Way'[6]) = {}
    BY <1>0, <1>4, <1>5, <1>6, NoPushes, WayNext DEF Silent
  <2>2. \A k \in 1 .. 6 : k \in {1, 2, 3, 4, 5, 6}
    OBVIOUS
  <2> QED
    BY <2>1, <2>2
<1>8. Way'[7] = <<[kind |-> "frame", n |-> shell.frames, full |-> TRUE]>>
  BY <1>4, WayNext
<1>9. Flow(Way', {}, shell.frames, shell.frames, FALSE)
  BY <1>0, <1>a, <1>7, <1>8, FlowBegins
<1>10. Len(bridges'[1].hold) <= 1
  BY <1>4
<1>11. shell.frames \in 0 .. shell.frames
  BY <1>a, <1>0 DEF Link!ConnectionConstants
<1>12. Flow(Way', shell'.lost, shell.frames, shell'.frames, shell'.told)
  BY <1>5, <1>9, <1>a
<1> QED
  BY <1>4, <1>5, <1>10, <1>11, <1>12, FlowsAfter

LEMMA FlowsStep ==
  ASSUME Lively, Handled("sub")
  PROVE  Flows'
<1>0. /\ ConnTypes /\ Ends /\ Flows /\ Len(bridges) = 1 /\ daemon.pc # "swap" /\ ~In(wire.up, "again")
      /\ Ready /\ Link!ConnectionConstants /\ "sub" \in Link!Waited
  BY LivelyFacts DEF Lively, Link!Waited
<1>a. /\ wire \in Wires /\ tab \in Tabs /\ daemon \in Daemons /\ shell \in Shells
      /\ bridges \in Seq(Bridges) /\ pushq \in Seq(Link!Frames)
      /\ wire.down \in Seq(Notes) /\ daemon.out \in Seq(Notes)
  BY <1>0, Fields DEF ConnTypes
<1>b. DOMAIN bridges = {1} /\ 1 \in DOMAIN bridges /\ bridges[1].on /\ Len(bridges[1].hold) <= 1
  BY <1>0, <1>a DEF Flows
<1>c. /\ Way \in [Stations -> Seq(Notes)] /\ Stations = {1, 2, 3, 4, 5, 6, 7}
      /\ Way[1] = tab.got /\ Way[2] = wire.down /\ Way[3] = daemon.out /\ Way[4] = pushq
      /\ Way[5] = bridges[1].hold /\ Way[6] = bridges[1].chan /\ Way[7] = bridges[1].host
  BY <1>0, <1>b, WayIs
<1>d. \A k \in Stations : Beside(Way[k], Way[k])
  BY <1>c, BesideMoves
<1>e. ~Link!TaskEnds /\ ~Link!ConnectionEnds /\ ~Link!Break /\ ~Link!Swap
  BY <1>0, OpenBefore DEF Lively, Link!Swap
<1>f. asked["sub"] # "no"
  BY DEF Handled
<1>1. ASSUME \A k \in Stations : Beside(Way[k], Way'[k]), bridges' = bridges, shell' = shell
      PROVE  Flows'
  BY <1>1, <1>b, FlowsBeside
<1>2. ASSUME NEW k \in 1 .. 3, Way[k + 1] # <<>>, Head(Way[k + 1]).kind \in {"frame", "closed"},
             Way'[k] = Append(Way[k], Head(Way[k + 1])), Way'[k + 1] = Tail(Way[k + 1]),
             \A j \in Stations : j \notin {k, k + 1} => Way'[j] = Way[j],
             bridges' = bridges, shell' = shell
      PROVE  Flows'
  <2>1. bridges'[1].on /\ Len(bridges'[1].hold) <= 1 /\ shell'.frames = shell.frames
        /\ shell'.told = shell.told /\ shell'.lost = shell.lost /\ k \in 1 .. 6
    BY <1>2, <1>b
  <2> QED
    BY <1>2, <2>1, FlowsMove
<1>3. ~Link!Connected
  BY <1>0, <1>f DEF Link!Connected, Ends
<1>4. ASSUME Link!Receive PROVE Flows'
  <2>1. wire.down # <<>> /\ wire'.down = Tail(wire.down) /\ daemon' = daemon /\ pushq' = pushq
        /\ bridges' = bridges /\ shell' = shell
    BY <1>a, <1>4 DEF Link!Receive, Wires
  <2>2. CASE Head(wire.down).kind \in {"frame", "closed"}
    <3>1. tab'.got = Append(tab.got, Head(wire.down))
      BY <1>0, <1>a, <1>4, <1>f, <2>2 DEF Link!Receive, Link!Dispatched, Ready, Tabs
    <3>2. /\ Way[2] # <<>> /\ Head(Way[2]).kind \in {"frame", "closed"}
          /\ Way'[1] = Append(Way[1], Head(Way[2])) /\ Way'[2] = Tail(Way[2])
          /\ \A j \in Stations : j \notin {1, 2} => Way'[j] = Way[j]
      BY <1>c, <2>1, <2>2, <3>1, WayNext
    <3> QED
      BY <1>2, <2>1, <3>2
  <2>3. CASE Head(wire.down).kind \notin {"frame", "closed"}
    <3>1. tab' = tab
      BY <1>4, <2>3 DEF Link!Receive, Link!Dispatched
    <3>2. Beside(wire.down, Tail(wire.down))
      BY <1>a, <2>1, <2>3, BesideMoves
    <3>3. \A k \in Stations : Beside(Way[k], Way'[k])
      BY <1>c, <1>d, <2>1, <3>1, <3>2, WayNext
    <3> QED
      BY <1>1, <2>1, <3>3
  <2> QED
    BY <2>2, <2>3
<1>5. ASSUME Link!Handle PROVE Flows'
  <2> DEFINE r == Head(wire.up)
             m == IF r = "list" THEN Link!Note(r, shell.announced) ELSE Link!Answer(r)
  <2>1. r \in Texts /\ shell.announced \in 0 .. MaxEvents /\ 0 \in 0 .. MaxEvents
    BY <1>0, <1>5, Fields, Rest DEF Link!Handle, Link!ConnectionConstants
  <2>2. m \in Notes /\ m.kind \notin {"frame", "closed"}
    BY <2>1, NotesMade DEF Link!Answer
  <2>3. In(wire.up, r)
    BY <1>0, <1>5, Fields, InRest DEF Link!Handle
  <2>4. r \notin {"sub", "again"}
    BY <1>0, <2>3 DEF Handled, Coming
  <2>5. daemon.out = <<>> /\ daemon'.out = <<m>> /\ wire'.down = wire.down /\ tab' = tab
        /\ pushq' = pushq /\ bridges' = bridges /\ shell' = shell
    BY <1>0, <1>a, <1>5, <2>4 DEF Link!Handle, Wires, Ends
  <2> HIDE DEF m, r
  <2>6. Beside(<<>>, <<m>>)
    BY <1>a, <2>2, BesideMoves
  <2>7. \A k \in Stations : Beside(Way[k], Way'[k])
    BY <1>c, <1>d, <2>5, <2>6, WayNext
  <2> QED
    BY <1>1, <2>5, <2>7
<1>6. ASSUME Link!TakePush PROVE Flows'
  <2>1. pushq # <<>> /\ Head(pushq) \in Link!Frames
    BY <1>a, <1>6, Rest DEF Link!TakePush
  <2>2. Head(pushq).kind \in {"frame", "closed"}
    BY <2>1 DEF Link!Frames
  <2>3. daemon.out = <<>> /\ daemon'.out = <<Head(pushq)>> /\ pushq' = Tail(pushq)
        /\ wire' = wire /\ tab' = tab /\ bridges' = bridges /\ shell' = shell
    BY <1>0, <1>a, <1>6 DEF Link!TakePush, Daemons, Ends
  <2>4. <<Head(pushq)>> = Append(<<>>, Head(pushq))
    OBVIOUS
  <2>5. /\ Way[4] # <<>> /\ Head(Way[4]).kind \in {"frame", "closed"}
        /\ Way'[3] = Append(Way[3], Head(Way[4])) /\ Way'[4] = Tail(Way[4])
        /\ \A j \in Stations : j \notin {3, 4} => Way'[j] = Way[j]
    BY <1>c, <2>1, <2>2, <2>3, <2>4, WayNext
  <2> QED
    BY <1>2, <2>3, <2>5
<1>7. ASSUME Link!TakeEvent PROVE Flows'
  <2> DEFINE m == Link!Note("event", Head(events.waiting))
  <2>1. m \in Notes /\ m.kind \notin {"frame", "closed"}
    <3>1. Head(events.waiting) \in 1 .. MaxEvents
      BY <1>0, <1>7, Fields, Rest DEF Link!TakeEvent
    <3>2. Head(events.waiting) \in 0 .. MaxEvents
      BY <3>1 DEF Lively, Link!ConnectionConstants
    <3> QED
      BY <3>2, NotesMade
  <2>2. daemon.out = <<>> /\ daemon'.out \in {daemon.out, <<m>>} /\ wire' = wire /\ tab' = tab
        /\ pushq' = pushq /\ bridges' = bridges /\ shell' = shell
    BY <1>0, <1>a, <1>7 DEF Link!TakeEvent, Daemons, Ends
  <2> HIDE DEF m
  <2>3. Beside(<<>>, <<m>>)
    BY <1>a, <2>1, BesideMoves
  <2>4. \A k \in Stations : Beside(Way[k], Way'[k])
    BY <1>c, <1>d, <2>2, <2>3, WayNext
  <2> QED
    BY <1>1, <2>2, <2>4
<1>8. ASSUME Link!WriteDown PROVE Flows'
  <2> DEFINE m == Head(daemon.out)
  <2>1. Len(daemon.out) = 1
    BY <1>0, <1>8 DEF Link!WriteDown, Ends
  <2>2. m \in Notes /\ daemon.out # <<>> /\ daemon.out = <<m>> /\ Tail(daemon.out) = <<>>
    BY <1>a, <2>1, OneItem
  <2>3. wire'.down = Append(wire.down, m) /\ daemon'.out = <<>>
        /\ tab' = tab /\ pushq' = pushq /\ bridges' = bridges /\ shell' = shell
    BY <1>a, <1>8 DEF Link!WriteDown, Wires, Daemons
  <2>4. CASE m.kind \in {"frame", "closed"}
    <3>1. /\ Way[3] # <<>> /\ Head(Way[3]).kind \in {"frame", "closed"}
          /\ Way'[2] = Append(Way[2], Head(Way[3])) /\ Way'[3] = Tail(Way[3])
          /\ \A j \in Stations : j \notin {2, 3} => Way'[j] = Way[j]
      BY <1>c, <2>2, <2>3, <2>4, WayNext
    <3> QED
      BY <1>2, <2>3, <3>1
  <2>5. CASE m.kind \notin {"frame", "closed"}
    <3>1. Beside(wire.down, Append(wire.down, m)) /\ Beside(<<m>>, <<>>)
      BY <1>a, <2>2, <2>5, BesideMoves
    <3> HIDE DEF m
    <3>2. \A k \in Stations : Beside(Way[k], Way'[k])
      BY <1>c, <1>d, <2>2, <2>3, <3>1, WayNext
    <3> QED
      BY <1>1, <2>3, <3>2
  <2> QED
    BY <2>4, <2>5
<1>9. ASSUME NEW b \in 1 .. Subscribes, Link!BridgeTakes(b) PROVE Flows'
  <2>1. b = 1 /\ bridges[1].hold = <<>> /\ bridges[1].chan # <<>>
    BY <1>9, <1>b DEF Link!BridgeTakes, Link!LiveBridges
  <2>2. bridges[1] \in Bridges /\ bridges[1].chan \in Seq(Link!Frames)
    BY <1>0, <1>b, FieldsOfBridges
  <2>3. Head(bridges[1].chan) \in Link!Frames
    BY <2>1, <2>2, Rest
  <2>4. Head(bridges[1].chan).kind \in {"frame", "closed"}
    BY <2>3 DEF Link!Frames
  <2>5. /\ bridges'[1].on /\ bridges'[1].hold = <<Head(bridges[1].chan)>>
        /\ bridges'[1].chan = Tail(bridges[1].chan) /\ Len(bridges'[1].hold) <= 1
        /\ bridges'[1].host = bridges[1].host
        /\ tab' = tab /\ wire' = wire /\ daemon' = daemon /\ pushq' = pushq /\ shell' = shell
    BY <1>9, <1>a, <1>b, <2>1, <2>2 DEF Link!BridgeTakes, Bridges
  <2>6. <<Head(bridges[1].chan)>> = Append(<<>>, Head(bridges[1].chan))
    OBVIOUS
  <2>7. /\ Way[6] # <<>> /\ Head(Way[6]).kind \in {"frame", "closed"}
        /\ Way'[5] = Append(Way[5], Head(Way[6])) /\ Way'[6] = Tail(Way[6])
        /\ \A j \in Stations : j \notin {5, 6} => Way'[j] = Way[j]
    BY <1>c, <2>1, <2>4, <2>5, <2>6, WayNext
  <2>8. 5 \in 1 .. 6 /\ 5 + 1 = 6
    OBVIOUS
  <2> QED
    BY <2>5, <2>7, <2>8, FlowsMove
<1>10. ASSUME NEW b \in 1 .. Subscribes, Link!BridgeSends(b) PROVE Flows'
  <2>1. b = 1 /\ bridges[1].hold # <<>>
    BY <1>10, <1>b DEF Link!BridgeSends, Link!LiveBridges
  <2>2. bridges[1] \in Bridges /\ bridges[1].hold \in Seq(Link!Frames)
    BY <1>0, <1>b, FieldsOfBridges
  <2>3. Head(bridges[1].hold) \in Link!Frames /\ Tail(bridges[1].hold) = <<>>
    <3>1. Len(bridges[1].hold) <= 1
      BY <1>b
    <3>2. Len(bridges[1].hold) = 1
      BY <2>1, <2>2, <3>1, Empty
    <3> QED
      BY <2>2, <3>2, OneItem
  <2>4. Head(bridges[1].hold).kind \in {"frame", "closed"}
    BY <2>3 DEF Link!Frames
  <2>5. /\ bridges'[1].on /\ bridges'[1].hold = <<>> /\ Len(bridges'[1].hold) <= 1
        /\ bridges'[1].chan = bridges[1].chan /\ bridges'[1].host = bridges[1].host
        /\ pushq' = Append(pushq, Head(bridges[1].hold))
        /\ tab' = tab /\ wire' = wire /\ daemon' = daemon /\ shell' = shell
    BY <1>10, <1>a, <1>b, <2>1, <2>2 DEF Link!BridgeSends, Bridges
  <2>7. /\ Way[5] # <<>> /\ Head(Way[5]).kind \in {"frame", "closed"}
        /\ Way'[4] = Append(Way[4], Head(Way[5])) /\ Way'[5] = Tail(Way[5])
        /\ \A j \in Stations : j \notin {4, 5} => Way'[j] = Way[j]
    BY <1>c, <2>1, <2>3, <2>4, <2>5, WayNext
  <2>8. 4 \in 1 .. 6 /\ 4 + 1 = 5
    OBVIOUS
  <2> QED
    BY <2>5, <2>7, <2>8, FlowsMove
<1>18. ASSUME NEW b \in 1 .. Subscribes, Link!HostForwards(b) PROVE Flows'
  <2> DEFINE h == Head(bridges[1].host)
             c == Link!Kept(bridges[1].chan, h)
             d == Link!Dropped(bridges[1].chan)
  <2>1. b = 1 /\ bridges[1].host # <<>>
    BY <1>18, <1>b DEF Link!HostForwards, Link!LiveBridges
  <2>2. bridges[1] \in Bridges /\ bridges[1].host \in Seq(Link!Frames)
    BY <1>0, <1>b, FieldsOfBridges
  <2>3. h \in Link!Frames
    BY <2>1, <2>2, Rest
  <2>4. bridges'[1] = [bridges[1] EXCEPT !.wake = FALSE, !.host = Tail(bridges[1].host), !.chan = c]
    BY <1>18, <1>b, <2>1, <2>2 DEF Link!HostForwards, Bridges
  <2>5. shell' = [shell EXCEPT !.lost = shell.lost \cup d]
    BY <1>18, <2>1 DEF Link!HostForwards
  <2>6. /\ tab' = tab /\ wire' = wire /\ daemon' = daemon /\ pushq' = pushq
    BY <1>18 DEF Link!HostForwards
  <2>a. h = Head(bridges[1].host) /\ c = Link!Kept(bridges[1].chan, h) /\ d = Link!Dropped(bridges[1].chan)
    OBVIOUS
  <2> HIDE DEF h, c, d
  <2>7. /\ bridges'[1].on = bridges[1].on /\ bridges'[1].hold = bridges[1].hold
        /\ bridges'[1].chan = c /\ bridges'[1].host = Tail(bridges[1].host)
    BY <2>2, <2>4 DEF Bridges
  <2>8. shell'.frames = shell.frames /\ shell'.told = shell.told /\ shell'.lost = shell.lost \cup d
    BY <1>a, <2>5 DEF Shells
  <2>9. /\ Way'[6] = c /\ Way'[7] = Tail(bridges[1].host)
        /\ \A j \in Stations : j \notin {6, 7} => Way'[j] = Way[j]
    BY <1>c, <2>6, <2>7, WayNext
  <2> QED
    BY <1>b, <2>1, <2>3, <2>7, <2>8, <2>9, <2>a, FlowsForward
<1>11. ASSUME NEW m \in Link!Frames, Link!Pushed(m), UNCHANGED <<tab, wire, daemon, pushq>>
       PROVE  /\ bridges'[1].on /\ Len(bridges'[1].hold) <= 1
              /\ Way'[7] = Link!Kept(bridges[1].host, m) /\ \A j \in Stations : j # 7 => Way'[j] = Way[j]
  <2> DEFINE c == Link!Kept(bridges[1].host, m)
  <2>1. bridges[1] \in Bridges
    BY <1>0, <1>b, FieldsOfBridges
  <2>2. bridges'[1] = [bridges[1] EXCEPT !.wake = TRUE, !.host = c]
    BY <1>11, <1>b DEF Link!Pushed
  <2> HIDE DEF c
  <2>3. bridges'[1].on /\ bridges'[1].hold = bridges[1].hold
        /\ bridges'[1].chan = bridges[1].chan /\ bridges'[1].host = c
    BY <1>b, <2>1, <2>2 DEF Bridges
  <2>4. Way'[7] = c /\ \A j \in Stations : j # 7 => Way'[j] = Way[j]
    BY <1>11, <1>c, <2>3, WayNext
  <2> QED
    BY <1>b, <2>3, <2>4 DEF c
<1>19. Link!Overflown = Link!Dropped(bridges[1].host) /\ Link!LiveBridges = {1}
  <2>1. Link!LiveBridges = {1}
    BY <1>b DEF Link!LiveBridges
  <2> QED
    BY <2>1 DEF Link!Overflown
<1>12. shell.frames \in Nat /\ shell.frames \in 0 .. MaxFrames /\ MaxFrames \in Nat
       /\ shell.exited \in BOOLEAN /\ shell.told \in BOOLEAN /\ (shell.told => shell.exited)
  <2>1. shell.frames \in 0 .. MaxFrames /\ shell.exited \in BOOLEAN /\ shell.told \in BOOLEAN
    BY <1>0, Fields
  <2> QED
    BY <1>0, <2>1 DEF Link!ConnectionConstants, Ends
<1>13. ASSUME Link!Output PROVE Flows'
  <2> DEFINE m == Link!Note("frame", shell.frames + 1)
  <2>1. shell'.frames = shell.frames + 1 /\ shell'.told = FALSE /\ ~shell.exited
        /\ shell.frames < MaxFrames /\ shell'.lost = shell.lost \cup Link!Dropped(bridges[1].host)
    BY <1>12, <1>13, <1>19, <1>a DEF Link!Output, Shells
  <2>2. m \in Link!Frames /\ m.kind = "frame" /\ m.n = shell.frames + 1 /\ ~m.full
    BY <1>12, <2>1, NotesMade
  <2>3. Link!Pushed(m) /\ UNCHANGED <<tab, wire, daemon, pushq>>
    BY <1>13 DEF Link!Output
  <2> HIDE DEF m
  <2>4. Link!Place(m) = shell.frames + 1 /\ Last(shell'.frames, shell'.told) = shell.frames + 1
    BY <1>12, <2>1, <2>2 DEF Link!Place, Last
  <2>5. /\ bridges'[1].on /\ Len(bridges'[1].hold) <= 1
        /\ Way'[7] = Link!Kept(bridges[1].host, m) /\ \A j \in Stations : j # 7 => Way'[j] = Way[j]
    BY <1>11, <2>2, <2>3
  <2>6. shell'.frames \in Nat /\ shell.frames <= shell'.frames /\ shell'.told \in BOOLEAN
        /\ m.n = shell'.frames /\ (m.kind = "closed" => shell'.told)
    <3>1. shell'.told = FALSE
      BY <2>1
    <3>2. shell'.frames \in Nat /\ shell.frames <= shell'.frames /\ m.n = shell'.frames
      BY <1>12, <2>1, <2>2
    <3> QED
      BY <2>2, <3>1, <3>2
  <2> QED
    BY <2>1, <2>2, <2>4, <2>5, <2>6, FlowsGrow
<1>14. ASSUME Link!Exit PROVE Flows'
  <2> DEFINE m == Link!Note("closed", shell.frames)
  <2>1. shell'.frames = shell.frames /\ shell'.told = TRUE /\ ~shell.exited
        /\ shell'.lost = shell.lost \cup Link!Dropped(bridges[1].host)
    BY <1>14, <1>19, <1>a DEF Link!Exit, Shells
  <2>2. m \in Link!Frames /\ m.kind = "closed" /\ m.n = shell.frames /\ ~m.full
    BY <1>12, NotesMade
  <2>3. Link!Pushed(m) /\ UNCHANGED <<tab, wire, daemon, pushq>>
    BY <1>14 DEF Link!Exit
  <2> HIDE DEF m
  <2>4. Link!Place(m) = shell.frames + 1 /\ Last(shell'.frames, shell'.told) = shell.frames + 1
    BY <1>12, <2>1, <2>2 DEF Link!Place, Last
  <2>5. /\ bridges'[1].on /\ Len(bridges'[1].hold) <= 1
        /\ Way'[7] = Link!Kept(bridges[1].host, m) /\ \A j \in Stations : j # 7 => Way'[j] = Way[j]
    BY <1>11, <2>2, <2>3
  <2>6. shell'.frames \in Nat /\ shell.frames <= shell'.frames /\ shell'.told \in BOOLEAN
        /\ m.n = shell'.frames /\ (m.kind = "closed" => shell'.told)
    <3>1. shell'.frames = shell.frames /\ shell'.told = TRUE
      BY <2>1
    <3>2. shell.frames <= shell'.frames /\ shell'.frames \in Nat
      BY <1>12, <3>1
    <3> QED
      BY <2>2, <3>1, <3>2
  <2> QED
    BY <2>1, <2>2, <2>4, <2>5, <2>6, FlowsGrow
<1>15. ASSUME tab'.got = tab.got, wire'.down = wire.down, daemon' = daemon, pushq' = pushq,
              bridges' = bridges, shell'.frames = shell.frames, shell'.told = shell.told,
              shell'.lost = shell.lost
       PROVE  Flows'
  <2>1. \A k \in Stations : Beside(Way[k], Way'[k])
    BY <1>15, <1>c, <1>d, WayNext
  <2> QED
    BY <1>15, <1>b, <2>1, FlowsBeside
<1>16. ASSUME Link!StreamStarts PROVE Flows'
  <2>1. tab'.got = tab.got
    BY <1>0, <1>16, <1>a, <1>f DEF Link!StreamStarts, Ready, Tabs
  <2> QED
    BY <1>15, <1>16, <2>1 DEF Link!StreamStarts
<1>17. ASSUME Link!TakeRequest \/ Link!WriteRequest \/ (\E r \in Link!Waited : Link!Ask(r)) \/ Link!Subscribe
                \/ Link!SubscribeAgain \/ Link!Unsubscribe \/ Link!Type \/ Link!Announce
       PROVE  Flows'
  <2>1. tab'.got = tab.got /\ wire'.down = wire.down /\ daemon' = daemon /\ pushq' = pushq
        /\ bridges' = bridges /\ shell'.frames = shell.frames /\ shell'.told = shell.told
        /\ shell'.lost = shell.lost
    BY <1>17, <1>a DEF Link!TakeRequest, Link!WriteRequest, Link!Ask, Link!Subscribe, Link!SubscribeAgain, Link!Prepared,
       Link!Unsubscribe, Link!Unregistered, Link!Type, Link!Announce, Wires, Tabs, Shells
  <2> QED
    BY <1>15, <2>1
<1> QED
  BY <1>3, <1>4, <1>5, <1>6, <1>7, <1>8, <1>9, <1>10, <1>13, <1>14, <1>16, <1>17, <1>18, <1>e
     DEF Lively, Link!Next

LEMMA PipeStep ==
  ASSUME Link!ConnectionConstants, ConnInv, Link!Next
  PROVE  Pipe'
<1>1. SUFFICES ASSUME wire'.open, asked'["again"] = "no"
               PROVE  daemon'.pc # "swap" /\ Ready' /\ IF Handled("sub")' THEN Flows' ELSE Silent'
  BY DEF Pipe
<1>2. Lively
  BY <1>1, LivelyStep
<1>3. daemon'.pc # "swap" /\ Ready' /\ (~Handled("sub")' => Silent')
  BY <1>2, NoSwap, ReadyStep, SilentStep
<1>4. ASSUME Handled("sub"), Handled("sub")' PROVE Flows'
  BY <1>2, <1>4, FlowsStep
<1>5. ASSUME ~Handled("sub"), Handled("sub")' PROVE Flows'
  BY <1>2, <1>5, FlowsBegin
<1> QED
  BY <1>3, <1>4, <1>5

-----------------------------------------------------------------------------
(* What a tab has heard.                                                   *)

LEMMA PipeHeard ==
  ASSUME Link!ConnectionConstants, ConnTypes, Requests, Pipe, wire.open, asked["again"] = "no"
  PROVE  Link!LostAtMost(tab.got, shell.lost)
<1>1. CASE ~Handled("sub")
  <2>1. tab.got = <<>>
    BY <1>1 DEF Pipe, Silent
  <2> QED
    BY <2>1 DEF Link!LostAtMost
<1>2. CASE Handled("sub")
  <2>1. Flows /\ bridges \in Seq(Bridges) /\ Len(bridges) = One("sub") + One("again")
    BY <1>2 DEF Pipe, Requests, ConnTypes
  <2>2. One("sub") = 1 /\ One("again") = 0
    BY <1>2 DEF One, Handled
  <2>3. 1 \in DOMAIN bridges
    BY <2>1, <2>2
  <2>4. Way \in [Stations -> Seq(Notes)] /\ Way[1] = tab.got
    BY <2>3, WayIs
  <2>5. \A j \in Stations : Places(Way[j]) \subseteq Nat
    BY <2>4, PlacesAreNumbers
  <2>6. shell.frames \in Nat /\ shell.told \in BOOLEAN /\ tab.got \in Seq(Link!Frames)
    BY Fields DEF Link!ConnectionConstants
  <2>7. PICK first \in 0 .. shell.frames : Flow(Way, shell.lost, first, shell.frames, shell.told)
    BY <2>1 DEF Flows
  <2>8. Way[1] \in Seq(Link!Frames)
    BY <2>4, <2>6
  <2>9. Link!LostAtMost(Way[1], shell.lost)
    BY <2>5, <2>6, <2>7, <2>8, FlowHeard
  <2> QED
    BY <2>4, <2>9
<1> QED
  BY <1>1, <1>2

\* What is dropped stays dropped.
LEMMA HeardStays ==
  ASSUME NEW s, NEW L, NEW M, L \subseteq M, Link!LostAtMost(s, L)
  PROVE  Link!LostAtMost(s, M)
<1>1. Link!Places(Link!Heard(s) \cup L) \subseteq Link!Places(Link!Heard(s) \cup M)
  BY DEF Link!Places
<1> QED
  BY <1>1 DEF Link!LostAtMost

LEMMA HeardStep ==
  ASSUME Link!ConnectionConstants, ConnInv, Link!Next, asked'["again"] = "no"
  PROVE  Link!LostAtMost(tab.got, shell.lost)'
<1>0. ConnTypes /\ Ends /\ ConnTypes' /\ Requests' /\ Pipe'
  BY TypesStep, RequestsStep, PipeStep DEF ConnInv
<1>a. wire \in Wires /\ tab \in Tabs /\ shell \in Shells
  BY <1>0 DEF ConnTypes
<1>b. Link!LostAtMost(tab.got, shell.lost)' = Link!LostAtMost(tab'.got, shell'.lost)
  BY DEF Link!LostAtMost, Link!Heard, Link!Places, Link!Place
<1>1. CASE wire'.open
  <2>1. Link!ConnectionConstants'
    BY DEF Link!ConnectionConstants
  <2>2. (Link!ConnectionConstants /\ ConnTypes /\ Requests /\ Pipe /\ wire.open /\ asked["again"] = "no"
           => Link!LostAtMost(tab.got, shell.lost))'
    BY PipeHeard, PTL
  <2> QED
    BY <1>0, <1>1, <2>1, <2>2
<1>2. CASE ~wire'.open
  <2>1. asked["again"] = "no" => Link!LostAtMost(tab.got, shell.lost)
    BY DEF ConnInv
  <2>2. asked["again"] = "no"
    BY <1>0, AgainStays
  <2>3. tab'.got \in {tab.got, <<>>}
    <3>1. ~Link!Receive
      BY <1>0, <1>a, <1>2 DEF Link!Receive, Ends, Wires
    <3> QED
      BY <1>a, <3>1 DEF Link!Next, Link!Connected, Link!TakeRequest, Link!WriteRequest, Link!TaskEnds, Link!SendersDropped,
         Link!Ask, Link!Subscribe, Link!Prepared, Link!SubscribeAgain, Link!Unsubscribe, Link!Unregistered, Link!StreamStarts, Link!Type,
         Link!Handle, Link!Swap, Link!TakePush, Link!TakeEvent, Link!WriteDown, Link!ConnectionEnds, Link!BridgeTakes, Link!BridgeSends, Link!HostForwards,
         Link!Output, Link!Exit, Link!Announce, Link!Break, Tabs
  <2>4. Link!LostAtMost(<<>>, shell'.lost)
    BY DEF Link!LostAtMost
  <2>5. shell.lost \subseteq shell'.lost
    <3>1. CASE Link!Output
      BY <1>a, <3>1 DEF Link!Output, Shells
    <3>2. CASE Link!Exit
      BY <1>a, <3>2 DEF Link!Exit, Shells
    <3>3. CASE Link!Announce
      BY <1>a, <3>3 DEF Link!Announce, Shells
    <3>4. ASSUME NEW b \in 1 .. Subscribes, Link!HostForwards(b) PROVE shell.lost \subseteq shell'.lost
      BY <1>a, <3>4 DEF Link!HostForwards, Shells
    <3>5. CASE shell' = shell
      BY <3>5
    <3> QED
      BY <3>1, <3>2, <3>3, <3>4, <3>5 DEF Link!Next, Link!Connected, Link!Receive, Link!TakeRequest,
         Link!WriteRequest, Link!TaskEnds, Link!Ask, Link!Subscribe, Link!SubscribeAgain, Link!Unsubscribe,
         Link!StreamStarts, Link!Type, Link!Handle, Link!Swap, Link!TakePush, Link!TakeEvent, Link!WriteDown,
         Link!ConnectionEnds, Link!BridgeTakes, Link!BridgeSends, Link!Break
  <2>6. Link!LostAtMost(tab.got, shell'.lost)
    BY <2>1, <2>2, <2>5, HeardStays
  <2> QED
    BY <1>b, <2>3, <2>4, <2>6
<1> QED
  BY <1>1, <1>2

-----------------------------------------------------------------------------
(* The theorems.                                                           *)

LEMMA ConnStep ==
  ASSUME Link!ConnectionConstants, ConnInv, Link!Next
  PROVE  ConnInv'
BY TypesStep, EndsStep, RequestsStep, ApprovalsStep, PipeStep, HeardStep DEF ConnInv

LEMMA ConnTruth ==
  ASSUME Link!ConnectionConstants, ConnInv
  PROVE  Link!TypeOK /\ Link!PushesArrive
<1>0. ConnTypes /\ Ends /\ Requests /\ Approvals /\ Pipe
  BY DEF ConnInv
<1>1. Link!TypeOK
  <2>1. \A i \in DOMAIN tab.got : tab.got[i] \in Link!Frames
    <3>1. tab.got \in Seq(Link!Frames)
      BY <1>0, Fields
    <3> QED
      BY <3>1
  <2>2. Len(daemon.out) <= 1
    <3>1. Len(daemon.out) = 0 \/ Len(daemon.out) = 1
      BY <1>0, Fields, Empty DEF Ends
    <3>2. \A n \in {0, 1} : n <= 1
      OBVIOUS
    <3> QED
      BY <3>1, <3>2
  <2>3. asked \in [Link!Waited -> {"no", "asked", "ok", "error"}]
    BY <1>0 DEF ConnTypes, Outcomes
  <2>4. owner.got \subseteq 1 .. MaxEvents
    BY <1>0, Fields
  <2>5. \A b \in DOMAIN bridges : Len(bridges[b].host) <= ChannelRoom /\ Len(bridges[b].chan) <= ChannelRoom
    BY <1>0, FieldsOfBridges DEF Channel
  <2> QED
    BY <1>0, <2>1, <2>2, <2>3, <2>4, <2>5, Fields DEF Link!TypeOK, Ends
<1>2. Link!PushesArrive
  <2>1. asked["again"] = "no" => Link!LostAtMost(tab.got, shell.lost)
    BY DEF ConnInv
  <2>2. ASSUME Link!Quiet, asked["sub"] = "ok", asked["again"] = "no"
        PROVE  /\ tab.got # <<>> /\ tab.got[Len(tab.got)].n = shell.frames
               /\ shell.told => tab.got[Len(tab.got)].kind = "closed"
    <3>1. wire.open /\ "sub" \in Link!Waited
      BY <2>2 DEF Link!Quiet, Link!Waited
    <3>2. Handled("sub")
      BY <1>0, <2>2, <3>1 DEF Requests, Request
    <3>3. Flows /\ bridges \in Seq(Bridges) /\ Len(bridges) = One("sub") + One("again")
      BY <1>0, <2>2, <3>1, <3>2 DEF Pipe, Requests, ConnTypes
    <3>4. One("sub") = 1 /\ One("again") = 0
      BY <2>2, <3>2 DEF One, Handled
    <3>5. 1 \in DOMAIN bridges /\ bridges[1].on
      BY <3>3, <3>4 DEF Flows
    <3>6. bridges[1].hold = <<>> /\ bridges[1].chan = <<>> /\ bridges[1].host = <<>>
      BY <2>2, <3>5 DEF Link!Quiet, Link!LiveBridges
    <3>7. daemon.out = <<>> /\ wire.down = <<>> /\ pushq = <<>>
      BY <1>0, <2>2 DEF Link!Quiet, Ends
    <3>8. Way[1] = tab.got /\ \A j \in Stations : j # 1 => Pushes(Way[j]) = {}
      BY <1>0, <3>5, <3>6, <3>7, WayIs, NoPushes
    <3>9. shell.frames \in Nat /\ shell.told \in BOOLEAN /\ tab.got \in Seq(Link!Frames)
      BY <1>0, Fields DEF Link!ConnectionConstants
    <3>10. PICK first \in 0 .. shell.frames : Flow(Way, shell.lost, first, shell.frames, shell.told)
      BY <3>3 DEF Flows
    <3>11. Way[1] \in Seq(Link!Frames)
      BY <3>8, <3>9
    <3>12. Way[1] # <<>> /\ Way[1][Len(Way[1])].n = shell.frames
           /\ (shell.told => Way[1][Len(Way[1])].kind = "closed")
      BY <3>8, <3>9, <3>10, <3>11, FlowEnds
    <3> QED
      BY <3>8, <3>12
  <2>3. ASSUME Link!Quiet, asked["list"] = "ok", ~events.lagged
        PROVE  owner.got = 1 .. shell.announced
    <3>1. /\ wire.open /\ "list" \in Link!Waited
          /\ daemon.out = <<>> /\ wire.down = <<>> /\ events.waiting = <<>>
      BY <1>0, <2>3 DEF Link!Quiet, Link!Waited, Ends
    <3>2. Handled("list")
      BY <1>0, <2>3, <3>1 DEF Requests, Request
    <3>3. Known \subseteq 1 .. shell.announced /\ 1 .. shell.announced \subseteq Known
      BY <1>0, <2>3, <3>1, <3>2 DEF Approvals
    <3>4. Items(<<>>) = {}
      BY DEF Items
    <3>5. Known = owner.got
      BY <3>1, <3>4, Single DEF Known
    <3> QED
      BY <3>3, <3>5
  <2> QED
    BY <2>1, <2>2, <2>3 DEF Link!PushesArrive
<1> QED
  BY <1>1, <1>2

LEMMA ConnAlways ==
  ASSUME Link!ConnectionConstants
  PROVE  Link!Spec => []ConnInv
<1>1. Link!Init => ConnInv
  BY ConnInitial
<1>2. ConnInv /\ [Link!Next]_(Link!vars) => ConnInv'
  <2>1. ASSUME ConnInv, UNCHANGED Link!vars PROVE ConnInv'
    <3>0. /\ wire' = wire /\ client' = client /\ asked' = asked /\ tab' = tab /\ owner' = owner
          /\ daemon' = daemon /\ bridges' = bridges /\ pushq' = pushq /\ events' = events
          /\ shell' = shell
      BY <2>1 DEF Link!vars
    <3>1. ConnTypes' /\ Ends'
      BY <2>1, <3>0 DEF ConnInv, ConnTypes, Ends
    <3>2. \A r \in Link!Waited : /\ Request(r)' = Request(r) /\ Handled(r)' = Handled(r)
                                 /\ One(r)' = One(r)
      BY <3>0 DEF Request, Handled, One, Coming, Writes, In, Lone, Tells
    <3>3. Requests'
      BY <2>1, <3>0, <3>2 DEF ConnInv, Requests, Link!Waited
    <3>4. Approvals'
      <4>1. Known' = Known
        BY <3>0, KnownNext DEF Known
      <4> QED
        BY <2>1, <3>0, <3>2, <4>1 DEF ConnInv, Approvals, Link!Waited
    <3>5. Pipe'
      <4>1. Ready' = Ready /\ Silent' = Silent
        BY <3>0 DEF Ready, Silent, Pushes
      <4>2. Flows' = Flows
        <5>1. Way' = Way
          BY <3>0 DEF Way
        <5> QED
          BY <3>0, <5>1 DEF Flows
      <4> QED
        BY <2>1, <3>0, <3>2, <4>1, <4>2 DEF ConnInv, Pipe, Link!Waited
    <3> QED
      BY <2>1, <3>0, <3>1, <3>3, <3>4, <3>5 DEF ConnInv, Link!LostAtMost, Link!Heard, Link!Places, Link!Place
  <2> QED
    BY <2>1, ConnStep
<1> QED
  BY <1>1, <1>2, PTL DEF Link!Spec

\* The variables keep their types and the bounded queues their bounds.
THEOREM ConnectionTypes ==
  ASSUME Link!ConnectionConstants
  PROVE  Link!Spec => []Link!TypeOK
<1>1. ConnInv => Link!TypeOK
  BY ConnTruth
<1> QED
  BY <1>1, ConnAlways, PTL

\* Over a living connection an item pushed is missed only if it was the oldest of a full
\* channel: what reaches a tab is in order and once, whatever it does not hear was dropped by
\* an overflow, the last frame and the end of the session never are, and every approval comes
\* through unless the receiver lagged (ws_server.rs, vida-client's registry, push.rs:92-103).
\* For every capacity of the channels and the queues and any number of frames.
THEOREM OnlyOverflowsMiss ==
  ASSUME Link!ConnectionConstants
  PROVE  Link!Spec => []Link!PushesArrive
<1>1. ConnInv => Link!PushesArrive
  BY ConnTruth
<1> QED
  BY <1>1, ConnAlways, PTL
=============================================================================
