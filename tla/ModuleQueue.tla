----------------------------- MODULE ModuleQueue -----------------------------
(***************************************************************************)
(* The message stream from the cluster manager to one of its modules:      *)
(* ClusterManager::Module with its blockers and blocked messages, and the  *)
(* MessageQueue in shared memory behind it.                                *)
(*                                                                         *)
(* An AddObject whose object has yet to be fetched from a remote hub is    *)
(* sent as a blocker: it and everything after it wait in blockedMessages.  *)
(* When the object has arrived, a receive thread of the DataManager calls  *)
(* unblock, in an order of its own.  Messages are numbered in the order in *)
(* which the main thread sends them.                                       *)
(***************************************************************************)
EXTENDS Naturals, Sequences

CONSTANTS
  NumMsgs,     \* bound: number of messages sent to the module
  Blockers,    \* the messages that are AddObject blockers
  Uuid,        \* the uuid of a message
  Capacity     \* messages that fit into the queue in shared memory

Msgs == 1..NumMsgs

ASSUME QueueAssumption ==
  /\ NumMsgs \in Nat
  /\ Blockers \subseteq Msgs
  /\ Capacity \in Nat \ {0}

(* Messages to the module have distinct uuids.  This holds as long as no   *)
(* output is connected to two input ports of the module, see README.       *)
UuidsDiffer == \A m, n \in Msgs : Uuid[m] = Uuid[n] => m = n

VARIABLES
  sent,             \* number of messages the main thread has sent
  blocking,         \* main thread: between block() and send() of a blocker
  blocked,          \* Module::blocked
  blockers,         \* Module::blockers
  blockedMessages,  \* Module::blockedMessages
  queue,            \* MessageQueue::m_queue
  mq,               \* the boost message queue
  received,         \* what the module has received
  unblocked         \* blockers for which unblock has been called

vars == <<sent, blocking, blocked, blockers, blockedMessages, queue, mq, received, unblocked>>

(* A message in transit: the message, and whether it carries its object.   *)
Message(m, ready) == [id |-> m, ready |-> ready]
IsSame(m, n) == Uuid[m] = Uuid[n]

(* Fault: the capacity is not looked at.                                   *)
FitsAlways(out) == Len(out)
Fits(out) == IF Capacity - Len(mq) < Len(out) THEN Capacity - Len(mq) ELSE Len(out)

(* Fault: new messages overtake those that wait in m_queue.                *)
SendOvertaking(msgs) ==
  LET out == msgs \o queue
  IN  mq' = mq \o SubSeq(out, 1, Fits(out)) /\ queue' = SubSeq(out, Fits(out) + 1, Len(out))
(* MessageQueue::send of a sequence of messages, each with its progress(). *)
SendToQueue(msgs) ==
  LET out == queue \o msgs
  IN  /\ mq' = mq \o SubSeq(out, 1, Fits(out))
      /\ queue' = SubSeq(out, Fits(out) + 1, Len(out))

(* The first place in s of a message that is the same as m.                *)
FirstSame(s, m) ==
  CHOOSE i \in DOMAIN s : IsSame(s[i], m) /\ \A j \in 1..(i - 1) : ~IsSame(s[j], m)

Ids(s) == [i \in DOMAIN s |-> s[i].id]
-----------------------------------------------------------------------------
(* sendMessage of a blocker: mod.block(addObj), then mod.send(message).    *)
Block ==
  /\ ~blocking /\ sent + 1 \in Blockers
  /\ blocking' = TRUE
  /\ blocked' = TRUE
  /\ blockers' = Append(blockers, sent + 1)
  /\ UNCHANGED <<sent, blockedMessages, queue, mq, received, unblocked>>

Send ==
  /\ sent < NumMsgs
  /\ sent + 1 \in Blockers => blocking
  /\ LET m == Message(sent + 1, sent + 1 \notin Blockers)
     IN  IF blocked
         THEN /\ blockedMessages' = Append(blockedMessages, m)
              /\ UNCHANGED <<queue, mq>>
         ELSE /\ SendToQueue(<<m>>)
              /\ UNCHANGED blockedMessages
  /\ sent' = sent + 1
  /\ blocking' = FALSE
  /\ UNCHANGED <<blocked, blockers, received, unblocked>>

(* The number of messages in s before the first that is the same as m.     *)
Before(s, m) ==
  CHOOSE k \in 0..Len(s) :
    /\ \A i \in 1..k : ~IsSame(s[i].id, m)
    /\ k < Len(s) => IsSame(s[k + 1].id, m)

(* Faults: what follows the blocker is not sent; it is not sent when no    *)
(* other blocker is left.                                                  *)
FlushedNone(s, more) == 0
FlushedToBlocker(s, more) == IF more = <<>> THEN 0 ELSE Before(s, Head(more))

(* How many of the messages s go out when the blockers in more are left.   *)
Flushed(s, more) == IF more = <<>> THEN Len(s) ELSE Before(s, Head(more))

(* unblock of the frontmost blocker: it goes out with its object, and so   *)
(* does everything up to the next blocker.                                 *)
UnblockFront(m) ==
  LET rest == Tail(blockedMessages)
      more == Tail(blockers)
      k    == Flushed(rest, more)
  IN  /\ blockers' = more
      /\ blocked' = (more # <<>>)
      /\ SendToQueue(<<Message(m, TRUE)>> \o SubSeq(rest, 1, k))
      /\ blockedMessages' = SubSeq(rest, k + 1, Len(rest))

(* unblock of another one: its message is updated in its place.            *)
UnblockLater(m) ==
  LET b == FirstSame(blockers, m)
      i == FirstSame(Ids(blockedMessages), m)
  IN  /\ blockers' = SubSeq(blockers, 1, b - 1) \o SubSeq(blockers, b + 1, Len(blockers))
      /\ blockedMessages' = [blockedMessages EXCEPT ![i] = Message(m, TRUE)]
      /\ UNCHANGED <<blocked, queue, mq>>

(* The completion handler of a blocker: only once its object was requested, *)
(* which is after it was sent.                                             *)
Unblock(m) ==
  /\ m <= sent /\ m \notin unblocked
  /\ IF IsSame(Head(blockers), m) THEN UnblockFront(m) ELSE UnblockLater(m)
  /\ unblocked' = unblocked \cup {m}
  /\ UNCHANGED <<sent, blocking, received>>

(* Module::update, from the dispatch loop: progress() of the queue.        *)
Update ==
  /\ queue # <<>> /\ Len(mq) < Capacity
  /\ SendToQueue(<<>>)
  /\ UNCHANGED <<sent, blocking, blocked, blockers, blockedMessages, received, unblocked>>

Receive ==
  /\ mq # <<>>
  /\ received' = Append(received, Head(mq))
  /\ mq' = Tail(mq)
  /\ UNCHANGED <<sent, blocking, blocked, blockers, blockedMessages, queue, unblocked>>
-----------------------------------------------------------------------------
Init ==
  /\ sent = 0 /\ blocking = FALSE
  /\ blocked = FALSE /\ blockers = <<>> /\ blockedMessages = <<>>
  /\ queue = <<>> /\ mq = <<>> /\ received = <<>>
  /\ unblocked = {}

Next ==
  \/ Block \/ Send
  \/ \E m \in Blockers : Unblock(m)
  \/ Update \/ Receive

(* Requested objects arrive, the manager dispatches, the module receives.  *)
Spec == Init /\ [][Next]_vars
FairSpec ==
  /\ Spec
  /\ \A m \in Blockers : WF_vars(Unblock(m))
  /\ WF_vars(Update) /\ WF_vars(Receive) /\ WF_vars(blocking /\ Send)
-----------------------------------------------------------------------------
InTransit == [id : Msgs, ready : BOOLEAN]

TypeOK ==
  /\ sent \in 0..NumMsgs /\ blocking \in BOOLEAN /\ blocked \in BOOLEAN
  /\ blockers \in Seq(Blockers)
  /\ blockedMessages \in Seq(InTransit)
  /\ queue \in Seq(InTransit) /\ mq \in Seq(InTransit) /\ received \in Seq(InTransit)
  /\ unblocked \subseteq Blockers
  /\ Len(mq) <= Capacity

(* The module receives its messages in the order they were sent, each one  *)
(* with the object it announces, although objects arrive in any order and  *)
(* the queue in shared memory may be full (Module::unblock).               *)
InOrder ==
  \A i \in 1..Len(received) : received[i] = Message(i, TRUE)

(* The assertions of unblock: there is a blocker, and where a message is   *)
(* updated or sent, it is the one of the blocker.                          *)
UnblockFindsMessage ==
  \A m \in Blockers \ unblocked : m <= sent =>
    /\ blocked /\ blockers # <<>> /\ blockedMessages # <<>>
    /\ \E b \in DOMAIN blockers : IsSame(blockers[b], m)
    /\ \E i \in DOMAIN blockedMessages : IsSame(blockedMessages[i].id, m)
    /\ IsSame(Head(blockers), m) => IsSame(Head(blockedMessages).id, m)

(* Nothing that was sent stays behind once the objects have arrived.       *)
AllReceived == \A m \in Msgs : sent >= m ~> Len(received) >= m
=============================================================================
