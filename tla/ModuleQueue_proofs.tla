------------------------- MODULE ModuleQueue_proofs -------------------------
(***************************************************************************)
(* A module receives its messages in order (InOrder), for any number of    *)
(* messages, any blockers and any capacity, provided that the uuids of the *)
(* messages differ.                                                        *)
(*                                                                         *)
(* The messages sent are always, in this order, those received, those in   *)
(* mq, in queue and in blockedMessages.  What has left blockedMessages has *)
(* its object; what is in there lacks it exactly if it is among the        *)
(* blockers, of which the first one is at the front of blockedMessages.    *)
(***************************************************************************)
EXTENDS ModuleQueue, SequenceTheorems, TLAPS

(* Number of messages that have left blockedMessages.                      *)
Gone == sent - Len(blockedMessages)

(* s holds the messages after the first n, with their objects.             *)
Stream(s, n) == \A i \in 1..Len(s) : s[i] = Message(n + i, TRUE)

IsBlocker(m) == \E j \in 1..Len(blockers) : blockers[j] = m

(* The messages that left blockedMessages are received, in mq or in queue. *)
OutInOrder ==
  /\ Gone = Len(received) + Len(mq) + Len(queue)
  /\ Stream(received, 0)
  /\ Stream(mq, Len(received))
  /\ Stream(queue, Len(received) + Len(mq))

HeldInOrder ==
  \A i \in 1..Len(blockedMessages) :
    blockedMessages[i] = Message(Gone + i, ~IsBlocker(Gone + i))

(* The blockers are those whose object has not arrived, in order.          *)
BlockersInOrder ==
  /\ \A i, j \in 1..Len(blockers) : i < j => blockers[i] < blockers[j]
  /\ \A m \in Blockers : IsBlocker(m) <=>
       m \notin unblocked /\ (m <= sent \/ (blocking /\ m = sent + 1))

FrontIsBlocker ==
  /\ blocked <=> blockers # <<>>
  /\ blockers # <<>> => blockers[1] = Gone + 1
  /\ blockers = <<>> => blockedMessages = <<>>

BlockingNext ==
  /\ blocking => sent + 1 \in Blockers
  /\ \A m \in unblocked : m <= sent

IInv ==
  /\ TypeOK
  /\ OutInOrder /\ HeldInOrder /\ BlockersInOrder /\ FrontIsBlocker /\ BlockingNext
-----------------------------------------------------------------------------
USE DEF Message

(* How many messages of out fit into mq.                                   *)
LEMMA FitsBound ==
  ASSUME TypeOK, NEW out \in Seq(InTransit)
  PROVE  /\ Fits(out) \in 0..Len(out)
         /\ Len(mq) + Fits(out) <= Capacity
BY QueueAssumption DEF TypeOK, Fits

(* Concatenation, tail and cuts of streams.                                *)
LEMMA StreamConcat ==
  ASSUME NEW s \in Seq(InTransit), NEW u \in Seq(InTransit), NEW n \in Nat,
         Stream(s, n), Stream(u, n + Len(s))
  PROVE  Stream(s \o u, n)
<1>1. /\ Len(s \o u) = Len(s) + Len(u)
      /\ \A i \in 1..(Len(s) + Len(u)) : (s \o u)[i] = IF i <= Len(s) THEN s[i] ELSE u[i - Len(s)]
  BY ConcatProperties
<1> Len(s) \in Nat /\ Len(u) \in Nat
  BY LenProperties
<1>2. ASSUME NEW i \in 1..(Len(s) + Len(u))
      PROVE  (s \o u)[i] = Message(n + i, TRUE)
  <2>1. CASE i <= Len(s)
    <3>1. i \in 1..Len(s)
      BY <2>1
    <3> QED BY <1>1, <2>1, <3>1 DEF Stream
  <2>2. CASE i > Len(s)
    <3>1. i - Len(s) \in 1..Len(u)
      BY <2>2
    <3>2. (s \o u)[i] = u[i - Len(s)]
      BY <1>1, <2>2
    <3>3. \A j \in 1..Len(u) : u[j] = Message(n + Len(s) + j, TRUE)
      BY DEF Stream
    <3>4. n + Len(s) + (i - Len(s)) = n + i
      OBVIOUS
    <3> QED BY <3>1, <3>2, <3>3, <3>4
  <2> QED BY <2>1, <2>2
<1> QED BY <1>1, <1>2 DEF Stream

LEMMA StreamCut ==
  ASSUME NEW s \in Seq(InTransit), NEW n \in Nat, Stream(s, n), NEW k \in 0..Len(s)
  PROVE  /\ SubSeq(s, 1, k) \in Seq(InTransit) /\ Len(SubSeq(s, 1, k)) = k
         /\ SubSeq(s, k + 1, Len(s)) \in Seq(InTransit)
         /\ Len(SubSeq(s, k + 1, Len(s))) = Len(s) - k
         /\ Stream(SubSeq(s, 1, k), n)
         /\ Stream(SubSeq(s, k + 1, Len(s)), n + k)
<1> DEFINE L == Len(s)
           a == SubSeq(s, 1, k)
           b == SubSeq(s, k + 1, L)
<1>1. L \in Nat /\ \A i \in 1..L : s[i] \in InTransit
  BY ElementOfSeq, LenProperties
<1> HIDE DEF L
<1>2. a \in Seq(InTransit) /\ Len(a) = k /\ \A i \in 1..k : a[i] = s[i]
  <2>1. \A i \in 1..k : s[i] \in InTransit
    BY <1>1 DEF L
  <2> QED BY <1>1, <2>1, SubSeqProperties DEF L
<1>3. b \in Seq(InTransit) /\ Len(b) = L - k /\ \A i \in 1..(L - k) : b[i] = s[k + i]
  <2>1. k + 1 \in Int /\ L \in Int /\ \A i \in (k + 1)..L : s[i] \in InTransit
    BY <1>1 DEF L
  <2>2. /\ b \in Seq(InTransit)
        /\ Len(b) = IF k + 1 <= L THEN L - (k + 1) + 1 ELSE 0
        /\ \A i \in 1..(L - (k + 1) + 1) : b[i] = s[(k + 1) + i - 1]
    BY <2>1, SubSeqProperties
  <2> HIDE DEF b
  <2>3. k \in 0..L
    BY DEF L
  <2>4. /\ (IF k + 1 <= L THEN L - (k + 1) + 1 ELSE 0) = L - k
        /\ L - (k + 1) + 1 = L - k
        /\ \A i \in 1..(L - k) : (k + 1) + i - 1 = k + i
    BY <1>1, <2>3
  <2> QED BY <2>2, <2>4
<1> HIDE DEF a, b
<1>4. ASSUME NEW i \in 1..(L - k)
      PROVE  s[k + i] = Message(n + k + i, TRUE)
  <2>1. k + i \in 1..L /\ n + (k + i) = n + k + i
    BY <1>1 DEF L
  <2> QED BY <2>1 DEF Stream, L
<1>5. Stream(a, n)
  <2>1. \A i \in 1..k : i \in 1..L
    BY <1>1 DEF L
  <2> QED BY <1>2, <2>1 DEF Stream, L
<1>6. Stream(b, n + k)
  BY <1>3, <1>4 DEF Stream
<1> QED BY <1>2, <1>3, <1>5, <1>6 DEF L, a, b

(* A stream handed to the queue continues the stream of what is out.       *)
LEMMA SendToQueueInOrder ==
  ASSUME TypeOK, NEW g \in Nat, g = Len(received) + Len(mq) + Len(queue),
         Stream(mq, Len(received)), Stream(queue, Len(received) + Len(mq)),
         NEW msgs \in Seq(InTransit), Stream(msgs, g),
         SendToQueue(msgs), received' = received
  PROVE  /\ mq' \in Seq(InTransit) /\ queue' \in Seq(InTransit) /\ Len(mq') <= Capacity
         /\ Len(received') + Len(mq') + Len(queue') = g + Len(msgs)
         /\ Stream(mq', Len(received'))
         /\ Stream(queue', Len(received') + Len(mq'))
<1> DEFINE out == queue \o msgs
           r == Len(received)
           n == r + Len(mq)
           k == Fits(out)
<1>1. /\ r \in Nat /\ Len(mq) \in Nat /\ Len(queue) \in Nat /\ Len(msgs) \in Nat
      /\ mq \in Seq(InTransit) /\ queue \in Seq(InTransit) /\ received \in Seq(InTransit)
      /\ n \in Nat /\ n + Len(queue) = g
  BY DEF TypeOK
<1>2. out \in Seq(InTransit) /\ Len(out) = Len(queue) + Len(msgs)
  BY <1>1, ConcatProperties
<1>3. k \in 0..Len(out) /\ Len(mq) + k <= Capacity
  BY <1>2, FitsBound
<1>4. mq' = mq \o SubSeq(out, 1, k) /\ queue' = SubSeq(out, k + 1, Len(out))
  BY DEF SendToQueue
<1>5. Stream(mq, r) /\ Stream(queue, n) /\ Stream(msgs, n + Len(queue))
  BY <1>1
<1> HIDE DEF n
<1>6. Stream(out, n)
  BY <1>1, <1>5, StreamConcat
<1> HIDE DEF out, k
<1>7. /\ SubSeq(out, 1, k) \in Seq(InTransit) /\ Len(SubSeq(out, 1, k)) = k
      /\ SubSeq(out, k + 1, Len(out)) \in Seq(InTransit)
      /\ Len(SubSeq(out, k + 1, Len(out))) = Len(out) - k
      /\ Stream(SubSeq(out, 1, k), n)
      /\ Stream(SubSeq(out, k + 1, Len(out)), n + k)
  BY <1>1, <1>2, <1>3, <1>6, StreamCut
<1>8. mq' \in Seq(InTransit) /\ Len(mq') = Len(mq) + k
  <2> DEFINE sub == SubSeq(out, 1, k)
  <2>1. sub \in Seq(InTransit) /\ Len(sub) = k /\ mq' = mq \o sub /\ mq \in Seq(InTransit)
    BY <1>1, <1>4, <1>7
  <2> HIDE DEF sub
  <2> QED BY <2>1, ConcatProperties
<1>9. Stream(mq', r)
  BY <1>1, <1>4, <1>5, <1>7, StreamConcat DEF n
<1>10. Stream(queue', r + Len(mq'))
  <2>1. n + k = r + Len(mq')
    BY <1>1, <1>3, <1>8 DEF n
  <2> QED BY <1>4, <1>7, <2>1
<1>11. Len(received') + Len(mq') + Len(queue') = g + Len(msgs)
  <2>1. Len(queue') = Len(out) - k
    BY <1>4, <1>7
  <2>2. Len(out) \in Nat /\ k \in Nat
    BY <1>1, <1>2, <1>3
  <2>3. Len(received') = r
    OBVIOUS
  <2> HIDE DEF r
  <2> QED BY <1>1, <1>2, <1>8, <2>1, <2>2, <2>3 DEF n
<1>12. Len(mq') <= Capacity
  BY <1>3, <1>8
<1>13. received' = received
  OBVIOUS
<1> QED BY <1>4, <1>7, <1>8, <1>9, <1>10, <1>11, <1>12, <1>13
-----------------------------------------------------------------------------
(* Blockers are message numbers.                                           *)
LEMMA BlockersNat == \A m \in Blockers : m \in Nat /\ m \in Msgs /\ m >= 1
BY QueueAssumption DEF Msgs

(* IInv holds while nothing has been sent.                                 *)
LEMMA InitIInv == Init => IInv
<1> SUFFICES ASSUME Init PROVE IInv
  OBVIOUS
<1>1. /\ sent = 0 /\ blocking = FALSE /\ blocked = FALSE /\ unblocked = {}
      /\ blockers = <<>> /\ blockedMessages = <<>>
      /\ queue = <<>> /\ mq = <<>> /\ received = <<>>
  BY DEF Init
<1>2. \A S : <<>> \in Seq(S) /\ Len(<<>>) = 0
  BY EmptySeq
<1>3. /\ Len(blockers) = 0 /\ Len(blockedMessages) = 0
      /\ Len(queue) = 0 /\ Len(mq) = 0 /\ Len(received) = 0
  BY <1>1, <1>2
<1>4. sent = 0 /\ blocking = FALSE /\ blocked = FALSE
  BY <1>1
<1>5. TypeOK
  <2>1. sent \in 0..NumMsgs /\ Len(mq) <= Capacity
    <3>1. sent = 0 /\ Len(mq) = 0
      BY <1>3, <1>4
    <3> QED BY <3>1, QueueAssumption
  <2>4. blocking \in BOOLEAN /\ blocked \in BOOLEAN
    BY <1>4
  <2>2. blockers \in Seq(Blockers) /\ unblocked \subseteq Blockers
    BY <1>1, <1>2
  <2>3. /\ blockedMessages \in Seq(InTransit)
        /\ queue \in Seq(InTransit) /\ mq \in Seq(InTransit) /\ received \in Seq(InTransit)
    BY <1>1, <1>2
  <2> QED BY <2>1, <2>2, <2>3, <2>4 DEF TypeOK
<1>6. Gone = 0
  BY <1>3, <1>4 DEF Gone
<1>7. OutInOrder
  BY <1>3, <1>6 DEF OutInOrder, Stream
<1>8. HeldInOrder
  BY <1>3 DEF HeldInOrder
<1>9. FrontIsBlocker /\ BlockingNext
  BY <1>1 DEF FrontIsBlocker, BlockingNext
<1>10. BlockersInOrder
  <2>1. \A m \in Blockers : ~IsBlocker(m) /\ ~(m <= sent) /\ ~blocking
    BY <1>3, <1>4, BlockersNat DEF IsBlocker
  <2> QED BY <1>3, <2>1 DEF BlockersInOrder
<1> QED BY <1>5, <1>7, <1>8, <1>9, <1>10 DEF IInv

(* A blocker is a message that was sent, or the one being sent.            *)
LEMMA BlockerRange ==
  ASSUME IInv, NEW j \in 1..Len(blockers)
  PROVE  /\ blockers[j] \in Blockers /\ blockers[j] \notin unblocked
         /\ blockers[j] <= sent + 1
         /\ ~blocking => blockers[j] <= sent
<1>1. blockers[j] \in Blockers
  BY ElementOfSeq DEF IInv, TypeOK
<1>2. IsBlocker(blockers[j])
  BY DEF IsBlocker
<1>3. blockers[j] \in Nat /\ sent \in Nat
  BY <1>1, BlockersNat, QueueAssumption DEF IInv, TypeOK
<1> QED BY <1>1, <1>2, <1>3 DEF IInv, BlockersInOrder

(* block() adds the message being sent as the last blocker.                *)
LEMMA BlockIInv == IInv /\ Block => IInv'
<1> SUFFICES ASSUME IInv, Block PROVE IInv'
  OBVIOUS
<1>1. /\ ~blocking /\ sent + 1 \in Blockers /\ blocking' = TRUE /\ blocked' = TRUE
      /\ blockers' = Append(blockers, sent + 1)
      /\ UNCHANGED <<sent, blockedMessages, queue, mq, received, unblocked>>
  BY DEF Block
<1>2. /\ blockers \in Seq(Blockers) /\ sent \in Nat /\ sent \in 0..NumMsgs /\ unblocked \subseteq Blockers
      /\ Blockers \subseteq Nat /\ Len(blockers) \in Nat /\ Len(blockedMessages) \in Nat
      /\ blockedMessages \in Seq(InTransit)
  BY QueueAssumption DEF IInv, TypeOK, Msgs
<1>3. /\ blockers' \in Seq(Blockers) /\ blockers' # <<>>
      /\ Len(blockers') = Len(blockers) + 1
      /\ \A i \in 1..Len(blockers) : blockers'[i] = blockers[i]
      /\ blockers'[Len(blockers) + 1] = sent + 1
  BY <1>1, <1>2, AppendProperties
<1>4. \A m \in Nat : IsBlocker(m)' <=> IsBlocker(m) \/ m = sent + 1
  <2> DEFINE N == Len(blockers)
  <2>1. N \in Nat /\ Len(blockers') = N + 1
    BY <1>2, <1>3
  <2>2. (\A i \in 1..N : blockers'[i] = blockers[i]) /\ blockers'[N + 1] = sent + 1
    BY <1>3
  <2> HIDE DEF N
  <2>3. \A m : (\E j \in 1..(N + 1) : blockers'[j] = m) <=>
               (\E j \in 1..N : blockers[j] = m) \/ m = sent + 1
    <3>1. 1..(N + 1) = 1..N \cup {N + 1}
      BY <2>1
    <3> QED BY <2>2, <3>1
  <2> QED BY <2>1, <2>3 DEF IsBlocker, N
<1>5. TypeOK'
  BY <1>1, <1>3 DEF IInv, TypeOK
<1>6. OutInOrder'
  BY <1>1 DEF IInv, OutInOrder, Stream, Gone
<1>7. HeldInOrder'
  <2>1. ASSUME NEW i \in 1..Len(blockedMessages)
        PROVE  Gone + i \in Nat /\ Gone + i <= sent
    <3>1. Gone \in Nat
      BY <1>2 DEF IInv, OutInOrder, TypeOK
    <3> QED BY <1>2, <3>1 DEF Gone
  <2>2. \A i \in 1..Len(blockedMessages) : IsBlocker(Gone + i)' <=> IsBlocker(Gone + i)
    <3> TAKE i \in 1..Len(blockedMessages)
    <3>1. Gone + i \in Nat /\ Gone + i # sent + 1 /\ Gone' = Gone
      BY <1>1, <1>2, <2>1 DEF Gone
    <3> QED BY <1>4, <3>1
  <2> QED BY <1>1, <2>2 DEF IInv, HeldInOrder, Gone
<1>8. BlockersInOrder'
  <2>1. \A i, j \in 1..Len(blockers') : i < j => blockers'[i] < blockers'[j]
    <3> SUFFICES ASSUME NEW i \in 1..Len(blockers'), NEW j \in 1..Len(blockers'), i < j
                 PROVE  blockers'[i] < blockers'[j]
      OBVIOUS
    <3>1. i \in 1..Len(blockers) /\ blockers[i] \in Nat /\ blockers[i] <= sent
      <4>1. i \in 1..Len(blockers)
        BY <1>2, <1>3
      <4> QED BY <1>1, <1>2, <4>1, BlockerRange
    <3>2. CASE j = Len(blockers) + 1
      BY <1>2, <1>3, <3>1, <3>2
    <3>3. CASE j # Len(blockers) + 1
      <4>1. j \in 1..Len(blockers)
        <5>1. Len(blockers') = Len(blockers) + 1 /\ Len(blockers) \in Nat
          BY <1>2, <1>3
        <5> QED BY <3>3, <5>1
      <4> QED BY <1>3, <3>1, <4>1 DEF IInv, BlockersInOrder
    <3> QED BY <3>2, <3>3
  <2>2. sent + 1 \notin unblocked
    BY <1>2 DEF IInv, BlockingNext
  <2>3. \A m \in Blockers : m \in Nat /\ (IsBlocker(m)' <=> m \notin unblocked /\ (m <= sent \/ m = sent + 1))
    BY <1>1, <1>2, <1>4, <2>2 DEF IInv, BlockersInOrder
  <2> QED BY <1>1, <2>1, <2>3 DEF BlockersInOrder
<1>9. FrontIsBlocker'
  <2>1. CASE blockers = <<>>
    BY <1>1, <1>2, <1>3, <2>1 DEF IInv, FrontIsBlocker, Gone
  <2>2. CASE blockers # <<>>
    <3>1. 1 \in 1..Len(blockers)
      BY <1>2, <2>2, EmptySeq
    <3> QED BY <1>1, <1>3, <2>2, <3>1 DEF IInv, FrontIsBlocker, Gone
  <2> QED BY <2>1, <2>2
<1>10. BlockingNext'
  BY <1>1 DEF IInv, BlockingNext
<1> QED BY <1>5, <1>6, <1>7, <1>8, <1>9, <1>10 DEF IInv

(* A message is held while the module is blocked, and goes out at once      *)
(* while it is not.                                                        *)
LEMMA SendIInv == IInv /\ Send => IInv'
<1> SUFFICES ASSUME IInv, Send PROVE IInv'
  OBVIOUS
<1> DEFINE m == Message(sent + 1, sent + 1 \notin Blockers)
<1>1. /\ sent < NumMsgs /\ (sent + 1 \in Blockers => blocking)
      /\ sent' = sent + 1 /\ blocking' = FALSE
      /\ UNCHANGED <<blocked, blockers, received, unblocked>>
  BY DEF Send
<1>2. /\ NumMsgs \in Nat /\ sent \in Nat /\ sent + 1 \in Msgs
      /\ blockers \in Seq(Blockers) /\ unblocked \subseteq Blockers
      /\ blockedMessages \in Seq(InTransit) /\ Len(blockedMessages) \in Nat
      /\ queue \in Seq(InTransit) /\ mq \in Seq(InTransit) /\ received \in Seq(InTransit)
      /\ Len(queue) \in Nat /\ Len(mq) \in Nat /\ Len(received) \in Nat /\ Len(blockers) \in Nat
  BY <1>1, QueueAssumption DEF IInv, TypeOK, Msgs
<1>3. m \in InTransit
  BY <1>2 DEF InTransit
<1>4. sent + 1 \in Blockers <=> IsBlocker(sent + 1)
  <2>1. ASSUME IsBlocker(sent + 1) PROVE sent + 1 \in Blockers
    BY <2>1, BlockerRange DEF IsBlocker
  <2>2. ASSUME sent + 1 \in Blockers PROVE IsBlocker(sent + 1)
    <3>1. sent + 1 \notin unblocked
      BY <1>2 DEF IInv, BlockingNext
    <3> QED BY <1>1, <2>2, <3>1 DEF IInv, BlockersInOrder
  <2> QED BY <2>1, <2>2
<1>5. sent' \in 0..NumMsgs /\ blocking' \in BOOLEAN
  <2>1. sent' = sent + 1 /\ sent < NumMsgs /\ sent \in Nat /\ NumMsgs \in Nat
    BY <1>1, <1>2
  <2>2. blocking' \in BOOLEAN
    BY <1>1
  <2> QED BY <2>1, <2>2
<1>6. BlockersInOrder'
  <2>1. \A n : IsBlocker(n)' <=> IsBlocker(n)
    BY <1>1 DEF IsBlocker
  <2>2. ASSUME NEW n \in Blockers
        PROVE  IsBlocker(n) <=> n \notin unblocked /\ n <= sent + 1
    <3>1. n \in Nat /\ (n <= sent + 1 <=> n <= sent \/ n = sent + 1)
      BY <1>2, BlockersNat
    <3>2. n = sent + 1 => blocking
      BY <1>1
    <3> QED BY <3>1, <3>2 DEF IInv, BlockersInOrder
  <2> QED BY <1>1, <2>1, <2>2 DEF IInv, BlockersInOrder
<1>7. BlockingNext'
  <2>1. ASSUME NEW n \in unblocked PROVE n <= sent + 1
    BY <1>2, BlockersNat DEF IInv, BlockingNext
  <2> QED BY <1>1, <2>1 DEF BlockingNext
<1>8. CASE blocked
  <2>1. blockedMessages' = Append(blockedMessages, m) /\ UNCHANGED <<queue, mq>>
    BY <1>8 DEF Send
  <2> HIDE DEF m
  <2>2. /\ blockedMessages' \in Seq(InTransit)
        /\ Len(blockedMessages') = Len(blockedMessages) + 1
        /\ \A i \in 1..Len(blockedMessages) : blockedMessages'[i] = blockedMessages[i]
        /\ blockedMessages'[Len(blockedMessages) + 1] = m
    BY <1>2, <1>3, <2>1, AppendProperties
  <2>3. Gone' = Gone /\ Gone \in Nat /\ Gone + Len(blockedMessages) = sent
    <3>1. Gone \in Nat
      BY <1>2 DEF IInv, OutInOrder
    <3> QED BY <1>1, <1>2, <2>2, <3>1 DEF Gone
  <2>4. TypeOK'
    BY <1>1, <1>5, <2>1, <2>2 DEF IInv, TypeOK
  <2>5. OutInOrder'
    BY <1>1, <2>1, <2>3 DEF IInv, OutInOrder, Stream
  <2>6. HeldInOrder'
    <3>1. \A n : IsBlocker(n)' <=> IsBlocker(n)
      BY <1>1 DEF IsBlocker
    <3>2. ASSUME NEW i \in 1..Len(blockedMessages')
          PROVE  blockedMessages'[i] = Message(Gone + i, ~IsBlocker(Gone + i))
      <4>1. CASE i \in 1..Len(blockedMessages)
        BY <2>2, <4>1 DEF IInv, HeldInOrder
      <4>2. CASE i \notin 1..Len(blockedMessages)
        <5>1. i = Len(blockedMessages) + 1 /\ Gone + i = sent + 1
          BY <1>2, <2>2, <2>3, <4>2
        <5> QED BY <1>4, <2>2, <5>1 DEF m
      <4> QED BY <4>1, <4>2
    <3> QED BY <2>3, <3>1, <3>2 DEF HeldInOrder
  <2>7. FrontIsBlocker'
    BY <1>1, <1>8, <2>3 DEF IInv, FrontIsBlocker
  <2> QED BY <1>6, <1>7, <2>4, <2>5, <2>6, <2>7 DEF IInv
<1>9. CASE ~blocked
  <2>1. SendToQueue(<<m>>) /\ blockedMessages' = blockedMessages
    BY <1>9 DEF Send
  <2>2. blockers = <<>> /\ blockedMessages = <<>> /\ Len(blockers) = 0 /\ Len(blockedMessages) = 0
    BY <1>9, EmptySeq DEF IInv, FrontIsBlocker
  <2>3. m = Message(sent + 1, TRUE)
    <3>1. ~IsBlocker(sent + 1)
      BY <2>2 DEF IsBlocker
    <3> QED BY <1>4, <3>1
  <2>4. Gone = sent /\ Gone' = sent + 1
    BY <1>1, <1>2, <2>1, <2>2 DEF Gone
  <2> HIDE DEF m
  <2>5. <<m>> \in Seq(InTransit) /\ Len(<<m>>) = 1 /\ <<m>>[1] = m
    BY <1>3
  <2>6. Stream(<<m>>, sent)
    <3>1. ASSUME NEW i \in 1..Len(<<m>>) PROVE <<m>>[i] = Message(sent + i, TRUE)
      <4>1. i = 1
        BY <2>5
      <4> QED BY <2>3, <2>5, <4>1
    <3> QED BY <3>1 DEF Stream
  <2>7. /\ sent = Len(received) + Len(mq) + Len(queue)
        /\ Stream(received, 0) /\ Stream(mq, Len(received))
        /\ Stream(queue, Len(received) + Len(mq))
    BY <2>4 DEF IInv, OutInOrder
  <2>8. /\ mq' \in Seq(InTransit) /\ queue' \in Seq(InTransit) /\ Len(mq') <= Capacity
        /\ Len(received') + Len(mq') + Len(queue') = sent + 1
        /\ Stream(mq', Len(received'))
        /\ Stream(queue', Len(received') + Len(mq'))
    BY <1>1, <1>2, <2>1, <2>5, <2>6, <2>7, SendToQueueInOrder DEF IInv
  <2>9. TypeOK'
    BY <1>1, <1>5, <2>1, <2>8 DEF IInv, TypeOK
  <2>10. OutInOrder'
    BY <1>1, <2>4, <2>7, <2>8 DEF OutInOrder
  <2>11. HeldInOrder'
    <3>1. 1..Len(blockedMessages') = {}
      BY <2>1, <2>2
    <3> QED BY <3>1 DEF HeldInOrder
  <2>12. FrontIsBlocker'
    BY <1>1, <1>9, <2>1, <2>2 DEF FrontIsBlocker
  <2> QED BY <1>6, <1>7, <2>9, <2>10, <2>11, <2>12 DEF IInv
<1> QED BY <1>8, <1>9

(* What moves from queue to mq stays in order.                             *)
LEMMA UpdateIInv == IInv /\ Update => IInv'
<1> SUFFICES ASSUME IInv, Update PROVE IInv'
  OBVIOUS
<1>1. /\ SendToQueue(<<>>)
      /\ UNCHANGED <<sent, blocking, blocked, blockers, blockedMessages, received, unblocked>>
  BY DEF Update
<1>2. Gone \in Nat /\ Gone' = Gone
  <2>1. Len(received) \in Nat /\ Len(mq) \in Nat /\ Len(queue) \in Nat
    BY DEF IInv, TypeOK
  <2>2. Gone = Len(received) + Len(mq) + Len(queue)
    BY DEF IInv, OutInOrder
  <2>3. Gone' = Gone
    BY <1>1 DEF Gone
  <2> QED BY <2>1, <2>2, <2>3
<1> DEFINE msgs == <<>>
<1>3. msgs \in Seq(InTransit) /\ Len(msgs) = 0 /\ SendToQueue(msgs)
  BY <1>1, EmptySeq
<1> HIDE DEF msgs
<1>4. Stream(msgs, Gone)
  BY <1>3 DEF Stream
<1>5. /\ Gone = Len(received) + Len(mq) + Len(queue)
      /\ Stream(received, 0) /\ Stream(mq, Len(received))
      /\ Stream(queue, Len(received) + Len(mq))
  BY DEF IInv, OutInOrder
<1>6. /\ mq' \in Seq(InTransit) /\ queue' \in Seq(InTransit) /\ Len(mq') <= Capacity
      /\ Len(received') + Len(mq') + Len(queue') = Gone + Len(msgs)
      /\ Stream(mq', Len(received')) /\ Stream(queue', Len(received') + Len(mq'))
  BY <1>1, <1>2, <1>3, <1>4, <1>5, SendToQueueInOrder DEF IInv
<1>7. TypeOK'
  BY <1>1, <1>6 DEF IInv, TypeOK
<1>8. OutInOrder'
  <2>1. Gone + Len(msgs) = Gone
    BY <1>2, <1>3
  <2> QED BY <1>1, <1>2, <1>5, <1>6, <2>1 DEF OutInOrder
<1>9. HeldInOrder' /\ BlockersInOrder' /\ FrontIsBlocker' /\ BlockingNext'
  BY <1>1, <1>2 DEF IInv, HeldInOrder, BlockersInOrder, FrontIsBlocker, BlockingNext, IsBlocker
<1> QED BY <1>7, <1>8, <1>9 DEF IInv

(* The module receives the first message in mq, which is the next in order. *)
LEMMA ReceiveIInv == IInv /\ Receive => IInv'
<1> SUFFICES ASSUME IInv, Receive PROVE IInv'
  OBVIOUS
<1>1. /\ mq # <<>> /\ received' = Append(received, Head(mq)) /\ mq' = Tail(mq)
      /\ UNCHANGED <<sent, blocking, blocked, blockers, blockedMessages, queue, unblocked>>
  BY DEF Receive
<1>2. /\ mq \in Seq(InTransit) /\ received \in Seq(InTransit) /\ Len(queue) \in Nat
      /\ Len(mq) \in Nat /\ Len(received) \in Nat /\ Len(mq) <= Capacity /\ Capacity \in Nat
      /\ Stream(mq, Len(received)) /\ Stream(received, 0)
      /\ Stream(queue, Len(received) + Len(mq))
      /\ Gone = Len(received) + Len(mq) + Len(queue)
  BY QueueAssumption DEF IInv, TypeOK, OutInOrder
<1>3. /\ Head(mq) = mq[1] /\ Head(mq) \in InTransit
      /\ mq' \in Seq(InTransit) /\ Len(mq') = Len(mq) - 1
      /\ \A i \in 1..Len(mq') : mq'[i] = mq[i + 1]
  BY <1>1, <1>2, HeadTailProperties
<1>4. Len(mq) >= 1
  BY <1>1, <1>2, EmptySeq
<1>5. /\ received' \in Seq(InTransit) /\ Len(received') = Len(received) + 1
      /\ \A i \in 1..Len(received) : received'[i] = received[i]
      /\ received'[Len(received) + 1] = mq[1]
  BY <1>1, <1>2, <1>3, AppendProperties
<1>6. TypeOK'
  <2>1. Len(mq') <= Capacity
    BY <1>2, <1>3
  <2> QED BY <1>1, <1>3, <1>5, <2>1 DEF IInv, TypeOK
<1>7. Stream(received', 0)
  <2>1. ASSUME NEW i \in 1..Len(received') PROVE received'[i] = Message(0 + i, TRUE)
    <3>1. CASE i \in 1..Len(received)
      BY <1>2, <1>5, <3>1 DEF Stream
    <3>2. CASE i \notin 1..Len(received)
      <4>1. i = Len(received) + 1 /\ 1 \in 1..Len(mq)
        BY <1>2, <1>4, <1>5, <3>2
      <4>2. mq[1] = Message(Len(received) + 1, TRUE)
        BY <1>2, <4>1 DEF Stream
      <4> QED BY <1>2, <1>5, <4>1, <4>2
    <3> QED BY <3>1, <3>2
  <2> QED BY <2>1 DEF Stream
<1>8. Stream(mq', Len(received'))
  <2>1. ASSUME NEW i \in 1..Len(mq') PROVE mq'[i] = Message(Len(received) + 1 + i, TRUE)
    <3>1. /\ i + 1 \in 1..Len(mq) /\ mq'[i] = mq[i + 1]
          /\ Len(received) + (i + 1) = Len(received) + 1 + i
      BY <1>2, <1>3
    <3>2. mq[i + 1] = Message(Len(received) + (i + 1), TRUE)
      BY <1>2, <3>1 DEF Stream
    <3> QED BY <3>1, <3>2
  <2> QED BY <1>5, <2>1 DEF Stream
<1>9. OutInOrder'
  <2>1. Len(received') + Len(mq') = Len(received) + Len(mq)
    BY <1>2, <1>3, <1>5
  <2>2. Gone' = Gone
    BY <1>1 DEF Gone
  <2> QED BY <1>1, <1>2, <1>7, <1>8, <2>1, <2>2 DEF OutInOrder
<1>10. HeldInOrder' /\ BlockersInOrder' /\ FrontIsBlocker' /\ BlockingNext'
  <2>1. Gone' = Gone
    BY <1>1 DEF Gone
  <2> QED BY <1>1, <2>1
        DEF IInv, HeldInOrder, BlockersInOrder, FrontIsBlocker, BlockingNext, IsBlocker
<1> QED BY <1>6, <1>9, <1>10 DEF IInv
-----------------------------------------------------------------------------
(* While the uuids differ, messages are the same only if they are equal.   *)
LEMMA SameIsEqual ==
  ASSUME UuidsDiffer
  PROVE  \A a, b \in Msgs : IsSame(a, b) <=> a = b
BY DEF UuidsDiffer, IsSame

(* Where m occurs once in a sequence of messages, FirstSame finds it.       *)
LEMMA FirstSameFinds ==
  ASSUME UuidsDiffer, NEW m \in Msgs, NEW s, NEW n \in Nat, DOMAIN s = 1..n,
         \A j \in 1..n : s[j] \in Msgs,
         NEW i \in 1..n, \A j \in 1..n : s[j] = m <=> j = i
  PROVE  FirstSame(s, m) = i
<1>1. \A j \in 1..n : IsSame(s[j], m) <=> j = i
  BY SameIsEqual
<1>2. \A j \in 1..(i - 1) : j \in 1..n /\ j # i
  OBVIOUS
<1>3. i \in DOMAIN s /\ IsSame(s[i], m) /\ \A j \in 1..(i - 1) : ~IsSame(s[j], m)
  BY <1>1, <1>2
<1>4. \A h \in DOMAIN s : IsSame(s[h], m) => h = i
  BY <1>1
<1> QED BY <1>3, <1>4 DEF FirstSame

(* The blockers are behind what has left blockedMessages, the first one    *)
(* right behind it.                                                        *)
LEMMA BlockersAhead ==
  ASSUME IInv, NEW j \in 1..Len(blockers)
  PROVE  /\ Gone \in Nat /\ Gone + Len(blockedMessages) = sent
         /\ blockers[1] = Gone + 1
         /\ blockers[j] \in Nat /\ blockers[j] >= Gone + 1
         /\ blockers[j] = Gone + 1 <=> j = 1
<1>1. /\ sent \in Nat /\ Len(blockedMessages) \in Nat
      /\ Len(received) \in Nat /\ Len(mq) \in Nat /\ Len(queue) \in Nat
      /\ Len(blockers) \in Nat
  BY QueueAssumption DEF IInv, TypeOK
<1>2. Gone \in Nat /\ Gone + Len(blockedMessages) = sent
  <2>1. Gone = Len(received) + Len(mq) + Len(queue)
    BY DEF IInv, OutInOrder
  <2>2. Gone = sent - Len(blockedMessages)
    BY DEF Gone
  <2> QED BY <1>1, <2>1, <2>2
<1>3. 1 \in 1..Len(blockers) /\ blockers # <<>>
  <2>1. Len(blockers) # 0
    BY <1>1
  <2> QED BY <1>1, <2>1, EmptySeq
<1>4. blockers[1] = Gone + 1
  BY <1>3 DEF IInv, FrontIsBlocker
<1>5. blockers[j] \in Nat
  BY BlockerRange, BlockersNat
<1>6. j # 1 => Gone + 1 < blockers[j]
  <2>1. j # 1 => 1 < j
    BY <1>1
  <2> QED BY <1>3, <1>4, <2>1 DEF IInv, BlockersInOrder
<1> QED BY <1>2, <1>4, <1>5, <1>6

(* A blocker that was sent and whose object has not arrived is held.       *)
LEMMA BlockerHeld ==
  ASSUME IInv, NEW m \in Blockers, m <= sent, m \notin unblocked
  PROVE  /\ blocked /\ blockers # <<>> /\ blockedMessages # <<>>
         /\ Len(blockers) \in Nat /\ Len(blockers) >= 1 /\ Head(blockers) = blockers[1]
         /\ \E j \in 1..Len(blockers) : blockers[j] = m
         /\ m - Gone \in 1..Len(blockedMessages)
<1>1. IsBlocker(m)
  BY DEF IInv, BlockersInOrder
<1>2. PICK j \in 1..Len(blockers) : blockers[j] = m
  BY <1>1 DEF IsBlocker
<1>3. /\ blockers \in Seq(Blockers) /\ Len(blockers) \in Nat
      /\ blockedMessages \in Seq(InTransit) /\ Len(blockedMessages) \in Nat
      /\ sent \in Nat
  BY QueueAssumption DEF IInv, TypeOK
<1>4. Len(blockers) >= 1 /\ Len(blockers) # 0
  BY <1>2, <1>3
<1>5. blockers # <<>> /\ blocked
  BY <1>4, EmptySeq DEF IInv, FrontIsBlocker
<1>6. m - Gone \in 1..Len(blockedMessages)
  <2>1. /\ Gone \in Nat /\ Gone + Len(blockedMessages) = sent
        /\ m \in Nat /\ m >= Gone + 1
    BY <1>2, BlockersAhead
  <2> QED BY <1>3, <2>1
<1>7. Len(blockedMessages) # 0
  BY <1>3, <1>6
<1> QED BY <1>2, <1>3, <1>4, <1>5, <1>6, <1>7, EmptySeq

(* The messages held are those after Gone.                                 *)
LEMMA HeldIds ==
  ASSUME IInv, NEW i \in 1..Len(blockedMessages)
  PROVE  /\ Gone + i \in Msgs /\ blockedMessages[i].id = Gone + i
         /\ blockedMessages[i] = Message(Gone + i, ~IsBlocker(Gone + i))
<1>1. blockedMessages[i] = Message(Gone + i, ~IsBlocker(Gone + i))
  BY DEF IInv, HeldInOrder
<1>2. /\ sent \in Nat /\ sent <= NumMsgs /\ NumMsgs \in Nat
      /\ Len(blockedMessages) \in Nat
      /\ Len(received) \in Nat /\ Len(mq) \in Nat /\ Len(queue) \in Nat
  BY QueueAssumption DEF IInv, TypeOK
<1>3. Gone = Len(received) + Len(mq) + Len(queue) /\ Gone = sent - Len(blockedMessages)
  BY DEF IInv, OutInOrder, Gone
<1>4. Gone + i \in Msgs
  BY <1>2, <1>3 DEF Msgs
<1> QED BY <1>1, <1>4

(* What unblock of the first blocker sends is what is between it and the   *)
(* second one, all of what is held if there is no second one.              *)
LEMMA FlushedBetween ==
  ASSUME UuidsDiffer, IInv, blockers # <<>>, blockedMessages # <<>>,
         NEW k, k = Flushed(Tail(blockedMessages), Tail(blockers))
  PROVE  /\ k \in 0..(Len(blockedMessages) - 1)
         /\ \A i \in 1..k : ~IsBlocker(Gone + 1 + i)
         /\ Tail(blockers) # <<>> => blockers[2] = Gone + 1 + k + 1
<1> DEFINE L == Len(blockedMessages)
           rest == Tail(blockedMessages)
           more == Tail(blockers)
<1>1. /\ blockers \in Seq(Blockers) /\ Len(blockers) \in Nat
      /\ blockedMessages \in Seq(InTransit) /\ L \in Nat
  BY DEF IInv, TypeOK
<1>2. Len(blockers) >= 1 /\ L >= 1
  BY <1>1, EmptySeq
<1>3. /\ rest \in Seq(InTransit) /\ Len(rest) = L - 1
      /\ \A i \in 1..Len(rest) : rest[i] = blockedMessages[i + 1]
  BY <1>1, HeadTailProperties
<1>4. /\ more \in Seq(Blockers) /\ Len(more) = Len(blockers) - 1
      /\ \A i \in 1..Len(more) : more[i] = blockers[i + 1]
  BY <1>1, HeadTailProperties
<1> HIDE DEF rest, more
<1>5. Gone \in Nat /\ Gone + L = sent /\ blockers[1] = Gone + 1
  BY <1>1, <1>2, BlockersAhead
<1>6. \A i \in 1..(L - 1) : rest[i].id = Gone + 1 + i /\ Gone + 1 + i \in Msgs
  <2> TAKE i \in 1..(L - 1)
  <2>1. i + 1 \in 1..L /\ Gone + (i + 1) = Gone + 1 + i /\ i \in 1..Len(rest)
    BY <1>1, <1>3, <1>5
  <2>2. blockedMessages[i + 1].id = Gone + (i + 1) /\ Gone + (i + 1) \in Msgs
    BY <2>1, HeldIds
  <2> QED BY <1>3, <2>1, <2>2
<1>7. CASE more = <<>>
  <2>1. k = L - 1
    BY <1>3, <1>7 DEF Flushed, rest, more
  <2>2. Len(blockers) = 1
    <3>1. Len(more) = 0
      BY <1>7, EmptySeq
    <3>2. Len(more) = Len(blockers) - 1 /\ Len(blockers) \in Nat
      BY <1>1, <1>4
    <3> QED BY <3>1, <3>2
  <2>3. ASSUME NEW i \in 1..k PROVE ~IsBlocker(Gone + 1 + i)
    <3>1. \A j \in 1..Len(blockers) : blockers[j] = Gone + 1
      BY <1>5, <2>2
    <3>2. Gone + 1 + i # Gone + 1
      BY <1>1, <1>5, <2>1
    <3> QED BY <3>1, <3>2 DEF IsBlocker
  <2> QED BY <1>1, <1>2, <1>7, <2>1, <2>3 DEF more
<1>8. CASE more # <<>>
  <2> DEFINE n == blockers[2]
             f == n - Gone - 2
  <2>1. 1 \in 1..Len(more) /\ 2 \in 1..Len(blockers) /\ Head(more) = n
    <3>1. Len(more) \in Nat \ {0}
      BY <1>4, <1>8, EmptySeq
    <3>2. 1 \in 1..Len(more) /\ 2 \in 1..Len(blockers)
      BY <1>1, <1>4, <3>1
    <3> QED BY <1>4, <1>8, <3>2 DEF n
  <2> HIDE DEF n
  <2>2. /\ n \in Msgs /\ n \in Nat /\ n > Gone + 1 /\ n <= sent + 1
    <3>1. n \in Blockers /\ n <= sent + 1
      BY <2>1, BlockerRange DEF n
    <3>2. n >= Gone + 1 /\ n # Gone + 1
      BY <2>1, BlockersAhead DEF n
    <3>3. n \in Msgs /\ n \in Nat
      BY <3>1, BlockersNat
    <3> QED BY <1>5, <3>1, <3>2, <3>3
  <2>3. f \in 0..(L - 1) /\ Gone + 1 + f + 1 = n
    <3>1. /\ L \in Nat /\ Gone \in Nat /\ Gone + L = sent
          /\ n \in Nat /\ n > Gone + 1 /\ n <= sent + 1
      BY <1>1, <1>5, <2>2
    <3> QED BY <3>1
  <2> HIDE DEF f
  <2>4. \A i \in 1..(L - 1) : IsSame(rest[i].id, n) <=> i = f + 1
    <3> TAKE i \in 1..(L - 1)
    <3>1. IsSame(rest[i].id, n) <=> Gone + 1 + i = n
      BY <1>6, <2>2, SameIsEqual
    <3>2. Gone + 1 + i = n <=> i = f + 1
      BY <1>1, <1>5, <2>2, <2>3
    <3> QED BY <3>1, <3>2
  <2>5. /\ k = CHOOSE h \in 0..(L - 1) :
               /\ \A i \in 1..h : ~IsSame(rest[i].id, n)
               /\ h < L - 1 => IsSame(rest[h + 1].id, n)
    BY <1>3, <1>8, <2>1 DEF Flushed, Before, rest, more
  <2>6. /\ \A i \in 1..f : ~IsSame(rest[i].id, n)
        /\ f < L - 1 => IsSame(rest[f + 1].id, n)
    <3>1. \A i \in 1..f : i \in 1..(L - 1) /\ i # f + 1
      BY <1>1, <2>3
    <3>2. f < L - 1 => f + 1 \in 1..(L - 1)
      BY <1>1, <2>3
    <3> QED BY <2>4, <3>1, <3>2
  <2>7. ASSUME NEW h \in 0..(L - 1),
               \A i \in 1..h : ~IsSame(rest[i].id, n),
               h < L - 1 => IsSame(rest[h + 1].id, n)
        PROVE  h = f
    <3>1. CASE h < f
      <4>1. h + 1 \in 1..(L - 1) /\ h < L - 1 /\ h + 1 # f + 1
        BY <1>1, <2>3, <3>1
      <4> QED BY <2>4, <2>7, <4>1
    <3>2. CASE h > f
      <4>1. f + 1 \in 1..h /\ f + 1 \in 1..(L - 1)
        BY <1>1, <2>3, <3>2
      <4> QED BY <2>4, <2>7, <4>1
    <3> QED BY <1>1, <2>3, <3>1, <3>2
  <2>8. k = f
    BY <2>3, <2>5, <2>6, <2>7
  <2>9. ASSUME NEW i \in 1..k PROVE ~IsBlocker(Gone + 1 + i)
    <3>1. Gone + 1 + i > Gone + 1 /\ Gone + 1 + i < n
      BY <1>5, <2>2, <2>3, <2>8
    <3>2. ASSUME NEW j \in 1..Len(blockers) PROVE blockers[j] = Gone + 1 \/ blockers[j] >= n
      <4>1. j = 1 \/ j = 2 \/ 2 < j
        BY <1>1
      <4>2. 2 < j => blockers[2] < blockers[j]
        BY <2>1 DEF IInv, BlockersInOrder
      <4>3. blockers[j] \in Nat
        BY BlockersAhead
      <4> QED BY <1>5, <2>2, <4>1, <4>2, <4>3 DEF n
    <3>3. ASSUME NEW j \in 1..Len(blockers) PROVE blockers[j] # Gone + 1 + i
      <4>1. blockers[j] \in Nat
        BY BlockersAhead
      <4> QED BY <1>5, <2>2, <3>1, <3>2, <4>1
    <3> QED BY <3>3 DEF IsBlocker
  <2> QED BY <2>3, <2>8, <2>9 DEF n
<1> QED BY <1>7, <1>8

(* The blocker at place b leaves the others in order.                      *)
LEMMA BlockerRemoved ==
  ASSUME IInv, NEW b \in 1..Len(blockers),
         blockers' \in Seq(Blockers), Len(blockers') = Len(blockers) - 1,
         \A j \in 1..Len(blockers') :
           blockers'[j] = IF j < b THEN blockers[j] ELSE blockers[j + 1]
  PROVE  /\ \A i, j \in 1..Len(blockers') : i < j => blockers'[i] < blockers'[j]
         /\ \A n : IsBlocker(n)' <=> IsBlocker(n) /\ n # blockers[b]
<1> DEFINE N == Len(blockers)
           old(j) == IF j < b THEN j ELSE j + 1
<1>1. N \in Nat /\ Len(blockers') = N - 1
  BY DEF IInv, TypeOK
<1>2. \A i, j \in 1..N : i < j => blockers[i] < blockers[j]
  BY DEF IInv, BlockersInOrder
<1>3. \A i, j \in 1..N : i # j => blockers[i] # blockers[j]
  <2> SUFFICES ASSUME NEW i \in 1..N, NEW j \in 1..N, i # j
               PROVE  blockers[i] # blockers[j]
    OBVIOUS
  <2>1. blockers[i] \in Nat /\ blockers[j] \in Nat
    BY BlockersAhead
  <2> HIDE DEF N
  <2>2. i < j \/ j < i
    BY <1>1
  <2> QED BY <1>2, <2>1, <2>2
<1> HIDE DEF N
<1>4. \A j \in 1..(N - 1) : old(j) \in 1..N /\ old(j) # b /\ blockers'[j] = blockers[old(j)]
  BY <1>1 DEF N
<1>5. \A i, j \in 1..(N - 1) : i < j => old(i) < old(j)
  BY <1>1
<1>6. \A h \in 1..N : h # b => \E j \in 1..(N - 1) : old(j) = h
  <2> SUFFICES ASSUME NEW h \in 1..N, h # b
               PROVE  \E j \in 1..(N - 1) : old(j) = h
    OBVIOUS
  <2>0. b \in 1..N
    BY DEF N
  <2>1. CASE h < b
    <3>1. h \in 1..(N - 1) /\ old(h) = h
      BY <1>1, <2>0, <2>1
    <3> QED BY <3>1
  <2>2. CASE h > b
    <3>1. h - 1 \in 1..(N - 1) /\ old(h - 1) = h
      BY <1>1, <2>0, <2>2
    <3> QED BY <3>1
  <2> QED BY <1>1, <2>0, <2>1, <2>2
<1> HIDE DEF old
<1>7. \A i, j \in 1..Len(blockers') : i < j => blockers'[i] < blockers'[j]
  BY <1>1, <1>2, <1>4, <1>5
<1>8. ASSUME NEW n PROVE IsBlocker(n)' <=> IsBlocker(n) /\ n # blockers[b]
  <2>1. ASSUME NEW j \in 1..(N - 1), blockers'[j] = n
        PROVE  IsBlocker(n) /\ n # blockers[b]
    <3>1. old(j) \in 1..N /\ old(j) # b /\ blockers[old(j)] = n /\ b \in 1..N
      BY <1>4, <2>1 DEF N
    <3> QED BY <1>3, <3>1 DEF IsBlocker, N
  <2>2. ASSUME NEW h \in 1..N, blockers[h] = n, n # blockers[b]
        PROVE  \E j \in 1..(N - 1) : blockers'[j] = n
    <3>1. PICK j \in 1..(N - 1) : old(j) = h
      BY <1>6, <2>2
    <3> QED BY <1>4, <2>2, <3>1
  <2> QED BY <1>1, <2>1, <2>2 DEF IsBlocker, N
<1> QED BY <1>7, <1>8

(* With its object, a message is no longer one of the blockers.            *)
LEMMA UnblockedInOrder ==
  ASSUME IInv, NEW m \in Blockers, m <= sent, unblocked' = unblocked \cup {m},
         UNCHANGED <<sent, blocking>>,
         \A i, j \in 1..Len(blockers') : i < j => blockers'[i] < blockers'[j],
         \A n : IsBlocker(n)' <=> IsBlocker(n) /\ n # m
  PROVE  BlockersInOrder' /\ BlockingNext' /\ unblocked' \subseteq Blockers
<1>1. ASSUME NEW n \in Blockers
      PROVE  IsBlocker(n)' <=> n \notin unblocked' /\ (n <= sent \/ (blocking /\ n = sent + 1))
  BY DEF IInv, BlockersInOrder
<1>2. BlockersInOrder'
  BY <1>1 DEF BlockersInOrder
<1>3. BlockingNext'
  BY DEF IInv, BlockingNext
<1>4. unblocked' \subseteq Blockers
  BY DEF IInv, TypeOK
<1> QED BY <1>2, <1>3, <1>4

(* unblock of a later blocker: its message gets its object in its place.   *)
LEMMA UnblockLaterIInv ==
  ASSUME UuidsDiffer, IInv, NEW m \in Blockers, m <= sent, m \notin unblocked,
         ~IsSame(Head(blockers), m), UnblockLater(m),
         unblocked' = unblocked \cup {m}, UNCHANGED <<sent, blocking, received>>
  PROVE  IInv'
<1> DEFINE N == Len(blockers)
           L == Len(blockedMessages)
           b == FirstSame(blockers, m)
           i == FirstSame(Ids(blockedMessages), m)
<1>1. /\ blockers \in Seq(Blockers) /\ N \in Nat
      /\ blockedMessages \in Seq(InTransit) /\ L \in Nat
      /\ m \in Msgs /\ m \in Nat
  BY BlockersNat DEF IInv, TypeOK
<1>2. /\ blocked /\ blockers # <<>> /\ N >= 1 /\ Head(blockers) = blockers[1]
      /\ m - Gone \in 1..L
  BY BlockerHeld
<1>3. PICK j \in 1..N : blockers[j] = m
  BY BlockerHeld
<1>4. Gone \in Nat
  BY <1>3, BlockersAhead
<1>5. \A h \in 1..N : blockers[h] \in Msgs /\ (blockers[h] = m <=> h = j)
  <2> TAKE h \in 1..N
  <2>1. blockers[h] \in Msgs /\ blockers[h] \in Nat
    BY BlockerRange, BlockersNat
  <2> HIDE DEF N
  <2>2. h < j \/ j < h \/ h = j
    BY <1>1
  <2>3. h < j => blockers[h] < blockers[j]
    BY DEF IInv, BlockersInOrder, N
  <2>4. j < h => blockers[j] < blockers[h]
    BY DEF IInv, BlockersInOrder, N
  <2> QED BY <1>1, <1>3, <2>1, <2>2, <2>3, <2>4
<1>6. b = j
  <2>1. DOMAIN blockers = 1..N
    BY <1>1, LenProperties
  <2> QED BY <1>1, <1>5, <2>1, FirstSameFinds
<1>7. j # 1
  <2>1. IsSame(m, m)
    BY DEF IsSame
  <2> QED BY <1>2, <1>3, <2>1
<1>8. i = m - Gone
  <2> DEFINE ids == Ids(blockedMessages)
  <2>1. DOMAIN blockedMessages = 1..L
    BY <1>1, LenProperties
  <2>2. DOMAIN ids = 1..L /\ \A h \in 1..L : ids[h] = blockedMessages[h].id
    BY <2>1 DEF Ids
  <2>3. \A h \in 1..L : ids[h] = Gone + h /\ ids[h] \in Msgs
    BY <2>2, HeldIds
  <2> HIDE DEF ids, L
  <2>4. ASSUME NEW h \in 1..L PROVE ids[h] = m <=> h = m - Gone
    <3>1. ids[h] = Gone + h /\ h \in Nat
      BY <1>1, <2>3
    <3>2. Gone \in Nat /\ m \in Nat
      BY <1>1, <1>4
    <3> QED BY <3>1, <3>2
  <2>5. FirstSame(ids, m) = m - Gone
    <3>1. L \in Nat /\ m \in Msgs /\ m - Gone \in 1..L
      BY <1>1, <1>2
    <3>2. \A h \in 1..L : ids[h] \in Msgs
      BY <2>3
    <3> DEFINE p == m - Gone
    <3> HIDE DEF p
    <3>3. p \in 1..L /\ \A h \in 1..L : ids[h] = m <=> h = p
      BY <2>4, <3>1 DEF p
    <3>4. FirstSame(ids, m) = p
      BY <2>2, <3>1, <3>2, <3>3, FirstSameFinds
    <3> QED BY <3>4 DEF p
  <2> QED BY <2>5 DEF ids
<1>9. /\ blockers' = SubSeq(blockers, 1, b - 1) \o SubSeq(blockers, b + 1, N)
      /\ blockedMessages' = [blockedMessages EXCEPT ![i] = Message(m, TRUE)]
      /\ UNCHANGED <<blocked, queue, mq>>
  BY DEF UnblockLater
<1> HIDE DEF b, i
<1>10. \A h \in 1..N : blockers[h] \in Blockers
  BY <1>1, ElementOfSeq
<1> DEFINE front == SubSeq(blockers, 1, j - 1)
           back  == SubSeq(blockers, j + 1, N)
<1> HIDE DEF N
<1>11. /\ front \in Seq(Blockers) /\ Len(front) = j - 1
       /\ \A h \in 1..(j - 1) : front[h] = blockers[h]
  <2>1. \A h \in 1..(j - 1) : blockers[h] \in Blockers
    BY <1>1, <1>10
  <2> QED BY <1>1, <2>1, SubSeqProperties
<1>12. /\ back \in Seq(Blockers) /\ Len(back) = N - j
       /\ \A h \in 1..(N - j) : back[h] = blockers[j + h]
  <2>1. \A h \in (j + 1)..N : blockers[h] \in Blockers
    BY <1>1, <1>10
  <2> QED BY <1>1, <2>1, SubSeqProperties
<1> HIDE DEF front, back
<1>13. /\ blockers' \in Seq(Blockers) /\ Len(blockers') = N - 1
       /\ \A h \in 1..(N - 1) :
            blockers'[h] = IF h <= j - 1 THEN front[h] ELSE back[h - (j - 1)]
  <2>1. blockers' = front \o back
    BY <1>6, <1>9 DEF front, back
  <2>2. Len(front) + Len(back) = N - 1
    BY <1>1, <1>11, <1>12
  <2> QED BY <1>11, <1>12, <2>1, <2>2, ConcatProperties
<1>14. \A h \in 1..Len(blockers') :
         blockers'[h] = IF h < j THEN blockers[h] ELSE blockers[h + 1]
  <2> SUFFICES ASSUME NEW h \in 1..(N - 1)
               PROVE  blockers'[h] = IF h < j THEN blockers[h] ELSE blockers[h + 1]
    BY <1>13
  <2>1. CASE h < j
    <3>1. h <= j - 1 /\ h \in 1..(j - 1)
      BY <1>1, <2>1
    <3> QED BY <1>11, <1>13, <2>1, <3>1
  <2>2. CASE ~(h < j)
    <3>1. ~(h <= j - 1) /\ h - (j - 1) \in 1..(N - j) /\ j + (h - (j - 1)) = h + 1
      BY <1>1, <2>2
    <3> QED BY <1>12, <1>13, <2>2, <3>1
  <2> QED BY <2>1, <2>2
<1>15. /\ \A g, h \in 1..Len(blockers') : g < h => blockers'[g] < blockers'[h]
       /\ \A n : IsBlocker(n)' <=> IsBlocker(n) /\ n # m
  BY <1>3, <1>13, <1>14, BlockerRemoved DEF N
<1>16. BlockersInOrder' /\ BlockingNext' /\ unblocked' \subseteq Blockers
  BY <1>15, UnblockedInOrder
<1>17. Message(m, TRUE) \in InTransit /\ i \in 1..L
  BY <1>1, <1>2, <1>8 DEF InTransit
<1>18. /\ blockedMessages' \in Seq(InTransit) /\ Len(blockedMessages') = L
       /\ \A h \in 1..L : blockedMessages'[h] = IF h = i THEN Message(m, TRUE) ELSE blockedMessages[h]
  BY <1>1, <1>9, <1>17, ExceptSeq
<1>19. Gone' = Gone
  BY <1>18 DEF Gone
<1>20. TypeOK'
  BY <1>9, <1>13, <1>16, <1>18 DEF IInv, TypeOK
<1>21. OutInOrder'
  BY <1>9, <1>19 DEF IInv, OutInOrder, Stream
<1>22. HeldInOrder'
  <2>1. ASSUME NEW h \in 1..L
        PROVE  blockedMessages'[h] = Message(Gone + h, ~IsBlocker(Gone + h)')
    <3>1. Gone + h = m <=> h = i
      BY <1>1, <1>4, <1>8
    <3>2. IsBlocker(Gone + h)' <=> IsBlocker(Gone + h) /\ h # i
      BY <1>15, <1>19, <3>1
    <3>3. CASE h = i
      BY <1>18, <3>1, <3>2, <3>3
    <3>4. CASE h # i
      BY <1>18, <3>2, <3>4, HeldIds
    <3> QED BY <3>3, <3>4
  <2> QED BY <1>18, <1>19, <2>1 DEF HeldInOrder
<1>23. FrontIsBlocker'
  <2>1. 1 \in 1..Len(blockers') /\ 1 < j
    BY <1>1, <1>7, <1>13
  <2>2. blockers' # <<>>
    BY <2>1, EmptySeq
  <2>3. blockers'[1] = Gone + 1
    BY <1>2, <1>14, <2>1 DEF IInv, FrontIsBlocker
  <2> QED BY <1>2, <1>9, <1>19, <2>2, <2>3 DEF FrontIsBlocker
<1> QED BY <1>16, <1>20, <1>21, <1>22, <1>23 DEF IInv

(* unblock of the first blocker: it goes out with its object, followed by  *)
(* the messages up to the next blocker.                                    *)
LEMMA UnblockFrontIInv ==
  ASSUME UuidsDiffer, IInv, NEW m \in Blockers, m <= sent, m \notin unblocked,
         IsSame(Head(blockers), m), UnblockFront(m),
         unblocked' = unblocked \cup {m}, UNCHANGED <<sent, blocking, received>>
  PROVE  IInv'
<1> DEFINE N == Len(blockers)
           L == Len(blockedMessages)
           rest == Tail(blockedMessages)
           more == Tail(blockers)
           k == Flushed(rest, more)
           flushed == SubSeq(rest, 1, k)
           msgs == <<Message(m, TRUE)>> \o flushed
<1>1. /\ blockers \in Seq(Blockers) /\ N \in Nat
      /\ blockedMessages \in Seq(InTransit) /\ L \in Nat
      /\ m \in Msgs /\ m \in Nat
  BY BlockersNat DEF IInv, TypeOK
<1>2. /\ blockers # <<>> /\ N >= 1 /\ Head(blockers) = blockers[1]
      /\ blockedMessages # <<>> /\ m - Gone \in 1..L
  BY BlockerHeld
<1>3. 1 \in 1..N
  BY <1>1, <1>2
<1>4. Gone \in Nat /\ Gone + L = sent /\ blockers[1] = Gone + 1
  BY <1>3, BlockersAhead
<1>5. m = Gone + 1
  <2>1. blockers[1] \in Msgs
    BY <1>3, BlockerRange, BlockersNat
  <2> QED BY <1>1, <1>2, <1>4, <2>1, SameIsEqual
<1>6. /\ more \in Seq(Blockers) /\ Len(more) = N - 1
      /\ \A j \in 1..Len(more) : more[j] = blockers[j + 1]
  BY <1>1, <1>2, HeadTailProperties
<1>7. /\ rest \in Seq(InTransit) /\ Len(rest) = L - 1
      /\ \A j \in 1..Len(rest) : rest[j] = blockedMessages[j + 1]
  BY <1>1, <1>2, HeadTailProperties
<1>8. /\ k \in 0..(L - 1) /\ \A j \in 1..k : ~IsBlocker(Gone + 1 + j)
      /\ more # <<>> => blockers[2] = Gone + 1 + k + 1
  BY <1>2, FlushedBetween
<1>9. /\ blockers' = more /\ blocked' = (more # <<>>)
      /\ SendToQueue(msgs) /\ blockedMessages' = SubSeq(rest, k + 1, Len(rest))
  BY DEF UnblockFront
<1>10. more = <<>> => k = L - 1
  BY <1>7 DEF Flushed
<1> HIDE DEF N, L, rest, more, k
<1>11. \A j \in 1..(L - 1) : rest[j] = Message(Gone + 1 + j, ~IsBlocker(Gone + 1 + j))
  <2> TAKE j \in 1..(L - 1)
  <2>1. j + 1 \in 1..L /\ Gone + (j + 1) = Gone + 1 + j /\ j \in 1..Len(rest)
    BY <1>1, <1>4, <1>7
  <2>2. blockedMessages[j + 1] = Message(Gone + (j + 1), ~IsBlocker(Gone + (j + 1)))
    BY <2>1, HeldIds DEF L
  <2> QED BY <1>7, <2>1, <2>2
<1>12. \A j \in 1..(L - 1) : rest[j] \in InTransit
  BY <1>7, ElementOfSeq
<1>13. /\ flushed \in Seq(InTransit) /\ Len(flushed) = k
       /\ \A j \in 1..k : flushed[j] = rest[j]
  <2>1. \A j \in 1..k : rest[j] \in InTransit
    BY <1>1, <1>8, <1>12
  <2> QED BY <1>1, <1>8, <2>1, SubSeqProperties
<1>14. /\ blockedMessages' \in Seq(InTransit) /\ Len(blockedMessages') = L - 1 - k
       /\ \A j \in 1..(L - 1 - k) : blockedMessages'[j] = rest[k + j]
  <2> DEFINE R == Len(rest)
  <2>1. R = L - 1 /\ k + 1 \in Int /\ R \in Int /\ \A j \in (k + 1)..R : rest[j] \in InTransit
    BY <1>1, <1>7, <1>8, <1>12
  <2>2. blockedMessages' = SubSeq(rest, k + 1, R)
    BY <1>9
  <2> HIDE DEF R
  <2>3. /\ SubSeq(rest, k + 1, R) \in Seq(InTransit)
        /\ Len(SubSeq(rest, k + 1, R)) = IF k + 1 <= R THEN R - (k + 1) + 1 ELSE 0
        /\ \A j \in 1..(R - (k + 1) + 1) : SubSeq(rest, k + 1, R)[j] = rest[(k + 1) + j - 1]
    BY <2>1, SubSeqProperties
  <2>4. /\ (IF k + 1 <= R THEN R - (k + 1) + 1 ELSE 0) = L - 1 - k
        /\ R - (k + 1) + 1 = L - 1 - k
        /\ \A j \in 1..(L - 1 - k) : (k + 1) + j - 1 = k + j
    BY <1>1, <1>8, <2>1
  <2> QED BY <2>2, <2>3, <2>4
<1>15. Gone' = Gone + 1 + k
  BY <1>1, <1>4, <1>8, <1>14 DEF Gone
<1> DEFINE first == <<Message(m, TRUE)>>
<1>16. first \in Seq(InTransit) /\ Len(first) = 1 /\ first[1] = Message(m, TRUE)
  BY <1>1 DEF InTransit
<1> HIDE DEF flushed
<1>17. /\ msgs \in Seq(InTransit) /\ Len(msgs) = 1 + k /\ Stream(msgs, Gone)
  <2>1. Stream(first, Gone)
    <3>1. \A j \in 1..Len(first) : j = 1
      BY <1>16
    <3> QED BY <1>5, <1>16, <3>1 DEF Stream
  <2> HIDE DEF first
  <2>2. Stream(flushed, Gone + Len(first))
    <3>1. ASSUME NEW j \in 1..Len(flushed) PROVE flushed[j] = Message(Gone + 1 + j, TRUE)
      <4>1. j \in 1..k /\ j \in 1..(L - 1)
        BY <1>1, <1>8, <1>13
      <4> QED BY <1>8, <1>11, <1>13, <4>1
    <3> QED BY <1>16, <3>1 DEF Stream
  <2>3. msgs = first \o flushed
    BY DEF first
  <2>4. Len(first \o flushed) = 1 + k /\ first \o flushed \in Seq(InTransit)
    <3>1. Len(first) + Len(flushed) = 1 + k
      BY <1>13, <1>16
    <3> QED BY <1>13, <1>16, <3>1, ConcatProperties
  <2>5. Stream(first \o flushed, Gone)
    BY <1>4, <1>13, <1>16, <2>1, <2>2, StreamConcat
  <2> QED BY <2>3, <2>4, <2>5
<1> HIDE DEF msgs
<1>18. /\ Gone = Len(received) + Len(mq) + Len(queue)
       /\ Stream(received, 0) /\ Stream(mq, Len(received))
       /\ Stream(queue, Len(received) + Len(mq))
  BY DEF IInv, OutInOrder
<1>19. /\ mq' \in Seq(InTransit) /\ queue' \in Seq(InTransit) /\ Len(mq') <= Capacity
       /\ Len(received') + Len(mq') + Len(queue') = Gone + Len(msgs)
       /\ Stream(mq', Len(received'))
       /\ Stream(queue', Len(received') + Len(mq'))
  BY <1>4, <1>9, <1>17, <1>18, SendToQueueInOrder DEF IInv
<1>20. OutInOrder'
  <2>1. Gone + Len(msgs) = Gone'
    BY <1>1, <1>4, <1>8, <1>15, <1>17
  <2> QED BY <1>18, <1>19, <2>1 DEF OutInOrder
<1>21. /\ \A g, h \in 1..Len(blockers') : g < h => blockers'[g] < blockers'[h]
       /\ \A n : IsBlocker(n)' <=> IsBlocker(n) /\ n # m
  <2>1. \A j \in 1..Len(blockers') :
          blockers'[j] = IF j < 1 THEN blockers[j] ELSE blockers[j + 1]
    BY <1>6, <1>9
  <2> QED BY <1>3, <1>4, <1>5, <1>6, <1>9, <2>1, BlockerRemoved DEF N
<1>22. BlockersInOrder' /\ BlockingNext' /\ unblocked' \subseteq Blockers
  BY <1>21, UnblockedInOrder
<1>23. TypeOK'
  <2>1. blocked' \in BOOLEAN
    BY <1>9
  <2> QED BY <1>6, <1>9, <1>14, <1>19, <1>22, <2>1 DEF IInv, TypeOK
<1>24. HeldInOrder'
  <2>1. ASSUME NEW j \in 1..(L - 1 - k), NEW n, n = Gone + 1 + k + j
        PROVE  blockedMessages'[j] = Message(n, ~IsBlocker(n)')
    <3>1. k + j \in 1..(L - 1) /\ Gone + 1 + (k + j) = n /\ n # m
      BY <1>1, <1>4, <1>5, <1>8, <2>1
    <3>2. IsBlocker(n)' <=> IsBlocker(n)
      BY <1>21, <3>1
    <3>3. rest[k + j] = Message(n, ~IsBlocker(n))
      BY <1>11, <3>1
    <3>4. blockedMessages'[j] = rest[k + j]
      BY <1>14
    <3> QED BY <3>2, <3>3, <3>4
  <2>2. ASSUME NEW j \in 1..Len(blockedMessages')
        PROVE  blockedMessages'[j] = Message(Gone' + j, ~IsBlocker(Gone + j)')
    <3>1. j \in 1..(L - 1 - k) /\ Gone' + j = Gone + 1 + k + j
      BY <1>14, <1>15
    <3> QED BY <2>1, <3>1
  <2> QED BY <2>2 DEF HeldInOrder
<1>25. FrontIsBlocker'
  <2>1. blockers' # <<>> => blockers'[1] = Gone' + 1
    <3> SUFFICES ASSUME more # <<>> PROVE more[1] = Gone' + 1
      BY <1>9
    <3>1. 1 \in 1..Len(more)
      BY <1>1, <1>6, EmptySeq
    <3> QED BY <1>6, <1>8, <1>15, <3>1
  <2>2. blockers' = <<>> => blockedMessages' = <<>>
    <3> SUFFICES ASSUME more = <<>> PROVE blockedMessages' = <<>>
      BY <1>9
    <3>1. Len(blockedMessages') = 0
      BY <1>1, <1>10, <1>14
    <3> QED BY <1>14, <3>1, EmptySeq
  <2> QED BY <1>9, <2>1, <2>2 DEF FrontIsBlocker
<1> QED BY <1>20, <1>22, <1>23, <1>24, <1>25 DEF IInv
-----------------------------------------------------------------------------
(* IInv is an invariant.                                                   *)
LEMMA Invariance == UuidsDiffer => (Spec => []IInv)
<1> SUFFICES ASSUME UuidsDiffer PROVE Spec => []IInv
  OBVIOUS
<1>1. Init => IInv
  BY InitIInv
<1>2. IInv /\ [Next]_vars => IInv'
  <2> SUFFICES ASSUME IInv, [Next]_vars PROVE IInv'
    OBVIOUS
  <2>1. CASE Block
    BY <2>1, BlockIInv
  <2>2. CASE Send
    BY <2>2, SendIInv
  <2>3. ASSUME NEW m \in Blockers, Unblock(m) PROVE IInv'
    <3>1. /\ m <= sent /\ m \notin unblocked /\ unblocked' = unblocked \cup {m}
          /\ UNCHANGED <<sent, blocking, received>>
      BY <2>3 DEF Unblock
    <3>2. CASE IsSame(Head(blockers), m)
      <4>1. UnblockFront(m)
        BY <2>3, <3>2 DEF Unblock
      <4> QED BY <3>1, <3>2, <4>1, UnblockFrontIInv
    <3>3. CASE ~IsSame(Head(blockers), m)
      <4>1. UnblockLater(m)
        BY <2>3, <3>3 DEF Unblock
      <4> QED BY <3>1, <3>3, <4>1, UnblockLaterIInv
    <3> QED BY <3>2, <3>3
  <2>4. CASE Update
    BY <2>4, UpdateIInv
  <2>5. CASE Receive
    BY <2>5, ReceiveIInv
  <2>6. CASE UNCHANGED vars
    <3> USE <2>6 DEF vars, Gone
    <3>1. TypeOK'
      BY DEF IInv, TypeOK
    <3>2. OutInOrder'
      BY DEF IInv, OutInOrder, Stream
    <3>3. HeldInOrder' /\ BlockersInOrder'
      BY DEF IInv, HeldInOrder, BlockersInOrder, IsBlocker
    <3>4. FrontIsBlocker' /\ BlockingNext'
      BY DEF IInv, FrontIsBlocker, BlockingNext
    <3> QED BY <3>1, <3>2, <3>3, <3>4 DEF IInv
  <2> QED BY <2>1, <2>2, <2>3, <2>4, <2>5, <2>6 DEF Next
<1> QED BY <1>1, <1>2, PTL DEF Spec

(* The variables have their types; mq never holds more than Capacity       *)
(* messages (MessageQueue::send).                                          *)
THEOREM TypeCorrect == UuidsDiffer => (Spec => []TypeOK)
<1>1. IInv => TypeOK
  BY DEF IInv
<1> QED BY <1>1, Invariance, PTL

(* The module receives its messages in the order they were sent, each with *)
(* its object, in whatever order the objects arrive (Module::unblock).     *)
THEOREM DeliveredInOrder == UuidsDiffer => (Spec => []InOrder)
<1>1. IInv => InOrder
  <2> SUFFICES ASSUME IInv, NEW i \in 1..Len(received)
               PROVE  received[i] = Message(i, TRUE)
    BY DEF InOrder
  <2>1. 0 + i = i
    OBVIOUS
  <2> QED BY <2>1 DEF IInv, OutInOrder, Stream
<1> QED BY <1>1, Invariance, PTL

(* The assertions of Module::unblock hold.                                 *)
THEOREM UnblockAssertions == UuidsDiffer => (Spec => []UnblockFindsMessage)
<1>1. IInv => UnblockFindsMessage
  <2> SUFFICES ASSUME IInv, NEW m \in Blockers \ unblocked, m <= sent
               PROVE  /\ blocked /\ blockers # <<>> /\ blockedMessages # <<>>
                      /\ \E b \in DOMAIN blockers : IsSame(blockers[b], m)
                      /\ \E i \in DOMAIN blockedMessages : IsSame(blockedMessages[i].id, m)
                      /\ IsSame(Head(blockers), m) => IsSame(Head(blockedMessages).id, m)
    BY DEF UnblockFindsMessage
  <2>1. /\ blocked /\ blockers # <<>> /\ blockedMessages # <<>>
        /\ Len(blockers) \in Nat /\ Len(blockers) >= 1 /\ Head(blockers) = blockers[1]
        /\ m - Gone \in 1..Len(blockedMessages)
    BY BlockerHeld
  <2>2. PICK b \in 1..Len(blockers) : blockers[b] = m
    BY BlockerHeld
  <2>3. /\ DOMAIN blockers = 1..Len(blockers)
        /\ DOMAIN blockedMessages = 1..Len(blockedMessages)
        /\ Head(blockedMessages) = blockedMessages[1]
        /\ Len(blockedMessages) \in Nat
    BY LenProperties DEF IInv, TypeOK
  <2>4. Gone \in Nat /\ m \in Nat /\ blockers[1] = Gone + 1
    BY <2>2, BlockersAhead, BlockersNat
  <2>5. blockedMessages[m - Gone].id = m
    <3>1. Gone + (m - Gone) = m
      BY <2>4
    <3> QED BY <2>1, <3>1, HeldIds
  <2>6. Head(blockedMessages).id = Head(blockers)
    <3>1. 1 \in 1..Len(blockedMessages)
      BY <2>1, <2>3, <2>4
    <3> QED BY <2>1, <2>3, <2>4, <3>1, HeldIds
  <2>7. IsSame(m, m)
    BY DEF IsSame
  <2> QED BY <2>1, <2>2, <2>3, <2>5, <2>6, <2>7
<1> QED BY <1>1, Invariance, PTL
=============================================================================
